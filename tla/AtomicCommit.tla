---------------------------- MODULE AtomicCommit ----------------------------
(***************************************************************************)
(* What the commit protocol promises, without replicas, messages, orders   *)
(* and clocks.  A transaction may be submitted by several calls.  For each *)
(* call every target shard votes once and decides once; a call returns     *)
(* once.  A shard is free to refuse at any time; it is bound when it       *)
(* agrees, and so is what the caller is told.                              *)
(***************************************************************************)
CONSTANTS
  Shards, Txs, Calls, TxOf,
  Participants,   \* the shards that must have prepared a transaction
  Targets         \* the shards that vote on it

VARIABLES
  prepared,   \* the transactions a shard has found fit to commit
  vote,       \* of a shard on a call
  decision,   \* of a shard on a call
  outcome     \* what the caller has been told

vars == <<prepared, vote, decision, outcome>>

Init ==
  /\ prepared = [s \in Shards |-> {}]
  /\ vote = [s \in Shards |-> [c \in Calls |-> "none"]]
  /\ decision = [s \in Shards |-> [c \in Calls |-> "none"]]
  /\ outcome = [c \in Calls |-> "none"]

Submit(c) ==
  /\ outcome[c] = "none"
  /\ outcome' = [outcome EXCEPT ![c] = "waiting"]
  /\ UNCHANGED <<prepared, vote, decision>>

Prepare(s, t) ==
  /\ prepared' = [prepared EXCEPT ![s] = @ \cup {t}]
  /\ UNCHANGED <<vote, decision, outcome>>

\* At most one call of a transaction gets the yes of a shard.
MayAgree(s, c) ==
  /\ TxOf[c] \in prepared[s]
  /\ \A d \in Calls : TxOf[d] = TxOf[c] => vote[s][d] # "yes"

Vote(s, c) ==
  /\ outcome[c] # "none"
  /\ s \in Targets[TxOf[c]]
  /\ vote[s][c] = "none"
  /\ \E v \in {"yes", "no"} :
       /\ v = "yes" => MayAgree(s, c)
       /\ vote' = [vote EXCEPT ![s][c] = v]
  /\ UNCHANGED <<prepared, decision, outcome>>

MayCommit(s, c) ==
  /\ vote[s][c] = "yes"
  /\ \A z \in Participants[TxOf[c]] : TxOf[c] \in prepared[z]

Decide(s, c) ==
  /\ vote[s][c] # "none"
  /\ decision[s][c] = "none"
  /\ \E d \in {"commit", "abort"} :
       /\ d = "commit" => MayCommit(s, c)
       /\ decision' = [decision EXCEPT ![s][c] = d]
  /\ UNCHANGED <<prepared, vote, outcome>>

\* A caller that gives up learns nothing; otherwise it is told what is so.
Return(c) ==
  /\ outcome[c] = "waiting"
  /\ \E o \in {"committed", "aborted", "unknown"} :
       /\ o = "committed" => \A s \in Targets[TxOf[c]] : decision[s][c] = "commit"
       /\ o = "aborted" => \E s \in Targets[TxOf[c]] : decision[s][c] = "abort"
       /\ outcome' = [outcome EXCEPT ![c] = o]
  /\ UNCHANGED <<prepared, vote, decision>>

Next ==
  \/ \E c \in Calls : Submit(c) \/ Return(c)
  \/ \E s \in Shards, t \in Txs : Prepare(s, t)
  \/ \E s \in Shards, c \in Calls : Vote(s, c) \/ Decide(s, c)

Spec == Init /\ [][Next]_vars
=============================================================================
