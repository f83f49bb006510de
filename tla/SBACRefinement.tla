--------------------------- MODULE SBACRefinement ---------------------------
(***************************************************************************)
(* SBAC implements AtomicCommit.  A shard has prepared a transaction when  *)
(* a majority of its replicas has; votes, decisions and outcomes lose      *)
(* their reasons.                                                          *)
(***************************************************************************)
EXTENDS SBAC

Ballot(a) ==
  CASE a = "none" -> "none"
    [] a = "PREPARED_T_COMMIT" -> "yes"
    [] OTHER -> "no"

Verdict(a) ==
  CASE a = "none" -> "none"
    [] a = "ACCEPTED_T_COMMIT" -> "commit"
    [] OTHER -> "abort"

Told(a) ==
  CASE a \in {"none", "waiting"} -> a
    [] a = "ACCEPTED_T_COMMIT" -> "committed"
    [] a = "SUBMIT_T_SYSTEM_ERROR" -> "unknown"
    [] OTHER -> "aborted"

PreparedTxs == [s \in Shards |-> {t \in Txs : PreparedByMajority(s, t)}]
Ballots     == [s \in Shards |-> [c \in Calls |-> Ballot(vote[s][c])]]
Verdicts    == [s \in Shards |-> [c \in Calls |-> Verdict(decision[s][c])]]
Announced   == [c \in Calls |-> Told(outcome[c])]

Commit == INSTANCE AtomicCommit WITH
  Participants <- [t \in Txs |-> InputShards(t)],
  Targets      <- [t \in Txs |-> TargetShards(t)],
  prepared     <- PreparedTxs,
  vote         <- Ballots,
  decision     <- Verdicts,
  outcome      <- Announced

\* The protocol (TreeMapServer.appExecuteUnordered, MapClient.submitTransaction) is an
\* atomic commitment: whatever is late, lost in a time-out or repeated, each of its steps
\* is a step of AtomicCommit or changes nothing that AtomicCommit speaks of.
ImplementsAtomicCommit == Commit!Spec
=============================================================================
