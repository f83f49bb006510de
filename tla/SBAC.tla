-------------------------------- MODULE SBAC --------------------------------
(***************************************************************************)
(* The cross-shard commit protocol of the Chainspace core (S-BAC), as      *)
(* TreeMapServer and MapClient run it.  Every shard is a group of          *)
(* replicas of a BFT-ordered service.  A client call sends a transaction   *)
(* to all replicas of the shards that manage its inputs.  In each of these *)
(* shards the initiator replica runs a job of its own: an ordered          *)
(* PREPARE_T in its shard, an unordered broadcast of the outcome, an       *)
(* ordered ACCEPT_T in every input shard, and a second broadcast.          *)
(* Ordered requests run on the delivery thread of a replica; submissions,  *)
(* broadcasts and jobs run on other threads, concurrently with it.         *)
(***************************************************************************)
EXTENDS Naturals, Sequences, FiniteSets

CONSTANTS
  Shards, Replicas,   \* a replica identifier is local to its shard
  Initiator,          \* the replica with thisReplica = 0
  F,                  \* faults a shard is configured for, system.servers.f
  InitShard,          \* shard 0, the target of a transaction without inputs
  Objects, ShardOf,   \* object identifiers and mapObjectToShard
  Genesis,            \* objects created before the behaviour starts
  Txs, Inputs, Outputs,
  Calls, TxOf,        \* calls of submitTransaction and the transaction of each
  Expiring,           \* the waits whose time-out may elapse in this instance
  Failing             \* what else may fail: Core.processTransaction, a send

Waits == {"submit", "prepare_t", "broadcast", "accept_t", "checkAcceptT"}
Failures == {"declined", "halfway", "raised", "send"}

ASSUME ShardAssumption ==
  /\ Initiator \in Replicas
  /\ InitShard \in Shards
  /\ IsFiniteSet(Replicas)
  /\ F \in Nat

ASSUME TransactionAssumption ==
  /\ ShardOf \in [Objects -> Shards]
  /\ Genesis \subseteq Objects
  /\ Inputs \in [Txs -> SUBSET Objects]
  /\ Outputs \in [Txs -> SUBSET Objects]
  /\ TxOf \in [Calls -> Txs]

ASSUME EnvironmentAssumption ==
  /\ Expiring \subseteq Waits
  /\ Failing \subseteq Failures

VARIABLES
  table,      \* TreeMapServer.table of a replica: status of each object
  stored,     \* the transactions with a row in the replica's SQLite database
  known,      \* the keys of TreeMapServer.sequences
  flags,      \* the fields of the TransactionSequence of a transaction that are set
  requested,  \* ordered requests handed to the BFT service of a shard
  log,        \* ... in the order the service delivers them
  answers,    \* ... and what each replica returned for those it has executed
  inbox,      \* unordered requests under way to a replica
  pc,         \* where the initiator's handler of a call stands
  vote,       \* its strReplyPrepareT
  decision,   \* what it broadcast at the end, or why
  outcome     \* what submitTransaction returned

storeVars    == <<table, stored>>
sequenceVars == <<known, flags>>
orderVars    == <<requested, log, answers>>
jobVars      == <<pc, vote, decision>>
vars == <<storeVars, sequenceVars, orderVars, inbox, jobVars, outcome>>

-----------------------------------------------------------------------------
Statuses == {"NONE", "ACTIVE", "LOCKED", "INACTIVE"}   \* NONE: table.get is null

TransactionSequence ==
  {"PREPARE_T", "PREPARED_T_ABORT", "PREPARED_T_COMMIT", "ACCEPT_T_ABORT",
   "ACCEPT_T_COMMIT", "ACCEPTED_T_ABORT", "ACCEPTED_T_COMMIT"}

AcceptOps == {"ACCEPT_T_COMMIT", "ACCEPT_T_ABORT"}
Requests ==
  [op : {"PREPARE_T", "CREATE_OBJECT"} \cup AcceptOps, call : Calls, from : Shards]

PreparedTypes == {"PREPARED_T_COMMIT", "PREPARED_T_ABORT"}
AcceptedTypes == {"ACCEPTED_T_COMMIT", "ACCEPTED_T_ABORT"}
Messages ==
  [type : {"TRANSACTION_SUBMIT"} \cup PreparedTypes \cup AcceptedTypes,
   call : Calls, shard : Shards, replica : Replicas]

PrepareReplies == PreparedTypes \cup {"PREPARE_T_SYSTEM_ERROR"}
AcceptReplies  == AcceptedTypes \cup {"ACCEPT_T_SYSTEM_ERROR"}
Answers == PrepareReplies \cup AcceptedTypes \cup {"null"}
Stages == {"idle", "prepare", "prepared", "accept", "accepted", "done"}
Outcomes == PrepareReplies \cup AcceptReplies \cup {"SUBMIT_T_SYSTEM_ERROR"}

Request(op, c, s) == [op |-> op, call |-> c, from |-> s]
Message(type, c, s, r) == [type |-> type, call |-> c, shard |-> s, replica |-> r]

Managed(s, t)   == {o \in Inputs[t] : ShardOf[o] = s}
InputShards(t)  == {ShardOf[o] : o \in Inputs[t]}
OutputShards(t) == {ShardOf[o] : o \in Outputs[t]}
TargetShards(t) == IF Inputs[t] = {} THEN {InitShard} ELSE InputShards(t)

\* An invocation goes to every replica of the shard.
Broadcast(type, c, s) == {Message(type, c, s, r) : r \in Replicas}

\* Weakened: one reply less.
QuorumLessOne == (Cardinality(Replicas) + F) \div 2

\* getReplyQuorum: an integer division, so the ceiling is a floor.
Quorum == ((Cardinality(Replicas) + F) \div 2) + 1

\* ServiceProxy and ReplyListenerAsynchQuorum: Quorum replicas returned the same.
Answered(s, q, a) ==
  \E i \in DOMAIN log[s] :
    /\ log[s][i] = q
    /\ Quorum <= Cardinality({r \in Replicas :
                   i \in DOMAIN answers[s][r] /\ answers[s][r][i] = a})

\* broadcastBFTDecision returns: enough replicas have run the handler, or time is up.
Returned(type, c, s) ==
  \/ Quorum <= Cardinality({r \in Replicas : Message(type, c, s, r) \notin inbox})
  \/ "broadcast" \in Expiring

-----------------------------------------------------------------------------
Init ==
  /\ table = [s \in Shards |-> [r \in Replicas |-> [o \in Objects |->
                IF o \in Genesis /\ ShardOf[o] = s THEN "ACTIVE" ELSE "NONE"]]]
  /\ stored = [s \in Shards |-> [r \in Replicas |-> {}]]
  /\ known = [s \in Shards |-> [r \in Replicas |-> {}]]
  /\ flags = [s \in Shards |-> [r \in Replicas |-> [t \in Txs |-> {}]]]
  /\ requested = [s \in Shards |-> {}]
  /\ log = [s \in Shards |-> <<>>]
  /\ answers = [s \in Shards |-> [r \in Replicas |-> <<>>]]
  /\ inbox = {}
  /\ pc = [s \in Shards |-> [c \in Calls |-> "idle"]]
  /\ vote = [s \in Shards |-> [c \in Calls |-> "none"]]
  /\ decision = [s \in Shards |-> [c \in Calls |-> "none"]]
  /\ outcome = [c \in Calls |-> "none"]

-----------------------------------------------------------------------------
(* The client: submitTransaction *)

SubmitTransaction(c) ==
  /\ outcome[c] = "none"
  /\ outcome' = [outcome EXCEPT ![c] = "waiting"]
  /\ inbox' = inbox \cup UNION {Broadcast("TRANSACTION_SUBMIT", c, s) :
                                  s \in TargetShards(TxOf[c])}
  /\ UNCHANGED <<storeVars, sequenceVars, orderVars, jobVars>>

\* The first part of finalResponse that the initiator of s returns to the client.
FinalResponse(s, c) ==
  IF vote[s][c] = "PREPARED_T_COMMIT" THEN decision[s][c] ELSE vote[s][c]

\* Weakened: a shard that has not replied is taken to agree.
ProcessRepliesReceived(c, replied) ==
  LET refusals == {FinalResponse(s, c) : s \in replied} \ {"ACCEPTED_T_COMMIT"}
  IN IF refusals = {} THEN {"ACCEPTED_T_COMMIT"} ELSE refusals

\* processShardResponses, over the shards that have replied.
ProcessShardResponses(c, replied) ==
  LET targets == TargetShards(TxOf[c])
      refusals == {FinalResponse(s, c) : s \in replied} \ {"ACCEPTED_T_COMMIT"}
  IN refusals
     \cup (IF replied # targets THEN {"SUBMIT_T_SYSTEM_ERROR"} ELSE {})
     \cup (IF replied = targets /\ refusals = {} THEN {"ACCEPTED_T_COMMIT"} ELSE {})

\* waitForShardResponses ends when every target shard has replied or after its time-out.
ReturnToCaller(c) ==
  LET replied == {s \in TargetShards(TxOf[c]) : pc[s][c] = "done"}
  IN /\ outcome[c] = "waiting"
     /\ replied = TargetShards(TxOf[c]) \/ "submit" \in Expiring
     /\ \E a \in ProcessShardResponses(c, replied) :
          outcome' = [outcome EXCEPT ![c] = a]
     /\ UNCHANGED <<storeVars, sequenceVars, orderVars, inbox, jobVars>>

-----------------------------------------------------------------------------
(* The unordered handlers of a replica: appExecuteUnordered *)

Receive(m) == m \in inbox /\ inbox' = inbox \ {m}

\* TRANSACTION_SUBMIT puts a fresh sequence, whatever was known of the transaction;
\* the initiator goes on to send PREPARE_T, any other replica replies DUMMY.
HandleSubmit(m) ==
  LET s == m.shard  r == m.replica  c == m.call  t == TxOf[m.call]
  IN /\ m.type = "TRANSACTION_SUBMIT"
     /\ Receive(m)
     /\ known' = [known EXCEPT ![s][r] = @ \cup {t}]
     /\ flags' = [flags EXCEPT ![s][r][t] = IF r = Initiator THEN {"PREPARE_T"} ELSE {}]
     /\ IF r = Initiator
          THEN /\ pc' = [pc EXCEPT ![s][c] = "prepare"]
               /\ requested' = [requested EXCEPT ![s] = @ \cup {Request("PREPARE_T", c, s)}]
          ELSE UNCHANGED <<pc, requested>>
     /\ UNCHANGED <<storeVars, log, answers, vote, decision, outcome>>

\* sequences.get(t.id).field = true, a swallowed NullPointerException without the key.
SetFlag(s, r, t, field) ==
  flags' = [flags EXCEPT ![s][r][t] = IF t \in known[s][r] THEN @ \cup {field} ELSE @]

\* Weakened: without the test that the input is managed by this shard.
SetEveryInputStatus(s, r, t, from, to) ==
  table' = [table EXCEPT ![s][r] = [o \in Objects |->
              IF o \in Inputs[t] /\ @[o] \in from THEN to ELSE @[o]]]

\* Weakened: without the test of the previous status.
OverwriteInputStatus(s, r, t, from, to) ==
  table' = [table EXCEPT ![s][r] = [o \in Objects |->
              IF o \in Managed(s, t) THEN to ELSE @[o]]]

\* setTransactionInputStatus, with and without prevStatus.
SetInputStatus(s, r, t, from, to) ==
  table' = [table EXCEPT ![s][r] = [o \in Objects |->
              IF o \in Managed(s, t) /\ @[o] \in from THEN to ELSE @[o]]]

HandlePreparedTAbort(m) ==
  /\ m.type = "PREPARED_T_ABORT"
  /\ Receive(m)
  /\ SetFlag(m.shard, m.replica, TxOf[m.call], "PREPARED_T_ABORT")
  /\ UNCHANGED <<storeVars, known, orderVars, jobVars, outcome>>

HandlePreparedTCommit(m) ==
  /\ m.type = "PREPARED_T_COMMIT"
  /\ Receive(m)
  /\ SetInputStatus(m.shard, m.replica, TxOf[m.call], {"ACTIVE"}, "LOCKED")
  /\ SetFlag(m.shard, m.replica, TxOf[m.call], "PREPARED_T_COMMIT")
  /\ UNCHANGED <<stored, known, orderVars, jobVars, outcome>>

HandleAcceptedTAbort(m) ==
  /\ m.type = "ACCEPTED_T_ABORT"
  /\ Receive(m)
  /\ SetInputStatus(m.shard, m.replica, TxOf[m.call], {"LOCKED"}, "ACTIVE")
  /\ SetFlag(m.shard, m.replica, TxOf[m.call], "ACCEPTED_T_ABORT")
  /\ UNCHANGED <<stored, known, orderVars, jobVars, outcome>>

\* The initiator also asks every output shard to create the outputs it manages.
HandleAcceptedTCommit(m) ==
  LET s == m.shard  t == TxOf[m.call]
  IN /\ m.type = "ACCEPTED_T_COMMIT"
     /\ Receive(m)
     /\ SetInputStatus(s, m.replica, t, Statuses, "INACTIVE")
     /\ requested' = [z \in Shards |->
          IF m.replica = Initiator /\ z \in OutputShards(t)
            THEN requested[z] \cup {Request("CREATE_OBJECT", m.call, s)}
            ELSE requested[z]]
     /\ SetFlag(s, m.replica, t, "ACCEPTED_T_COMMIT")
     /\ UNCHANGED <<stored, known, log, answers, jobVars, outcome>>

-----------------------------------------------------------------------------
(* The ordered service: requests are delivered to every replica in one order *)

Ordered(s) == {log[s][i] : i \in DOMAIN log[s]}

Order(s, q) ==
  /\ q \in requested[s] \ Ordered(s)
  /\ log' = [log EXCEPT ![s] = Append(@, q)]
  /\ UNCHANGED <<storeVars, sequenceVars, requested, answers, inbox, jobVars, outcome>>

Pending(s, r) == Len(answers[s][r]) < Len(log[s])
NextRequest(s, r) == log[s][Len(answers[s][r]) + 1]
Answer(s, r, a) == answers' = [answers EXCEPT ![s][r] = Append(@, a)]

\* checkPrepareT up to the call of the core: every managed input is ACTIVE, and one
\* is managed here unless the transaction has no inputs.  Nothing is locked.
InputsActive(s, r, t) ==
  /\ \A o \in Managed(s, t) : table[s][r][o] = "ACTIVE"
  /\ Managed(s, t) # {} \/ Inputs[t] = {}

\* Weakened: tables without UNIQUE columns.
CoreResultsWithRepeats(already) == {<<"PREPARED_T_COMMIT", TRUE>>}

\* Core.processTransaction: what checkPrepareT returns and whether the database has
\* rows of the transaction afterwards.  UNIQUE columns refuse a second insertion.
CoreResults(already) ==
  IF already
    THEN {<<"PREPARED_T_ABORT", TRUE>>}
    ELSE {<<"PREPARED_T_COMMIT", TRUE>>}
         \cup {<<"PREPARED_T_ABORT", f = "halfway">> : f \in Failing \cap {"declined", "halfway"}}

ExecutePrepareT(s, r) ==
  LET t == TxOf[NextRequest(s, r).call]
  IN /\ Pending(s, r)
     /\ NextRequest(s, r).op = "PREPARE_T"
     /\ \/ /\ ~InputsActive(s, r, t)
           /\ Answer(s, r, "PREPARED_T_ABORT")
           /\ UNCHANGED stored
        \/ /\ InputsActive(s, r, t)
           /\ \E res \in CoreResults(t \in stored[s][r]) :
                /\ Answer(s, r, res[1])
                /\ stored' = [stored EXCEPT ![s][r] = IF res[2] THEN @ \cup {t} ELSE @]
        \/ /\ "raised" \in Failing
           /\ Answer(s, r, "PREPARE_T_SYSTEM_ERROR")
           /\ UNCHANGED stored
     /\ UNCHANGED <<table, sequenceVars, requested, log, inbox, jobVars, outcome>>

\* checkAcceptT holds the delivery thread until a PREPARED_T_* flag shows or 250 ms.
SequencedPrepare(s, r, t) ==
  t \in known[s][r] /\ flags[s][r][t] \cap PreparedTypes # {}

\* Weakened: without the bound on the wait.
AwaitSequencedPrepare(s, r, t) == SequencedPrepare(s, r, t)

AcceptWaitEnds(s, r, t) == SequencedPrepare(s, r, t) \/ "checkAcceptT" \in Expiring

\* Weakened: any outcome of PREPARE_T will do.
CheckAnyPrepare(s, r, t) ==
  IF SequencedPrepare(s, r, t) THEN "ACCEPTED_T_COMMIT" ELSE "ACCEPTED_T_ABORT"

CheckAcceptT(s, r, t) ==
  IF t \in known[s][r] /\ "PREPARED_T_COMMIT" \in flags[s][r][t]
    THEN "ACCEPTED_T_COMMIT" ELSE "ACCEPTED_T_ABORT"

ExecuteAcceptT(s, r) ==
  LET t == TxOf[NextRequest(s, r).call]
  IN /\ Pending(s, r)
     /\ NextRequest(s, r).op \in AcceptOps
     /\ AcceptWaitEnds(s, r, t)
     /\ Answer(s, r, CheckAcceptT(s, r, t))
     /\ UNCHANGED <<storeVars, sequenceVars, requested, log, inbox, jobVars, outcome>>

ExecuteCreateObject(s, r) ==
  LET t == TxOf[NextRequest(s, r).call]
  IN /\ Pending(s, r)
     /\ NextRequest(s, r).op = "CREATE_OBJECT"
     /\ table' = [table EXCEPT ![s][r] = [o \in Objects |->
                    IF o \in Outputs[t] /\ ShardOf[o] = s THEN "ACTIVE" ELSE @[o]]]
     /\ Answer(s, r, "null")
     /\ UNCHANGED <<stored, sequenceVars, requested, log, inbox, jobVars, outcome>>

-----------------------------------------------------------------------------
(* The job of the initiator for a call: TRANSACTION_SUBMIT after sequences.put *)

\* prepare_t returns a reply, or null when it fails or times out, read as an abort.
PrepareReturns(s, c) ==
  {a \in PrepareReplies : Answered(s, Request("PREPARE_T", c, s), a)}
  \cup (IF "prepare_t" \in Expiring THEN {"PREPARED_T_ABORT"} ELSE {})

PreparedType(a) ==
  IF a = "PREPARED_T_COMMIT" THEN "PREPARED_T_COMMIT" ELSE "PREPARED_T_ABORT"

BroadcastPrepared(s, c) ==
  /\ pc[s][c] = "prepare"
  /\ \E a \in PrepareReturns(s, c) :
       /\ vote' = [vote EXCEPT ![s][c] = a]
       /\ inbox' = inbox \cup Broadcast(PreparedType(a), c, s)
  /\ pc' = [pc EXCEPT ![s][c] = "prepared"]
  /\ UNCHANGED <<storeVars, sequenceVars, orderVars, decision, outcome>>

AcceptOp(s, c) ==
  IF vote[s][c] = "PREPARED_T_COMMIT" THEN "ACCEPT_T_COMMIT" ELSE "ACCEPT_T_ABORT"

SendAccept(s, c) ==
  LET t == TxOf[c]
  IN /\ pc[s][c] = "prepared"
     /\ Returned(PreparedType(vote[s][c]), c, s)
     /\ flags' = [flags EXCEPT ![s][Initiator][t] = @ \cup {AcceptOp(s, c)}]
     /\ requested' = [z \in Shards |->
          IF z \in InputShards(t)
            THEN requested[z] \cup {Request(AcceptOp(s, c), c, s)} ELSE requested[z]]
     /\ pc' = [pc EXCEPT ![s][c] = "accept"]
     /\ UNCHANGED <<storeVars, known, log, answers, inbox, vote, decision, outcome>>

AcceptReplied(z, s, c, a) == Answered(z, Request(AcceptOp(s, c), c, s), a)

\* Weakened: the first commit settles it.
FirstAcceptVerdict(s, c) ==
  {a \in AcceptedTypes : \E z \in InputShards(TxOf[c]) : AcceptReplied(z, s, c, a)}

\* accept_t, once every input shard has replied; at once if there is none.
AcceptVerdict(s, c) ==
  LET targets == InputShards(TxOf[c])
      commits == {z \in targets : AcceptReplied(z, s, c, "ACCEPTED_T_COMMIT")}
      aborts  == {z \in targets : AcceptReplied(z, s, c, "ACCEPTED_T_ABORT")}
  IN (IF commits = targets THEN {"ACCEPTED_T_COMMIT"} ELSE {})
     \cup (IF aborts # {} /\ commits \cup aborts = targets THEN {"ACCEPTED_T_ABORT"} ELSE {})

\* Weakened: without the 10 s bound.
AcceptReturnsEventually(s, c) == AcceptVerdict(s, c)

\* accept_t: the verdict, or the wait is over, or an exception while sending.
AcceptReturns(s, c) ==
  AcceptVerdict(s, c)
  \cup (IF "accept_t" \in Expiring THEN {"ACCEPTED_T_ABORT"} ELSE {})
  \cup (IF "send" \in Failing THEN {"ACCEPT_T_SYSTEM_ERROR"} ELSE {})

\* Weakened: an error is not an abort.
AcceptedTypeOfErrors(a) ==
  IF a = "ACCEPTED_T_ABORT" THEN "ACCEPTED_T_ABORT" ELSE "ACCEPTED_T_COMMIT"

AcceptedType(a) ==
  IF a = "ACCEPTED_T_COMMIT" THEN "ACCEPTED_T_COMMIT" ELSE "ACCEPTED_T_ABORT"

\* A shard that voted to abort aborts, whatever the reply to its ACCEPT_T_ABORT is.
Decide(s, c, a) == IF vote[s][c] = "PREPARED_T_COMMIT" THEN a ELSE "ACCEPTED_T_ABORT"

BroadcastAccepted(s, c) ==
  /\ pc[s][c] = "accept"
  /\ \E a \in AcceptReturns(s, c) :
       /\ decision' = [decision EXCEPT ![s][c] = Decide(s, c, a)]
       /\ inbox' = inbox \cup Broadcast(AcceptedType(Decide(s, c, a)), c, s)
  /\ pc' = [pc EXCEPT ![s][c] = "accepted"]
  /\ UNCHANGED <<storeVars, sequenceVars, orderVars, vote, outcome>>

ReplyToClient(s, c) ==
  /\ pc[s][c] = "accepted"
  /\ Returned(AcceptedType(decision[s][c]), c, s)
  /\ pc' = [pc EXCEPT ![s][c] = "done"]
  /\ UNCHANGED <<storeVars, sequenceVars, orderVars, inbox, vote, decision, outcome>>

-----------------------------------------------------------------------------
Handle(m) ==
  \/ HandleSubmit(m)
  \/ HandlePreparedTAbort(m) \/ HandlePreparedTCommit(m)
  \/ HandleAcceptedTAbort(m) \/ HandleAcceptedTCommit(m)

Execute(s, r) == ExecutePrepareT(s, r) \/ ExecuteAcceptT(s, r) \/ ExecuteCreateObject(s, r)

Job(s, c) ==
  BroadcastPrepared(s, c) \/ SendAccept(s, c) \/ BroadcastAccepted(s, c) \/ ReplyToClient(s, c)

\* Nothing is left to do: not a deadlock.
Terminating ==
  /\ \A c \in Calls : outcome[c] \in Outcomes
  /\ inbox = {}
  /\ \A s \in Shards :
       /\ requested[s] = Ordered(s)
       /\ \A r \in Replicas : ~Pending(s, r)
       /\ \A c \in Calls : pc[s][c] \in {"idle", "done"}
  /\ UNCHANGED vars

Next ==
  \/ \E c \in Calls : SubmitTransaction(c) \/ ReturnToCaller(c)
  \/ \E m \in inbox : Handle(m)
  \/ \E s \in Shards : \E q \in requested[s] : Order(s, q)
  \/ \E s \in Shards, r \in Replicas : Execute(s, r)
  \/ \E s \in Shards, c \in Calls : Job(s, c)
  \/ Terminating

Spec == Init /\ [][Next]_vars

\* Handlers, delivery threads and jobs keep running, the BFT service keeps ordering, and
\* the waits that may expire do: clocks run.  Nobody is obliged to submit a transaction.
Fairness ==
  /\ \A c \in Calls : WF_vars(ReturnToCaller(c))
  /\ \A s \in Shards, r \in Replicas :
       /\ WF_vars(\E m \in inbox : m.shard = s /\ m.replica = r /\ Handle(m))
       /\ WF_vars(Execute(s, r))
  /\ \A s \in Shards : WF_vars(\E q \in requested[s] : Order(s, q))
  /\ \A s \in Shards, c \in Calls : WF_vars(Job(s, c))

FairSpec == Spec /\ Fairness

-----------------------------------------------------------------------------
(* Properties *)

Types ==
  /\ table \in [Shards -> [Replicas -> [Objects -> Statuses]]]
  /\ stored \in [Shards -> [Replicas -> SUBSET Txs]]
  /\ known \in [Shards -> [Replicas -> SUBSET Txs]]
  /\ flags \in [Shards -> [Replicas -> [Txs -> SUBSET TransactionSequence]]]
  /\ requested \in [Shards -> SUBSET Requests]
  /\ log \in [Shards -> Seq(Requests)]
  /\ answers \in [Shards -> [Replicas -> Seq(Answers)]]
  /\ inbox \subseteq Messages
  /\ pc \in [Shards -> [Calls -> Stages]]
  /\ vote \in [Shards -> [Calls -> PrepareReplies \cup {"none"}]]
  /\ decision \in [Shards -> [Calls -> AcceptReplies \cup {"none"}]]
  /\ outcome \in [Calls -> Outcomes \cup {"none", "waiting"}]

\* The shape of a shard's service: a replica holds entries only for objects of its shard,
\* the order has no request twice and none that nobody sent, and a replica has executed a
\* prefix of it.
WellFormed ==
  \A s \in Shards :
    /\ \A r \in Replicas, o \in Objects : ShardOf[o] # s => table[s][r][o] = "NONE"
    /\ Ordered(s) \subseteq requested[s]
    /\ \A i, j \in DOMAIN log[s] : log[s][i] = log[s][j] => i = j
    /\ \A r \in Replicas : Len(answers[s][r]) <= Len(log[s])

\* The type invariant (setTransactionInputStatus and CREATE_OBJECT touch only what the
\* shard manages, mapObjectToShard).
TypeOK == Types /\ WellFormed

\* The replicas of s that found t fit to commit when they executed a PREPARE_T of it.
PreparedAt(s, t) ==
  {r \in Replicas : \E i \in DOMAIN answers[s][r] :
     /\ log[s][i].op = "PREPARE_T" /\ TxOf[log[s][i].call] = t
     /\ answers[s][r][i] = "PREPARED_T_COMMIT"}

PreparedByMajority(s, t) == 2 * Cardinality(PreparedAt(s, t)) > Cardinality(Replicas)

\* Commit validity (prepare_t, accept_t, checkAcceptT, getReplyQuorum): whatever expires,
\* comes late or disagrees, a shard decides to commit a transaction only if in every input
\* shard a majority of the replicas has prepared it.
CommitBackedByPrepares ==
  \A s \in Shards, c \in Calls :
    decision[s][c] = "ACCEPTED_T_COMMIT" =>
      \A z \in InputShards(TxOf[c]) : PreparedByMajority(z, TxOf[c])

\* The client is told that its transaction is committed (processShardResponses) only if
\* every shard it submitted to has decided so for that very call.
ClientCommitIsUnanimous ==
  \A c \in Calls :
    outcome[c] = "ACCEPTED_T_COMMIT" =>
      \A s \in TargetShards(TxOf[c]) : decision[s][c] = "ACCEPTED_T_COMMIT"

\* No object changes status out of thin air (setTransactionInputStatus, CREATE_OBJECT):
\* at any replica a locked object is an input of a transaction its shard voted for, a
\* consumed one an input of a transaction its shard decided to commit, and an object that
\* was not there at the start an output of a transaction some shard decided to commit.
StatusHasCause ==
  \A s \in Shards, r \in Replicas, o \in Objects :
    /\ table[s][r][o] = "LOCKED" =>
         \E c \in Calls : o \in Inputs[TxOf[c]] /\ vote[s][c] = "PREPARED_T_COMMIT"
    /\ table[s][r][o] = "INACTIVE" =>
         \E c \in Calls : o \in Inputs[TxOf[c]] /\ decision[s][c] = "ACCEPTED_T_COMMIT"
    /\ table[s][r][o] = "ACTIVE" /\ o \notin Genesis =>
         \E c \in Calls, z \in Shards :
           o \in Outputs[TxOf[c]] /\ decision[z][c] = "ACCEPTED_T_COMMIT"

\* A consumed object is not revived by the abort of another transaction that spends it
\* (executeAcceptedTAbort unlocks LOCKED objects only): only a CREATE_OBJECT, for an
\* output of some transaction, makes it ACTIVE again.
SpentStaysSpent ==
  [][\A s \in Shards, r \in Replicas, o \in Objects :
       table[s][r][o] = "INACTIVE" /\ (\A t \in Txs : o \notin Outputs[t]) =>
         table'[s][r][o] = "INACTIVE"]_table

\* Retries (Core.processTransaction, UNIQUE columns of logs and data): however often and
\* however concurrently a transaction is resubmitted, a shard votes to commit at most one
\* of the calls, because a quorum of its databases takes a transaction once.
OneVotePerTransaction ==
  \A s \in Shards : \A c, d \in Calls :
    /\ TxOf[c] = TxOf[d]
    /\ vote[s][c] = "PREPARED_T_COMMIT"
    /\ vote[s][d] = "PREPARED_T_COMMIT"
    => c = d

\* Atomicity while no wait expires: the input shards of a call that have decided agree.
\* (With time-outs they need not: see the README.)
Agreement ==
  \A c \in Calls : \A s, z \in InputShards(TxOf[c]) :
    decision[s][c] # "none" /\ decision[z][c] # "none" => decision[s][c] = decision[z][c]

\* The comment at TreeMapServer.java:426: a transaction that is being processed is not
\* processed again.
EarlyReject ==
  \A s \in Shards : \A c, d \in Calls :
    /\ TxOf[c] = TxOf[d]
    /\ pc[s][c] \notin {"idle", "done"}
    /\ pc[s][d] \notin {"idle", "done"}
    => c = d

\* The delivery thread of a replica is never stuck: what the service has ordered is
\* executed, although checkAcceptT makes the thread wait for other threads.
LogsDrain ==
  \A s \in Shards, r \in Replicas : []<>(~Pending(s, r))

\* A submission that reached the initiator is answered, even if replicas disagree.
JobsFinish ==
  \A s \in Shards, c \in Calls : pc[s][c] # "idle" ~> pc[s][c] = "done"
=============================================================================
