----------------------------- MODULE SBACProofs -----------------------------
(***************************************************************************)
(* Theorems about SBAC, for every set of shards, replicas, objects,        *)
(* transactions and calls, whatever waits expire and whatever fails.       *)
(***************************************************************************)
EXTENDS SBAC, FiniteSetTheorems, SequenceTheorems, TLAPS

-----------------------------------------------------------------------------
(* Types *)

\* The fields of a message, and what a message is built from (Transaction.java,
\* MapClient.broadcastBFTDecision).
LEMMA MessageFields ==
  ASSUME NEW m \in Messages
  PROVE  /\ m.shard \in Shards /\ m.replica \in Replicas /\ m.call \in Calls
         /\ TxOf[m.call] \in Txs
BY TransactionAssumption DEF Messages

\* A broadcast in shard s consists of messages (MapClient.broadcastBFTDecision).
LEMMA BroadcastType ==
  ASSUME NEW type \in {"TRANSACTION_SUBMIT"} \cup PreparedTypes \cup AcceptedTypes,
         NEW c \in Calls, NEW s \in Shards
  PROVE  Broadcast(type, c, s) \subseteq Messages
BY DEF Broadcast, Message, Messages

\* Every input, output and target shard is a shard (MapClient.mapObjectToShard).
LEMMA ShardsOfTransaction ==
  ASSUME NEW t \in Txs
  PROVE  /\ InputShards(t) \subseteq Shards
         /\ OutputShards(t) \subseteq Shards
         /\ TargetShards(t) \subseteq Shards
BY ShardAssumption, TransactionAssumption DEF InputShards, OutputShards, TargetShards

\* The client preserves the types (MapClient.submitTransaction).
LEMMA ClientTypes ==
  ASSUME Types, NEW c \in Calls, SubmitTransaction(c) \/ ReturnToCaller(c)
  PROVE  Types'
<1>1. CASE SubmitTransaction(c)
  <2>1. TxOf[c] \in Txs
    BY TransactionAssumption
  <2>2. \A s \in TargetShards(TxOf[c]) : Broadcast("TRANSACTION_SUBMIT", c, s) \subseteq Messages
    BY <2>1, BroadcastType, ShardsOfTransaction
  <2>3. inbox' \subseteq Messages
    BY <1>1, <2>2 DEF SubmitTransaction, Types
  <2> QED
    BY <1>1, <2>3 DEF SubmitTransaction, Types, storeVars, sequenceVars, orderVars, jobVars
<1>2. CASE ReturnToCaller(c)
  <2>1. \A s \in Shards : FinalResponse(s, c) \in Outcomes \cup {"none"}
    BY DEF FinalResponse, Outcomes, Types
  <2>2. TargetShards(TxOf[c]) \subseteq Shards
    BY ShardsOfTransaction, TransactionAssumption
  <2>3. ASSUME NEW S \in SUBSET TargetShards(TxOf[c])
        PROVE  ProcessShardResponses(c, S) \subseteq Outcomes \cup {"none"}
    BY <2>1, <2>2 DEF ProcessShardResponses, Outcomes, AcceptReplies, AcceptedTypes
  <2>4. PICK a \in Outcomes \cup {"none"} : outcome' = [outcome EXCEPT ![c] = a]
    BY <1>2, <2>3 DEF ReturnToCaller
  <2> QED
    BY <1>2, <2>4
    DEF ReturnToCaller, Types, storeVars, sequenceVars, orderVars, jobVars
<1> QED
  BY <1>1, <1>2

\* The unordered handlers preserve the types (TreeMapServer.appExecuteUnordered).
LEMMA HandleTypes ==
  ASSUME Types, NEW m \in inbox, Handle(m)
  PROVE  Types'
<1> DEFINE s == m.shard
           r == m.replica
           t == TxOf[m.call]
<1>1. /\ m \in Messages
      /\ s \in Shards /\ r \in Replicas /\ m.call \in Calls /\ t \in Txs
  BY MessageFields DEF Types
<1>2. Receive(m) => inbox' \subseteq Messages
  BY DEF Receive, Types
<1>3. ASSUME NEW from, NEW to \in Statuses, SetInputStatus(s, r, t, from, to)
      PROVE  table' \in [Shards -> [Replicas -> [Objects -> Statuses]]]
  BY <1>1, <1>3 DEF SetInputStatus, Types
<1>4. ASSUME NEW field \in TransactionSequence, SetFlag(s, r, t, field)
      PROVE  flags' \in [Shards -> [Replicas -> [Txs -> SUBSET TransactionSequence]]]
  <2> DEFINE new == IF t \in known[s][r] THEN flags[s][r][t] \cup {field} ELSE flags[s][r][t]
  <2>1. flags \in [Shards -> [Replicas -> [Txs -> SUBSET TransactionSequence]]]
    BY DEF Types
  <2>2. new \in SUBSET TransactionSequence
    BY <1>1, <2>1
  <2>3. flags' = [flags EXCEPT ![s][r][t] = new]
    BY <1>4 DEF SetFlag
  <2> HIDE DEF new
  <2> QED
    BY <1>1, <2>1, <2>2, <2>3
<1>5. CASE HandleSubmit(m)
  <2>1. flags' \in [Shards -> [Replicas -> [Txs -> SUBSET TransactionSequence]]]
    BY <1>1, <1>5 DEF HandleSubmit, Types, TransactionSequence
  <2>2. known' \in [Shards -> [Replicas -> SUBSET Txs]]
    BY <1>1, <1>5 DEF HandleSubmit, Types
  <2>3. pc' \in [Shards -> [Calls -> Stages]]
    <3>1. pc' = [pc EXCEPT ![s][m.call] = "prepare"] \/ pc' = pc
      BY <1>5 DEF HandleSubmit
    <3>2. pc \in [Shards -> [Calls -> Stages]] /\ "prepare" \in Stages
      BY DEF Types, Stages
    <3> QED
      BY <1>1, <3>1, <3>2
  <2>4. requested' \in [Shards -> SUBSET Requests]
    <3>1. \/ requested' = [requested EXCEPT ![s] = @ \cup {Request("PREPARE_T", m.call, s)}]
          \/ requested' = requested
      BY <1>5 DEF HandleSubmit
    <3>2. Request("PREPARE_T", m.call, s) \in Requests
      BY <1>1 DEF Request, Requests
    <3>3. requested \in [Shards -> SUBSET Requests]
      BY DEF Types
    <3> QED
      BY <1>1, <3>1, <3>2, <3>3
  <2> QED
    BY <1>2, <1>5, <2>1, <2>2, <2>3, <2>4 DEF HandleSubmit, Types, storeVars
<1>6. CASE HandlePreparedTAbort(m)
  BY <1>2, <1>4, <1>6
  DEF HandlePreparedTAbort, Types, TransactionSequence, storeVars, orderVars, jobVars
<1>7. CASE HandlePreparedTCommit(m)
  BY <1>2, <1>3, <1>4, <1>7
  DEF HandlePreparedTCommit, Types, TransactionSequence, Statuses, orderVars, jobVars
<1>8. CASE HandleAcceptedTAbort(m)
  BY <1>2, <1>3, <1>4, <1>8
  DEF HandleAcceptedTAbort, Types, TransactionSequence, Statuses, orderVars, jobVars
<1>9. CASE HandleAcceptedTCommit(m)
  <2>1. requested' \in [Shards -> SUBSET Requests]
    BY <1>1, <1>9 DEF HandleAcceptedTCommit, Types, Request, Requests
  <2> QED
    BY <1>2, <1>3, <1>4, <1>9, <2>1
    DEF HandleAcceptedTCommit, Types, TransactionSequence, Statuses, jobVars
<1> QED
  BY <1>5, <1>6, <1>7, <1>8, <1>9 DEF Handle

\* The ordered service preserves the types (TreeMapServer.executeSingle).
LEMMA OrderTypes ==
  ASSUME Types, NEW s \in Shards, NEW q \in requested[s], Order(s, q)
  PROVE  Types'
BY DEF Order, Types, storeVars, sequenceVars, jobVars

\* The log of a replica's next request (TreeMapServer.appExecuteBatch).
LEMMA NextRequestType ==
  ASSUME Types, NEW s \in Shards, NEW r \in Replicas, Pending(s, r)
  PROVE  /\ Len(answers[s][r]) + 1 \in DOMAIN log[s]
         /\ NextRequest(s, r) \in Requests
         /\ TxOf[NextRequest(s, r).call] \in Txs
<1>1. /\ log[s] \in Seq(Requests)
      /\ answers[s][r] \in Seq(Answers)
  BY DEF Types
<1>2. Len(answers[s][r]) + 1 \in 1..Len(log[s]) /\ DOMAIN log[s] = 1..Len(log[s])
  BY <1>1 DEF Pending
<1>3. NextRequest(s, r) \in Requests
  BY <1>1, <1>2, ElementOfSeq DEF NextRequest
<1> QED
  BY <1>2, <1>3, TransactionAssumption DEF Requests

\* A PREPARE_T is answered with the verdict of the core, or refused before it runs; a
\* positive verdict comes with the first insertion of the transaction
\* (TreeMapServer.checkPrepareT, Core.processTransaction).
LEMMA AnswerOfPrepare ==
  ASSUME Types, NEW s \in Shards, NEW r \in Replicas, ExecutePrepareT(s, r)
  PROVE  LET t == TxOf[NextRequest(s, r).call]
         IN \E a \in PrepareReplies :
              /\ Answer(s, r, a)
              /\ a = "PREPARED_T_COMMIT" => t \notin stored[s][r] /\ t \in stored'[s][r]
<1> DEFINE t == TxOf[NextRequest(s, r).call]
<1>1. CASE \E a \in {"PREPARED_T_ABORT", "PREPARE_T_SYSTEM_ERROR"} : Answer(s, r, a)
  BY <1>1 DEF PrepareReplies, PreparedTypes
<1>2. CASE \E res \in CoreResults(t \in stored[s][r]) :
             /\ Answer(s, r, res[1])
             /\ stored' = [stored EXCEPT ![s][r] = IF res[2] THEN @ \cup {t} ELSE @]
  <2>1. PICK res \in CoreResults(t \in stored[s][r]) :
           /\ Answer(s, r, res[1])
           /\ stored' = [stored EXCEPT ![s][r] = IF res[2] THEN @ \cup {t} ELSE @]
    BY <1>2
  <2>2. CASE t \notin stored[s][r] /\ res = <<"PREPARED_T_COMMIT", TRUE>>
    BY <2>1, <2>2 DEF PrepareReplies, PreparedTypes, Types
  <2>3. CASE \E b : res = <<"PREPARED_T_ABORT", b>>
    BY <2>1, <2>3 DEF PrepareReplies, PreparedTypes
  <2>4. \/ t \notin stored[s][r] /\ res = <<"PREPARED_T_COMMIT", TRUE>>
        \/ \E b : res = <<"PREPARED_T_ABORT", b>>
    BY Zenon DEF CoreResults
  <2> QED
    BY <2>2, <2>3, <2>4
<1> QED
  BY <1>1, <1>2, Zenon DEF ExecutePrepareT

\* A PREPARE_T leaves the database of the replica alone or adds the rows of the
\* transaction to it (Core.processTransaction).
LEMMA StoredByPrepare ==
  ASSUME Types, NEW s \in Shards, NEW r \in Replicas, ExecutePrepareT(s, r)
  PROVE  \/ stored' = [stored EXCEPT ![s][r] = stored[s][r]]
         \/ stored' = [stored EXCEPT ![s][r] =
                          stored[s][r] \cup {TxOf[NextRequest(s, r).call]}]
<1>1. stored = [stored EXCEPT ![s][r] = stored[s][r]]
  BY DEF Types
<1> QED
  BY <1>1, Zenon DEF ExecutePrepareT

\* The delivery thread preserves the types (TreeMapServer.executeSingle).
LEMMA ExecuteTypes ==
  ASSUME Types, NEW s \in Shards, NEW r \in Replicas, Execute(s, r)
  PROVE  Types'
<1> DEFINE t == TxOf[NextRequest(s, r).call]
<1>1. t \in Txs
  BY NextRequestType DEF Execute, ExecutePrepareT, ExecuteAcceptT, ExecuteCreateObject
<1>2. ASSUME NEW a \in Answers, Answer(s, r, a)
      PROVE  answers' \in [Shards -> [Replicas -> Seq(Answers)]]
  BY <1>2 DEF Answer, Types
<1>3. CASE ExecutePrepareT(s, r)
  <2>1. stored[s][r] \in SUBSET Txs /\ stored[s][r] \cup {t} \in SUBSET Txs
    BY <1>1 DEF Types
  <2>2. stored' \in [Shards -> [Replicas -> SUBSET Txs]]
    <3>1. stored \in [Shards -> [Replicas -> SUBSET Txs]]
      BY DEF Types
    <3> QED
      BY <1>3, <2>1, <3>1, StoredByPrepare
  <2>3. PICK a \in PrepareReplies : Answer(s, r, a)
    BY <1>3, AnswerOfPrepare
  <2>4. answers' \in [Shards -> [Replicas -> Seq(Answers)]]
    BY <1>2, <2>3 DEF Answers
  <2> QED
    BY <1>3, <2>2, <2>4 DEF ExecutePrepareT, Types, sequenceVars, jobVars
<1>4. CASE ExecuteAcceptT(s, r)
  <2>1. CheckAcceptT(s, r, t) \in Answers
    BY DEF CheckAcceptT, Answers, AcceptedTypes
  <2>2. answers' \in [Shards -> [Replicas -> Seq(Answers)]]
    BY <1>2, <1>4, <2>1 DEF ExecuteAcceptT
  <2> QED
    BY <1>4, <2>2 DEF ExecuteAcceptT, Types, storeVars, sequenceVars, jobVars
<1>5. CASE ExecuteCreateObject(s, r)
  <2>1. table' \in [Shards -> [Replicas -> [Objects -> Statuses]]]
    BY <1>5 DEF ExecuteCreateObject, Types, Statuses
  <2>2. answers' \in [Shards -> [Replicas -> Seq(Answers)]]
    BY <1>2, <1>5 DEF ExecuteCreateObject, Answers
  <2> QED
    BY <1>5, <2>1, <2>2 DEF ExecuteCreateObject, Types, sequenceVars, jobVars
<1> QED
  BY <1>3, <1>4, <1>5 DEF Execute

\* The initiator's jobs preserve the types (TreeMapServer.appExecuteUnordered).
LEMMA JobTypes ==
  ASSUME Types, NEW s \in Shards, NEW c \in Calls, Job(s, c)
  PROVE  Types'
<1>1. CASE BroadcastPrepared(s, c)
  <2>1. PICK a \in PrepareReplies :
           /\ vote' = [vote EXCEPT ![s][c] = a]
           /\ inbox' = inbox \cup Broadcast(PreparedType(a), c, s)
    BY <1>1 DEF BroadcastPrepared, PrepareReturns, PrepareReplies, PreparedTypes
  <2>2. PreparedType(a) \in PreparedTypes
    BY DEF PreparedType, PreparedTypes
  <2>3. inbox' \subseteq Messages
    BY <2>1, <2>2, BroadcastType DEF Types
  <2> QED
    BY <1>1, <2>1, <2>3
    DEF BroadcastPrepared, Types, Stages, storeVars, sequenceVars, orderVars
<1>2. CASE SendAccept(s, c)
  <2>1. AcceptOp(s, c) \in AcceptOps
    BY DEF AcceptOp, AcceptOps
  <2>2. requested' \in [Shards -> SUBSET Requests]
    BY <1>2, <2>1 DEF SendAccept, Types, Request, Requests
  <2>3. flags' \in [Shards -> [Replicas -> [Txs -> SUBSET TransactionSequence]]]
    BY <1>2, <2>1, ShardAssumption, TransactionAssumption
    DEF SendAccept, Types, AcceptOps, TransactionSequence
  <2> QED
    BY <1>2, <2>2, <2>3 DEF SendAccept, Types, Stages, storeVars
<1>3. CASE BroadcastAccepted(s, c)
  <2>1. PICK a \in AcceptReplies :
           /\ decision' = [decision EXCEPT ![s][c] = Decide(s, c, a)]
           /\ inbox' = inbox \cup Broadcast(AcceptedType(Decide(s, c, a)), c, s)
    BY <1>3 DEF BroadcastAccepted, AcceptReturns, AcceptVerdict, AcceptReplies, AcceptedTypes
  <2>2. Decide(s, c, a) \in AcceptReplies
    BY DEF Decide, AcceptReplies, AcceptedTypes
  <2>3. AcceptedType(Decide(s, c, a)) \in AcceptedTypes
    BY DEF AcceptedType, AcceptedTypes
  <2>4. inbox' \subseteq Messages
    BY <2>1, <2>3, BroadcastType DEF Types
  <2> QED
    BY <1>3, <2>1, <2>2, <2>4
    DEF BroadcastAccepted, Types, Stages, storeVars, sequenceVars, orderVars
<1>4. CASE ReplyToClient(s, c)
  BY <1>4 DEF ReplyToClient, Types, Stages, storeVars, sequenceVars, orderVars
<1> QED
  BY <1>1, <1>2, <1>3, <1>4 DEF Job

\* Every state has its types (TreeMapServer.table, sequences; TransactionSequence).
THEOREM TypesCorrect == Spec => []Types
<1>1. Init => Types
  BY DEF Init, Types, Statuses, Stages
<1>2. Types /\ [Next]_vars => Types'
  <2> SUFFICES ASSUME Types, [Next]_vars
               PROVE  Types'
    OBVIOUS
  <2>1. CASE \E c \in Calls : SubmitTransaction(c) \/ ReturnToCaller(c)
    BY <2>1, ClientTypes
  <2>2. CASE \E m \in inbox : Handle(m)
    BY <2>2, HandleTypes
  <2>3. CASE \E s \in Shards : \E q \in requested[s] : Order(s, q)
    BY <2>3, OrderTypes
  <2>4. CASE \E s \in Shards, r \in Replicas : Execute(s, r)
    BY <2>4, ExecuteTypes
  <2>5. CASE \E s \in Shards, c \in Calls : Job(s, c)
    BY <2>5, JobTypes
  <2>6. CASE UNCHANGED vars
    BY <2>6 DEF Types, vars, storeVars, sequenceVars, orderVars, jobVars
  <2> QED
    BY <2>1, <2>2, <2>3, <2>4, <2>5, <2>6 DEF Next, Terminating
<1> QED
  BY <1>1, <1>2, PTL DEF Spec

-----------------------------------------------------------------------------
(* The inductive invariants *)

\* A vote to commit has a quorum of the shard behind it.
VoteBacked ==
  \A s \in Shards, c \in Calls :
    vote[s][c] = "PREPARED_T_COMMIT" =>
      Answered(s, Request("PREPARE_T", c, s), "PREPARED_T_COMMIT")

\* So has every broadcast of such a vote, every flag it sets, and every answer to an
\* ACCEPT_T_COMMIT that is given because of that flag.
MessageBacked ==
  \A m \in inbox :
    m.type = "PREPARED_T_COMMIT" => PreparedByMajority(m.shard, TxOf[m.call])

FlagBacked ==
  \A s \in Shards, r \in Replicas, t \in Txs :
    "PREPARED_T_COMMIT" \in flags[s][r][t] => PreparedByMajority(s, t)

AnswerBacked ==
  \A s \in Shards, r \in Replicas : \A i \in DOMAIN answers[s][r] :
    answers[s][r][i] = "ACCEPTED_T_COMMIT" =>
      PreparedByMajority(s, TxOf[log[s][i].call])

\* Only a PREPARE_T is answered PREPARED_T_COMMIT, and the rows stay.
PrepareStored ==
  \A s \in Shards, r \in Replicas : \A i \in DOMAIN answers[s][r] :
    answers[s][r][i] = "PREPARED_T_COMMIT" =>
      log[s][i].op = "PREPARE_T" /\ TxOf[log[s][i].call] \in stored[s][r]

\* A replica answers PREPARED_T_COMMIT for a transaction once.
PreparedOnce ==
  \A s \in Shards, r \in Replicas : \A i, j \in DOMAIN answers[s][r] :
    /\ answers[s][r][i] = "PREPARED_T_COMMIT"
    /\ answers[s][r][j] = "PREPARED_T_COMMIT"
    /\ TxOf[log[s][i].call] = TxOf[log[s][j].call]
    => i = j

CommitInv ==
  /\ TypeOK
  /\ VoteBacked /\ MessageBacked /\ FlagBacked /\ AnswerBacked
  /\ CommitBackedByPrepares

RetryInv == TypeOK /\ VoteBacked /\ PrepareStored /\ PreparedOnce

\* A call is submitted once, so that its job runs once.
SubmittedOnce ==
  \A s \in Shards, c \in Calls :
    /\ outcome[c] = "none" => pc[s][c] = "idle"
    /\ outcome[c] = "none" \/ pc[s][c] # "idle" =>
         Message("TRANSACTION_SUBMIT", c, s, Initiator) \notin inbox

\* The vote and the decision of a job are set in its first and its third step.
WrittenOnce ==
  \A s \in Shards, c \in Calls :
    /\ pc[s][c] \in {"idle", "prepare"} <=> vote[s][c] = "none"
    /\ pc[s][c] \in {"idle", "prepare", "prepared", "accept"} <=> decision[s][c] = "none"

\* Broadcasts and the creation of outputs follow from a vote or a decision.
MessageHasCause ==
  \A m \in inbox :
    /\ m.type = "PREPARED_T_COMMIT" => vote[m.shard][m.call] = "PREPARED_T_COMMIT"
    /\ m.type = "ACCEPTED_T_COMMIT" => decision[m.shard][m.call] = "ACCEPTED_T_COMMIT"

CreateHasCause ==
  \A s \in Shards : \A q \in requested[s] :
    q.op = "CREATE_OBJECT" => decision[q.from][q.call] = "ACCEPTED_T_COMMIT"

\* An object that can be spent, now or after an unlock, was there or was created.
LiveHasCause ==
  \A s \in Shards, r \in Replicas, o \in Objects :
    table[s][r][o] \in {"ACTIVE", "LOCKED"} /\ o \notin Genesis =>
      \E c \in Calls, z \in Shards :
        o \in Outputs[TxOf[c]] /\ decision[z][c] = "ACCEPTED_T_COMMIT"

JobInv == TypeOK /\ SubmittedOnce /\ WrittenOnce

CauseInv ==
  JobInv /\ MessageHasCause /\ CreateHasCause /\ LiveHasCause /\ StatusHasCause

-----------------------------------------------------------------------------
(* How a step changes each variable *)

\* The entry of an object changes by one of three broadcasts or by a CREATE_OBJECT
\* (TreeMapServer.setTransactionInputStatus, executeSingle).
LEMMA TableStep ==
  ASSUME Types, [Next]_vars, NEW s \in Shards, NEW r \in Replicas, NEW o \in Objects
  PROVE  LET old == table[s][r][o]
             new == table'[s][r][o]
         IN \/ new = old
            \/ \E m \in inbox :
                 /\ m.shard = s
                 /\ o \in Managed(s, TxOf[m.call])
                 /\ \/ m.type = "PREPARED_T_COMMIT" /\ old = "ACTIVE" /\ new = "LOCKED"
                    \/ m.type = "ACCEPTED_T_ABORT" /\ old = "LOCKED" /\ new = "ACTIVE"
                    \/ m.type = "ACCEPTED_T_COMMIT" /\ new = "INACTIVE"
            \/ \E i \in DOMAIN log[s] :
                 /\ log[s][i].op = "CREATE_OBJECT"
                 /\ o \in Outputs[TxOf[log[s][i].call]] /\ ShardOf[o] = s
                 /\ new = "ACTIVE"
<1>1. CASE \E m \in inbox : Handle(m)
  <2>1. PICK m \in inbox : Handle(m)
    BY <1>1
  <2>2. m.shard \in Shards /\ m.replica \in Replicas
    BY MessageFields DEF Types
  <2>3. ASSUME NEW from, NEW to,
               SetInputStatus(m.shard, m.replica, TxOf[m.call], from, to)
        PROVE  \/ table'[s][r][o] = table[s][r][o]
               \/ /\ m.shard = s /\ o \in Managed(s, TxOf[m.call])
                  /\ table[s][r][o] \in from /\ table'[s][r][o] = to
    BY <2>2, <2>3 DEF SetInputStatus, Types
  <2>4. CASE HandleSubmit(m) \/ HandlePreparedTAbort(m)
    BY <2>4 DEF HandleSubmit, HandlePreparedTAbort, storeVars
  <2>5. CASE HandlePreparedTCommit(m)
    BY <2>3, <2>5 DEF HandlePreparedTCommit
  <2>6. CASE HandleAcceptedTAbort(m)
    BY <2>3, <2>6 DEF HandleAcceptedTAbort
  <2>7. CASE HandleAcceptedTCommit(m)
    BY <2>3, <2>7 DEF HandleAcceptedTCommit
  <2> QED
    BY <2>1, <2>4, <2>5, <2>6, <2>7 DEF Handle
<1>2. CASE \E s1 \in Shards, r1 \in Replicas : Execute(s1, r1)
  <2>1. PICK s1 \in Shards, r1 \in Replicas : Execute(s1, r1)
    BY <1>2
  <2>2. CASE ExecutePrepareT(s1, r1) \/ ExecuteAcceptT(s1, r1)
    BY <2>2 DEF ExecutePrepareT, ExecuteAcceptT, storeVars
  <2>3. CASE ExecuteCreateObject(s1, r1)
    <3>1. Len(answers[s1][r1]) + 1 \in DOMAIN log[s1]
      BY <2>3, NextRequestType DEF ExecuteCreateObject
    <3> QED
      BY <2>3, <3>1 DEF ExecuteCreateObject, NextRequest, Types
  <2> QED
    BY <2>1, <2>2, <2>3 DEF Execute
<1>3. CASE UNCHANGED table
  BY <1>3
<1>4. \/ \E m \in inbox : Handle(m)
      \/ \E s1 \in Shards, r1 \in Replicas : Execute(s1, r1)
      \/ UNCHANGED table
  BY DEF Next, SubmitTransaction, ReturnToCaller, Order, Job, BroadcastPrepared, SendAccept,
         BroadcastAccepted, ReplyToClient, Terminating, vars, storeVars
<1> QED
  BY <1>1, <1>2, <1>3, <1>4

\* A shard's service gets more requests and orders one that it has not ordered yet.
\* The ones to create objects come with the commit of a transaction
\* (TreeMapServer.executeAcceptedTCommit, MapClient.createObjects).
LEMMA OrderStep ==
  ASSUME Types, [Next]_vars, NEW s \in Shards
  PROVE  /\ requested[s] \subseteq requested'[s]
         /\ \A q \in requested'[s] \ requested[s] :
              q.op = "CREATE_OBJECT" =>
                \E m \in inbox : /\ m.type = "ACCEPTED_T_COMMIT"
                                 /\ m.call = q.call /\ m.shard = q.from
         /\ \/ log'[s] = log[s]
            \/ \E q \in requested[s] \ Ordered(s) : log'[s] = Append(log[s], q)
<1>1. CASE \E m \in inbox : Handle(m)
  <2>1. PICK m \in inbox : Handle(m)
    BY <1>1
  <2>2. m.shard \in Shards
    BY MessageFields DEF Types
  <2>3. log' = log
    BY <2>1 DEF Handle, HandleSubmit, HandlePreparedTAbort, HandlePreparedTCommit,
                HandleAcceptedTAbort, HandleAcceptedTCommit, orderVars
  <2>4. CASE HandleSubmit(m)
    <3>1. \/ requested' = requested
          \/ requested' = [requested EXCEPT ![m.shard] =
                             @ \cup {Request("PREPARE_T", m.call, m.shard)}]
      BY <2>4 DEF HandleSubmit
    <3>2. Request("PREPARE_T", m.call, m.shard).op # "CREATE_OBJECT"
      BY DEF Request
    <3>3. requested \in [Shards -> SUBSET Requests]
      BY DEF Types
    <3>4. \/ requested'[s] = requested[s]
          \/ requested'[s] = requested[s] \cup {Request("PREPARE_T", m.call, m.shard)}
      BY <2>2, <3>1, <3>3
    <3> QED
      BY <2>3, <3>2, <3>4
  <2>5. CASE HandleAcceptedTCommit(m)
    <3>1. \/ requested'[s] = requested[s]
          \/ requested'[s] = requested[s] \cup {Request("CREATE_OBJECT", m.call, m.shard)}
      BY <2>5 DEF HandleAcceptedTCommit
    <3>2. m.type = "ACCEPTED_T_COMMIT"
      BY <2>5 DEF HandleAcceptedTCommit
    <3> QED
      BY <2>3, <3>1, <3>2 DEF Request
  <2> QED
    BY <2>1, <2>3, <2>4, <2>5
    DEF Handle, HandlePreparedTAbort, HandlePreparedTCommit, HandleAcceptedTAbort, orderVars
<1>2. CASE \E s1 \in Shards : \E q \in requested[s1] : Order(s1, q)
  BY <1>2 DEF Order, Types
<1>3. CASE \E s1 \in Shards, c \in Calls : SendAccept(s1, c)
  <2>1. PICK s1 \in Shards, c \in Calls : SendAccept(s1, c)
    BY <1>3
  <2>2. AcceptOp(s1, c) # "CREATE_OBJECT"
    BY DEF AcceptOp
  <2> QED
    BY <2>1, <2>2 DEF SendAccept, Request, Types
<1>4. CASE UNCHANGED <<requested, log>>
  BY <1>4
<1>5. \/ \E m \in inbox : Handle(m)
      \/ \E s1 \in Shards : \E q \in requested[s1] : Order(s1, q)
      \/ \E s1 \in Shards, c \in Calls : SendAccept(s1, c)
      \/ UNCHANGED <<requested, log>>
  BY DEF Next, SubmitTransaction, ReturnToCaller, Execute, ExecutePrepareT, ExecuteAcceptT,
         ExecuteCreateObject, Job, BroadcastPrepared, BroadcastAccepted, ReplyToClient,
         Terminating, vars, orderVars
<1> QED
  BY <1>1, <1>2, <1>3, <1>4, <1>5

\* A replica answers the requests of its shard in their order, and keeps the rows of
\* the transactions it has taken (TreeMapServer.checkPrepareT, checkAcceptT).
LEMMA AnswerStep ==
  ASSUME Types, [Next]_vars, NEW s \in Shards, NEW r \in Replicas
  PROVE  LET q == NextRequest(s, r)
         IN /\ stored[s][r] \subseteq stored'[s][r]
            /\ \/ answers'[s][r] = answers[s][r]
               \/ /\ Pending(s, r)
                  /\ log'[s] = log[s]
                  /\ \E a \in Answers :
                       /\ answers'[s][r] = Append(answers[s][r], a)
                       /\ a = "PREPARED_T_COMMIT" =>
                            /\ q.op = "PREPARE_T"
                            /\ TxOf[q.call] \notin stored[s][r]
                            /\ TxOf[q.call] \in stored'[s][r]
                       /\ a = "ACCEPTED_T_COMMIT" =>
                            "PREPARED_T_COMMIT" \in flags[s][r][TxOf[q.call]]
                       /\ a = "ACCEPTED_T_ABORT" /\ "checkAcceptT" \notin Expiring =>
                            "PREPARED_T_ABORT" \in flags[s][r][TxOf[q.call]]
<1>1. CASE \E s1 \in Shards, r1 \in Replicas : Execute(s1, r1)
  <2>1. PICK s1 \in Shards, r1 \in Replicas : Execute(s1, r1)
    BY <1>1
  <2> DEFINE q == NextRequest(s1, r1)
             t == TxOf[q.call]
  <2>2. ASSUME NEW a \in Answers, Answer(s1, r1, a)
        PROVE  /\ answers'[s1][r1] = Append(answers[s1][r1], a)
               /\ s # s1 \/ r # r1 => answers'[s][r] = answers[s][r]
    BY <2>2 DEF Answer, Types
  <2>3. CASE ExecutePrepareT(s1, r1)
    <3>1. PICK a \in PrepareReplies :
             /\ Answer(s1, r1, a)
             /\ a = "PREPARED_T_COMMIT" => t \notin stored[s1][r1] /\ t \in stored'[s1][r1]
      BY <2>3, AnswerOfPrepare
    <3>2. stored[s][r] \subseteq stored'[s][r]
      <4>1. stored \in [Shards -> [Replicas -> SUBSET Txs]]
        BY DEF Types
      <4> QED
        BY <2>3, <4>1, StoredByPrepare
    <3>3. a \in Answers /\ a # "ACCEPTED_T_COMMIT" /\ a # "ACCEPTED_T_ABORT"
      BY DEF Answers, PrepareReplies, PreparedTypes
    <3>4. Pending(s1, r1) /\ q.op = "PREPARE_T" /\ log' = log
      BY <2>3 DEF ExecutePrepareT
    <3>5. CASE s = s1 /\ r = r1
      BY <2>2, <3>1, <3>2, <3>3, <3>4, <3>5
    <3> QED
      BY <2>2, <3>1, <3>2, <3>3, <3>5
  <2>4. CASE ExecuteAcceptT(s1, r1)
    <3>1. /\ CheckAcceptT(s1, r1, t) \in Answers \ {"PREPARED_T_COMMIT"}
          /\ CheckAcceptT(s1, r1, t) = "ACCEPTED_T_COMMIT" =>
               "PREPARED_T_COMMIT" \in flags[s1][r1][t]
          /\ CheckAcceptT(s1, r1, t) = "ACCEPTED_T_ABORT" /\ SequencedPrepare(s1, r1, t) =>
               "PREPARED_T_ABORT" \in flags[s1][r1][t]
      BY DEF CheckAcceptT, SequencedPrepare, PreparedTypes, Answers, AcceptedTypes
    <3>2. /\ Answer(s1, r1, CheckAcceptT(s1, r1, t)) /\ Pending(s1, r1)
          /\ log' = log /\ stored' = stored
          /\ SequencedPrepare(s1, r1, t) \/ "checkAcceptT" \in Expiring
      BY <2>4 DEF ExecuteAcceptT, AcceptWaitEnds, storeVars
    <3>3. CASE s = s1 /\ r = r1
      BY <2>2, <3>1, <3>2, <3>3
    <3> QED
      BY <2>2, <3>1, <3>2, <3>3
  <2>5. CASE ExecuteCreateObject(s1, r1)
    <3>1. /\ Answer(s1, r1, "null") /\ Pending(s1, r1)
          /\ log' = log /\ stored' = stored
      BY <2>5 DEF ExecuteCreateObject
    <3>2. "null" \in Answers
      BY DEF Answers
    <3>3. CASE s = s1 /\ r = r1
      BY <2>2, <3>1, <3>2, <3>3
    <3> QED
      BY <2>2, <3>1, <3>2, <3>3
  <2> QED
    BY <2>1, <2>3, <2>4, <2>5 DEF Execute
<1>2. CASE UNCHANGED <<answers, stored>>
  BY <1>2
<1>3. \/ \E s1 \in Shards, r1 \in Replicas : Execute(s1, r1)
      \/ UNCHANGED <<answers, stored>>
  <2>1. ASSUME NEW m \in inbox, Handle(m)
        PROVE  UNCHANGED <<answers, stored>>
    BY <2>1 DEF Handle, HandleSubmit, HandlePreparedTAbort, HandlePreparedTCommit,
                HandleAcceptedTAbort, HandleAcceptedTCommit, storeVars, orderVars
  <2>2. ASSUME NEW s1 \in Shards, NEW c \in Calls, Job(s1, c)
        PROVE  UNCHANGED <<answers, stored>>
    BY <2>2 DEF Job, BroadcastPrepared, SendAccept, BroadcastAccepted, ReplyToClient,
                storeVars, orderVars
  <2> QED
    BY <2>1, <2>2
    DEF Next, SubmitTransaction, ReturnToCaller, Order, Terminating, vars, storeVars, orderVars
<1> QED
  BY <1>1, <1>2, <1>3

\* A flag PREPARED_T_* is set by that broadcast in the shard of the replica
\* (TreeMapServer.executePreparedTAbort, executePreparedTCommit).
LEMMA FlagStep ==
  ASSUME Types, [Next]_vars, NEW s \in Shards, NEW r \in Replicas, NEW t \in Txs,
         NEW f \in PreparedTypes, f \in flags'[s][r][t]
  PROVE  \/ f \in flags[s][r][t]
         \/ \E m \in inbox : m.type = f /\ m.shard = s /\ TxOf[m.call] = t
<1> USE DEF PreparedTypes
<1>1. CASE \E m \in inbox : Handle(m)
  <2>1. PICK m \in inbox : Handle(m)
    BY <1>1
  <2>2. m.shard \in Shards /\ m.replica \in Replicas /\ TxOf[m.call] \in Txs
    BY MessageFields DEF Types
  <2>3. flags \in [Shards -> [Replicas -> [Txs -> SUBSET TransactionSequence]]]
    BY DEF Types
  <2>4. ASSUME NEW field, SetFlag(m.shard, m.replica, TxOf[m.call], field)
        PROVE  \/ flags'[s][r][t] = flags[s][r][t]
               \/ m.shard = s /\ TxOf[m.call] = t /\ flags'[s][r][t] = flags[s][r][t] \cup {field}
    <3> DEFINE t1 == TxOf[m.call]
               new == IF t1 \in known[m.shard][m.replica]
                        THEN flags[m.shard][m.replica][t1] \cup {field}
                        ELSE flags[m.shard][m.replica][t1]
    <3>1. flags' = [flags EXCEPT ![m.shard][m.replica][t1] = new]
      BY <2>4 DEF SetFlag
    <3>2. CASE m.shard = s /\ m.replica = r /\ t1 = t
      <4>1. flags'[s][r][t] = new
        <5> HIDE DEF new
        <5> QED
          BY <2>2, <2>3, <3>1, <3>2
      <4> QED
        BY <3>2, <4>1
    <3>3. CASE ~(m.shard = s /\ m.replica = r /\ t1 = t)
      <4> HIDE DEF new
      <4> QED
        BY <2>2, <2>3, <3>1, <3>3
    <3> QED
      BY <3>2, <3>3
  <2>5. CASE HandleSubmit(m)
    <3>1. \E set \in SUBSET {"PREPARE_T"} :
            flags' = [flags EXCEPT ![m.shard][m.replica][TxOf[m.call]] = set]
      BY <2>5 DEF HandleSubmit
    <3> QED
      BY <2>2, <2>3, <3>1
  <2>6. CASE HandlePreparedTAbort(m)
    BY <2>4, <2>6 DEF HandlePreparedTAbort
  <2>7. CASE HandlePreparedTCommit(m)
    BY <2>4, <2>7 DEF HandlePreparedTCommit
  <2>8. CASE HandleAcceptedTAbort(m)
    BY <2>4, <2>8 DEF HandleAcceptedTAbort
  <2>9. CASE HandleAcceptedTCommit(m)
    BY <2>4, <2>9 DEF HandleAcceptedTCommit
  <2> QED
    BY <2>1, <2>5, <2>6, <2>7, <2>8, <2>9 DEF Handle
<1>2. CASE \E s1 \in Shards, c \in Calls : SendAccept(s1, c)
  <2>1. PICK s1 \in Shards, c \in Calls : SendAccept(s1, c)
    BY <1>2
  <2>2. AcceptOp(s1, c) # f
    BY DEF AcceptOp
  <2>3. TxOf[c] \in Txs /\ Initiator \in Replicas
    BY ShardAssumption, TransactionAssumption
  <2>4. flags \in [Shards -> [Replicas -> [Txs -> SUBSET TransactionSequence]]]
    BY DEF Types
  <2>5. flags' = [flags EXCEPT ![s1][Initiator][TxOf[c]] = @ \cup {AcceptOp(s1, c)}]
    BY <2>1 DEF SendAccept
  <2> QED
    BY <2>2, <2>3, <2>4, <2>5
<1>3. CASE UNCHANGED flags
  BY <1>3
<1> QED
  BY <1>1, <1>2, <1>3
  DEF Next, SubmitTransaction, ReturnToCaller, Order, Execute, ExecutePrepareT,
      ExecuteAcceptT, ExecuteCreateObject, Job, BroadcastPrepared, BroadcastAccepted,
      ReplyToClient, Terminating, vars, sequenceVars

\* A vote is taken from what prepare_t returns, a decision from what accept_t returns,
\* each in a stage of its own; a call is submitted and answered once
\* (TreeMapServer.appExecuteUnordered, MapClient.submitTransaction).
LEMMA JobStep ==
  ASSUME Types, [Next]_vars, NEW s \in Shards, NEW c \in Calls
  PROVE  LET sameVote == vote'[s][c] = vote[s][c]
             sameDecision == decision'[s][c] = decision[s][c]
         IN \/ pc'[s][c] = pc[s][c] /\ sameVote /\ sameDecision
            \/ /\ pc'[s][c] = "prepare" /\ sameVote /\ sameDecision
               /\ Message("TRANSACTION_SUBMIT", c, s, Initiator) \in inbox \ inbox'
            \/ /\ pc[s][c] = "prepare" /\ pc'[s][c] = "prepared"
               /\ vote'[s][c] \in PrepareReturns(s, c) /\ sameDecision
            \/ pc[s][c] = "prepared" /\ pc'[s][c] = "accept" /\ sameVote /\ sameDecision
            \/ /\ pc[s][c] = "accept" /\ pc'[s][c] = "accepted" /\ sameVote
               /\ \E a \in AcceptReturns(s, c) : decision'[s][c] = Decide(s, c, a)
            \/ pc[s][c] = "accepted" /\ pc'[s][c] = "done" /\ sameVote /\ sameDecision
<1>1. CASE \E m \in inbox : Handle(m)
  <2>1. PICK m \in inbox : Handle(m)
    BY <1>1
  <2>2. m \in Messages
    BY DEF Types
  <2>3. CASE HandleSubmit(m)
    <3>1. CASE m.replica = Initiator
      <4>1. m = Message("TRANSACTION_SUBMIT", m.call, m.shard, Initiator)
        BY <2>2, <2>3, <3>1 DEF HandleSubmit, Message, Messages
      <4>2. m \in inbox \ inbox'
        BY <2>3 DEF HandleSubmit, Receive
      <4>3. pc' = [pc EXCEPT ![m.shard][m.call] = "prepare"]
        BY <2>3, <3>1 DEF HandleSubmit
      <4>4. pc \in [Shards -> [Calls -> Stages]]
        BY DEF Types
      <4>5. vote' = vote /\ decision' = decision
        BY <2>3 DEF HandleSubmit
      <4> QED
        BY <4>1, <4>2, <4>3, <4>4, <4>5
    <3> QED
      BY <2>3, <3>1 DEF HandleSubmit
  <2>4. CASE UNCHANGED jobVars
    BY <2>4 DEF jobVars
  <2> QED
    BY <2>1, <2>3, <2>4
    DEF Handle, HandlePreparedTAbort, HandlePreparedTCommit, HandleAcceptedTAbort,
        HandleAcceptedTCommit
<1>2. CASE \E s1 \in Shards, c1 \in Calls : Job(s1, c1)
  <2>1. PICK s1 \in Shards, c1 \in Calls : Job(s1, c1)
    BY <1>2
  <2>2. CASE BroadcastPrepared(s1, c1)
    BY <2>2 DEF BroadcastPrepared, Types
  <2>3. CASE SendAccept(s1, c1)
    BY <2>3 DEF SendAccept, Types
  <2>4. CASE BroadcastAccepted(s1, c1)
    BY <2>4 DEF BroadcastAccepted, Types
  <2>5. CASE ReplyToClient(s1, c1)
    BY <2>5 DEF ReplyToClient, Types
  <2> QED
    BY <2>1, <2>2, <2>3, <2>4, <2>5 DEF Job
<1>3. CASE UNCHANGED jobVars
  BY <1>3 DEF jobVars
<1> QED
  BY <1>1, <1>2, <1>3
  DEF Next, SubmitTransaction, ReturnToCaller, Order, Execute, ExecutePrepareT,
      ExecuteAcceptT, ExecuteCreateObject, Terminating, vars

\* What is broadcast is what the sender has just voted or decided, and a client sends
\* a call once (MapClient.submitTransaction, broadcastBFTDecision).
LEMMA MessageStep ==
  ASSUME Types, [Next]_vars, NEW m \in inbox', m \notin inbox
  PROVE  /\ m \in Messages
         /\ m.type = "TRANSACTION_SUBMIT" =>
              /\ outcome[m.call] = "none" /\ outcome'[m.call] = "waiting"
              /\ m.shard \in TargetShards(TxOf[m.call])
         /\ m.type \in PreparedTypes => /\ vote'[m.shard][m.call] # "none"
                                       /\ m.type = PreparedType(vote'[m.shard][m.call])
         /\ m.type = "PREPARED_T_COMMIT" => vote'[m.shard][m.call] = "PREPARED_T_COMMIT"
         /\ m.type = "ACCEPTED_T_COMMIT" => decision'[m.shard][m.call] = "ACCEPTED_T_COMMIT"
<1>1. ASSUME NEW type, NEW c, NEW s, m \in Broadcast(type, c, s)
      PROVE  m.type = type /\ m.call = c /\ m.shard = s /\ m.replica \in Replicas
  BY <1>1 DEF Broadcast, Message
<1>2. CASE \E c \in Calls : SubmitTransaction(c)
  <2>1. PICK c \in Calls : SubmitTransaction(c)
    BY <1>2
  <2>2. PICK s \in TargetShards(TxOf[c]) : m \in Broadcast("TRANSACTION_SUBMIT", c, s)
    BY <2>1 DEF SubmitTransaction
  <2>3. m \in Messages
    BY <2>2, BroadcastType, ShardsOfTransaction, TransactionAssumption
  <2> QED
    BY <1>1, <2>1, <2>2, <2>3 DEF SubmitTransaction, PreparedTypes, Types
<1>3. CASE \E s \in Shards, c \in Calls : BroadcastPrepared(s, c)
  <2>1. PICK s \in Shards, c \in Calls : BroadcastPrepared(s, c)
    BY <1>3
  <2>2. PICK a : /\ vote' = [vote EXCEPT ![s][c] = a]
                 /\ inbox' = inbox \cup Broadcast(PreparedType(a), c, s)
                 /\ a \in PrepareReturns(s, c)
    BY <2>1 DEF BroadcastPrepared
  <2>3. m \in Broadcast(PreparedType(a), c, s) /\ PreparedType(a) \in PreparedTypes
    BY <2>2 DEF PreparedType, PreparedTypes
  <2>4. m \in Messages
    BY <2>3, BroadcastType
  <2>5. m.type = "PREPARED_T_COMMIT" => a = "PREPARED_T_COMMIT"
    BY <1>1, <2>3 DEF PreparedType
  <2>6. m.type = PreparedType(a) /\ m.call = c /\ m.shard = s
    BY <1>1, <2>3
  <2>7. vote'[s][c] = a /\ a # "none"
    BY <2>2 DEF PrepareReturns, PrepareReplies, PreparedTypes, Types
  <2> QED
    BY <2>3, <2>4, <2>5, <2>6, <2>7 DEF PreparedTypes
<1>4. CASE \E s \in Shards, c \in Calls : BroadcastAccepted(s, c)
  <2>1. PICK s \in Shards, c \in Calls : BroadcastAccepted(s, c)
    BY <1>4
  <2>2. PICK a : /\ decision' = [decision EXCEPT ![s][c] = a]
                 /\ inbox' = inbox \cup Broadcast(AcceptedType(a), c, s)
    BY <2>1 DEF BroadcastAccepted
  <2>3. m \in Broadcast(AcceptedType(a), c, s) /\ AcceptedType(a) \in AcceptedTypes
    BY <2>2 DEF AcceptedType, AcceptedTypes
  <2>4. m \in Messages
    BY <2>3, BroadcastType
  <2>5. m.type = "ACCEPTED_T_COMMIT" => a = "ACCEPTED_T_COMMIT"
    BY <1>1, <2>3 DEF AcceptedType
  <2>6. m.type \in AcceptedTypes /\ m.call = c /\ m.shard = s
    BY <1>1, <2>3
  <2> QED
    BY <2>2, <2>4, <2>5, <2>6 DEF AcceptedTypes, PreparedTypes, Types
<1>5. CASE inbox' \subseteq inbox
  BY <1>5
<1> QED
  BY ZenonT(60), <1>2, <1>3, <1>4, <1>5
  DEF Next, ReturnToCaller, Handle, HandleSubmit, HandlePreparedTAbort,
      HandlePreparedTCommit, HandleAcceptedTAbort, HandleAcceptedTCommit, Receive, Order,
      Execute, ExecutePrepareT, ExecuteAcceptT, ExecuteCreateObject, Job, SendAccept,
      ReplyToClient, Terminating, vars

\* A call is answered once, and with a commit only if every target shard has replied
\* with one (MapClient.processShardResponses).
LEMMA OutcomeStep ==
  ASSUME Types, WrittenOnce, [Next]_vars, NEW c \in Calls
  PROVE  \/ outcome'[c] = outcome[c]
         \/ outcome[c] = "none" /\ outcome'[c] = "waiting"
         \/ /\ outcome[c] = "waiting"
            /\ outcome'[c] \in Outcomes
            /\ outcome'[c] = "ACCEPTED_T_COMMIT" =>
                 \A s \in TargetShards(TxOf[c]) : decision[s][c] = "ACCEPTED_T_COMMIT"
<1>1. CASE \E d \in Calls : ReturnToCaller(d)
  <2>1. PICK d \in Calls : ReturnToCaller(d)
    BY <1>1
  <2> DEFINE targets == TargetShards(TxOf[d])
             replied == {s \in targets : pc[s][d] = "done"}
  <2>2. targets \subseteq Shards
    BY ShardsOfTransaction, TransactionAssumption
  <2>3. PICK a \in ProcessShardResponses(d, replied) : outcome' = [outcome EXCEPT ![d] = a]
    BY <2>1 DEF ReturnToCaller
  <2>4. ASSUME NEW s \in replied
        PROVE  /\ FinalResponse(s, d) \in Outcomes
               /\ FinalResponse(s, d) = "ACCEPTED_T_COMMIT" =>
                    decision[s][d] = "ACCEPTED_T_COMMIT"
    <3>1. s \in Shards /\ pc[s][d] = "done"
      BY <2>2
    <3>2. /\ vote[s][d] \in PrepareReplies \cup {"none"}
          /\ decision[s][d] \in AcceptReplies \cup {"none"}
      BY <3>1 DEF Types
    <3>3. vote[s][d] # "none" /\ decision[s][d] # "none"
      BY <3>1 DEF WrittenOnce
    <3> QED
      BY <3>2, <3>3 DEF FinalResponse, Outcomes, PrepareReplies, PreparedTypes
  <2>5. a \in Outcomes
    BY <2>3, <2>4 DEF ProcessShardResponses, Outcomes, AcceptReplies, AcceptedTypes
  <2>6. ASSUME a = "ACCEPTED_T_COMMIT"
        PROVE  \A s \in targets : decision[s][d] = "ACCEPTED_T_COMMIT"
    <3>1. /\ replied = targets
          /\ {FinalResponse(s, d) : s \in replied} \ {"ACCEPTED_T_COMMIT"} = {}
      BY <2>3, <2>6 DEF ProcessShardResponses
    <3>2. \A s \in replied : FinalResponse(s, d) = "ACCEPTED_T_COMMIT"
      BY <3>1
    <3> QED
      BY <2>4, <3>1, <3>2
  <2>7. outcome[d] = "waiting"
    BY <2>1 DEF ReturnToCaller
  <2> QED
    BY <2>3, <2>5, <2>6, <2>7 DEF Types
<1>2. CASE \E d \in Calls : SubmitTransaction(d)
  BY <1>2 DEF SubmitTransaction, Types
<1>3. CASE UNCHANGED outcome
  BY <1>3
<1> QED
  BY ZenonT(60), <1>1, <1>2, <1>3
  DEF Next, Handle, HandleSubmit, HandlePreparedTAbort, HandlePreparedTCommit,
      HandleAcceptedTAbort, HandleAcceptedTCommit, Order, Execute, ExecutePrepareT,
      ExecuteAcceptT, ExecuteCreateObject, Job, BroadcastPrepared, SendAccept,
      BroadcastAccepted, ReplyToClient, Terminating, vars

-----------------------------------------------------------------------------
(* The service of a shard *)

\* The order and the answers of a shard only grow (TreeMapServer.appExecuteBatch).
LEMMA LogKept ==
  ASSUME Types, WellFormed, [Next]_vars, NEW s \in Shards
  PROVE  /\ \A i \in DOMAIN log[s] : i \in DOMAIN log'[s] /\ log'[s][i] = log[s][i]
         /\ \A r \in Replicas : \A i \in DOMAIN answers[s][r] :
              /\ i \in DOMAIN log[s]
              /\ i \in DOMAIN answers'[s][r]
              /\ answers'[s][r][i] = answers[s][r][i]
<1>1. log[s] \in Seq(Requests)
  BY DEF Types
<1>2. \A i \in DOMAIN log[s] : i \in DOMAIN log'[s] /\ log'[s][i] = log[s][i]
  <2>1. \/ log'[s] = log[s]
        \/ \E q \in requested[s] : log'[s] = Append(log[s], q)
    BY OrderStep
  <2> QED
    BY <1>1, <2>1
<1>3. ASSUME NEW r \in Replicas, NEW i \in DOMAIN answers[s][r]
      PROVE  /\ i \in DOMAIN log[s]
             /\ i \in DOMAIN answers'[s][r]
             /\ answers'[s][r][i] = answers[s][r][i]
  <2>1. answers[s][r] \in Seq(Answers) /\ Len(answers[s][r]) <= Len(log[s])
    BY DEF Types, WellFormed
  <2>2. \/ answers'[s][r] = answers[s][r]
        \/ \E a \in Answers : answers'[s][r] = Append(answers[s][r], a)
    BY AnswerStep
  <2> QED
    BY SMTT(40), <1>1, <2>1, <2>2
<1> QED
  BY <1>2, <1>3

\* The shape of a shard's service (TreeMapServer.setTransactionInputStatus,
\* MapClient.mapObjectToShard; the BFT service).
LEMMA WellFormedStep ==
  ASSUME Types, WellFormed, Types', [Next]_vars
  PROVE  WellFormed'
<1> SUFFICES ASSUME NEW s \in Shards
             PROVE  /\ \A r \in Replicas, o \in Objects :
                         ShardOf[o] # s => table'[s][r][o] = "NONE"
                    /\ Ordered(s)' \subseteq requested'[s]
                    /\ \A i, j \in DOMAIN log'[s] : log'[s][i] = log'[s][j] => i = j
                    /\ \A r \in Replicas : Len(answers'[s][r]) <= Len(log'[s])
  BY DEF WellFormed
<1>1. log[s] \in Seq(Requests)
  BY DEF Types
<1>2. /\ requested[s] \subseteq requested'[s]
      /\ \/ log'[s] = log[s]
         \/ \E q \in requested[s] \ Ordered(s) : log'[s] = Append(log[s], q)
  BY OrderStep
<1>3. ASSUME NEW r \in Replicas, NEW o \in Objects, ShardOf[o] # s
      PROVE  table'[s][r][o] = "NONE"
  <2>1. table[s][r][o] = "NONE"
    BY <1>3 DEF WellFormed
  <2> QED
    BY <1>3, <2>1, TableStep DEF Managed
<1>4. Ordered(s)' \subseteq requested'[s]
  <2>1. Ordered(s) \subseteq requested[s]
    BY DEF WellFormed
  <2>2. ASSUME NEW q \in requested[s], log'[s] = Append(log[s], q)
        PROVE  Ordered(s)' \subseteq Ordered(s) \cup {q}
    BY <1>1, <2>2 DEF Ordered
  <2>3. log'[s] = log[s] => Ordered(s)' = Ordered(s)
    BY DEF Ordered
  <2> QED
    BY <1>2, <2>1, <2>2, <2>3
<1>5. \A i, j \in DOMAIN log'[s] : log'[s][i] = log'[s][j] => i = j
  <2>1. \A i, j \in DOMAIN log[s] : log[s][i] = log[s][j] => i = j
    BY DEF WellFormed
  <2>2. ASSUME NEW q, q \notin Ordered(s), log'[s] = Append(log[s], q)
        PROVE  \A i, j \in DOMAIN log'[s] : log'[s][i] = log'[s][j] => i = j
    <3>1. \A i \in DOMAIN log[s] : log[s][i] # q
      BY <2>2 DEF Ordered
    <3>2. /\ DOMAIN log'[s] = 1..(Len(log[s]) + 1) /\ DOMAIN log[s] = 1..Len(log[s])
          /\ Len(log[s]) \in Nat
          /\ \A i \in 1..Len(log[s]) : log'[s][i] = log[s][i]
          /\ log'[s][Len(log[s]) + 1] = q
      BY <1>1, <2>2
    <3> QED
      BY SMTT(40), <2>1, <3>1, <3>2
  <2> QED
    BY <1>2, <2>1, <2>2
<1>6. ASSUME NEW r \in Replicas
      PROVE  Len(answers'[s][r]) <= Len(log'[s])
  <2>1. answers[s][r] \in Seq(Answers) /\ Len(answers[s][r]) <= Len(log[s])
    BY DEF Types, WellFormed
  <2>2. Len(log[s]) <= Len(log'[s])
    BY <1>1, <1>2
  <2>3. CASE answers'[s][r] = answers[s][r]
    BY <1>1, <2>1, <2>2, <2>3 DEF Types
  <2>4. CASE /\ Pending(s, r) /\ log'[s] = log[s]
             /\ \E a \in Answers : answers'[s][r] = Append(answers[s][r], a)
    BY <1>1, <2>1, <2>4 DEF Pending
  <2> QED
    BY <2>3, <2>4, AnswerStep
<1> QED
  BY <1>3, <1>4, <1>5, <1>6

\* The type invariant (TreeMapServer.table, sequences; the BFT service).
THEOREM TypeCorrect == Spec => []TypeOK
<1>1. Init => WellFormed
  BY TransactionAssumption DEF Init, WellFormed, Ordered
<1>2. Types /\ Types' /\ WellFormed /\ [Next]_vars => WellFormed'
  BY WellFormedStep
<1> QED
  BY <1>1, <1>2, TypesCorrect, PTL DEF Spec, TypeOK

\* A consumed object that no transaction creates stays consumed
\* (TreeMapServer.executeAcceptedTAbort).
THEOREM SpentStaysSpentCorrect == Spec => SpentStaysSpent
<1>1. ASSUME Types, [Next]_vars, NEW s \in Shards, NEW r \in Replicas, NEW o \in Objects,
             table[s][r][o] = "INACTIVE", \A t \in Txs : o \notin Outputs[t]
      PROVE  table'[s][r][o] = "INACTIVE"
  <2>1. \A i \in DOMAIN log[s] : TxOf[log[s][i].call] \in Txs
    <3>1. log[s] \in Seq(Requests)
      BY <1>1 DEF Types
    <3>2. \A i \in DOMAIN log[s] : log[s][i] \in Requests
      BY <3>1, ElementOfSeq
    <3> QED
      BY <3>2, TransactionAssumption DEF Requests
  <2> QED
    BY <1>1, <2>1, TableStep
<1>2. Types /\ [Next]_vars =>
        [\A s \in Shards, r \in Replicas, o \in Objects :
           table[s][r][o] = "INACTIVE" /\ (\A t \in Txs : o \notin Outputs[t]) =>
             table'[s][r][o] = "INACTIVE"]_table
  BY <1>1
<1> QED
  BY <1>2, TypesCorrect, PTL DEF Spec, SpentStaysSpent

-----------------------------------------------------------------------------
(* Commit validity *)

\* More than half of the replicas are a quorum, and a quorum is never empty
\* (MapClient.getReplyQuorum).
LEMMA QuorumMajority ==
  /\ Cardinality(Replicas) \in Nat
  /\ Quorum \in Nat /\ Quorum > 0
  /\ 2 * Quorum > Cardinality(Replicas)
<1>1. Cardinality(Replicas) \in Nat /\ F \in Nat
  BY ShardAssumption, FS_CardinalityType
<1> QED
  BY <1>1 DEF Quorum

\* Reply quorums of a shard have a replica in common (MapClient.getReplyQuorum).
LEMMA QuorumsIntersect ==
  ASSUME NEW P \in SUBSET Replicas, NEW Q \in SUBSET Replicas,
         Quorum <= Cardinality(P), Quorum <= Cardinality(Q)
  PROVE  P \cap Q # {}
<1>1. IsFiniteSet(Replicas) /\ IsFiniteSet(P) /\ IsFiniteSet(Q)
  BY ShardAssumption, FS_Subset
<1>2. Cardinality(P) \in Nat /\ Cardinality(Q) \in Nat
  BY <1>1, FS_CardinalityType
<1>3. Cardinality(P) + Cardinality(Q) > Cardinality(Replicas)
  BY <1>2, QuorumMajority
<1> QED
  BY <1>1, <1>3, FS_MajoritiesIntersect

\* A reply quorum is not taken back (ReplyListenerAsynchQuorum).
LEMMA AnsweredStable ==
  ASSUME Types, WellFormed, [Next]_vars, NEW s \in Shards, NEW q, NEW a, Answered(s, q, a)
  PROVE  Answered(s, q, a)'
<1> DEFINE Same(i)  == {r \in Replicas : i \in DOMAIN answers[s][r] /\ answers[s][r][i] = a}
           Later(i) == {r \in Replicas : i \in DOMAIN answers'[s][r] /\ answers'[s][r][i] = a}
<1>1. PICK i \in DOMAIN log[s] : log[s][i] = q /\ Quorum <= Cardinality(Same(i))
  BY DEF Answered
<1>2. Same(i) \subseteq Later(i) /\ Later(i) \subseteq Replicas
  BY LogKept
<1>3. Quorum <= Cardinality(Later(i))
  <2>1. IsFiniteSet(Later(i)) /\ IsFiniteSet(Same(i))
    BY <1>2, ShardAssumption, FS_Subset
  <2>2. Cardinality(Same(i)) <= Cardinality(Later(i))
    BY <1>2, <2>1, FS_Subset
  <2>3. Cardinality(Same(i)) \in Nat /\ Cardinality(Later(i)) \in Nat
    BY <2>1, FS_CardinalityType
  <2> QED
    BY <1>1, <2>2, <2>3, QuorumMajority
<1>4. i \in DOMAIN log'[s] /\ log'[s][i] = q
  BY <1>1, LogKept
<1> QED
  BY <1>3, <1>4 DEF Answered

\* A majority that has prepared a transaction stays one (TreeMapServer.checkPrepareT).
LEMMA PreparedStable ==
  ASSUME Types, WellFormed, [Next]_vars, NEW s \in Shards, NEW t, PreparedByMajority(s, t)
  PROVE  PreparedByMajority(s, t)'
<1>1. PreparedAt(s, t) \subseteq PreparedAt(s, t)' /\ PreparedAt(s, t)' \subseteq Replicas
  BY LogKept DEF PreparedAt
<1>2. /\ IsFiniteSet(PreparedAt(s, t)) /\ IsFiniteSet(PreparedAt(s, t)')
      /\ Cardinality(PreparedAt(s, t)) <= Cardinality(PreparedAt(s, t)')
  BY <1>1, ShardAssumption, FS_Subset
<1>3. Cardinality(PreparedAt(s, t)) \in Nat /\ Cardinality(PreparedAt(s, t)') \in Nat
  BY <1>2, FS_CardinalityType
<1> QED
  BY <1>2, <1>3, QuorumMajority DEF PreparedByMajority

\* The quorum that answers a PREPARE_T with a commit is a majority that has prepared it
\* (MapClient.prepare_t, TreeMapServer.checkPrepareT).
LEMMA AnsweredByMajority ==
  ASSUME NEW s \in Shards, NEW c \in Calls,
         Answered(s, Request("PREPARE_T", c, s), "PREPARED_T_COMMIT")
  PROVE  PreparedByMajority(s, TxOf[c])
<1>1. PICK i \in DOMAIN log[s] :
         /\ log[s][i] = Request("PREPARE_T", c, s)
         /\ Quorum <= Cardinality({r \in Replicas : i \in DOMAIN answers[s][r]
                                     /\ answers[s][r][i] = "PREPARED_T_COMMIT"})
  BY DEF Answered
<1> DEFINE Q == {r \in Replicas : i \in DOMAIN answers[s][r]
                                    /\ answers[s][r][i] = "PREPARED_T_COMMIT"}
<1>2. log[s][i].op = "PREPARE_T" /\ log[s][i].call = c
  BY <1>1 DEF Request
<1>3. Q \subseteq PreparedAt(s, TxOf[c]) /\ PreparedAt(s, TxOf[c]) \subseteq Replicas
  BY <1>2 DEF PreparedAt
<1>4. /\ IsFiniteSet(Q) /\ IsFiniteSet(PreparedAt(s, TxOf[c]))
      /\ Cardinality(Q) <= Cardinality(PreparedAt(s, TxOf[c]))
  BY <1>3, ShardAssumption, FS_Subset
<1>5. Cardinality(Q) \in Nat /\ Cardinality(PreparedAt(s, TxOf[c])) \in Nat
  BY <1>4, FS_CardinalityType
<1> QED
  BY <1>1, <1>4, <1>5, QuorumMajority DEF PreparedByMajority

\* Some replica gave the answer of a reply quorum (ReplyListenerAsynchQuorum).
LEMMA AnsweredBySome ==
  ASSUME NEW s, NEW q, NEW a, Answered(s, q, a)
  PROVE  \E r \in Replicas : \E i \in DOMAIN answers[s][r] :
           answers[s][r][i] = a /\ log[s][i] = q
<1>1. PICK i \in DOMAIN log[s] :
         /\ log[s][i] = q
         /\ Quorum <= Cardinality({r \in Replicas :
                        i \in DOMAIN answers[s][r] /\ answers[s][r][i] = a})
  BY DEF Answered
<1> DEFINE Q == {r \in Replicas : i \in DOMAIN answers[s][r] /\ answers[s][r][i] = a}
<1>2. Q # {}
  <2>1. Quorum <= Cardinality(Q) /\ Cardinality({}) = 0
    BY <1>1, FS_EmptySet
  <2>2. ASSUME Q = {}
        PROVE  Quorum <= 0
    BY <2>1, <2>2
  <2> QED
    BY <2>2, QuorumMajority
<1> QED
  BY <1>1, <1>2

\* A vote to commit, cast earlier or in this step, has a majority behind it already
\* (MapClient.prepare_t).
LEMMA VoteByMajority ==
  ASSUME Types, VoteBacked, [Next]_vars, NEW s \in Shards, NEW c \in Calls,
         vote'[s][c] = "PREPARED_T_COMMIT"
  PROVE  PreparedByMajority(s, TxOf[c])
<1>1. Answered(s, Request("PREPARE_T", c, s), "PREPARED_T_COMMIT")
  BY JobStep DEF VoteBacked, PrepareReturns
<1> QED
  BY <1>1, AnsweredByMajority

\* A vote to commit keeps its quorum (TreeMapServer.appExecuteUnordered, MapClient.prepare_t).
LEMMA VoteBackedStep ==
  ASSUME Types, WellFormed, VoteBacked, [Next]_vars
  PROVE  VoteBacked'
<1> SUFFICES ASSUME NEW s \in Shards, NEW c \in Calls,
                    vote'[s][c] = "PREPARED_T_COMMIT"
             PROVE  Answered(s, Request("PREPARE_T", c, s), "PREPARED_T_COMMIT")'
  BY DEF VoteBacked, Request
<1>1. CASE vote'[s][c] = vote[s][c]
  BY <1>1, AnsweredStable DEF VoteBacked
<1>2. CASE vote'[s][c] \in PrepareReturns(s, c)
  BY <1>2, AnsweredStable DEF PrepareReturns
<1> QED
  BY <1>1, <1>2, JobStep

\* The invariant of commit validity is inductive (TreeMapServer.appExecuteUnordered,
\* checkAcceptT, executePreparedTCommit; MapClient.accept_t).
LEMMA CommitInvStep ==
  ASSUME CommitInv, Types', [Next]_vars
  PROVE  CommitInv'
<1>1. Types /\ WellFormed
  BY DEF CommitInv, TypeOK
<1>2. VoteBacked'
  BY <1>1, VoteBackedStep DEF CommitInv
<1>3. MessageBacked'
  <2> SUFFICES ASSUME NEW m \in inbox', m.type = "PREPARED_T_COMMIT"
               PROVE  PreparedByMajority(m.shard, TxOf[m.call])'
    BY DEF MessageBacked
  <2>1. CASE m \in inbox
    <3>1. m.shard \in Shards
      BY <1>1, <2>1, MessageFields DEF Types
    <3> QED
      BY <1>1, <2>1, <3>1, PreparedStable DEF CommitInv, MessageBacked
  <2>2. CASE m \notin inbox
    <3>1. m \in Messages /\ vote'[m.shard][m.call] = "PREPARED_T_COMMIT"
      BY <1>1, <2>2, MessageStep
    <3>2. m.shard \in Shards /\ m.call \in Calls
      BY <3>1, MessageFields
    <3> QED
      BY <1>1, <3>1, <3>2, VoteByMajority, PreparedStable DEF CommitInv
  <2> QED
    BY <2>1, <2>2
<1>4. FlagBacked'
  <2> SUFFICES ASSUME NEW s \in Shards, NEW r \in Replicas, NEW t \in Txs,
                      "PREPARED_T_COMMIT" \in flags'[s][r][t]
               PROVE  PreparedByMajority(s, t)'
    BY DEF FlagBacked
  <2>1. PreparedByMajority(s, t)
    BY <1>1, FlagStep DEF CommitInv, FlagBacked, MessageBacked, PreparedTypes
  <2> QED
    BY <1>1, <2>1, PreparedStable
<1>5. AnswerBacked'
  <2> SUFFICES ASSUME NEW s \in Shards, NEW r \in Replicas, NEW i \in DOMAIN answers'[s][r],
                      answers'[s][r][i] = "ACCEPTED_T_COMMIT",
                      NEW t, t = TxOf[log'[s][i].call]
               PROVE  PreparedByMajority(s, t)'
    BY DEF AnswerBacked, PreparedByMajority, PreparedAt
  <2>1. CASE i \in DOMAIN answers[s][r]
    <3>1. answers[s][r][i] = "ACCEPTED_T_COMMIT" /\ log'[s][i] = log[s][i]
      BY <1>1, <2>1, LogKept
    <3> QED
      BY <1>1, <2>1, <3>1, PreparedStable DEF CommitInv, AnswerBacked
  <2>2. CASE i \notin DOMAIN answers[s][r]
    <3> DEFINE q == NextRequest(s, r)
    <3>1. /\ Pending(s, r) /\ log'[s] = log[s]
          /\ \E a \in Answers :
               /\ answers'[s][r] = Append(answers[s][r], a)
               /\ a = "ACCEPTED_T_COMMIT" => "PREPARED_T_COMMIT" \in flags[s][r][TxOf[q.call]]
      BY <1>1, <2>2, AnswerStep
    <3>2. answers[s][r] \in Seq(Answers)
      BY <1>1 DEF Types
    <3>3. /\ i = Len(answers[s][r]) + 1 /\ log'[s][i] = q
          /\ "PREPARED_T_COMMIT" \in flags[s][r][TxOf[q.call]]
      <4>1. PICK a \in Answers :
               /\ answers'[s][r] = Append(answers[s][r], a)
               /\ a = "ACCEPTED_T_COMMIT" =>
                    "PREPARED_T_COMMIT" \in flags[s][r][TxOf[q.call]]
        BY <3>1
      <4>2. i = Len(answers[s][r]) + 1 /\ answers'[s][r][i] = a
        BY <2>2, <3>2, <4>1
      <4>3. log'[s][i] = q
        BY <3>1, <4>2 DEF NextRequest
      <4> QED
        BY <4>1, <4>2, <4>3
    <3>4. TxOf[q.call] \in Txs
      BY <1>1, <3>1, NextRequestType
    <3> QED
      BY <1>1, <3>3, <3>4, PreparedStable DEF CommitInv, FlagBacked
  <2> QED
    BY <2>1, <2>2
<1>6. CommitBackedByPrepares'
  <2> SUFFICES ASSUME NEW s \in Shards, NEW c \in Calls,
                      decision'[s][c] = "ACCEPTED_T_COMMIT",
                      NEW z \in InputShards(TxOf[c])
               PROVE  PreparedByMajority(z, TxOf[c])'
    BY DEF CommitBackedByPrepares
  <2>1. z \in Shards
    BY ShardsOfTransaction, TransactionAssumption
  <2>2. CASE decision'[s][c] = decision[s][c]
    BY <1>1, <2>1, <2>2, PreparedStable DEF CommitInv, CommitBackedByPrepares
  <2>3. CASE \E a \in AcceptReturns(s, c) : decision'[s][c] = Decide(s, c, a)
    <3>1. "ACCEPTED_T_COMMIT" \in AcceptVerdict(s, c)
      BY <2>3 DEF Decide, AcceptReturns
    <3>2. AcceptReplied(z, s, c, "ACCEPTED_T_COMMIT")
      BY <3>1 DEF AcceptVerdict
    <3>3. PICK r \in Replicas : \E i \in DOMAIN answers[z][r] :
             /\ answers[z][r][i] = "ACCEPTED_T_COMMIT"
             /\ log[z][i] = Request(AcceptOp(s, c), c, s)
      BY <3>2, AnsweredBySome DEF AcceptReplied
    <3>4. PreparedByMajority(z, TxOf[c])
      BY <2>1, <3>3 DEF CommitInv, AnswerBacked, Request
    <3> QED
      BY <1>1, <2>1, <3>4, PreparedStable
  <2> QED
    BY <1>1, <2>2, <2>3, JobStep
<1> QED
  BY <1>1, <1>2, <1>3, <1>4, <1>5, <1>6, WellFormedStep DEF CommitInv, TypeOK

\* A shard decides to commit only what a majority of every input shard has prepared
\* (MapClient.prepare_t, accept_t; TreeMapServer.checkAcceptT).
THEOREM CommitBackedByPreparesCorrect == Spec => []CommitBackedByPrepares
<1>1. Init => VoteBacked /\ MessageBacked /\ FlagBacked /\ AnswerBacked /\ CommitBackedByPrepares
  BY DEF Init, VoteBacked, MessageBacked, FlagBacked, AnswerBacked, CommitBackedByPrepares
<1>2. CommitInv /\ Types' /\ [Next]_vars => CommitInv'
  BY CommitInvStep
<1>3. CommitInv => CommitBackedByPrepares
  BY DEF CommitInv
<1>4. Init /\ TypeOK => CommitInv
  BY <1>1 DEF CommitInv
<1> QED
  BY <1>2, <1>3, <1>4, TypeCorrect, TypesCorrect, PTL DEF Spec

-----------------------------------------------------------------------------
(* Retries *)

\* What a replica answers PREPARED_T_COMMIT was a PREPARE_T whose rows it has kept
\* (TreeMapServer.checkPrepareT, SQLiteConnector.logTransaction).
LEMMA PrepareStoredStep ==
  ASSUME Types, WellFormed, PrepareStored, [Next]_vars
  PROVE  PrepareStored'
<1> SUFFICES ASSUME NEW s \in Shards, NEW r \in Replicas, NEW i \in DOMAIN answers'[s][r],
                    answers'[s][r][i] = "PREPARED_T_COMMIT"
             PROVE  log'[s][i].op = "PREPARE_T" /\ TxOf[log'[s][i].call] \in stored'[s][r]
  BY DEF PrepareStored
<1>1. CASE i \in DOMAIN answers[s][r]
  <2>1. /\ answers[s][r][i] = "PREPARED_T_COMMIT" /\ log'[s][i] = log[s][i]
        /\ stored[s][r] \subseteq stored'[s][r]
    BY <1>1, LogKept, AnswerStep
  <2> QED
    BY <1>1, <2>1 DEF PrepareStored
<1>2. CASE i \notin DOMAIN answers[s][r]
  <2> DEFINE q == NextRequest(s, r)
  <2>1. /\ log'[s] = log[s]
        /\ \E a \in Answers :
             /\ answers'[s][r] = Append(answers[s][r], a)
             /\ a = "PREPARED_T_COMMIT" => q.op = "PREPARE_T" /\ TxOf[q.call] \in stored'[s][r]
    BY <1>2, AnswerStep
  <2>2. answers[s][r] \in Seq(Answers)
    BY DEF Types
  <2>3. log'[s][i] = q /\ q.op = "PREPARE_T" /\ TxOf[q.call] \in stored'[s][r]
    BY <1>2, <2>1, <2>2 DEF NextRequest
  <2> QED
    BY <2>3
<1> QED
  BY <1>1, <1>2

\* A replica answers PREPARED_T_COMMIT for a transaction once, since the rows of the
\* first time refuse the second (Core.processTransaction, UNIQUE columns).
LEMMA PreparedOnceStep ==
  ASSUME Types, WellFormed, PrepareStored, PreparedOnce, [Next]_vars
  PROVE  PreparedOnce'
<1> SUFFICES ASSUME NEW s \in Shards, NEW r \in Replicas,
                    NEW i \in DOMAIN answers'[s][r], NEW j \in DOMAIN answers'[s][r],
                    answers'[s][r][i] = "PREPARED_T_COMMIT",
                    answers'[s][r][j] = "PREPARED_T_COMMIT",
                    TxOf[log'[s][i].call] = TxOf[log'[s][j].call]
             PROVE  i = j
  BY DEF PreparedOnce
<1> DEFINE q == NextRequest(s, r)
           old == DOMAIN answers[s][r]
<1>1. ASSUME NEW k \in old
      PROVE  log'[s][k] = log[s][k] /\ answers'[s][r][k] = answers[s][r][k]
  BY LogKept
<1>2. CASE i \in old /\ j \in old
  BY <1>1, <1>2 DEF PreparedOnce
<1>3. ASSUME NEW k \in DOMAIN answers'[s][r], k \notin old,
             answers'[s][r][k] = "PREPARED_T_COMMIT"
      PROVE  /\ k = Len(answers[s][r]) + 1
             /\ TxOf[log'[s][k].call] \notin stored[s][r]
  <2>1. /\ log'[s] = log[s]
        /\ \E a \in Answers :
             /\ answers'[s][r] = Append(answers[s][r], a)
             /\ a = "PREPARED_T_COMMIT" => TxOf[q.call] \notin stored[s][r]
    BY <1>3, AnswerStep
  <2>2. answers[s][r] \in Seq(Answers)
    BY DEF Types
  <2> QED
    BY <1>3, <2>1, <2>2 DEF NextRequest
<1>4. ASSUME NEW k \in old, answers'[s][r][k] = "PREPARED_T_COMMIT"
      PROVE  TxOf[log'[s][k].call] \in stored[s][r]
  BY <1>1, <1>4 DEF PrepareStored
<1>5. i \in old <=> j \in old
  BY <1>3, <1>4
<1> QED
  BY <1>2, <1>3, <1>5

\* In a shard at most one of the calls of a transaction is voted for, however many there
\* are (Core.processTransaction, UNIQUE columns of logs and data; MapClient.getReplyQuorum).
THEOREM OneVotePerTransactionCorrect == Spec => []OneVotePerTransaction
<1>1. Init => VoteBacked /\ PrepareStored /\ PreparedOnce
  BY DEF Init, VoteBacked, PrepareStored, PreparedOnce
<1>2. RetryInv /\ Types' /\ [Next]_vars => RetryInv'
  BY VoteBackedStep, PrepareStoredStep, PreparedOnceStep, WellFormedStep DEF RetryInv, TypeOK
<1>3. RetryInv => OneVotePerTransaction
  <2> SUFFICES ASSUME RetryInv, NEW s \in Shards, NEW c \in Calls, NEW d \in Calls,
                      TxOf[c] = TxOf[d],
                      vote[s][c] = "PREPARED_T_COMMIT", vote[s][d] = "PREPARED_T_COMMIT"
               PROVE  c = d
    BY DEF OneVotePerTransaction
  <2> DEFINE Same(i) == {r \in Replicas : /\ i \in DOMAIN answers[s][r]
                                          /\ answers[s][r][i] = "PREPARED_T_COMMIT"}
  <2>1. PICK i : log[s][i] = Request("PREPARE_T", c, s) /\ Quorum <= Cardinality(Same(i))
    BY DEF RetryInv, VoteBacked, Answered
  <2>2. PICK j : log[s][j] = Request("PREPARE_T", d, s) /\ Quorum <= Cardinality(Same(j))
    BY DEF RetryInv, VoteBacked, Answered
  <2>3. PICK r \in Replicas : r \in Same(i) \cap Same(j)
    BY <2>1, <2>2, QuorumsIntersect
  <2>4. log[s][i].call = c /\ log[s][j].call = d
    BY <2>1, <2>2 DEF Request
  <2>5. i = j
    BY <2>3, <2>4 DEF RetryInv, PreparedOnce
  <2> QED
    BY <2>4, <2>5
<1>4. Init /\ TypeOK => RetryInv
  BY <1>1 DEF RetryInv
<1> QED
  BY <1>2, <1>3, <1>4, TypeCorrect, TypesCorrect, PTL DEF Spec

-----------------------------------------------------------------------------
(* What a client is told, and why an object has its status *)

\* A job runs once for a call, and sets its vote and its decision once
\* (TreeMapServer.appExecuteUnordered, MapClient.submitTransaction).
LEMMA JobInvStep ==
  ASSUME JobInv, Types', [Next]_vars
  PROVE  JobInv'
<1>1. Types /\ WellFormed
  BY DEF JobInv, TypeOK
<1>2. SubmittedOnce'
  <2> SUFFICES ASSUME NEW s \in Shards, NEW c \in Calls
               PROVE  /\ outcome'[c] = "none" => pc'[s][c] = "idle"
                      /\ outcome'[c] = "none" \/ pc'[s][c] # "idle" =>
                           Message("TRANSACTION_SUBMIT", c, s, Initiator) \notin inbox'
    BY DEF SubmittedOnce, Message
  <2> DEFINE m == Message("TRANSACTION_SUBMIT", c, s, Initiator)
  <2>1. m.type = "TRANSACTION_SUBMIT" /\ m.call = c
    BY DEF Message
  <2>2. m \in inbox' => m \in inbox \/ (outcome[c] = "none" /\ outcome'[c] = "waiting")
    BY <1>1, <2>1, MessageStep
  <2>3. outcome'[c] = "none" => outcome[c] = "none"
    BY <1>1, OutcomeStep DEF JobInv, Outcomes, PrepareReplies, PreparedTypes, AcceptReplies,
                             AcceptedTypes
  <2>4. \/ pc'[s][c] = pc[s][c]
        \/ m \in inbox \ inbox'
        \/ pc[s][c] # "idle" /\ pc'[s][c] # "idle"
    BY <1>1, JobStep
  <2>5. /\ outcome[c] = "none" => pc[s][c] = "idle"
        /\ outcome[c] = "none" \/ pc[s][c] # "idle" => m \notin inbox
    BY DEF JobInv, SubmittedOnce
  <2> QED
    BY <2>2, <2>3, <2>4, <2>5
<1>3. WrittenOnce'
  <2> SUFFICES ASSUME NEW s \in Shards, NEW c \in Calls
               PROVE  /\ pc'[s][c] \in {"idle", "prepare"} <=> vote'[s][c] = "none"
                      /\ pc'[s][c] \in {"idle", "prepare", "prepared", "accept"}
                           <=> decision'[s][c] = "none"
    BY DEF WrittenOnce
  <2>1. "none" \notin PrepareReturns(s, c)
    BY DEF PrepareReturns, PrepareReplies, PreparedTypes
  <2>2. \A a \in AcceptReturns(s, c) : Decide(s, c, a) # "none"
    BY DEF AcceptReturns, AcceptVerdict, Decide
  <2>3. /\ pc[s][c] \in {"idle", "prepare"} <=> vote[s][c] = "none"
        /\ pc[s][c] \in {"idle", "prepare", "prepared", "accept"} <=> decision[s][c] = "none"
        /\ pc[s][c] # "idle" => Message("TRANSACTION_SUBMIT", c, s, Initiator) \notin inbox
    BY DEF JobInv, WrittenOnce, SubmittedOnce
  <2> QED
    BY <1>1, <2>1, <2>2, <2>3, JobStep
<1> QED
  BY <1>1, <1>2, <1>3, WellFormedStep DEF JobInv, TypeOK

\* A vote and a decision are never changed (TreeMapServer.appExecuteUnordered).
LEMMA WrittenStays ==
  ASSUME JobInv, [Next]_vars, NEW s \in Shards, NEW c \in Calls
  PROVE  /\ vote[s][c] # "none" => vote'[s][c] = vote[s][c]
         /\ decision[s][c] # "none" => decision'[s][c] = decision[s][c]
<1>1. /\ pc[s][c] \in {"idle", "prepare"} <=> vote[s][c] = "none"
      /\ pc[s][c] \in {"idle", "prepare", "prepared", "accept"} <=> decision[s][c] = "none"
  BY DEF JobInv, WrittenOnce
<1> QED
  BY <1>1, JobStep DEF JobInv, TypeOK

\* Calls and their jobs start out idle (MapClient.submitTransaction).
LEMMA JobInvInit ==
  ASSUME Init, TypeOK
  PROVE  JobInv
BY DEF Init, JobInv, SubmittedOnce, WrittenOnce

\* The job of a call runs once, along every behaviour (TreeMapServer.appExecuteUnordered,
\* MapClient.submitTransaction).
LEMMA JobInvCorrect == Spec => []JobInv
<1>1. JobInv /\ Types' /\ [Next]_vars => JobInv'
  BY JobInvStep
<1> QED
  BY <1>1, JobInvInit, TypeCorrect, TypesCorrect, PTL DEF Spec

\* The client is told of a commit only if every target shard has decided to commit that
\* call (MapClient.processShardResponses, waitForShardResponses).
THEOREM ClientCommitIsUnanimousCorrect == Spec => []ClientCommitIsUnanimous
<1>1. Init => ClientCommitIsUnanimous
  BY DEF Init, ClientCommitIsUnanimous
<1>2. ASSUME JobInv, ClientCommitIsUnanimous, [Next]_vars
      PROVE  ClientCommitIsUnanimous'
  <2> SUFFICES ASSUME NEW c \in Calls, outcome'[c] = "ACCEPTED_T_COMMIT",
                      NEW s \in TargetShards(TxOf[c])
               PROVE  decision'[s][c] = "ACCEPTED_T_COMMIT"
    BY DEF ClientCommitIsUnanimous
  <2>1. s \in Shards
    BY ShardsOfTransaction, TransactionAssumption
  <2>2. decision[s][c] = "ACCEPTED_T_COMMIT"
    BY <1>2, OutcomeStep DEF ClientCommitIsUnanimous, JobInv, TypeOK
  <2> QED
    BY <1>2, <2>1, <2>2, WrittenStays
<1>3. JobInv /\ ClientCommitIsUnanimous /\ [Next]_vars => ClientCommitIsUnanimous'
  BY <1>2
<1> QED
  BY <1>1, <1>3, JobInvCorrect, PTL DEF Spec

\* Why an object is at a replica and has its status (TreeMapServer.executePreparedTCommit,
\* executeAcceptedTAbort, executeAcceptedTCommit; MapClient.createObjects).
LEMMA CauseInvStep ==
  ASSUME CauseInv, JobInv', [Next]_vars
  PROVE  CauseInv'
<1>1. JobInv /\ Types /\ WellFormed /\ Types'
  BY DEF CauseInv, JobInv, TypeOK
<1>2. ASSUME NEW s \in Shards, NEW c \in Calls
      PROVE  /\ vote[s][c] = "PREPARED_T_COMMIT" => vote'[s][c] = "PREPARED_T_COMMIT"
             /\ decision[s][c] = "ACCEPTED_T_COMMIT" => decision'[s][c] = "ACCEPTED_T_COMMIT"
  BY <1>1, WrittenStays
<1>3. \A m \in inbox : m.shard \in Shards /\ m.call \in Calls
  BY <1>1, MessageFields DEF Types
<1>4. MessageHasCause'
  <2> SUFFICES ASSUME NEW m \in inbox'
               PROVE  /\ m.type = "PREPARED_T_COMMIT" =>
                           vote'[m.shard][m.call] = "PREPARED_T_COMMIT"
                      /\ m.type = "ACCEPTED_T_COMMIT" =>
                           decision'[m.shard][m.call] = "ACCEPTED_T_COMMIT"
    BY DEF MessageHasCause
  <2>1. CASE m \in inbox
    BY <1>2, <1>3, <2>1 DEF CauseInv, MessageHasCause
  <2>2. CASE m \notin inbox
    BY <1>1, <2>2, MessageStep
  <2> QED
    BY <2>1, <2>2
<1>5. CreateHasCause'
  <2> SUFFICES ASSUME NEW s \in Shards, NEW q \in requested'[s], q.op = "CREATE_OBJECT"
               PROVE  decision'[q.from][q.call] = "ACCEPTED_T_COMMIT"
    BY DEF CreateHasCause
  <2>1. q.from \in Shards /\ q.call \in Calls
    BY <1>1 DEF Types, Requests
  <2>2. decision[q.from][q.call] = "ACCEPTED_T_COMMIT"
    BY <1>1, OrderStep DEF CauseInv, CreateHasCause, MessageHasCause
  <2> QED
    BY <1>2, <2>1, <2>2
<1>6. ASSUME NEW s \in Shards, NEW i \in DOMAIN log[s], log[s][i].op = "CREATE_OBJECT"
      PROVE  /\ log[s][i].from \in Shards /\ log[s][i].call \in Calls
             /\ decision'[log[s][i].from][log[s][i].call] = "ACCEPTED_T_COMMIT"
  <2>1. log[s][i] \in requested[s]
    BY <1>1 DEF WellFormed, Ordered
  <2>2. log[s][i].from \in Shards /\ log[s][i].call \in Calls
    BY <1>1, <2>1 DEF Types, Requests
  <2>3. decision[log[s][i].from][log[s][i].call] = "ACCEPTED_T_COMMIT"
    BY <1>6, <2>1 DEF CauseInv, CreateHasCause
  <2> QED
    BY <1>2, <2>2, <2>3
<1>7. ASSUME NEW s \in Shards, NEW o \in Objects, NEW m \in inbox, m.shard = s,
             o \in Managed(s, TxOf[m.call])
      PROVE  /\ o \in Inputs[TxOf[m.call]] /\ m.call \in Calls
             /\ m.type = "PREPARED_T_COMMIT" => vote'[s][m.call] = "PREPARED_T_COMMIT"
             /\ m.type = "ACCEPTED_T_COMMIT" => decision'[s][m.call] = "ACCEPTED_T_COMMIT"
  BY <1>2, <1>3, <1>7 DEF CauseInv, MessageHasCause, Managed
<1>8. LiveHasCause'
  <2> SUFFICES ASSUME NEW s \in Shards, NEW r \in Replicas, NEW o \in Objects,
                      table'[s][r][o] \in {"ACTIVE", "LOCKED"}, o \notin Genesis
               PROVE  \E c \in Calls, z \in Shards :
                        o \in Outputs[TxOf[c]] /\ decision'[z][c] = "ACCEPTED_T_COMMIT"
    BY DEF LiveHasCause
  <2>1. CASE table[s][r][o] \in {"ACTIVE", "LOCKED"}
    BY <1>2, <2>1 DEF CauseInv, LiveHasCause
  <2>2. CASE table[s][r][o] \notin {"ACTIVE", "LOCKED"}
    <3>1. PICK i \in DOMAIN log[s] :
             log[s][i].op = "CREATE_OBJECT" /\ o \in Outputs[TxOf[log[s][i].call]]
      BY <1>1, <2>2, TableStep
    <3> QED
      BY <1>6, <3>1
  <2> QED
    BY <2>1, <2>2
<1>9. StatusHasCause'
  <2> SUFFICES ASSUME NEW s \in Shards, NEW r \in Replicas, NEW o \in Objects
               PROVE  /\ table'[s][r][o] = "LOCKED" =>
                           \E c \in Calls : /\ o \in Inputs[TxOf[c]]
                                            /\ vote'[s][c] = "PREPARED_T_COMMIT"
                      /\ table'[s][r][o] = "INACTIVE" =>
                           \E c \in Calls : /\ o \in Inputs[TxOf[c]]
                                            /\ decision'[s][c] = "ACCEPTED_T_COMMIT"
                      /\ table'[s][r][o] = "ACTIVE" /\ o \notin Genesis =>
                           \E c \in Calls, z \in Shards :
                             /\ o \in Outputs[TxOf[c]]
                             /\ decision'[z][c] = "ACCEPTED_T_COMMIT"
    BY DEF StatusHasCause
  <2>1. CASE table'[s][r][o] = "LOCKED"
    BY <1>1, <1>2, <1>7, <2>1, TableStep DEF CauseInv, StatusHasCause
  <2>2. CASE table'[s][r][o] = "INACTIVE"
    BY <1>1, <1>2, <1>7, <2>2, TableStep DEF CauseInv, StatusHasCause
  <2>3. CASE table'[s][r][o] = "ACTIVE"
    BY <1>8, <2>3 DEF LiveHasCause
  <2> QED
    BY <2>1, <2>2, <2>3
<1> QED
  BY <1>4, <1>5, <1>8, <1>9 DEF CauseInv

\* No object is locked, consumed or created without a vote or a decision
\* (TreeMapServer.setTransactionInputStatus, MapClient.createObjects).
THEOREM StatusHasCauseCorrect == Spec => []StatusHasCause
<1>1. Init => MessageHasCause /\ CreateHasCause /\ LiveHasCause /\ StatusHasCause
  BY TransactionAssumption DEF Init, MessageHasCause, CreateHasCause, LiveHasCause, StatusHasCause
<1>2. CauseInv /\ JobInv' /\ [Next]_vars => CauseInv'
  BY CauseInvStep
<1>3. CauseInv => StatusHasCause
  BY DEF CauseInv
<1>4. Init /\ JobInv => CauseInv
  BY <1>1 DEF CauseInv
<1> QED
  BY <1>2, <1>3, <1>4, JobInvCorrect, PTL DEF Spec

-----------------------------------------------------------------------------
(* Atomicity *)

\* When the shards of a call agree: no reply is given up (the 10 s of accept_t, the 250 ms
\* of checkAcceptT), no ACCEPT_T fails to be sent, and no transaction is submitted twice,
\* since the flags of a transaction do not tell its calls apart.
Patient ==
  /\ "accept_t" \notin Expiring /\ "checkAcceptT" \notin Expiring
  /\ "send" \notin Failing
  /\ \A c, d \in Calls : TxOf[c] = TxOf[d] => c = d

\* The job of s has voted on c and broadcasts type.
Voted(s, c, type) == vote[s][c] # "none" /\ type = PreparedType(vote[s][c])

\* Every broadcast of a vote, and every flag it sets, is the vote of the shard on that call.
MessageOfVote ==
  \A m \in inbox : m.type \in PreparedTypes => Voted(m.shard, m.call, m.type)

FlagOfVote ==
  \A s \in Shards, r \in Replicas, c \in Calls :
    \A f \in flags[s][r][TxOf[c]] \cap PreparedTypes : Voted(s, c, f)

\* What a replica answers to an ACCEPT_T_* is the vote of its own shard.
AnswerOfVote ==
  \A s \in Shards, r \in Replicas : \A i \in DOMAIN answers[s][r] :
    LET v == vote[s][log[s][i].call]
    IN answers[s][r][i] \in AcceptedTypes =>
         v # "none" /\ (answers[s][r][i] = "ACCEPTED_T_COMMIT" <=> v = "PREPARED_T_COMMIT")

\* A decision follows from votes: all of the input shards', or one to abort.
Unanimous(c) == \A z \in InputShards(TxOf[c]) : vote[z][c] = "PREPARED_T_COMMIT"
Refused(z, c) == vote[z][c] \notin {"none", "PREPARED_T_COMMIT"}

DecisionOfVotes ==
  \A s \in Shards, c \in Calls :
    \/ decision[s][c] = "none"
    \/ decision[s][c] = "ACCEPTED_T_COMMIT" /\ Unanimous(c)
    \/ /\ decision[s][c] = "ACCEPTED_T_ABORT"
       /\ \E z \in InputShards(TxOf[c]) \cup {s} : Refused(z, c)

AgreementInv ==
  /\ JobInv
  /\ MessageOfVote /\ FlagOfVote /\ AnswerOfVote /\ DecisionOfVotes

\* A broadcast of a vote stays true, since the vote is written once
\* (TreeMapServer.appExecuteUnordered).
LEMMA VotedStays ==
  ASSUME JobInv, [Next]_vars, NEW s \in Shards, NEW c \in Calls, NEW type, Voted(s, c, type)
  PROVE  Voted(s, c, type)'
BY WrittenStays DEF Voted, PreparedType

\* A flag is set by the broadcast of the shard's own vote on that call
\* (TreeMapServer.executePreparedTAbort, executePreparedTCommit).
LEMMA FlagOfVoteStep ==
  ASSUME Patient, AgreementInv, [Next]_vars
  PROVE  FlagOfVote'
<1> SUFFICES ASSUME NEW s \in Shards, NEW r \in Replicas, NEW c \in Calls,
                    NEW f \in PreparedTypes, f \in flags'[s][r][TxOf[c]]
             PROVE  Voted(s, c, f)'
  BY DEF FlagOfVote, Voted
<1>1. JobInv /\ Types
  BY DEF AgreementInv, JobInv, TypeOK
<1>2. TxOf[c] \in Txs
  BY TransactionAssumption
<1>3. CASE f \in flags[s][r][TxOf[c]]
  BY <1>1, <1>3, VotedStays DEF AgreementInv, FlagOfVote
<1>4. CASE \E m \in inbox : m.type = f /\ m.shard = s /\ TxOf[m.call] = TxOf[c]
  <2>1. PICK m \in inbox : m.type = f /\ m.shard = s /\ TxOf[m.call] = TxOf[c]
    BY <1>4
  <2>2. m.call = c
    BY <1>1, <2>1, MessageFields DEF Patient, Types
  <2> QED
    BY <1>1, <2>1, <2>2, VotedStays DEF AgreementInv, MessageOfVote
<1> QED
  BY <1>1, <1>2, <1>3, <1>4, FlagStep

\* A replica answers an ACCEPT_T_* by the flags, once one is there
\* (TreeMapServer.checkAcceptT).
LEMMA AnswerOfVoteStep ==
  ASSUME Patient, AgreementInv, [Next]_vars
  PROVE  AnswerOfVote'
<1> SUFFICES ASSUME NEW s \in Shards, NEW r \in Replicas, NEW i \in DOMAIN answers'[s][r],
                    answers'[s][r][i] \in AcceptedTypes
             PROVE  LET v == vote'[s][log'[s][i].call]
                    IN /\ v # "none"
                       /\ answers'[s][r][i] = "ACCEPTED_T_COMMIT" <=> v = "PREPARED_T_COMMIT"
  BY DEF AnswerOfVote
<1>1. JobInv /\ Types /\ WellFormed
  BY DEF AgreementInv, JobInv, TypeOK
<1>2. CASE i \in DOMAIN answers[s][r]
  <2>1. i \in DOMAIN log[s] /\ log'[s][i] = log[s][i] /\ answers'[s][r][i] = answers[s][r][i]
    BY <1>1, <1>2, LogKept
  <2>2. log[s][i].call \in Calls
    <3>1. log[s][i] \in Requests
      BY <1>1, <2>1, ElementOfSeq DEF Types
    <3> QED
      BY <3>1 DEF Requests
  <2>3. LET v == vote[s][log[s][i].call]
        IN v # "none" /\ (answers[s][r][i] = "ACCEPTED_T_COMMIT" <=> v = "PREPARED_T_COMMIT")
    BY <1>2, <2>1 DEF AgreementInv, AnswerOfVote
  <2> QED
    BY <1>1, <2>1, <2>2, <2>3, WrittenStays
<1>3. CASE i \notin DOMAIN answers[s][r]
  <2> DEFINE q == NextRequest(s, r)
  <2>1. PICK a \in Answers :
           /\ Pending(s, r) /\ log'[s] = log[s]
           /\ answers'[s][r] = Append(answers[s][r], a)
           /\ a = "ACCEPTED_T_COMMIT" => "PREPARED_T_COMMIT" \in flags[s][r][TxOf[q.call]]
           /\ a = "ACCEPTED_T_ABORT" => "PREPARED_T_ABORT" \in flags[s][r][TxOf[q.call]]
    BY <1>1, <1>3, AnswerStep DEF Patient
  <2>2. answers[s][r] \in Seq(Answers)
    BY <1>1 DEF Types
  <2>3. i = Len(answers[s][r]) + 1 /\ answers'[s][r][i] = a /\ log'[s][i] = q
    <3> DEFINE old == answers[s][r]
    <3>1. /\ Len(old) \in Nat /\ DOMAIN old = 1 .. Len(old)
          /\ DOMAIN answers'[s][r] = 1 .. Len(old) + 1 /\ answers'[s][r][Len(old) + 1] = a
      <4>1. answers'[s][r] = Append(old, a) /\ old \in Seq(Answers)
        BY <2>1, <2>2
      <4> HIDE DEF old
      <4> QED
        BY <4>1
    <3>2. i \in DOMAIN answers'[s][r] /\ i \notin DOMAIN old
      BY <1>3
    <3>3. i = Len(old) + 1
      <4> HIDE DEF old
      <4> QED
        BY <3>1, <3>2
    <3> QED
      BY <2>1, <3>1, <3>3 DEF NextRequest
  <2>4. q.call \in Calls
    BY <1>1, <2>1, NextRequestType DEF Requests
  <2>5. /\ a = "ACCEPTED_T_COMMIT" => Voted(s, q.call, "PREPARED_T_COMMIT")
        /\ a = "ACCEPTED_T_ABORT" => Voted(s, q.call, "PREPARED_T_ABORT")
    BY <2>1, <2>4 DEF AgreementInv, FlagOfVote, PreparedTypes
  <2>6. LET v == vote[s][q.call]
        IN v # "none" /\ (a = "ACCEPTED_T_COMMIT" <=> v = "PREPARED_T_COMMIT")
    BY <2>3, <2>5 DEF Voted, PreparedType, AcceptedTypes
  <2> QED
    BY <1>1, <2>3, <2>4, <2>6, WrittenStays
<1> QED
  BY <1>2, <1>3

\* A reply quorum of a shard to an ACCEPT_T_* tells its vote
\* (MapClient.accept_t, ReplyListenerAsynchQuorum).
LEMMA RepliedVote ==
  ASSUME AgreementInv, NEW z \in Shards, NEW s \in Shards, NEW c \in Calls,
         NEW a \in AcceptedTypes, AcceptReplied(z, s, c, a)
  PROVE  IF a = "ACCEPTED_T_COMMIT" THEN vote[z][c] = "PREPARED_T_COMMIT" ELSE Refused(z, c)
<1>1. PICK r \in Replicas : \E i \in DOMAIN answers[z][r] :
         answers[z][r][i] = a /\ log[z][i] = Request(AcceptOp(s, c), c, s)
  BY AnsweredBySome DEF AcceptReplied
<1>2. PICK i \in DOMAIN answers[z][r] : answers[z][r][i] = a /\ log[z][i].call = c
  BY <1>1 DEF Request
<1> QED
  BY <1>2 DEF AgreementInv, AnswerOfVote, Refused

\* A shard decides by its own vote and by the votes that the input shards reply with
\* (TreeMapServer.appExecuteUnordered, MapClient.accept_t).
LEMMA DecisionOfVotesStep ==
  ASSUME Patient, AgreementInv, [Next]_vars
  PROVE  DecisionOfVotes'
<1> SUFFICES ASSUME NEW s \in Shards, NEW c \in Calls, decision'[s][c] # "none"
             PROVE  \/ decision'[s][c] = "ACCEPTED_T_COMMIT" /\ Unanimous(c)'
                    \/ /\ decision'[s][c] = "ACCEPTED_T_ABORT"
                       /\ \E z \in InputShards(TxOf[c]) \cup {s} : Refused(z, c)'
  BY DEF DecisionOfVotes, Refused
<1>1. JobInv /\ Types
  BY DEF AgreementInv, JobInv, TypeOK
<1>2. InputShards(TxOf[c]) \subseteq Shards
  BY ShardsOfTransaction, TransactionAssumption
<1>3. \A z \in Shards : /\ vote[z][c] = "PREPARED_T_COMMIT" => vote'[z][c] = "PREPARED_T_COMMIT"
                        /\ Refused(z, c) => Refused(z, c)'
  BY <1>1, WrittenStays DEF Refused
<1>4. Unanimous(c) => Unanimous(c)'
  BY <1>2, <1>3 DEF Unanimous
<1>5. CASE decision'[s][c] = decision[s][c]
  BY <1>2, <1>3, <1>4, <1>5 DEF AgreementInv, DecisionOfVotes
<1>6. CASE pc[s][c] = "accept" /\ \E a \in AcceptReturns(s, c) : decision'[s][c] = Decide(s, c, a)
  <2>1. PICK a \in AcceptVerdict(s, c) : decision'[s][c] = Decide(s, c, a)
    BY <1>6 DEF AcceptReturns, Patient
  <2>2. CASE vote[s][c] # "PREPARED_T_COMMIT"
    <3>1. Refused(s, c)
      BY <1>1, <1>6, <2>2 DEF Refused, JobInv, WrittenOnce
    <3> QED
      BY <1>3, <2>1, <2>2, <3>1 DEF Decide
  <2>3. CASE vote[s][c] = "PREPARED_T_COMMIT" /\ a = "ACCEPTED_T_COMMIT"
    <3>1. \A z \in InputShards(TxOf[c]) : AcceptReplied(z, s, c, "ACCEPTED_T_COMMIT")
      BY <2>1, <2>3 DEF AcceptVerdict
    <3>2. Unanimous(c)
      BY <1>2, <3>1, RepliedVote DEF Unanimous, AcceptedTypes
    <3> QED
      BY <1>4, <2>1, <2>3, <3>2 DEF Decide
  <2>4. CASE vote[s][c] = "PREPARED_T_COMMIT" /\ a # "ACCEPTED_T_COMMIT"
    <3>1. PICK z \in InputShards(TxOf[c]) : AcceptReplied(z, s, c, "ACCEPTED_T_ABORT")
      BY <2>1, <2>4 DEF AcceptVerdict
    <3>2. a = "ACCEPTED_T_ABORT"
      BY <2>1, <2>4 DEF AcceptVerdict
    <3>3. Refused(z, c)
      BY <1>2, <3>1, RepliedVote DEF AcceptedTypes
    <3> QED
      BY <1>2, <1>3, <2>1, <2>4, <3>2, <3>3 DEF Decide
  <2> QED
    BY <2>2, <2>3, <2>4
<1> QED
  BY <1>1, <1>5, <1>6, JobStep

\* The invariant of atomicity is inductive (TreeMapServer.appExecuteUnordered,
\* checkAcceptT; MapClient.accept_t).
LEMMA AgreementInvStep ==
  ASSUME Patient, AgreementInv, JobInv', [Next]_vars
  PROVE  AgreementInv'
<1>1. MessageOfVote'
  <2> SUFFICES ASSUME NEW m \in inbox', m.type \in PreparedTypes
               PROVE  Voted(m.shard, m.call, m.type)'
    BY DEF MessageOfVote
  <2>1. JobInv /\ Types
    BY DEF AgreementInv, JobInv, TypeOK
  <2>2. CASE m \in inbox
    BY <2>1, <2>2, MessageFields, VotedStays DEF AgreementInv, MessageOfVote, Types
  <2>3. CASE m \notin inbox
    BY <2>1, <2>3, MessageStep DEF Voted
  <2> QED
    BY <2>2, <2>3
<1> QED
  BY <1>1, FlagOfVoteStep, AnswerOfVoteStep, DecisionOfVotesStep DEF AgreementInv

\* Votes that all commit and a vote to abort exclude each other, so that the input shards
\* of a call decide alike (TreeMapServer.appExecuteUnordered).
LEMMA AgreementOfDecisions ==
  ASSUME AgreementInv
  PROVE  Agreement
<1> SUFFICES ASSUME NEW c \in Calls,
                    NEW s \in InputShards(TxOf[c]), NEW z \in InputShards(TxOf[c]),
                    decision[s][c] # "none", decision[z][c] # "none"
             PROVE  decision[s][c] = decision[z][c]
  BY DEF Agreement
<1>1. InputShards(TxOf[c]) \subseteq Shards
  BY ShardsOfTransaction, TransactionAssumption
<1>2. ~(Unanimous(c) /\ \E w \in InputShards(TxOf[c]) : Refused(w, c))
  BY DEF Unanimous, Refused
<1> QED
  BY <1>1, <1>2 DEF AgreementInv, DecisionOfVotes

\* Atomicity: the input shards of a call decide alike, as long as the shards wait for each
\* other's replies and a transaction is submitted once (TreeMapServer.appExecuteUnordered,
\* checkAcceptT; MapClient.accept_t).
THEOREM AgreementCorrect ==
  ASSUME Patient
  PROVE  Spec => []Agreement
<1>1. Init => MessageOfVote /\ FlagOfVote /\ AnswerOfVote /\ DecisionOfVotes
  <2> SUFFICES ASSUME Init
               PROVE  MessageOfVote /\ FlagOfVote /\ AnswerOfVote /\ DecisionOfVotes
    OBVIOUS
  <2>1. MessageOfVote
    BY DEF Init, MessageOfVote
  <2>2. FlagOfVote
    <3>1. \A s \in Shards, r \in Replicas, c \in Calls : flags[s][r][TxOf[c]] = {}
      BY TransactionAssumption DEF Init
    <3> QED
      BY <3>1 DEF FlagOfVote
  <2>3. AnswerOfVote
    <3>1. \A s \in Shards, r \in Replicas : DOMAIN answers[s][r] = {}
      BY DEF Init
    <3> QED
      BY <3>1 DEF AnswerOfVote
  <2>4. DecisionOfVotes
    BY DEF Init, DecisionOfVotes
  <2> QED
    BY <2>1, <2>2, <2>3, <2>4
<1>2. AgreementInv /\ JobInv' /\ [Next]_vars => AgreementInv'
  BY AgreementInvStep
<1>3. AgreementInv => Agreement
  BY AgreementOfDecisions
<1>4. Init /\ JobInv => AgreementInv
  BY <1>1 DEF AgreementInv
<1> QED
  BY <1>2, <1>3, <1>4, JobInvCorrect, PTL DEF Spec

=============================================================================
