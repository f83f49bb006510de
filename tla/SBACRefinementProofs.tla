------------------------ MODULE SBACRefinementProofs ------------------------
(***************************************************************************)
(* SBAC implements AtomicCommit, for every value of its constants.         *)
(***************************************************************************)
EXTENDS SBACRefinement, SBACProofs

\* Only target shards are asked to vote (MapClient.submitTransaction).
TargetsOnly ==
  /\ \A m \in inbox :
       m.type = "TRANSACTION_SUBMIT" => m.shard \in TargetShards(TxOf[m.call])
  /\ \A s \in Shards, c \in Calls :
       pc[s][c] # "idle" => s \in TargetShards(TxOf[c])

\* A shard that did not vote to commit does not decide to commit.
RefusalAborts ==
  \A s \in Shards, c \in Calls :
    decision[s][c] = "ACCEPTED_T_COMMIT" => vote[s][c] = "PREPARED_T_COMMIT"

RefinementInv == JobInv /\ VoteBacked /\ TargetsOnly /\ RefusalAborts

-----------------------------------------------------------------------------
(* The invariant *)

\* Only target shards run a job (MapClient.submitTransaction).
LEMMA TargetsOnlyStep ==
  ASSUME Types, TargetsOnly, [Next]_vars
  PROVE  TargetsOnly'
<1>1. ASSUME NEW m \in inbox', m.type = "TRANSACTION_SUBMIT"
      PROVE  m.shard \in TargetShards(TxOf[m.call])
  BY <1>1, MessageStep DEF TargetsOnly
<1>2. ASSUME NEW s \in Shards, NEW c \in Calls, pc'[s][c] # "idle"
      PROVE  s \in TargetShards(TxOf[c])
  <2>1. CASE pc[s][c] # "idle"
    BY <2>1 DEF TargetsOnly
  <2>2. CASE Message("TRANSACTION_SUBMIT", c, s, Initiator) \in inbox
    BY <2>2 DEF TargetsOnly, Message
  <2> QED
    BY <1>2, <2>1, <2>2, JobStep
<1> QED
  BY <1>1, <1>2 DEF TargetsOnly, TargetShards, InputShards

\* A shard that refuses aborts (TreeMapServer.appExecuteUnordered).
LEMMA RefusalAbortsStep ==
  ASSUME JobInv, RefusalAborts, [Next]_vars
  PROVE  RefusalAborts'
<1> SUFFICES ASSUME NEW s \in Shards, NEW c \in Calls,
                    decision'[s][c] = "ACCEPTED_T_COMMIT"
             PROVE  vote'[s][c] = "PREPARED_T_COMMIT"
  BY DEF RefusalAborts
<1>1. Types
  BY DEF JobInv, TypeOK
<1>2. CASE decision'[s][c] = decision[s][c]
  BY <1>2, WrittenStays DEF RefusalAborts
<1>3. CASE /\ vote'[s][c] = vote[s][c]
           /\ \E a \in AcceptReturns(s, c) : decision'[s][c] = Decide(s, c, a)
  BY <1>3 DEF Decide
<1> QED
  BY <1>1, <1>2, <1>3, JobStep

\* What the refinement rests on, along every behaviour (TreeMapServer.appExecuteUnordered,
\* MapClient.submitTransaction).
LEMMA RefinementInvCorrect == Spec => []RefinementInv
<1>1. Init => VoteBacked /\ TargetsOnly /\ RefusalAborts
  BY DEF Init, VoteBacked, TargetsOnly, RefusalAborts
<1>2. RefinementInv /\ JobInv' /\ [Next]_vars => RefinementInv'
  BY TargetsOnlyStep, RefusalAbortsStep, VoteBackedStep
  DEF RefinementInv, JobInv, TypeOK
<1>3. Init /\ JobInv => RefinementInv
  BY <1>1 DEF RefinementInv
<1> QED
  BY <1>2, <1>3, JobInvCorrect, PTL DEF Spec

-----------------------------------------------------------------------------
(* How a step looks from AtomicCommit *)

\* A step without an answer prepares nothing (TreeMapServer.checkPrepareT).
LEMMA NothingPrepared ==
  ASSUME Types, WellFormed, [Next]_vars, answers' = answers
  PROVE  PreparedTxs' = PreparedTxs
<1>1. ASSUME NEW s \in Shards, NEW t
      PROVE  PreparedByMajority(s, t)' <=> PreparedByMajority(s, t)
  <2>1. \A r \in Replicas : \A i \in DOMAIN answers[s][r] : log'[s][i] = log[s][i]
    BY LogKept
  <2>2. PreparedAt(s, t)' = PreparedAt(s, t)
    BY <2>1 DEF PreparedAt
  <2> QED
    BY <2>2 DEF PreparedByMajority
<1> QED
  BY <1>1 DEF PreparedTxs

\* An answer concerns the transaction of the request that it answers, in its own shard
\* (TreeMapServer.executeSingle).
LEMMA ExecuteStep ==
  ASSUME Types, WellFormed, [Next]_vars, NEW s \in Shards, NEW r \in Replicas, Execute(s, r)
  PROVE  /\ UNCHANGED <<vote, decision, outcome>>
         /\ \E t \in Txs : \A z \in Shards : \A u :
              z # s \/ u # t => (PreparedByMajority(z, u)' <=> PreparedByMajority(z, u))
<1> DEFINE q == NextRequest(s, r)
           t == TxOf[q.call]
<1>1. Pending(s, r) /\ log' = log /\ UNCHANGED <<vote, decision, outcome>>
  BY DEF Execute, ExecutePrepareT, ExecuteAcceptT, ExecuteCreateObject, jobVars
<1>2. PICK a : Answer(s, r, a)
  BY AnswerOfPrepare DEF Execute, ExecuteAcceptT, ExecuteCreateObject
<1>3. t \in Txs
  BY <1>1, NextRequestType
<1>4. answers[s][r] \in Seq(Answers)
  BY DEF Types
<1>5. answers' = [answers EXCEPT ![s][r] = Append(answers[s][r], a)]
  BY <1>2 DEF Answer
<1>6. ASSUME NEW z \in Shards, NEW u, z # s \/ u # t
      PROVE  PreparedByMajority(z, u)' <=> PreparedByMajority(z, u)
  <2>1. ASSUME NEW k \in Replicas, NEW i
        PROVE  /\ i \in DOMAIN answers'[z][k]
               /\ log'[z][i].op = "PREPARE_T" /\ TxOf[log'[z][i].call] = u
               /\ answers'[z][k][i] = "PREPARED_T_COMMIT"
               <=>
               /\ i \in DOMAIN answers[z][k]
               /\ log[z][i].op = "PREPARE_T" /\ TxOf[log[z][i].call] = u
               /\ answers[z][k][i] = "PREPARED_T_COMMIT"
    <3>1. CASE z # s \/ k # r
      <4>1. answers'[z][k] = answers[z][k]
        BY <1>5, <3>1 DEF Types
      <4> QED
        BY <1>1, <4>1
    <3>2. CASE z = s /\ k = r
      <4>1. answers'[s][r] = Append(answers[s][r], a)
        BY <1>5 DEF Types
      <4>2. i = Len(answers[s][r]) + 1 => TxOf[log[s][i].call] # u
        BY <1>6, <3>2 DEF NextRequest
      <4>3. i # Len(answers[s][r]) + 1 =>
              /\ i \in DOMAIN answers'[s][r] <=> i \in DOMAIN answers[s][r]
              /\ i \in DOMAIN answers[s][r] => answers'[s][r][i] = answers[s][r][i]
        BY <1>4, <4>1
      <4> QED
        BY <1>1, <1>4, <3>2, <4>1, <4>2, <4>3
    <3> QED
      BY <3>1, <3>2
  <2>2. PreparedAt(z, u)' = PreparedAt(z, u)
    BY <2>1 DEF PreparedAt
  <2> QED
    BY <2>2 DEF PreparedByMajority
<1> QED
  BY <1>1, <1>3, <1>6

\* The delivery thread prepares a transaction or does nothing that AtomicCommit sees
\* (TreeMapServer.executeSingle).
LEMMA ExecuteImplements ==
  ASSUME Types, WellFormed, [Next]_vars, NEW s \in Shards, NEW r \in Replicas, Execute(s, r)
  PROVE  [Commit!Next]_Commit!vars
<1>1. UNCHANGED <<Ballots, Verdicts, Announced>>
  BY ExecuteStep DEF Ballots, Verdicts, Announced
<1>2. PICK t \in Txs : \A z \in Shards : \A u :
         z # s \/ u # t => (PreparedByMajority(z, u)' <=> PreparedByMajority(z, u))
  BY ExecuteStep
<1>3. CASE PreparedByMajority(s, t)'
  <2>1. PreparedTxs' = [PreparedTxs EXCEPT ![s] = @ \cup {t}]
    BY <1>2, <1>3 DEF PreparedTxs
  <2>2. Commit!Prepare(s, t)
    BY <1>1, <2>1 DEF Commit!Prepare
  <2> QED
    BY <2>2 DEF Commit!Next
<1>4. CASE ~PreparedByMajority(s, t)'
  <2>1. ~PreparedByMajority(s, t)
    BY <1>4, PreparedStable
  <2>2. PreparedTxs' = PreparedTxs
    BY <1>2, <1>4, <2>1 DEF PreparedTxs
  <2> QED
    BY <1>1, <2>2 DEF Commit!vars
<1> QED
  BY <1>3, <1>4

\* The two maps of AtomicCommit over transactions, at the transaction of a call
\* (MapClient.submitTransaction, accept_t).
LEMMA MapsAtCall ==
  ASSUME NEW c \in Calls
  PROVE  /\ TxOf[c] \in Txs
         /\ [t \in Txs |-> InputShards(t)][TxOf[c]] = InputShards(TxOf[c])
         /\ [t \in Txs |-> TargetShards(t)][TxOf[c]] = TargetShards(TxOf[c])
         /\ InputShards(TxOf[c]) \subseteq Shards
         /\ TargetShards(TxOf[c]) \subseteq Shards
BY TransactionAssumption, ShardsOfTransaction

\* The client submits (MapClient.submitTransaction).
LEMMA SubmitImplements ==
  ASSUME Types, WellFormed, [Next]_vars, NEW c \in Calls, SubmitTransaction(c)
  PROVE  Commit!Submit(c)
<1>1. UNCHANGED <<PreparedTxs, Ballots, Verdicts>>
  BY NothingPrepared DEF SubmitTransaction, Ballots, Verdicts, orderVars, jobVars
<1>2. outcome[c] = "none" /\ outcome' = [outcome EXCEPT ![c] = "waiting"]
  BY DEF SubmitTransaction
<1>3. Announced[c] = "none" /\ Announced' = [Announced EXCEPT ![c] = "waiting"]
  BY <1>2 DEF Announced, Told, Types
<1> QED
  BY <1>1, <1>3 DEF Commit!Submit

\* The client is told of a commit if all target shards have committed, and of an abort
\* only if one of them has aborted (MapClient.processShardResponses).
LEMMA ReturnImplements ==
  ASSUME Types, WellFormed, WrittenOnce, RefusalAborts, [Next]_vars,
         NEW c \in Calls, ReturnToCaller(c)
  PROVE  Commit!Return(c)
<1> DEFINE targets == TargetShards(TxOf[c])
           replied == {s \in targets : pc[s][c] = "done"}
<1>1. UNCHANGED <<PreparedTxs, Ballots, Verdicts>>
  BY NothingPrepared DEF ReturnToCaller, Ballots, Verdicts, orderVars, jobVars
<1>2. PICK a \in ProcessShardResponses(c, replied) : outcome' = [outcome EXCEPT ![c] = a]
  BY DEF ReturnToCaller
<1>3. Announced[c] = "waiting" /\ Announced' = [Announced EXCEPT ![c] = Told(a)]
  BY <1>2 DEF ReturnToCaller, Announced, Told, Types
<1>4. ASSUME NEW s \in replied
      PROVE  /\ s \in Shards
             /\ FinalResponse(s, c) \notin {"none", "waiting"}
             /\ FinalResponse(s, c) = "ACCEPTED_T_COMMIT" => Verdicts[s][c] = "commit"
             /\ FinalResponse(s, c) # "ACCEPTED_T_COMMIT" => Verdicts[s][c] = "abort"
  <2>1. s \in Shards /\ pc[s][c] = "done"
    BY MapsAtCall
  <2>2. vote[s][c] # "none" /\ decision[s][c] # "none"
    BY <2>1 DEF WrittenOnce
  <2>3. vote[s][c] \in PrepareReplies /\ decision[s][c] \in AcceptReplies
    BY <2>1, <2>2 DEF Types
  <2>4. decision[s][c] = "ACCEPTED_T_COMMIT" => vote[s][c] = "PREPARED_T_COMMIT"
    BY <2>1 DEF RefusalAborts
  <2>5. Verdicts[s][c] = IF decision[s][c] = "ACCEPTED_T_COMMIT" THEN "commit" ELSE "abort"
    BY <2>1, <2>2 DEF Verdicts, Verdict
  <2> QED
    BY <2>1, <2>3, <2>4, <2>5
    DEF FinalResponse, PrepareReplies, PreparedTypes, AcceptReplies, AcceptedTypes
<1>5. CASE a = "ACCEPTED_T_COMMIT"
  <2>1. /\ replied = targets
        /\ {FinalResponse(s, c) : s \in replied} \ {"ACCEPTED_T_COMMIT"} = {}
    BY <1>2, <1>5 DEF ProcessShardResponses
  <2>2. \A s \in targets : Verdicts[s][c] = "commit"
    BY <1>4, <2>1
  <2>3. Told(a) = "committed"
    BY <1>5 DEF Told
  <2> QED
    BY <1>1, <1>3, <2>2, <2>3, MapsAtCall DEF Commit!Return
<1>6. CASE a = "SUBMIT_T_SYSTEM_ERROR"
  <2>1. Told(a) = "unknown"
    BY <1>6 DEF Told
  <2> QED
    BY <1>1, <1>3, <2>1 DEF Commit!Return
<1>7. CASE a \notin {"ACCEPTED_T_COMMIT", "SUBMIT_T_SYSTEM_ERROR"}
  <2>1. PICK s \in replied : a = FinalResponse(s, c)
    BY <1>2, <1>7 DEF ProcessShardResponses
  <2>2. Verdicts[s][c] = "abort" /\ s \in targets
    BY <1>4, <1>7, <2>1
  <2>3. Told(a) = "aborted"
    BY <1>4, <1>7, <2>1 DEF Told
  <2> QED
    BY <1>1, <1>3, <2>2, <2>3, MapsAtCall DEF Commit!Return
<1> QED
  BY <1>5, <1>6, <1>7

\* A shard votes once, and to commit only if it has prepared the transaction and has not
\* voted so for another call of it (TreeMapServer.appExecuteUnordered, MapClient.prepare_t).
LEMMA VoteImplements ==
  ASSUME RefinementInv, OneVotePerTransaction', [Next]_vars,
         NEW s \in Shards, NEW c \in Calls, BroadcastPrepared(s, c)
  PROVE  Commit!Vote(s, c)
<1>1. /\ Types /\ WellFormed /\ pc[s][c] = "prepare"
  BY DEF BroadcastPrepared, RefinementInv, JobInv, TypeOK
<1>2. UNCHANGED <<PreparedTxs, Verdicts, Announced>>
  BY <1>1, NothingPrepared DEF BroadcastPrepared, Verdicts, Announced, orderVars
<1>3. Announced[c] # "none"
  <2>1. outcome[c] # "none"
    BY <1>1 DEF RefinementInv, JobInv, SubmittedOnce
  <2> QED
    BY <2>1 DEF Announced, Told
<1>4. s \in TargetShards(TxOf[c])
  BY <1>1 DEF RefinementInv, TargetsOnly
<1>5. vote[s][c] = "none" /\ Ballots[s][c] = "none"
  BY <1>1 DEF RefinementInv, JobInv, WrittenOnce, Ballots, Ballot
<1>6. PICK a \in PrepareReturns(s, c) : vote' = [vote EXCEPT ![s][c] = a]
  BY DEF BroadcastPrepared
<1>7. a # "none"
  BY DEF PrepareReturns, PrepareReplies, PreparedTypes
<1>8. Ballots' = [Ballots EXCEPT ![s][c] = Ballot(a)] /\ Ballot(a) \in {"yes", "no"}
  BY ZenonT(60), <1>1, <1>6, <1>7 DEF Ballots, Ballot, Types
<1>9. ASSUME Ballot(a) = "yes"
      PROVE  Commit!MayAgree(s, c)
  <2>1. a = "PREPARED_T_COMMIT" /\ vote'[s][c] = "PREPARED_T_COMMIT"
    BY <1>1, <1>6, <1>7, <1>9 DEF Ballot, Types
  <2>2. TxOf[c] \in PreparedTxs[s]
    BY <1>1, <2>1, VoteByMajority, TransactionAssumption DEF RefinementInv, PreparedTxs
  <2>3. ASSUME NEW d \in Calls, TxOf[d] = TxOf[c], Ballots[s][d] = "yes"
        PROVE  FALSE
    <3>1. vote[s][d] = "PREPARED_T_COMMIT"
      BY <2>3 DEF Ballots, Ballot
    <3>2. d # c
      BY <1>5, <3>1
    <3>3. vote'[s][d] = "PREPARED_T_COMMIT"
      BY <3>1, WrittenStays DEF RefinementInv
    <3> QED
      BY <2>1, <2>3, <3>2, <3>3 DEF OneVotePerTransaction
  <2> QED
    BY <2>2, <2>3 DEF Commit!MayAgree
<1> QED
  BY <1>2, <1>3, <1>4, <1>5, <1>8, <1>9, MapsAtCall DEF Commit!Vote

\* A shard decides once, after its vote, and to commit only if it voted so and every
\* input shard has prepared the transaction (MapClient.accept_t).
LEMMA DecideImplements ==
  ASSUME RefinementInv, RefusalAborts', CommitBackedByPrepares', [Next]_vars,
         NEW s \in Shards, NEW c \in Calls, BroadcastAccepted(s, c)
  PROVE  Commit!Decide(s, c)
<1>1. Types /\ WellFormed /\ pc[s][c] = "accept"
  BY DEF BroadcastAccepted, RefinementInv, JobInv, TypeOK
<1>2. UNCHANGED <<PreparedTxs, Ballots, Announced>>
  BY <1>1, NothingPrepared DEF BroadcastAccepted, Ballots, Announced, orderVars
<1>3. vote[s][c] # "none" /\ decision[s][c] = "none"
  BY <1>1 DEF RefinementInv, JobInv, WrittenOnce
<1>4. Ballots[s][c] # "none" /\ Verdicts[s][c] = "none"
  BY <1>3 DEF Ballots, Ballot, Verdicts, Verdict
<1>5. PICK a \in AcceptReturns(s, c) : decision' = [decision EXCEPT ![s][c] = Decide(s, c, a)]
  BY DEF BroadcastAccepted
<1> DEFINE d == Decide(s, c, a)
<1>6. d # "none"
  BY DEF AcceptReturns, AcceptVerdict, Decide
<1>7. Verdicts' = [Verdicts EXCEPT ![s][c] = Verdict(d)] /\ Verdict(d) \in {"commit", "abort"}
  BY ZenonT(60), <1>1, <1>5, <1>6 DEF Verdicts, Verdict, Types
<1>8. ASSUME Verdict(d) = "commit"
      PROVE  Commit!MayCommit(s, c)
  <2>1. decision'[s][c] = "ACCEPTED_T_COMMIT"
    BY <1>1, <1>5, <1>6, <1>8 DEF Verdict, Types
  <2>2. vote[s][c] = "PREPARED_T_COMMIT"
    BY <2>1 DEF RefusalAborts, BroadcastAccepted
  <2>3. Ballots[s][c] = "yes"
    BY <2>2 DEF Ballots, Ballot
  <2>4. ASSUME NEW z \in InputShards(TxOf[c])
        PROVE  TxOf[c] \in PreparedTxs[z]
    <3>1. PreparedByMajority(z, TxOf[c])'
      BY <2>1, <2>4 DEF CommitBackedByPrepares
    <3>2. TxOf[c] \in PreparedTxs'[z]
      BY <2>4, <3>1, MapsAtCall DEF PreparedTxs
    <3> QED
      BY <1>2, <3>2
  <2> QED
    BY <2>3, <2>4, MapsAtCall DEF Commit!MayCommit
<1> QED
  BY <1>2, <1>4, <1>7, <1>8 DEF Commit!Decide

\* Every step is a step of AtomicCommit or changes nothing of it
\* (TreeMapServer.appExecuteUnordered, executeSingle, MapClient.submitTransaction).
LEMMA StepImplements ==
  ASSUME RefinementInv, RefusalAborts', OneVotePerTransaction', CommitBackedByPrepares',
         [Next]_vars
  PROVE  [Commit!Next]_Commit!vars
<1>1. Types /\ WellFormed /\ WrittenOnce /\ RefusalAborts
  BY DEF RefinementInv, JobInv, TypeOK
<1>2. CASE \E c \in Calls : SubmitTransaction(c) \/ ReturnToCaller(c)
  BY <1>1, <1>2, SubmitImplements, ReturnImplements DEF Commit!Next
<1>3. CASE \E s \in Shards, r \in Replicas : Execute(s, r)
  BY <1>1, <1>3, ExecuteImplements
<1>4. CASE \E s \in Shards, c \in Calls : BroadcastPrepared(s, c) \/ BroadcastAccepted(s, c)
  BY <1>4, VoteImplements, DecideImplements DEF Commit!Next
<1>5. CASE UNCHANGED <<answers, vote, decision, outcome>>
  <2>1. UNCHANGED <<PreparedTxs, Ballots, Verdicts, Announced>>
    BY <1>1, <1>5, NothingPrepared DEF Ballots, Verdicts, Announced
  <2> QED
    BY <2>1 DEF Commit!vars
<1> QED
  BY <1>2, <1>3, <1>4, <1>5
  DEF Next, Handle, HandleSubmit, HandlePreparedTAbort, HandlePreparedTCommit,
      HandleAcceptedTAbort, HandleAcceptedTCommit, Order, Job, SendAccept, ReplyToClient,
      Terminating, vars, orderVars, jobVars

\* Nothing is prepared, voted or decided at the start (TreeMapServer, MapClient).
LEMMA InitImplements ==
  ASSUME Init
  PROVE  Commit!Init
<1>1. ASSUME NEW s \in Shards, NEW t
      PROVE  ~PreparedByMajority(s, t)
  <2>1. PreparedAt(s, t) = {}
    BY DEF Init, PreparedAt
  <2>2. Cardinality(PreparedAt(s, t)) = 0
    BY <2>1, FS_EmptySet
  <2> QED
    BY <2>2, QuorumMajority DEF PreparedByMajority
<1>2. PreparedTxs = [s \in Shards |-> {}]
  BY <1>1 DEF PreparedTxs
<1>3. /\ Ballots = [s \in Shards |-> [c \in Calls |-> "none"]]
      /\ Verdicts = [s \in Shards |-> [c \in Calls |-> "none"]]
      /\ Announced = [c \in Calls |-> "none"]
  BY DEF Init, Ballots, Ballot, Verdicts, Verdict, Announced, Told
<1> QED
  BY <1>2, <1>3 DEF Commit!Init

\* S-BAC is an atomic commitment in the sense of AtomicCommit: shards vote and decide once,
\* commit only what is prepared everywhere and agreed to once, and callers are told what is
\* so (TreeMapServer.appExecuteUnordered, MapClient.submitTransaction).
THEOREM Refinement == Spec => ImplementsAtomicCommit
<1>1. Init => Commit!Init
  BY InitImplements
<1>2. /\ RefinementInv /\ RefinementInv' /\ OneVotePerTransaction' /\ CommitBackedByPrepares'
      /\ [Next]_vars
      => [Commit!Next]_Commit!vars
  BY StepImplements DEF RefinementInv
<1> QED
  BY <1>1, <1>2, RefinementInvCorrect, OneVotePerTransactionCorrect,
     CommitBackedByPreparesCorrect, PTL
  DEF Spec, ImplementsAtomicCommit, Commit!Spec
=============================================================================
