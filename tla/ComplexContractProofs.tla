----------------------- MODULE ComplexContractProofs -----------------------
(***************************************************************************)
(* Theorems about ComplexContract, for every number of session slots, of   *)
(* connections, of STATE_SYNC requests, of calls and of faults.            *)
(***************************************************************************)
EXTENDS ComplexContract, FiniteSetTheorems, SequenceTheorems,
        WellFoundedInduction, TLAPS

-----------------------------------------------------------------------------
(* Types *)

Workers == [at : WorkerPlaces, task : Tasks, reply : Message(Replies)]
Sessions == [id : Nat, key : Nat, counter : Nat, status : {"absent", "active"}]
Initiators == [stage : Stages, left : Int, session : Sessions,
               waiting : BOOLEAN, answer : Answers]

\* TypeOK with the rest of the worker and of the initiator. An initiator waits
\* only in a call, and the server is to accept only what is in the backlog.
Types ==
  /\ TypeOK
  /\ worker \in Workers
  /\ initiator \in Initiators
  /\ initiator.waiting => initiator.stage # "idle"
  /\ server.accept => backlog # <<>>

\* A finite set of numbers that is not empty has a least one.
LEMMA Least ==
  ASSUME NEW T \in SUBSET Int, IsFiniteSet(T), T # {}
  PROVE  \E i \in T : \A j \in T : i <= j
<1> DEFINE UpTo(i) == {k \in T : k <= i}
           Q == {UpTo(i) : i \in T}
<1>1. PICK x \in Q : \A y \in Q : ~(<<y, x>> \in StrictSubsetOrdering(T))
  <2>1. Q \subseteq SUBSET T /\ Q # {}
    OBVIOUS
  <2>2. Q \subseteq FiniteSubsetsOf(T)
    BY <2>1, FS_FiniteSubsetsOfFinite
  <2>3. IsWellFoundedOn(StrictSubsetOrdering(T), FiniteSubsetsOf(T))
    BY FS_StrictSubsetOrderingWellFounded
  <2> HIDE DEF Q
  <2> QED
    BY <2>1, <2>2, <2>3, WFMin
<1>2. PICK i \in T : x = UpTo(i)
  BY <1>1
<1>3. ASSUME NEW j \in T, j < i
      PROVE  FALSE
  <2>1. i \in Int /\ j \in Int /\ \A k \in T : k \in Int
    BY <1>2, <1>3
  <2>2. UpTo(j) \subseteq UpTo(i) /\ i \in UpTo(i) /\ i \notin UpTo(j)
    <3>1. \A k \in T : k <= j => k <= i
      BY <1>3, <2>1
    <3>2. i <= i /\ ~(i <= j)
      BY <1>3, <2>1
    <3> QED
      BY <1>2, <3>1, <3>2
  <2>3. UpTo(j) \in Q /\ UpTo(j) \subseteq T /\ x \subseteq T
    BY <1>2
  <2>4. UpTo(j) \subseteq x /\ UpTo(j) # x
    BY <1>2, <2>2
  <2>5. <<UpTo(j), x>> \in StrictSubsetOrdering(T)
    <3> HIDE DEF UpTo
    <3> QED
      BY <2>3, <2>4 DEF StrictSubsetOrdering
  <2> QED
    BY <1>1, <2>3, <2>5
<1>4. \A j \in T : i <= j
  BY <1>3
<1> QED
  BY <1>4

\* The first free slot of the tracker is a free slot (generate_session_id).
LEMMA FreeIdIsFree ==
  ASSUME NEW e \in EnclaveType, ~(Ids \subseteq e.tracker)
  PROVE  FreeId(e) \in Ids \ e.tracker
<1>1. IsFiniteSet(Ids) /\ Ids \subseteq Int
  BY MaxSessionsAssumption, FS_Interval DEF Ids
<1>2. IsFiniteSet(Ids \ e.tracker)
  BY <1>1, FS_Subset
<1>3. \E i \in Ids \ e.tracker : \A j \in Ids \ e.tracker : i <= j
  BY <1>1, <1>2, Least
<1> QED
  BY <1>3 DEF FreeId

\* The first free slot of the connection table (CPServer::doWork).
LEMMA FreeSlotIsFree ==
  ASSUME FreeSlots # {}
  PROVE  (CHOOSE f \in FreeSlots : \A g \in FreeSlots : f <= g) \in FreeSlots
<1>1. IsFiniteSet(Slots) /\ Slots \subseteq Int /\ FreeSlots \subseteq Slots
  BY ComplexContractAssumption, FS_Interval DEF Slots, FreeSlots
<1>2. IsFiniteSet(FreeSlots)
  BY <1>1, FS_Subset
<1>3. \E f \in FreeSlots : \A g \in FreeSlots : f <= g
  BY <1>1, <1>2, Least
<1> QED
  BY <1>3

\* A zeroed buffer is a message (CPTask.process_msg_transfer).
LEMMA ZeroedType ==
  ASSUME NEW types, NEW type \in types
  PROVE  Zeroed(type) \in Message(types)
BY DEF Zeroed, Message

LEMMA Constants ==
  /\ NoTask \in Tasks /\ NoConn \in Connections
  /\ \A at \in WorkerPlaces : Worker(at) \in Workers
  /\ NotAsking \in Initiators
  /\ EmptyEnclave \in EnclaveType
  /\ Idle \in [accept : BOOLEAN, ready : SUBSET Slots, push : Tasks, late : BOOLEAN]
<1>1. Zeroed("close") \in Message(Requests) /\ Zeroed("ack") \in Message(Replies)
  BY ZeroedType DEF Requests, Replies
<1>2. NoTask \in Tasks
  BY <1>1, ComplexContractAssumption DEF NoTask, Tasks
<1> QED
  BY <1>1, <1>2, ComplexContractAssumption
  DEF NoConn, Connections, Worker, Workers, NotAsking, Initiators, Stages, NoSession, Sessions,
      Answers, NoAnswer, EmptyEnclave, EnclaveType, Absent, SessionStatuses, Idle, Ids

\* The four ECALLs (EnclaveMessageExchange.cpp) keep the type of the globals.
LEMMA SessionRequestType ==
  ASSUME NEW e \in EnclaveType, NEW key \in Nat
  PROVE  /\ SessionRequest(e, key).enclave \in EnclaveType
         /\ SessionRequest(e, key).reply \in Message(Replies)
<1>1. CASE Ids \subseteq e.tracker
  BY <1>1, ZeroedType DEF SessionRequest, Replies
<1>2. CASE ~(Ids \subseteq e.tracker)
  <2> DEFINE id == FreeId(e)
             new == [status |-> "inProgress", key |-> key, counter |-> 0]
             session == [e.session EXCEPT ![id] = IF @.status = "absent" THEN new ELSE @]
  <2>1. id \in Ids /\ id \in Nat
    BY <1>2, FreeIdIsFree DEF Ids
  <2>2. session \in [Ids -> [status : SessionStatuses, key : Nat, counter : Nat]]
    BY <2>1 DEF EnclaveType, SessionStatuses
  <2>3. e.tracker \cup {id} \in SUBSET Ids
    BY <2>1 DEF EnclaveType
  <2>4. SessionRequest(e, key) =
          [enclave |-> [tracker |-> e.tracker \cup {id}, session |-> session, count |-> e.count],
           reply |-> [type |-> "msg1", id |-> id, key |-> key, nonce |-> 0]]
    BY <1>2 DEF SessionRequest
  <2> HIDE DEF session, id
  <2> QED
    BY <2>1, <2>2, <2>3, <2>4 DEF EnclaveType, Message, Replies
<1> QED
  BY <1>1, <1>2

LEMMA EndSessionType ==
  ASSUME NEW e \in EnclaveType, NEW id \in Nat
  PROVE  EndSession(e, id) \in EnclaveType
BY DEF EndSession, EnclaveType, Known, Ids, Absent, SessionStatuses

LEMMA ExchangeReportType ==
  ASSUME NEW e \in EnclaveType, NEW m \in Message(Requests)
  PROVE  /\ ExchangeReport(e, m).enclave \in EnclaveType
         /\ ExchangeReport(e, m).reply \in Message(Replies)
<1>1. m.id \in Nat /\ m.key \in Nat
  BY DEF Message
<1>2. CASE m.id \in Known(e) /\ e.session[m.id].status = "inProgress" /\ e.session[m.id].key = m.key
  <2> DEFINE session == [e.session EXCEPT ![m.id] =
                           [status |-> "active", key |-> m.key, counter |-> 0]]
  <2>1. session \in [Ids -> [status : SessionStatuses, key : Nat, counter : Nat]]
    BY <1>1, <1>2 DEF EnclaveType, SessionStatuses
  <2>2. ExchangeReport(e, m) =
          [enclave |-> [tracker |-> e.tracker, session |-> session, count |-> e.count + 1],
           reply   |-> [type |-> "msg3", id |-> m.id, key |-> m.key, nonce |-> 0]]
    BY <1>2 DEF ExchangeReport
  <2> HIDE DEF session
  <2> QED
    BY <1>1, <2>1, <2>2 DEF EnclaveType, Message, Replies
<1>3. CASE ~(m.id \in Known(e) /\ e.session[m.id].status = "inProgress"
             /\ e.session[m.id].key = m.key)
  BY <1>1, <1>3, EndSessionType, ZeroedType DEF ExchangeReport, Replies
<1> QED
  BY <1>2, <1>3

LEMMA GenerateResponseType ==
  ASSUME NEW e \in EnclaveType, NEW m \in Message(Requests)
  PROVE  /\ GenerateResponse(e, m).enclave \in EnclaveType
         /\ GenerateResponse(e, m).reply \in Message(Replies)
<1>1. m.id \in Nat /\ m.key \in Nat /\ m.nonce \in Nat
  BY DEF Message
<1>2. CASE Opens(e, m) /\ Fits(m.type)
  <2>1. Advance(e, m.id) \in EnclaveType
    BY <1>1, <1>2 DEF Opens, Active, Advance, EnclaveType
  <2> QED
    BY <1>1, <1>2, <2>1 DEF GenerateResponse, Message, Replies
<1>3. CASE ~(Opens(e, m) /\ Fits(m.type))
  BY <1>3, ZeroedType DEF GenerateResponse, Replies
<1> QED
  BY <1>2, <1>3

LEMMA CloseRequestType ==
  ASSUME NEW e \in EnclaveType, NEW m \in Message(Requests)
  PROVE  /\ CloseRequest(e, m).enclave \in EnclaveType
         /\ CloseRequest(e, m).reply \in Message(Replies)
BY EndSessionType, ZeroedType DEF CloseRequest, Message, Replies

-----------------------------------------------------------------------------
(* Every step keeps the types *)

\* What the end of the responder leaves behind (signal_handler, cleanup).
LEMMA DieTypes ==
  ASSUME Types, Die
  PROVE  /\ phase' = "down" /\ enclave' \in EnclaveType
         /\ server' \in [accept : BOOLEAN, ready : SUBSET Slots, push : Tasks, late : BOOLEAN]
         /\ worker' \in Workers
         /\ queue' \in Seq(Tasks) /\ backlog' \in Seq(Connections)
         /\ conn' \in [Slots -> Connections]
         /\ initiator' \in Initiators /\ (initiator'.waiting => initiator'.stage # "idle")
         /\ ~server'.accept
<1>1. initiator' \in Initiators /\ (initiator'.waiting => initiator'.stage # "idle")
  BY DEF Types, Die, Ended, Initiators, Answers
<1>2. "exited" \in WorkerPlaces
  BY DEF WorkerPlaces
<1> QED
  BY <1>1, <1>2, Constants DEF Die, Idle

\* Requesters that go away change no type (client_send_receive).
LEMMA AbandonTypes ==
  ASSUME Types, AbandonAll
  PROVE  /\ backlog' \in Seq(Connections) /\ Len(backlog') = Len(backlog)
         /\ \A k \in 1 .. Len(backlog) : backlog'[k] = Abandoned(backlog[k])
         /\ conn' \in [Slots -> Connections]
<1>1. ASSUME NEW c \in Connections
      PROVE  Abandoned(c) \in Connections
  BY DEF Abandoned, Connections
<1>2. /\ Len(backlog) \in Nat /\ DOMAIN backlog = 1 .. Len(backlog)
      /\ \A k \in 1 .. Len(backlog) : backlog[k] \in Connections
  BY DEF Types, TypeOK
<1>3. backlog' \in [1 .. Len(backlog) -> Connections]
  <2> HIDE DEF Connections, Abandoned
  <2> QED
    BY <1>1, <1>2 DEF AbandonAll
<1>4. backlog' \in Seq(Connections) /\ Len(backlog') = Len(backlog)
  BY <1>2, <1>3, SeqDef, LenProperties
<1>5. conn' \in [Slots -> Connections]
  BY <1>1 DEF Types, TypeOK, AbandonAll
<1> QED
  BY <1>2, <1>4, <1>5 DEF AbandonAll

\* The server thread (CPServer::doWork, Queue::push).
LEMMA ServerTypes ==
  ASSUME Types, Server
  PROVE  Types'
<1>1. CASE Select
  BY <1>1, Constants DEF Types, TypeOK, Select, Idle
<1>2. CASE Accept
  <2>1. FreeSlots \subseteq Slots
    BY DEF FreeSlots
  <2>2. Head(backlog) \in Connections /\ Tail(backlog) \in Seq(Connections)
    BY <1>2 DEF Types, TypeOK, Accept
  <2> QED
    BY <1>2, <2>1, <2>2 DEF Types, TypeOK, Accept
<1>3. CASE Refuse
  <2>1. CASE Head(backlog).live
    <3>1. Zeroed("full") \in Message(Replies)
      BY ZeroedType DEF Replies
    <3>2. initiator' \in Initiators /\ (initiator'.waiting => initiator'.stage # "idle")
      <4>1. {Zeroed("full")} \in Answers
        BY <3>1 DEF Answers
      <4> HIDE DEF Answers
      <4> QED
        BY <1>3, <2>1, <4>1 DEF Types, Refuse, Initiators
    <3>3. backlog' \in Seq(Connections)
      <4>1. backlog \in Seq(Connections) /\ backlog # <<>>
        BY <1>3 DEF Types, TypeOK, Refuse
      <4>2. backlog' = Tail(backlog)
        BY <1>3, <2>1 DEF Refuse
      <4> QED
        BY <4>1, <4>2, HeadTailProperties
    <3>4. /\ server' \in [accept : BOOLEAN, ready : SUBSET Slots, push : Tasks, late : BOOLEAN]
          /\ ~server'.accept
      BY <1>3, <2>1 DEF Types, TypeOK, Refuse
    <3> QED
      BY <1>3, <2>1, <3>2, <3>3, <3>4 DEF Types, TypeOK, Refuse, Initiators
  <2>2. CASE ~Head(backlog).live
    BY <1>3, <2>2, DieTypes DEF Types, TypeOK, Refuse, Initiators, Workers
  <2> QED
    BY <2>1, <2>2
<1>4. CASE Push
  <2>1. queue' \in Seq(Tasks)
    BY <1>4, AppendProperties DEF Types, TypeOK, Push
  <2> QED
    BY <1>4, <2>1, Constants DEF Types, TypeOK, Push
<1>5. ASSUME NEW f \in Slots, Receive(f)
      PROVE  Types'
  <2>1. [slot |-> f, req |-> conn[f].req] \in Tasks
    BY ComplexContractAssumption DEF Types, TypeOK, Connections, Tasks, Slots
  <2>2. conn' \in [Slots -> Connections]
    BY <1>5 DEF Types, TypeOK, Receive, Connections
  <2> QED
    BY <1>5, <2>1, <2>2, Constants DEF Types, TypeOK, Receive
<1>6. ASSUME NEW f \in Slots, Hangup(f)
      PROVE  Types'
  BY <1>6, Constants DEF Types, TypeOK, Hangup
<1> QED
  BY <1>1, <1>2, <1>3, <1>4, <1>5, <1>6 DEF Server

\* The worker (CPTask::run and its handlers).
LEMMA CallTypes ==
  ASSUME Types, NEW types, NEW result, Call(types, result), fresh' \in Nat,
         result.enclave \in EnclaveType, result.reply \in Message(Replies)
  PROVE  Types'
<1>1. enclave' \in EnclaveType /\ worker' \in Workers
  BY DEF Types, TypeOK, Call, Workers, WorkerPlaces
<1> QED
  BY <1>1 DEF Types, TypeOK, Call, Workers

LEMMA WorkerTypes ==
  ASSUME Types, WorkerStep
  PROVE  Types'
<1>1. \A at \in WorkerPlaces : Worker(at) \in Workers /\ Worker(at).at = at
  BY Constants DEF Worker
<1>2. worker.task.req \in Message(Requests)
  BY DEF Types, Workers, Tasks
<1>3. {"head", "pop", "call", "exited"} \subseteq WorkerPlaces
  BY DEF WorkerPlaces
<1>4. worker' \in Workers => worker'.at \in WorkerPlaces /\ worker'.task \in Tasks
  BY DEF Workers
<1>5. CASE LoopTest
  BY <1>1, <1>3, <1>4, <1>5, Constants DEF Types, TypeOK, LoopTest, Exited
<1>6. CASE PopClosed
  BY <1>1, <1>3, <1>4, <1>6, Constants DEF Types, TypeOK, PopClosed, Exited
<1>7. CASE Pop
  <2>1. Head(queue) \in Tasks /\ Tail(queue) \in Seq(Tasks)
    BY <1>7 DEF Types, TypeOK, Pop
  <2>2. [Worker("call") EXCEPT !.task = Head(queue)] \in Workers
    BY <1>1, <1>3, <2>1 DEF Workers
  <2>3. worker' \in Workers /\ enclave' \in EnclaveType
    <3>1. CASE Exited
      BY <1>1, <1>3, <3>1, Constants DEF Exited
    <3>2. CASE worker' = [Worker("call") EXCEPT !.task = Head(queue)] /\ enclave' = enclave
      BY <2>2, <3>2 DEF Types, TypeOK
    <3> QED
      BY <1>7, <3>1, <3>2 DEF Pop
  <2>4. /\ queue' = Tail(queue)
        /\ UNCHANGED <<phase, fresh, born, server, backlog, conn, initiator, calls, faults>>
    BY <1>7 DEF Pop
  <2> QED
    BY <1>4, <2>1, <2>3, <2>4 DEF Types, TypeOK
<1>8. CASE CallSessionRequest
  BY <1>8, CallTypes, SessionRequestType DEF CallSessionRequest, Types, TypeOK
<1>9. CASE CallExchangeReport
  BY <1>2, <1>9, CallTypes, ExchangeReportType DEF CallExchangeReport, Types, TypeOK
<1>10. CASE CallGenerateResponse
  BY <1>2, <1>10, CallTypes, GenerateResponseType DEF CallGenerateResponse, Types, TypeOK
<1>11. CASE CallEndSession
  BY <1>2, <1>11, CallTypes, CloseRequestType DEF CallEndSession, Types, TypeOK
<1>12. CASE Send
  <2>1. initiator' \in Initiators /\ (initiator'.waiting => initiator'.stage # "idle")
    BY <1>12 DEF Types, Send, Workers, Initiators, Answers
  <2>2. initiator'.stage \in Stages /\ initiator'.waiting \in BOOLEAN
    BY <2>1 DEF Initiators
  <2> QED
    BY <1>1, <1>3, <1>4, <1>12, <2>1, <2>2 DEF Types, TypeOK, Send
<1>13. CASE SendDead
  BY <1>4, <1>13, DieTypes DEF Types, TypeOK, SendDead, Initiators
<1> QED
  BY <1>5, <1>6, <1>7, <1>8, <1>9, <1>10, <1>11, <1>12, <1>13 DEF WorkerStep

\* A requester asks for what its place in the contract calls for (func2).
LEMMA RequestHasType ==
  ASSUME NEW i \in Initiators, i.stage # "idle"
  PROVE  RequestOf(i) \in Message(Requests)
<1>1. RequestType[i.stage] \in Requests
  BY DEF RequestType, Requests, Initiators, Stages
<1> QED
  BY <1>1 DEF RequestOf, Message, Initiators, Sessions

\* What is known of a session after an answer (send_request_receive_response).
LEMMA EstablishedType ==
  ASSUME NEW stage, NEW s \in Sessions, NEW r, r.id \in Nat, r.key \in Nat
  PROVE  Established(stage, s, r) \in Sessions
<1>1. CASE stage = "msg1"
  <2>1. Established(stage, s, r) = [id |-> r.id, key |-> r.key, counter |-> 0, status |-> "absent"]
    BY <1>1 DEF Established, NoSession
  <2> QED
    BY <2>1 DEF Sessions
<1>2. CASE stage # "msg1"
  BY <1>2 DEF Established, Sessions
<1> QED
  BY <1>1, <1>2

LEMMA NextStageType ==
  ASSUME NEW stage \in Stages \ {"idle", "close", "closeFailed"},
         NEW ok \in BOOLEAN, NEW last \in BOOLEAN
  PROVE  NextStage(stage, ok, last) \in Stages
BY DEF NextStage, Stages

\* An answer is a message with an id and a key.
LEMMA AnswerFields ==
  ASSUME NEW a \in Answers, a # NoAnswer, NEW r, r \in a
  PROVE  r \in Message(Replies \cup {"eof"})
<1>1. CASE a = Eof
  BY <1>1, ZeroedType DEF Eof
<1>2. CASE a # Eof
  BY <1>2 DEF Answers, NoAnswer, Message
<1> QED
  BY <1>1, <1>2

LEMMA InitiatorTypes ==
  ASSUME Types, Initiator
  PROVE  Types'
<1> DEFINE Typed == /\ initiator' \in Initiators
                    /\ initiator'.waiting => initiator'.stage # "idle"
<1>1. CASE Ask
  <2>1. RequestOf(initiator) \in Message(Requests)
    BY <1>1, RequestHasType DEF Ask, Types
  <2>2. Typed
    BY <1>1 DEF Types, Ask, Initiators, Answers
  <2>3. [req |-> RequestOf(initiator), read |-> FALSE, live |-> TRUE, open |-> TRUE] \in Connections
    BY <2>1 DEF Connections
  <2>4. backlog' \in Seq(Connections) /\ (server.accept => backlog' # <<>>)
    <3> DEFINE asked == [req |-> RequestOf(initiator), read |-> FALSE, live |-> TRUE, open |-> TRUE]
    <3>1. CASE phase = "down"
      BY <1>1, <3>1 DEF Types, TypeOK, Ask
    <3>2. CASE phase # "down"
      <4>1. backlog' = Append(backlog, asked) /\ backlog \in Seq(Connections)
        BY <1>1, <3>2 DEF Types, TypeOK, Ask
      <4> HIDE DEF asked
      <4> QED
        BY <2>3, <4>1, AppendProperties DEF asked
    <3> QED
      BY <3>1, <3>2
  <2>5. initiator'.stage \in Stages /\ initiator'.waiting \in BOOLEAN
    BY <2>2 DEF Initiators
  <2> QED
    BY <1>1, <2>2, <2>4, <2>5 DEF Types, TypeOK, Ask
<1>2. CASE TakeAnswer
  <2> DEFINE i == initiator
             r == CHOOSE r \in i.answer : TRUE
             ok == Valid(i.stage, i.session, r)
             next == NextStage(i.stage, ok, i.left = 1)
             left == IF next \in {"sync1", "sync2"}
                     THEN IF next = i.stage THEN i.left - 1 ELSE Syncs ELSE 0
             session == IF next = "idle" THEN NoSession
                        ELSE IF ok THEN Established(i.stage, i.session, r) ELSE i.session
  <2>1. i.stage \in Stages \ {"idle", "close", "closeFailed"}
    BY <1>2 DEF Types, TypeOK, TakeAnswer
  <2>2. ok \in BOOLEAN
    BY DEF Valid
  <2>3. next \in Stages
    BY <2>1, <2>2, NextStageType
  <2>4. left \in Int
    BY ComplexContractAssumption DEF Types, Initiators
  <2>5. i.answer \in Answers /\ i.answer # NoAnswer
    BY <1>2 DEF TakeAnswer, Types, Initiators
  <2>6. r \in i.answer
    BY <2>5 DEF NoAnswer
  <2>7. r.id \in Nat /\ r.key \in Nat
    BY <2>5, <2>6, AnswerFields DEF Message
  <2>8. session \in Sessions
    BY <2>7, EstablishedType DEF Types, Initiators, NoSession, Sessions
  <2>9. initiator' = [stage |-> next, left |-> left, session |-> session,
                      waiting |-> FALSE, answer |-> NoAnswer]
    BY <1>2 DEF TakeAnswer
  <2> HIDE DEF next, left, session
  <2>10. Typed /\ initiator'.stage \in Stages /\ initiator'.waiting \in BOOLEAN
    BY <2>3, <2>4, <2>8, <2>9 DEF Initiators, Answers
  <2>11. AbandonAll
    BY <1>2 DEF TakeAnswer
  <2>12. backlog # <<>> => backlog' # <<>>
    BY <2>11, AbandonTypes DEF Types, TypeOK
  <2> QED
    BY <1>2, <2>10, <2>11, <2>12, AbandonTypes DEF TakeAnswer, Types, TypeOK
<1>3. CASE Closed
  <2>1. AbandonAll /\ initiator' = NotAsking
    BY <1>3 DEF Closed
  <2>2. backlog # <<>> => backlog' # <<>>
    BY <2>1, AbandonTypes DEF Types, TypeOK
  <2>3. Typed /\ initiator'.stage \in Stages /\ initiator'.waiting \in BOOLEAN
    BY <2>1, Constants DEF NotAsking, Stages
  <2> QED
    BY <1>3, <2>1, <2>2, <2>3, AbandonTypes DEF Closed, Types, TypeOK
<1> QED
  BY <1>1, <1>2, <1>3 DEF Initiator

\* Signals, crashes, restarts, the shutdown and a datagram.
LEMMA EnvironmentTypes ==
  ASSUME Types,
         CloseQueue \/ Exit \/ Invoke \/ Signal \/ ResponderCrash \/ Restart \/ InitiatorCrash
  PROVE  Types'
<1>1. NotAsking \in Initiators /\ NotAsking.stage \in Stages /\ ~NotAsking.waiting
  BY Constants DEF NotAsking, Stages
<1>2. CASE CloseQueue
  BY <1>2 DEF Types, TypeOK, CloseQueue
<1>3. CASE Exit
  BY <1>3, DieTypes DEF Types, TypeOK, Exit, Initiators, Workers
<1>4. CASE Invoke
  <2>1. initiator' \in Initiators /\ initiator'.stage = "msg1" /\ ~initiator'.waiting
    BY <1>1, <1>4 DEF Invoke, Initiators, Stages, NotAsking
  <2>2. calls' \in 0 .. MaxCalls
    BY <1>4, ComplexContractAssumption DEF Invoke, Types, TypeOK
  <2> QED
    BY <1>4, <2>1, <2>2 DEF Types, TypeOK, Invoke, Stages
<1>5. CASE Signal
  <2>1. /\ server' \in [accept : BOOLEAN, ready : SUBSET Slots, push : Tasks, late : BOOLEAN]
        /\ server'.accept = server.accept
    BY <1>5 DEF Types, TypeOK, Signal
  <2>2. /\ phase' = "stopping" /\ faults' \in 0 .. MaxFaults
        /\ UNCHANGED <<enclave, fresh, born, worker, queue, backlog, conn, initiator, calls>>
    BY <1>5, ComplexContractAssumption DEF Types, TypeOK, Signal
  <2> QED
    BY <2>1, <2>2 DEF Types, TypeOK
<1>6. CASE ResponderCrash
  BY <1>6, DieTypes, ComplexContractAssumption
  DEF Types, TypeOK, ResponderCrash, Initiators, Workers
<1>7. CASE Restart
  <2>1. Worker("head") \in Workers
    BY Constants DEF WorkerPlaces
  <2> QED
    BY <1>7, <2>1 DEF Types, TypeOK, Restart, Workers
<1>8. CASE InitiatorCrash
  <2>1. AbandonAll
    BY <1>8 DEF InitiatorCrash
  <2>2. backlog # <<>> => backlog' # <<>>
    BY <2>1, AbandonTypes DEF Types, TypeOK
  <2>3. faults' \in 0 .. MaxFaults
    BY <1>8, ComplexContractAssumption DEF InitiatorCrash, Types, TypeOK
  <2>4. backlog' \in Seq(Connections) /\ conn' \in [Slots -> Connections]
    BY <2>1, AbandonTypes
  <2>5. /\ initiator' \in Initiators /\ initiator'.stage \in Stages
    /\ initiator'.waiting \in BOOLEAN /\ ~initiator'.waiting
    BY <1>8, Constants DEF InitiatorCrash, NotAsking, Stages
  <2>6. UNCHANGED <<phase, enclave, fresh, born, server, worker, queue, calls>>
    BY <1>8 DEF InitiatorCrash
  <2> QED
    BY <2>2, <2>3, <2>4, <2>5, <2>6 DEF Types, TypeOK
<1> QED
  BY <1>2, <1>3, <1>4, <1>5, <1>6, <1>7, <1>8

LEMMA InitTypes ==
  ASSUME Init
  PROVE  Types
BY Constants, ComplexContractAssumption
DEF Init, Types, TypeOK, NotAsking, Stages, WorkerPlaces, Workers, Idle

LEMMA TypesStep ==
  ASSUME Types, [Next]_vars
  PROVE  Types'
<1>1. CASE Next
  BY <1>1, ServerTypes, WorkerTypes, InitiatorTypes, EnvironmentTypes DEF Next
<1>2. CASE UNCHANGED vars
  BY <1>2 DEF Types, TypeOK, vars
<1> QED
  BY <1>1, <1>2

\* The types hold throughout, for every value of the constants.
THEOREM TypesCorrect == Spec => []Types
<1>1. Init => Types
  BY InitTypes
<1>2. Types /\ [Next]_vars => Types'
  BY TypesStep
<1> QED
  BY <1>1, <1>2, PTL DEF Spec

\* TypeOK, which the run of ComplexContract checks, follows.
THEOREM TypeCorrect == Spec => []TypeOK
<1>1. Types => TypeOK
  BY DEF Types
<1> QED
  BY <1>1, TypesCorrect, PTL

-----------------------------------------------------------------------------
(* The server thread *)

Nothing == [f \in Slots |-> NoConn]

\* A pass of the server (CPServer::doWork) accepts one connection, before it
\* reads, and select reports every request there is to be read: of the requests
\* that are not read, at most one was reported and at most one was accepted
\* after the report. A process that is down has left nothing.
Discipline ==
  /\ \A f \in Slots : ~conn[f].read => conn[f].open
  /\ \A f \in server.ready : conn[f].open
  /\ \A f, g \in UnreadIn(server.ready) : f = g
  /\ \A f, g \in UnreadIn(Slots \ server.ready) : f = g
  /\ server.accept => UnreadIn(Slots \ server.ready) = {}
  /\ \A k \in 1 .. Len(backlog) : ~backlog[k].read /\ backlog[k].open
  /\ phase = "down" => /\ queue = <<>> /\ backlog = <<>> /\ conn = Nothing
                       /\ server = Idle /\ worker.at = "exited"

\* What a lemma on a step of another thread needs of the server.
ServerStays == server'.ready = server.ready /\ server'.accept = server.accept
               /\ server'.push = server.push

LEMMA ServerUntouched ==
  ASSUME Types, Discipline, ServerStays,
         \A f \in Slots : /\ conn'[f].read = conn[f].read /\ conn'[f].open = conn[f].open
                          /\ conn'[f].req = conn[f].req
  PROVE  /\ \A f \in Slots : ~conn'[f].read => conn'[f].open
         /\ \A f \in server'.ready : conn'[f].open
         /\ UnreadIn(server.ready)' = UnreadIn(server.ready)
         /\ UnreadIn(Slots \ server.ready)' = UnreadIn(Slots \ server.ready)
         /\ Reported' = Reported /\ Accepted' = Accepted /\ Pushed' = Pushed
<1>1. server.ready \subseteq Slots
  BY DEF Types, TypeOK
<1>2. /\ UnreadIn(server.ready)' = UnreadIn(server.ready)
      /\ UnreadIn(Slots \ server.ready)' = UnreadIn(Slots \ server.ready)
  BY <1>1 DEF UnreadIn, ServerStays
<1>3. UnreadIn(server.ready) \subseteq Slots /\ UnreadIn(Slots \ server.ready) \subseteq Slots
  BY <1>1 DEF UnreadIn
<1>4. UnreadIn(server.ready) # {} => (CHOOSE f \in UnreadIn(server.ready) : TRUE) \in Slots
  BY <1>3
<1>5. UnreadIn(Slots \ server.ready) # {}
        => (CHOOSE f \in UnreadIn(Slots \ server.ready) : TRUE) \in Slots
  BY <1>3
<1>6. Reported' = Reported
  BY <1>2, <1>4 DEF Reported, Unread
<1>7. Accepted' = Accepted
  <2> DEFINE S == UnreadIn(Slots \ server.ready)
             a == CHOOSE f \in S : TRUE
  <2>1. Accepted = IF S = {} THEN <<>> ELSE <<conn[a].req>>
    BY DEF Accepted, Unread
  <2>2. Accepted' = IF S' = {} THEN <<>> ELSE <<conn'[CHOOSE f \in S' : TRUE].req>>
    BY DEF Accepted, Unread
  <2>3. S' = S
    BY <1>2
  <2>4. S # {} => a \in Slots
    BY <1>5
  <2> HIDE DEF S
  <2> QED
    BY <2>1, <2>2, <2>3, <2>4
<1>8. Pushed' = Pushed
  BY DEF Pushed, One, ServerStays
<1> QED
  BY <1>1, <1>2, <1>6, <1>7, <1>8 DEF Discipline, ServerStays

\* A connection whose requester goes away keeps its request (client_send_receive).
LEMMA AbandonKeeps ==
  ASSUME Types, AbandonAll
  PROVE  /\ \A f \in Slots : /\ conn'[f].read = conn[f].read /\ conn'[f].open = conn[f].open
                            /\ conn'[f].req = conn[f].req
         /\ Waiting' = Waiting
         /\ \A k \in 1 .. Len(backlog) : /\ backlog'[k].read = backlog[k].read
                                        /\ backlog'[k].open = backlog[k].open
         /\ Len(backlog') = Len(backlog)
         /\ backlog = <<>> => backlog' = <<>>
         /\ conn = Nothing => conn' = Nothing
<1>1. \A f \in Slots : conn'[f] = Abandoned(conn[f]) /\ conn[f] \in Connections
  BY DEF AbandonAll, Types, TypeOK
<1>2. \A f \in Slots : /\ conn'[f].read = conn[f].read /\ conn'[f].open = conn[f].open
                       /\ conn'[f].req = conn[f].req
  BY <1>1 DEF Abandoned, Connections
<1>3. /\ Len(backlog') = Len(backlog) /\ Len(backlog) \in Nat
      /\ \A k \in 1 .. Len(backlog) : backlog'[k] = Abandoned(backlog[k]) /\ backlog[k] \in Connections
  BY AbandonTypes DEF Types, TypeOK
<1>4. \A k \in 1 .. Len(backlog) : /\ backlog'[k].req = backlog[k].req
                                   /\ backlog'[k].read = backlog[k].read
                                   /\ backlog'[k].open = backlog[k].open
  BY <1>3 DEF Abandoned, Connections
<1>5. Waiting' = Waiting
  BY <1>3, <1>4 DEF Waiting
<1>6. backlog = <<>> => backlog' = <<>>
  <2>1. ASSUME backlog = <<>> PROVE backlog' = <<>>
    <3>1. Len(backlog') = 0 /\ backlog' \in Seq(Connections)
      BY <1>3, <2>1, AbandonTypes
    <3> QED
      BY <3>1
  <2> QED
    BY <2>1
<1>7. Abandoned(NoConn) = NoConn
  BY Constants DEF Abandoned, NoConn, Connections
<1>8. conn = Nothing => conn' = Nothing
  BY <1>7 DEF AbandonAll, Nothing
<1> QED
  BY <1>2, <1>3, <1>4, <1>5, <1>6, <1>8

\* The end of the process (signal_handler).
LEMMA DieDiscipline ==
  ASSUME Types, Die
  PROVE  Discipline'
<1>1. /\ server' = Idle /\ queue' = <<>> /\ backlog' = <<>> /\ worker' = Worker("exited")
      /\ conn' = [f \in Slots |-> NoConn]
  BY DEF Die
<1>2. \A f \in Slots : conn'[f].read
  BY <1>1 DEF NoConn
<1>3. server'.ready = {} /\ ~server'.accept
  BY <1>1 DEF Idle
<1>4. UnreadIn(Slots \ server.ready)' = {} /\ UnreadIn(server.ready)' = {}
  BY <1>2, <1>3 DEF UnreadIn
<1> QED
  BY <1>1, <1>2, <1>3, <1>4 DEF Discipline, Nothing, Worker

\* The server thread keeps its discipline.
LEMMA ServerDiscipline ==
  ASSUME Types, Discipline, Server
  PROVE  Discipline'
<1>1. server.ready \subseteq Slots /\ (phase = "down" => server = Idle)
  BY DEF Types, TypeOK, Discipline
<1>2. CASE Select
  <2>1. /\ server'.ready = {f \in Slots : Readable(f)} /\ server.ready = {}
        /\ conn' = conn /\ backlog' = backlog
    BY <1>2 DEF Select, Idle
  <2>2. UnreadIn(Slots \ server.ready)' = {}
    BY <2>1 DEF UnreadIn, Readable, Discipline
  <2>3. UnreadIn(server.ready)' \subseteq UnreadIn(Slots \ server.ready)
    BY <2>1 DEF UnreadIn
  <2>4. \A f \in server'.ready : conn'[f].open
    BY <2>1 DEF Readable
  <2>5. phase' # "down"
    BY <1>1, <1>2 DEF Select, Idle
  <2> QED
    BY <2>1, <2>2, <2>3, <2>4, <2>5 DEF Discipline
<1>3. CASE Accept
  <2> DEFINE f == CHOOSE f \in FreeSlots : \A g \in FreeSlots : f <= g
  <2>1. f \in Slots /\ ~conn[f].open /\ f \notin server.ready
    BY <1>3, FreeSlotIsFree DEF Accept, FreeSlots, Discipline
  <2>2. /\ conn' = [conn EXCEPT ![f] = Head(backlog)] /\ backlog' = Tail(backlog)
        /\ server'.ready = server.ready /\ ~server'.accept /\ phase' # "down"
    BY <1>3 DEF Accept, Types, TypeOK
  <2>3. /\ backlog \in Seq(Connections) /\ backlog # <<>>
        /\ Head(backlog) \in Connections /\ Head(backlog).open
    <3>1. backlog \in Seq(Connections) /\ backlog # <<>>
      BY <1>3 DEF Accept, Types, TypeOK
    <3>2. Head(backlog) = backlog[1] /\ 1 \in 1 .. Len(backlog)
      BY <3>1
    <3> QED
      BY <3>1, <3>2 DEF Discipline
  <2> HIDE DEF f
  <2>4. \A g \in Slots : conn'[g] = IF g = f THEN Head(backlog) ELSE conn[g]
    BY <2>1, <2>2 DEF Types, TypeOK
  <2>5. \A g \in Slots : ~conn'[g].read => conn'[g].open
    BY <2>3, <2>4 DEF Discipline
  <2>6. UnreadIn(server.ready)' = UnreadIn(server.ready) /\ \A g \in server'.ready : conn'[g].open
    BY <1>1, <2>1, <2>2, <2>4 DEF UnreadIn, Discipline
  <2>7. UnreadIn(Slots \ server.ready)' \subseteq {f}
    BY <1>3, <2>2, <2>4 DEF UnreadIn, Discipline, Accept
  <2>8. \A k \in 1 .. Len(backlog') : ~backlog'[k].read /\ backlog'[k].open
    BY <2>2, <2>3, HeadTailProperties DEF Discipline
  <2> QED
    BY <2>2, <2>5, <2>6, <2>7, <2>8 DEF Discipline
<1>4. CASE Refuse
  <2>1. CASE ~Head(backlog).live
    BY <1>4, <2>1, DieDiscipline DEF Refuse
  <2>2. CASE Head(backlog).live
    <3>1. /\ conn' = conn /\ backlog' = Tail(backlog) /\ server'.ready = server.ready
          /\ ~server'.accept /\ phase' # "down"
      BY <1>4, <2>2 DEF Refuse, Types, TypeOK
    <3>2. \A k \in 1 .. Len(backlog') : ~backlog'[k].read /\ backlog'[k].open
      <4>1. backlog \in Seq(Connections) /\ backlog # <<>>
        BY <1>4 DEF Refuse, Types, TypeOK
      <4> QED
        BY <3>1, <4>1, HeadTailProperties DEF Discipline
    <3>3. /\ UnreadIn(server.ready)' = UnreadIn(server.ready)
          /\ UnreadIn(Slots \ server.ready)' = UnreadIn(Slots \ server.ready)
      BY <3>1 DEF UnreadIn
    <3> QED
      BY <3>1, <3>2, <3>3 DEF Discipline
  <2> QED
    BY <2>1, <2>2
<1>5. CASE Push
  <2>1. /\ conn' = conn /\ backlog' = backlog /\ server'.ready = server.ready
        /\ server'.accept = server.accept /\ phase' # "down"
    BY <1>5 DEF Push, Types, TypeOK
  <2>2. /\ UnreadIn(server.ready)' = UnreadIn(server.ready)
        /\ UnreadIn(Slots \ server.ready)' = UnreadIn(Slots \ server.ready)
    BY <2>1 DEF UnreadIn
  <2> QED
    BY <2>1, <2>2 DEF Discipline
<1>6. ASSUME NEW f \in Slots, Receive(f) \/ Hangup(f)
      PROVE  Discipline'
  <2>1. /\ server'.ready = server.ready \ {f} /\ server'.accept = server.accept
        /\ backlog' = backlog /\ phase' # "down"
    BY <1>6 DEF Receive, Hangup, Types, TypeOK
  <2>2. \A g \in Slots : g # f => conn'[g] = conn[g]
    BY <1>6 DEF Receive, Hangup, Types, TypeOK
  <2>3. conn'[f].read
    BY <1>6 DEF Receive, Hangup, Types, TypeOK, NoConn, Connections
  <2>4. /\ UnreadIn(server.ready)' \subseteq UnreadIn(server.ready)
        /\ UnreadIn(Slots \ server.ready)' \subseteq UnreadIn(Slots \ server.ready)
    BY <1>1, <2>1, <2>2, <2>3 DEF UnreadIn
  <2> QED
    BY <1>1, <2>1, <2>2, <2>3, <2>4 DEF Discipline
<1> QED
  BY <1>2, <1>3, <1>4, <1>5, <1>6 DEF Server

\* The other threads and the two processes keep it (CPTask::run, main, func2).
LEMMA WorkerDiscipline ==
  ASSUME Types, Discipline, WorkerStep
  PROVE  Discipline'
<1>1. CASE SendDead
  BY <1>1, DieDiscipline DEF SendDead
<1>2. CASE ~SendDead
  <2>1. /\ server' = server /\ conn' = conn /\ backlog' = backlog /\ phase' = phase
        /\ worker.at # "exited" /\ worker.at \in WorkerPlaces
    BY <1>2 DEF WorkerStep, LoopTest, PopClosed, Pop, CallSessionRequest, CallExchangeReport,
                CallGenerateResponse, CallEndSession, Call, Send, Types, TypeOK
  <2>2. /\ UnreadIn(server.ready)' = UnreadIn(server.ready)
        /\ UnreadIn(Slots \ server.ready)' = UnreadIn(Slots \ server.ready)
    BY <2>1 DEF UnreadIn
  <2> QED
    BY <2>1, <2>2 DEF Discipline
<1> QED
  BY <1>1, <1>2

LEMMA OtherDiscipline ==
  ASSUME Types, Discipline,
         CloseQueue \/ Exit \/ Invoke \/ Initiator
         \/ Signal \/ ResponderCrash \/ Restart \/ InitiatorCrash
  PROVE  Discipline'
<1>1. CASE Exit \/ ResponderCrash
  BY <1>1, DieDiscipline DEF Exit, ResponderCrash
<1>2. CASE TakeAnswer \/ Closed \/ InitiatorCrash
  <2>1. /\ AbandonAll /\ server' = server /\ phase' = phase /\ queue' = queue /\ worker' = worker
    BY <1>2 DEF TakeAnswer, Closed, InitiatorCrash
  <2> QED
    <3>1. \A k \in 1 .. Len(backlog') : ~backlog'[k].read /\ backlog'[k].open
      BY <2>1, AbandonKeeps DEF Discipline
    <3>2. /\ backlog = <<>> => backlog' = <<>>
          /\ conn = Nothing => conn' = Nothing
      BY <2>1, AbandonKeeps
    <3>3. \A f \in Slots : /\ conn'[f].read = conn[f].read /\ conn'[f].open = conn[f].open
                           /\ conn'[f].req = conn[f].req
      BY <2>1, AbandonKeeps
    <3> QED
      BY <2>1, <3>1, <3>2, <3>3, ServerUntouched DEF Discipline, ServerStays
<1>3. CASE Ask
  <2>1. /\ server' = server /\ conn' = conn /\ phase' = phase /\ queue' = queue /\ worker' = worker
    BY <1>3 DEF Ask
  <2>2. CASE phase = "down"
    <3>1. backlog' = backlog
      BY <1>3, <2>2 DEF Ask
    <3> QED
      BY <2>1, <3>1, ServerUntouched DEF Discipline, ServerStays
  <2>3. CASE phase # "down"
    <3> DEFINE asked == [req |-> RequestOf(initiator), read |-> FALSE, live |-> TRUE, open |-> TRUE]
    <3>1. backlog' = Append(backlog, asked) /\ backlog \in Seq(Connections)
      BY <1>3, <2>3 DEF Ask, Types, TypeOK
    <3>2. ~asked.read /\ asked.open
      OBVIOUS
    <3> HIDE DEF asked
    <3>3. \A k \in 1 .. Len(backlog') : ~backlog'[k].read /\ backlog'[k].open
      BY <3>1, <3>2 DEF Discipline
    <3> QED
      BY <2>1, <2>3, <3>3, ServerUntouched DEF Discipline, ServerStays
  <2> QED
    BY <2>2, <2>3
<1>4. CASE CloseQueue \/ Invoke \/ Signal \/ Restart
  <2>1. /\ ServerStays /\ conn' = conn /\ backlog' = backlog /\ queue' = queue
        /\ phase' = "down" => phase = "down" /\ server' = server /\ worker' = worker
    BY <1>4 DEF CloseQueue, Invoke, Signal, Restart, ServerStays, Types, TypeOK
  <2> QED
    BY <2>1, ServerUntouched DEF Discipline, ServerStays
<1> QED
  BY <1>1, <1>2, <1>3, <1>4 DEF Initiator

\* The server keeps its discipline throughout.
LEMMA DisciplineStep ==
  ASSUME Types, Discipline, [Next]_vars
  PROVE  Discipline'
<1>1. CASE UNCHANGED vars
  <2>1. UNCHANGED <<phase, server, worker, queue, backlog, conn>>
    BY <1>1 DEF vars
  <2> QED
    BY <2>1, ServerUntouched DEF Discipline, ServerStays
<1>2. CASE Next
  BY <1>2, ServerDiscipline, WorkerDiscipline, OtherDiscipline DEF Next
<1> QED
  BY <1>1, <1>2

LEMMA DisciplineInit ==
  ASSUME Init
  PROVE  Discipline
<1>1. \A f \in Slots : conn[f].read
  BY DEF Init, NoConn
<1>2. server.ready = {} /\ ~server.accept /\ phase # "down" /\ Len(backlog) = 0
  BY DEF Init, Idle
<1>3. UnreadIn(Slots \ server.ready) = {} /\ UnreadIn(server.ready) = {}
  BY <1>1, <1>2 DEF UnreadIn
<1> QED
  BY <1>1, <1>2, <1>3 DEF Discipline

-----------------------------------------------------------------------------
(* The pipeline *)

R == Message(Requests)
RequestsIn(q) == [k \in 1 .. Len(q) |-> q[k].req]

\* The requests of a sequence of tasks or connections, one by one.
LEMMA RequestsInType ==
  ASSUME NEW S, NEW q \in Seq(S), \A t \in S : t.req \in R
  PROVE  RequestsIn(q) \in Seq(R) /\ Len(RequestsIn(q)) = Len(q)
<1>1. Len(q) \in Nat /\ \A k \in 1 .. Len(q) : q[k] \in S
  OBVIOUS
<1>2. RequestsIn(q) \in [1 .. Len(q) -> R]
  BY <1>1 DEF RequestsIn
<1> QED
  BY <1>1, <1>2, SeqDef, LenProperties

\* A sequence with a first, or with a last, element.
LEMMA JoinedFirst ==
  ASSUME NEW s \in Seq(R), NEW t \in Seq(R), NEW m \in R, Len(s) = Len(t) + 1,
         s[1] = m, \A k \in 1 .. Len(t) : t[k] = s[k + 1]
  PROVE  s = <<m>> \o t
<1>1. <<m>> \in Seq(R) /\ Len(<<m>>) = 1 /\ <<m>>[1] = m /\ Len(t) \in Nat
  OBVIOUS
<1>2. /\ <<m>> \o t \in Seq(R) /\ Len(<<m>> \o t) = 1 + Len(t)
      /\ \A k \in 1 .. 1 + Len(t) :
           (<<m>> \o t)[k] = IF k <= 1 THEN <<m>>[k] ELSE t[k - 1]
  BY <1>1, ConcatProperties
<1>3. ASSUME NEW k \in 1 .. Len(s)
      PROVE  s[k] = (<<m>> \o t)[k]
  <2>1. CASE k = 1
    BY <1>1, <1>2, <2>1
  <2>2. CASE k # 1
    <3>1. k - 1 \in 1 .. Len(t) /\ (k - 1) + 1 = k /\ k \in 1 .. 1 + Len(t) /\ ~(k <= 1)
      BY <1>1, <2>2
    <3> QED
      BY <1>2, <3>1
  <2> QED
    BY <2>1, <2>2
<1>4. Len(s) = Len(<<m>> \o t)
  BY <1>1, <1>2
<1> QED
  BY <1>2, <1>3, <1>4, SeqEqual

LEMMA JoinedLast ==
  ASSUME NEW s \in Seq(R), NEW t \in Seq(R), NEW m \in R, Len(s) = Len(t) + 1,
         s[Len(t) + 1] = m, \A k \in 1 .. Len(t) : s[k] = t[k]
  PROVE  s = t \o <<m>>
<1>1. <<m>> \in Seq(R) /\ Len(<<m>>) = 1 /\ <<m>>[1] = m /\ Len(t) \in Nat
  OBVIOUS
<1>2. /\ t \o <<m>> \in Seq(R) /\ Len(t \o <<m>>) = Len(t) + 1
      /\ \A k \in 1 .. Len(t) + 1 :
           (t \o <<m>>)[k] = IF k <= Len(t) THEN t[k] ELSE <<m>>[k - Len(t)]
  BY <1>1, ConcatProperties
<1>3. ASSUME NEW k \in 1 .. Len(s)
      PROVE  s[k] = (t \o <<m>>)[k]
  <2>1. CASE k <= Len(t)
    BY <1>1, <1>2, <2>1
  <2>2. CASE ~(k <= Len(t))
    <3>1. k = Len(t) + 1 /\ k - Len(t) = 1 /\ k \in 1 .. Len(t) + 1
      BY <1>1, <2>2
    <3> QED
      BY <1>1, <1>2, <2>2, <3>1
  <2> QED
    BY <2>1, <2>2
<1>4. Len(s) = Len(t \o <<m>>)
  BY <1>1, <1>2
<1> QED
  BY <1>2, <1>3, <1>4, SeqEqual

LEMMA HeadTailOfJoined ==
  ASSUME NEW t \in Seq(R), NEW m \in R
  PROVE  <<m>> \o t # <<>> /\ Head(<<m>> \o t) = m /\ Tail(<<m>> \o t) = t
<1> DEFINE p == <<m>> \o t
<1>1. <<m>> \in Seq(R) /\ Len(<<m>>) = 1 /\ Len(t) \in Nat
  OBVIOUS
<1>2. /\ p \in Seq(R) /\ Len(p) = Len(t) + 1
      /\ \A k \in 1 .. Len(t) + 1 : p[k] = IF k <= 1 THEN <<m>>[k] ELSE t[k - 1]
  BY <1>1, ConcatProperties
<1> HIDE DEF p
<1>3. p # <<>> /\ Head(p) = m
  <2>1. Len(p) # 0 /\ p[1] = m
    BY <1>1, <1>2
  <2> QED
    BY <1>2, <2>1
<1>4. Tail(p) \in Seq(R) /\ Len(Tail(p)) = Len(t)
  BY <1>1, <1>2, <1>3, HeadTailProperties
<1>5. ASSUME NEW k \in 1 .. Len(t)
      PROVE  Tail(p)[k] = t[k]
  <2>1. k + 1 \in 1 .. Len(t) + 1 /\ ~(k + 1 <= 1) /\ (k + 1) - 1 = k
    BY <1>1
  <2>2. Tail(p)[k] = p[k + 1]
    BY <1>1, <1>2, <1>3, HeadTailProperties
  <2>3. p[k + 1] = t[(k + 1) - 1]
    BY <1>2, <2>1
  <2> QED
    BY <2>1, <2>2, <2>3
<1>6. Tail(p) = t
  BY <1>4, <1>5, SeqEqual
<1> QED
  BY <1>3, <1>6 DEF p

LEMMA LastOfJoined ==
  ASSUME NEW t \in Seq(R), NEW m \in R
  PROVE  /\ t \o <<m>> # <<>> /\ (t \o <<m>>)[Len(t \o <<m>>)] = m
         /\ t = SubSeq(t \o <<m>>, 1, Len(t \o <<m>>) - 1)
<1> DEFINE p == t \o <<m>>
<1>1. <<m>> \in Seq(R) /\ Len(<<m>>) = 1 /\ <<m>>[1] = m /\ Len(t) \in Nat
  OBVIOUS
<1>2. /\ p \in Seq(R) /\ Len(p) = Len(t) + 1
      /\ \A k \in 1 .. Len(t) + 1 : p[k] = IF k <= Len(t) THEN t[k] ELSE <<m>>[k - Len(t)]
  BY <1>1, ConcatProperties
<1> HIDE DEF p
<1>3. p # <<>> /\ p[Len(p)] = m
  <2>1. Len(p) # 0
    BY <1>1, <1>2
  <2>2. Len(p) \in 1 .. Len(t) + 1 /\ ~(Len(p) <= Len(t)) /\ Len(p) - Len(t) = 1
    BY <1>1, <1>2
  <2>3. p[Len(p)] = <<m>>[Len(p) - Len(t)]
    BY <1>2, <2>2
  <2>4. p[Len(p)] = m
    BY <1>1, <2>2, <2>3
  <2> QED
    BY <1>2, <2>1, <2>4
<1>4. Len(p) - 1 = Len(t)
  BY <1>1, <1>2
<1>5. SubSeq(p, 1, Len(t)) = t
  <2>1. \A k \in 1 .. Len(t) : p[k] = t[k]
    BY <1>1, <1>2
  <2> QED
    BY <1>1, <1>2, <2>1
<1> QED
  BY <1>3, <1>4, <1>5 DEF p

LEMMA RequestsInTail ==
  ASSUME NEW S, NEW q \in Seq(S), q # <<>>, \A t \in S : t.req \in R
  PROVE  RequestsIn(q) = <<Head(q).req>> \o RequestsIn(Tail(q))
<1>1. /\ Tail(q) \in Seq(S) /\ Len(Tail(q)) = Len(q) - 1 /\ Len(q) \in Nat \ {0}
      /\ \A k \in 1 .. Len(q) - 1 : Tail(q)[k] = q[k + 1]
      /\ Head(q) \in S /\ Head(q) = q[1]
  BY HeadTailProperties, EmptySeq
<1>2. \A k \in 1 .. Len(q) - 1 : RequestsIn(Tail(q))[k] = q[k + 1].req
  BY <1>1 DEF RequestsIn
<1>3. \A k \in 1 .. Len(q) : RequestsIn(q)[k] = q[k].req
  BY DEF RequestsIn
<1>4. Len(RequestsIn(Tail(q))) = Len(q) - 1 /\ Len(RequestsIn(q)) = Len(q)
  BY <1>1, RequestsInType
<1>5. RequestsIn(q) \in Seq(R) /\ RequestsIn(Tail(q)) \in Seq(R)
  BY <1>1, RequestsInType
<1>6. ASSUME NEW k \in 1 .. Len(RequestsIn(Tail(q)))
      PROVE  RequestsIn(Tail(q))[k] = RequestsIn(q)[k + 1]
  <2>1. k \in 1 .. Len(q) - 1 /\ k + 1 \in 1 .. Len(q)
    BY <1>1, <1>4
  <2> QED
    BY <1>2, <1>3, <2>1
<1>7. RequestsIn(q)[1] = Head(q).req /\ Head(q).req \in R
  BY <1>1, <1>3
<1>8. Len(RequestsIn(q)) = Len(RequestsIn(Tail(q))) + 1
  <2>1. Len(q) \in Nat
    BY <1>1
  <2> QED
    BY <1>4, <2>1
<1> QED
  BY <1>5, <1>6, <1>7, <1>8, JoinedFirst

LEMMA RequestsInAppend ==
  ASSUME NEW S, NEW q \in Seq(S), NEW x \in S, \A t \in S : t.req \in R
  PROVE  RequestsIn(Append(q, x)) = RequestsIn(q) \o <<x.req>>
<1>1. /\ Append(q, x) \in Seq(S) /\ Len(Append(q, x)) = Len(q) + 1 /\ Len(q) \in Nat
      /\ \A k \in 1 .. Len(q) : Append(q, x)[k] = q[k]
      /\ Append(q, x)[Len(q) + 1] = x
  BY AppendProperties, LenProperties
<1>2. \A k \in 1 .. Len(q) : RequestsIn(q)[k] = q[k].req
  BY DEF RequestsIn
<1>3. \A k \in 1 .. Len(q) + 1 : RequestsIn(Append(q, x))[k] = Append(q, x)[k].req
  BY <1>1 DEF RequestsIn
<1>4. Len(RequestsIn(q)) = Len(q) /\ Len(RequestsIn(Append(q, x))) = Len(q) + 1
  BY <1>1, RequestsInType
<1>5. RequestsIn(q) \in Seq(R) /\ RequestsIn(Append(q, x)) \in Seq(R)
  BY <1>1, RequestsInType
<1>6. \A k \in 1 .. Len(q) : RequestsIn(Append(q, x))[k] = RequestsIn(q)[k]
  BY <1>1, <1>2, <1>3
<1>7. RequestsIn(Append(q, x))[Len(q) + 1] = x.req
  BY <1>1, <1>3
<1> QED
  BY <1>1, <1>4, <1>5, <1>6, <1>7, JoinedLast

\* Every part of the pipeline is a sequence of requests.
LEMMA Parts ==
  ASSUME Types
  PROVE  /\ InHand \in Seq(R) /\ Queued \in Seq(R) /\ Pushed \in Seq(R)
         /\ Reported \in Seq(R) /\ Accepted \in Seq(R) /\ Waiting \in Seq(R)
<1>1. \A t \in Tasks : t.req \in R
  BY DEF Tasks, R
<1>2. \A c \in Connections : c.req \in R
  BY DEF Connections, R
<1>3. ASSUME NEW b \in BOOLEAN, NEW m \in R
      PROVE  One(b, m) \in Seq(R)
  BY DEF One
<1>4. InHand \in Seq(R)
  BY <1>1, <1>3 DEF InHand, Types, Workers
<1>5. Pushed \in Seq(R)
  BY <1>1, <1>3 DEF Pushed, Types, TypeOK
<1>6. Queued \in Seq(R)
  BY <1>1, RequestsInType DEF Queued, RequestsIn, Types, TypeOK
<1>7. Waiting \in Seq(R)
  BY <1>2, RequestsInType DEF Waiting, RequestsIn, Types, TypeOK
<1>8. ASSUME NEW f \in Slots
      PROVE  <<conn[f].req>> \in Seq(R)
  BY <1>2 DEF Types, TypeOK
<1>9. Reported \in Seq(R)
  <2>1. UnreadIn(server.ready) \subseteq Slots
    BY DEF UnreadIn, Types, TypeOK
  <2> QED
    BY <1>8, <2>1 DEF Reported, Unread
<1>10. Accepted \in Seq(R)
  <2>1. UnreadIn(Slots \ server.ready) \subseteq Slots
    BY DEF UnreadIn
  <2>2. UnreadIn(Slots \ server.ready) # {}
          => (CHOOSE f \in UnreadIn(Slots \ server.ready) : TRUE) \in Slots
    BY <2>1
  <2> QED
    BY <1>8, <2>2 DEF Accepted, Unread
<1> QED
  BY <1>4, <1>5, <1>6, <1>7, <1>9, <1>10

\* The pipeline from one of its parts on.
AcceptedOn == Accepted \o Waiting
ReportedOn == Reported \o AcceptedOn
PushedOn == Pushed \o ReportedOn
QueuedOn == Queued \o PushedOn

LEMMA PartsOn ==
  ASSUME Types
  PROVE  /\ AcceptedOn \in Seq(R) /\ ReportedOn \in Seq(R)
         /\ PushedOn \in Seq(R) /\ QueuedOn \in Seq(R)
<1>1. AcceptedOn \in Seq(R)
  BY Parts, ConcatProperties DEF AcceptedOn
<1>2. ReportedOn \in Seq(R)
  BY <1>1, Parts, ConcatProperties DEF ReportedOn
<1>3. PushedOn \in Seq(R)
  BY <1>2, Parts, ConcatProperties DEF PushedOn
<1>4. QueuedOn \in Seq(R)
  BY <1>3, Parts, ConcatProperties DEF QueuedOn
<1> QED
  BY <1>1, <1>2, <1>3, <1>4

LEMMA PipelineOn ==
  /\ worker.at = "exited" => Pipeline = <<>>
  /\ worker.at # "exited" => Pipeline = InHand \o QueuedOn
BY DEF Pipeline, QueuedOn, PushedOn, ReportedOn, AcceptedOn

LEMMA PipelineType ==
  ASSUME Types
  PROVE  Pipeline \in Seq(R)
<1>1. InHand \o QueuedOn \in Seq(R)
  BY Parts, PartsOn, ConcatProperties
<1> QED
  BY <1>1, PipelineOn, EmptySeq

LEMMA Extended ==
  ASSUME NEW s \in Seq(R), NEW t \in Seq(R), NEW m \in R
  PROVE  (s \o t) \o <<m>> = s \o (t \o <<m>>)
<1>1. <<m>> \in Seq(R)
  OBVIOUS
<1> QED
  BY <1>1, ConcatAssociative

\* Passing an element from the head of one sequence to the tail of another.
LEMMA Passed ==
  ASSUME NEW s \in Seq(R), NEW u \in Seq(R), NEW m \in R
  PROVE  /\ (s \o <<m>>) \o u = s \o (<<m>> \o u)
         /\ <<>> \o u = u
<1>1. <<m>> \in Seq(R)
  OBVIOUS
<1> QED
  BY <1>1, ConcatAssociative, ConcatEmptySeq

\* The request of the connections U, of a table c.
RequestFrom(U, c) == IF U = {} THEN <<>> ELSE <<c[CHOOSE f \in U : TRUE].req>>

LEMMA UnreadParts ==
  /\ Reported = RequestFrom(UnreadIn(server.ready), conn)
  /\ Accepted = RequestFrom(UnreadIn(Slots \ server.ready), conn)
  /\ Reported' = RequestFrom(UnreadIn(server.ready)', conn')
  /\ Accepted' = RequestFrom(UnreadIn(Slots \ server.ready)', conn')
BY DEF Reported, Accepted, Unread, RequestFrom

LEMMA SameRequest ==
  ASSUME NEW U, NEW c, NEW d, \A g \in U : c[g] = d[g]
  PROVE  RequestFrom(U, c) = RequestFrom(U, d)
BY DEF RequestFrom

\* A reported, or accepted, request is the only one of its part.
LEMMA OnlyOne ==
  ASSUME Types, Discipline, NEW f \in Slots, ~conn[f].read
  PROVE  IF f \in server.ready THEN Reported = <<conn[f].req>> ELSE Accepted = <<conn[f].req>>
<1>1. CASE f \in server.ready
  <2>1. UnreadIn(server.ready) = {f}
    BY <1>1 DEF UnreadIn, Discipline
  <2>2. (CHOOSE g \in UnreadIn(server.ready) : TRUE) = f
    BY <2>1
  <2> QED
    BY <1>1, <2>1, <2>2 DEF Reported, Unread
<1>2. CASE f \notin server.ready
  <2>1. UnreadIn(Slots \ server.ready) = {f}
    BY <1>2 DEF UnreadIn, Discipline
  <2>2. (CHOOSE g \in UnreadIn(Slots \ server.ready) : TRUE) = f
    BY <2>1
  <2> QED
    BY <1>2, <2>1, <2>2 DEF Accepted, Unread
<1> QED
  BY <1>1, <1>2

\* A report moves the request accepted before it to the reported ones.
LEMMA SelectForwards ==
  ASSUME Types, Discipline, Select
  PROVE  Pipeline' = Pipeline /\ UNCHANGED <<enclave, fresh>>
<1>1. /\ server'.ready = {f \in Slots : Readable(f)} /\ server.ready = {}
      /\ conn' = conn /\ backlog' = backlog /\ worker' = worker /\ queue' = queue
      /\ server'.push = NoTask /\ server.push = NoTask
  BY DEF Select, Idle
<1>2. UnreadIn(Slots \ server.ready)' = {} /\ UnreadIn(server.ready) = {}
  BY <1>1 DEF UnreadIn, Readable, Discipline
<1>3. UnreadIn(server.ready)' = UnreadIn(Slots \ server.ready)
  BY <1>1 DEF UnreadIn, Readable, Discipline
<1>4. Reported = <<>> /\ Accepted' = <<>>
  BY <1>2, UnreadParts DEF RequestFrom
<1>5. Reported' = Accepted
  BY <1>1, <1>3, UnreadParts
<1>6. Waiting' = Waiting /\ Pushed' = Pushed /\ Queued' = Queued /\ InHand' = InHand
  BY <1>1 DEF Waiting, Pushed, Queued, InHand, One
<1>7. Accepted \in Seq(R) /\ Waiting \in Seq(R) /\ AcceptedOn \in Seq(R)
  BY Parts, PartsOn
<1>8. ReportedOn' = ReportedOn
  BY <1>4, <1>5, <1>6, <1>7, ConcatEmptySeq DEF ReportedOn, AcceptedOn
<1>9. QueuedOn' = QueuedOn
  BY <1>6, <1>8 DEF QueuedOn, PushedOn
<1> QED
  BY <1>1, <1>6, <1>9, PipelineOn DEF Select, Pipeline, QueuedOn, PushedOn, ReportedOn, AcceptedOn

\* A connection that is accepted leaves the backlog for the table.
LEMMA AcceptForwards ==
  ASSUME Types, Discipline, Accept
  PROVE  Pipeline' = Pipeline /\ UNCHANGED <<enclave, fresh>>
<1> DEFINE f == CHOOSE f \in FreeSlots : \A g \in FreeSlots : f <= g
           c == Head(backlog)
<1>1. /\ backlog \in Seq(Connections) /\ backlog # <<>> /\ c \in Connections
      /\ backlog' = Tail(backlog) /\ conn' = [conn EXCEPT ![f] = c]
      /\ server'.ready = server.ready /\ server'.push = server.push
      /\ worker' = worker /\ queue' = queue
  BY DEF Accept, Types, TypeOK
<1>2. f \in Slots /\ f \notin server.ready
  BY FreeSlotIsFree DEF Accept, FreeSlots, Discipline
<1>3. ~c.read
  <2>1. c = backlog[1] /\ 1 \in 1 .. Len(backlog)
    BY <1>1
  <2> QED
    BY <2>1 DEF Discipline
<1> HIDE DEF f, c
<1>4. \A g \in Slots : conn'[g] = IF g = f THEN c ELSE conn[g]
  BY <1>1, <1>2 DEF Types, TypeOK
<1>5. server.ready \subseteq Slots
  BY DEF Types, TypeOK
<1>6. UnreadIn(server.ready)' = UnreadIn(server.ready)
  BY <1>1, <1>2, <1>4, <1>5 DEF UnreadIn
<1>7. UnreadIn(Slots \ server.ready) = {}
  BY DEF Accept, Discipline
<1>8. UnreadIn(Slots \ server.ready)' = {f}
  BY <1>1, <1>2, <1>3, <1>4, <1>7 DEF UnreadIn
<1>9. Accepted = <<>> /\ Accepted' = <<c.req>>
  BY <1>2, <1>4, <1>7, <1>8, UnreadParts DEF RequestFrom
<1>10. Reported' = Reported
  <2>1. \A g \in UnreadIn(server.ready) : conn'[g] = conn[g]
    BY <1>2, <1>4, <1>5 DEF UnreadIn
  <2> QED
    BY <1>6, <2>1, UnreadParts, SameRequest
<1>11. Pushed' = Pushed /\ Queued' = Queued /\ InHand' = InHand
  BY <1>1 DEF Pushed, Queued, InHand, One
<1>12. Waiting = <<c.req>> \o Waiting'
  BY <1>1, RequestsInTail DEF Waiting, RequestsIn, Connections, R, c
<1>13. AcceptedOn' = AcceptedOn
  <2>1. Waiting \in Seq(R)
    BY Parts
  <2> QED
    BY <1>9, <1>12, <2>1, ConcatEmptySeq DEF AcceptedOn
<1>14. QueuedOn' = QueuedOn
  BY <1>10, <1>11, <1>13 DEF QueuedOn, PushedOn, ReportedOn
<1> QED
  BY <1>1, <1>11, <1>14 DEF Accept, Pipeline, QueuedOn, PushedOn, ReportedOn, AcceptedOn

\* A request that is read is handed to the queue, or lost when the process stops.
LEMMA ReceiveForwards ==
  ASSUME Types, Discipline, NEW f \in Slots, Receive(f)
  PROVE  /\ UNCHANGED <<enclave, fresh>>
         /\ Pushed = <<>> /\ Reported = <<conn[f].req>> /\ conn[f].req \in R
         /\ Pushed' = (IF phase = "serving" THEN <<conn[f].req>> ELSE <<>>)
         /\ Reported' = <<>> /\ AcceptedOn' = AcceptedOn
         /\ Queued' = Queued /\ InHand' = InHand
<1>1. /\ f \in server.ready /\ ~conn[f].read /\ server.push = NoTask
      /\ server'.ready = server.ready \ {f} /\ conn' = [conn EXCEPT ![f].read = TRUE]
      /\ server'.push = IF phase = "serving" THEN [slot |-> f, req |-> conn[f].req] ELSE NoTask
      /\ backlog' = backlog /\ queue' = queue /\ worker' = worker
  BY DEF Receive, NextReady, Types, TypeOK
<1>2. conn[f] \in Connections /\ server.ready \subseteq Slots
  BY DEF Types, TypeOK
<1>3. /\ \A g \in Slots : g # f => conn'[g] = conn[g]
      /\ conn'[f].read
  BY <1>1, <1>2 DEF Types, TypeOK, Connections
<1>4. UnreadIn(server.ready) = {f}
  BY <1>1, <1>2 DEF Discipline, UnreadIn
<1>5. UnreadIn(server.ready)' = {}
  BY <1>1, <1>2, <1>3, <1>4 DEF UnreadIn
<1>6. UnreadIn(Slots \ server.ready)' = UnreadIn(Slots \ server.ready)
  BY <1>1, <1>2, <1>3 DEF UnreadIn
<1>7. Reported = <<conn[f].req>> /\ Reported' = <<>>
  BY <1>4, <1>5, UnreadParts DEF RequestFrom
<1>8. Accepted' = Accepted
  <2>1. \A g \in UnreadIn(Slots \ server.ready) : conn'[g] = conn[g]
    BY <1>1, <1>3 DEF UnreadIn
  <2> QED
    BY <1>6, <2>1, UnreadParts, SameRequest
<1>9. Queued' = Queued /\ InHand' = InHand /\ Waiting' = Waiting
  BY <1>1 DEF Queued, InHand, One, Waiting
<1>10. [slot |-> f, req |-> conn[f].req] # NoTask
  BY DEF NoTask, Slots
<1>11. Pushed = <<>> /\ Pushed' = IF phase = "serving" THEN <<conn[f].req>> ELSE <<>>
  BY <1>1, <1>10 DEF Pushed, One
<1> QED
  BY <1>2, <1>7, <1>8, <1>9, <1>11 DEF Receive, AcceptedOn, Connections, R

\* A connection that is closed had been read.
LEMMA HangupForwards ==
  ASSUME Types, Discipline, NEW f \in Slots, Hangup(f)
  PROVE  Pipeline' = Pipeline /\ UNCHANGED <<enclave, fresh>>
<1>1. /\ f \in server.ready /\ conn[f].read /\ server'.push = server.push
      /\ server'.ready = server.ready \ {f} /\ conn' = [conn EXCEPT ![f] = NoConn]
      /\ backlog' = backlog /\ queue' = queue /\ worker' = worker
  BY DEF Hangup, NextReady, Types, TypeOK
<1>2. server.ready \subseteq Slots
  BY DEF Types, TypeOK
<1>3. /\ \A g \in Slots : g # f => conn'[g] = conn[g]
      /\ conn'[f].read
  BY <1>1 DEF Types, TypeOK, NoConn
<1>4. /\ UnreadIn(server.ready)' = UnreadIn(server.ready)
      /\ UnreadIn(Slots \ server.ready)' = UnreadIn(Slots \ server.ready)
  BY <1>1, <1>2, <1>3 DEF UnreadIn
<1>5. /\ \A g \in UnreadIn(server.ready) : conn'[g] = conn[g]
      /\ \A g \in UnreadIn(Slots \ server.ready) : conn'[g] = conn[g]
  BY <1>1, <1>2, <1>3 DEF UnreadIn
<1>6. Reported' = Reported
  BY <1>4, <1>5, UnreadParts, SameRequest
<1>7. Accepted' = Accepted
  BY <1>4, <1>5, UnreadParts, SameRequest
<1>8. Queued' = Queued /\ InHand' = InHand /\ Waiting' = Waiting /\ Pushed' = Pushed
  BY <1>1 DEF Queued, InHand, One, Waiting, Pushed
<1> QED
  BY <1>1, <1>6, <1>7, <1>8 DEF Hangup, Pipeline

\* A request is put into the queue behind those that are there (Queue::push).
LEMMA PushForwards ==
  ASSUME Types, Push
  PROVE  Pipeline' = Pipeline /\ UNCHANGED <<enclave, fresh>>
<1> DEFINE m == server.push.req
<1>1. /\ queue' = Append(queue, server.push) /\ queue \in Seq(Tasks) /\ server.push \in Tasks
      /\ server.push # NoTask /\ server'.push = NoTask /\ server'.ready = server.ready
      /\ conn' = conn /\ backlog' = backlog /\ worker' = worker
  BY DEF Push, Types, TypeOK
<1>2. \A t \in Tasks : t.req \in R
  BY DEF Tasks, R
<1>3. Queued' = Queued \o <<m>>
  BY <1>1, <1>2, RequestsInAppend DEF Queued, RequestsIn
<1>4. Pushed = <<m>> /\ Pushed' = <<>>
  BY <1>1 DEF Pushed, One
<1>5. UnreadIn(server.ready)' = UnreadIn(server.ready)
      /\ UnreadIn(Slots \ server.ready)' = UnreadIn(Slots \ server.ready)
  BY <1>1 DEF UnreadIn
<1>6. Reported' = Reported /\ Accepted' = Accepted
  BY <1>1, <1>5, UnreadParts
<1>7. InHand' = InHand /\ Waiting' = Waiting
  BY <1>1 DEF InHand, One, Waiting
<1>8. ReportedOn' = ReportedOn
  BY <1>6, <1>7 DEF ReportedOn, AcceptedOn
<1> HIDE DEF m
<1>9. (Queued \o <<m>>) \o ReportedOn = Queued \o (<<m>> \o ReportedOn) /\ <<>> \o ReportedOn = ReportedOn
  <2>1. m \in R
    BY <1>1, <1>2 DEF m
  <2>2. Queued \in Seq(R) /\ ReportedOn \in Seq(R)
    BY Parts, PartsOn
  <2> QED
    BY <2>1, <2>2, Passed
<1>10. QueuedOn' = QueuedOn
  BY <1>3, <1>4, <1>8, <1>9 DEF QueuedOn, PushedOn
<1> QED
  BY <1>1, <1>7, <1>10 DEF Push, Pipeline, QueuedOn, PushedOn, ReportedOn, AcceptedOn

\* What stays when neither the server nor the table nor the backlog changes.
LEMMA BehindQueue ==
  ASSUME ServerStays, conn' = conn, backlog' = backlog
  PROVE  PushedOn' = PushedOn
<1>1. UnreadIn(server.ready)' = UnreadIn(server.ready)
      /\ UnreadIn(Slots \ server.ready)' = UnreadIn(Slots \ server.ready)
  BY DEF UnreadIn, ServerStays
<1>2. Reported' = Reported /\ Accepted' = Accepted
  BY <1>1, UnreadParts
<1>3. Pushed' = Pushed /\ Waiting' = Waiting
  BY DEF Pushed, Waiting, One, ServerStays
<1> QED
  BY <1>2, <1>3 DEF PushedOn, ReportedOn, AcceptedOn

\* No request moves while only the worker does, between two requests.
LEMMA PipelineUntouched ==
  ASSUME UNCHANGED <<server, queue, backlog, conn>>,
         worker' = worker \/ {worker.at, worker'.at} \subseteq {"head", "pop", "send"}
  PROVE  Pipeline' = Pipeline
<1>1. PushedOn' = PushedOn
  BY BehindQueue DEF ServerStays
<1>2. InHand' = InHand /\ Queued' = Queued /\ (worker'.at = "exited" <=> worker.at = "exited")
  BY DEF InHand, One, Queued
<1> QED
  BY <1>1, <1>2 DEF Pipeline, PushedOn, ReportedOn, AcceptedOn

\* Nor when a signal comes (signal_handler, CPServer::shutDown).
LEMMA SignalPipeline ==
  ASSUME Types, Signal
  PROVE  Pipeline' = Pipeline
<1>1. ServerStays /\ UNCHANGED <<worker, queue, backlog, conn>>
  BY DEF Signal, ServerStays, Types, TypeOK
<1>2. PushedOn' = PushedOn
  BY <1>1, BehindQueue
<1>3. InHand' = InHand /\ Queued' = Queued
  BY <1>1 DEF InHand, One, Queued
<1> QED
  BY <1>1, <1>2, <1>3 DEF Pipeline, PushedOn, ReportedOn, AcceptedOn

\* The worker takes the head of the queue (Queue::blockingPop).
LEMMA PopForwards ==
  ASSUME Types, Pop, phase = "serving"
  PROVE  Pipeline' = Pipeline /\ UNCHANGED <<enclave, fresh>>
<1> DEFINE m == Head(queue).req
<1>1. /\ queue' = Tail(queue) /\ queue \in Seq(Tasks) /\ queue # <<>> /\ Head(queue) \in Tasks
      /\ worker.at = "pop" /\ worker' = [Worker("call") EXCEPT !.task = Head(queue)]
      /\ server' = server /\ conn' = conn /\ backlog' = backlog
      /\ UNCHANGED <<enclave, fresh>>
  BY DEF Pop, Types, TypeOK
<1>2. \A t \in Tasks : t.req \in R
  BY DEF Tasks, R
<1>3. worker'.at = "call" /\ worker'.task = Head(queue)
  BY <1>1 DEF Worker
<1>4. InHand = <<>> /\ InHand' = <<m>>
  BY <1>1, <1>3 DEF InHand, One
<1>5. Queued = <<m>> \o Queued' /\ Queued' \in Seq(R)
  BY <1>1, <1>2, RequestsInTail, RequestsInType DEF Queued, RequestsIn
<1>6. PushedOn' = PushedOn /\ PushedOn \in Seq(R) /\ QueuedOn \in Seq(R)
  BY <1>1, BehindQueue, PartsOn DEF ServerStays
<1>7. QueuedOn' = Queued' \o PushedOn
  BY <1>6 DEF QueuedOn
<1>8. <<m>> \in Seq(R)
  BY <1>1, <1>2
<1>9. QueuedOn = <<m>> \o QueuedOn'
  BY <1>5, <1>6, <1>7, <1>8, ConcatAssociative DEF QueuedOn
<1>10. <<>> \o QueuedOn = QueuedOn
  BY <1>6, ConcatEmptySeq
<1>11. Pipeline = InHand \o QueuedOn
  BY <1>1, PipelineOn
<1>12. Pipeline' = InHand' \o QueuedOn'
  BY <1>3 DEF Pipeline, QueuedOn, PushedOn, ReportedOn, AcceptedOn
<1> QED
  BY <1>1, <1>4, <1>9, <1>10, <1>11, <1>12

\* An ECALL executes the head of the pipeline (CPTask::run).
LEMMA CallExecutes ==
  ASSUME Types, worker.at = "call", worker'.at = "send", queue' = queue,
         server' = server, conn' = conn, backlog' = backlog
  PROVE  /\ Pipeline = <<worker.task.req>> \o Pipeline'
         /\ Pipeline' \in Seq(R) /\ worker.task.req \in R
<1>1. worker.task.req \in R
  BY DEF Types, Workers, Tasks, R
<1>2. QueuedOn' = QueuedOn
  <2>1. Queued' = Queued
    BY DEF Queued
  <2> QED
    BY <2>1, BehindQueue DEF QueuedOn, ServerStays
<1>3. InHand = <<worker.task.req>> /\ InHand' = <<>>
  BY DEF InHand, One
<1>4. Pipeline' = InHand' \o QueuedOn'
  BY DEF Pipeline, QueuedOn, PushedOn, ReportedOn, AcceptedOn
<1>5. QueuedOn \in Seq(R)
  BY PartsOn
<1>6. Pipeline' = QueuedOn
  BY <1>2, <1>3, <1>4, <1>5, ConcatEmptySeq
<1> QED
  BY <1>1, <1>3, <1>5, <1>6, PipelineOn

\* A request goes to the end of the pipeline (client_send_receive).
LEMMA AskAppends ==
  ASSUME Types, Discipline, Ask
  PROVE  /\ UNCHANGED <<enclave, fresh>>
         /\ worker.at = "exited" => Pipeline' = Pipeline
         /\ worker.at # "exited" => /\ RequestOf(initiator) \in R
                                    /\ Pipeline' = Pipeline \o <<RequestOf(initiator)>>
<1>1. /\ worker' = worker /\ queue' = queue /\ server' = server /\ conn' = conn
      /\ UNCHANGED <<enclave, fresh>>
  BY DEF Ask
<1>2. CASE worker.at = "exited"
  BY <1>1, <1>2 DEF Pipeline
<1>3. CASE worker.at # "exited"
  <2> DEFINE m == RequestOf(initiator)
             asked == [req |-> m, read |-> FALSE, live |-> TRUE, open |-> TRUE]
  <2>1. phase # "down"
    BY <1>3 DEF Discipline
  <2>2. backlog' = Append(backlog, asked)
    BY <2>1 DEF Ask
  <2>3. m \in R
    BY RequestHasType DEF Ask, Types, R
  <2>4. asked \in Connections /\ asked.req = m /\ backlog \in Seq(Connections)
    BY <2>3 DEF Connections, R, Types, TypeOK
  <2>5. \A c \in Connections : c.req \in R
    BY DEF Connections, R
  <2> HIDE DEF asked, m
  <2>6. Waiting' = Waiting \o <<m>>
    BY <2>2, <2>4, <2>5, RequestsInAppend DEF Waiting, RequestsIn
  <2>7. UnreadIn(server.ready)' = UnreadIn(server.ready)
        /\ UnreadIn(Slots \ server.ready)' = UnreadIn(Slots \ server.ready)
    BY <1>1 DEF UnreadIn
  <2>8. Reported' = Reported /\ Accepted' = Accepted
    BY <1>1, <2>7, UnreadParts
  <2>9. Pushed' = Pushed /\ InHand' = InHand /\ Queued' = Queued
    BY <1>1 DEF Pushed, One, InHand, Queued
  <2>10. <<m>> \in Seq(R)
    BY <2>3
  <2>11. /\ InHand \in Seq(R) /\ Queued \in Seq(R) /\ Pushed \in Seq(R)
         /\ Reported \in Seq(R) /\ Accepted \in Seq(R) /\ Waiting \in Seq(R)
    BY Parts
  <2>12. /\ AcceptedOn \in Seq(R) /\ ReportedOn \in Seq(R)
         /\ PushedOn \in Seq(R) /\ QueuedOn \in Seq(R)
    BY PartsOn
  <2>13. AcceptedOn' = AcceptedOn \o <<m>>
    <3>1. (Accepted \o Waiting) \o <<m>> = Accepted \o (Waiting \o <<m>>)
      BY <2>3, <2>11, Extended
    <3> QED
      BY <2>6, <2>8, <3>1 DEF AcceptedOn
  <2>14. ReportedOn' = ReportedOn \o <<m>>
    <3>1. (Reported \o AcceptedOn) \o <<m>> = Reported \o (AcceptedOn \o <<m>>)
      <4>1. Reported \in Seq(R)
        BY <2>11
      <4>2. AcceptedOn \in Seq(R)
        BY <2>12
      <4> QED
        BY <2>3, <4>1, <4>2, Extended
    <3> QED
      BY <2>8, <2>13, <3>1 DEF ReportedOn
  <2>15. PushedOn' = PushedOn \o <<m>>
    <3>1. (Pushed \o ReportedOn) \o <<m>> = Pushed \o (ReportedOn \o <<m>>)
      <4>1. Pushed \in Seq(R)
        BY <2>11
      <4>2. ReportedOn \in Seq(R)
        BY <2>12
      <4> QED
        BY <2>3, <4>1, <4>2, Extended
    <3> QED
      BY <2>9, <2>14, <3>1 DEF PushedOn
  <2>16. QueuedOn' = QueuedOn \o <<m>>
    <3>1. (Queued \o PushedOn) \o <<m>> = Queued \o (PushedOn \o <<m>>)
      <4>1. Queued \in Seq(R)
        BY <2>11
      <4>2. PushedOn \in Seq(R)
        BY <2>12
      <4> QED
        BY <2>3, <4>1, <4>2, Extended
    <3> QED
      BY <2>9, <2>15, <3>1 DEF QueuedOn
  <2>17. Pipeline' = InHand' \o QueuedOn'
    BY <1>1, <1>3 DEF Pipeline, QueuedOn, PushedOn, ReportedOn, AcceptedOn
  <2>18. Pipeline' = Pipeline \o <<m>>
    <3>1. (InHand \o QueuedOn) \o <<m>> = InHand \o (QueuedOn \o <<m>>)
      <4>1. InHand \in Seq(R)
        BY <2>11
      <4>2. QueuedOn \in Seq(R)
        BY <2>12
      <4> QED
        BY <2>3, <4>1, <4>2, Extended
    <3> QED
      BY <1>3, <2>9, <2>16, <2>17, <3>1, PipelineOn
  <2> QED
    BY <1>1, <1>3, <2>3, <2>18 DEF m
<1> QED
  BY <1>2, <1>3

\* A step that loses one request (SessionService's Lose).
Drops(p, q) == \E n \in 1 .. Len(p) : q = Service!Without(p, n)

LEMMA DropsHead ==
  ASSUME NEW t \in Seq(R), NEW m \in R
  PROVE  Drops(<<m>> \o t, t)
<1> DEFINE p == <<m>> \o t
<1>1. <<m>> \in Seq(R) /\ Len(<<m>>) = 1 /\ Len(t) \in Nat
  OBVIOUS
<1>2. /\ p \in Seq(R) /\ Len(p) = Len(t) + 1
      /\ \A k \in 1 .. Len(t) + 1 : p[k] = IF k <= 1 THEN <<m>>[k] ELSE t[k - 1]
  BY <1>1, ConcatProperties
<1> HIDE DEF p
<1>3. Service!Without(p, 1) = [k \in 1 .. Len(p) - 1 |-> IF k < 1 THEN p[k] ELSE p[k + 1]]
  BY DEF Service!Without
<1>4. Len(p) - 1 = Len(t) /\ 1 \in 1 .. Len(p)
  BY <1>1, <1>2
<1>5. ASSUME NEW k \in 1 .. Len(t)
      PROVE  Service!Without(p, 1)[k] = t[k]
  <2>1. k \in Nat /\ ~(k < 1) /\ k + 1 \in 1 .. Len(t) + 1 /\ ~(k + 1 <= 1) /\ (k + 1) - 1 = k
    BY <1>1
  <2>2. Service!Without(p, 1)[k] = p[k + 1]
    BY <1>3, <1>4, <2>1
  <2>3. p[k + 1] = t[(k + 1) - 1]
    BY <1>2, <2>1
  <2> QED
    BY <2>1, <2>2, <2>3
<1>6. DOMAIN t = 1 .. Len(t) /\ t = [k \in DOMAIN t |-> t[k]]
  OBVIOUS
<1>7. Service!Without(p, 1) = t
  BY <1>3, <1>4, <1>5, <1>6
<1> QED
  BY <1>4, <1>7 DEF Drops, p

LEMMA DropsBehind ==
  ASSUME NEW s \in Seq(R), NEW t \in Seq(R), NEW u \in Seq(R), Drops(t, u)
  PROVE  Drops(s \o t, s \o u)
<1> DEFINE p == s \o t
           q == s \o u
<1>1. PICK n \in 1 .. Len(t) : u = Service!Without(t, n)
  BY DEF Drops
<1>2. Len(s) \in Nat /\ Len(t) \in Nat /\ n \in 1 .. Len(t)
  BY <1>1
<1>3. u = [k \in 1 .. Len(t) - 1 |-> IF k < n THEN t[k] ELSE t[k + 1]]
  BY <1>1 DEF Service!Without
<1>4. Len(u) = Len(t) - 1
  <2>1. DOMAIN u = 1 .. Len(t) - 1 /\ DOMAIN u = 1 .. Len(u) /\ Len(u) \in Nat
    BY <1>3
  <2> QED
    BY <1>2, <2>1
<1>5. /\ p \in Seq(R) /\ Len(p) = Len(s) + Len(t)
      /\ \A k \in 1 .. Len(s) + Len(t) : p[k] = IF k <= Len(s) THEN s[k] ELSE t[k - Len(s)]
  BY ConcatProperties
<1>6. /\ q \in Seq(R) /\ Len(q) = Len(s) + Len(u)
      /\ \A k \in 1 .. Len(s) + Len(u) : q[k] = IF k <= Len(s) THEN s[k] ELSE u[k - Len(s)]
  BY ConcatProperties
<1> DEFINE m == Len(s) + n
<1> HIDE DEF p, q
<1>7. /\ m \in 1 .. Len(p) /\ Len(q) = Len(p) - 1 /\ Len(p) - 1 \in Nat
  BY <1>2, <1>4, <1>5, <1>6
<1>8. ASSUME NEW k \in 1 .. Len(q)
      PROVE  q[k] = IF k < m THEN p[k] ELSE p[k + 1]
  <2>1. k \in 1 .. Len(s) + Len(u) /\ k \in 1 .. Len(s) + Len(t) /\ k + 1 \in 1 .. Len(s) + Len(t)
    BY <1>2, <1>4, <1>6
  <2>2. CASE k <= Len(s)
    BY <1>2, <1>5, <1>6, <2>1, <2>2
  <2>3. CASE ~(k <= Len(s))
    <3> DEFINE j == k - Len(s)
    <3>1. j \in 1 .. Len(t) - 1 /\ (k + 1) - Len(s) = j + 1 /\ ~(k + 1 <= Len(s))
      BY <1>2, <1>4, <2>1, <2>3
    <3>2. k < m <=> j < n
      BY <1>2, <2>1
    <3>3. q[k] = u[j] /\ p[k] = t[j]
      BY <1>5, <1>6, <2>1, <2>3
    <3>4. p[k + 1] = t[j + 1]
      <4>1. p[k + 1] = t[(k + 1) - Len(s)]
        BY <1>5, <2>1, <3>1
      <4> QED
        BY <3>1, <4>1
    <3>5. u[j] = IF j < n THEN t[j] ELSE t[j + 1]
      BY <1>3, <3>1
    <3> QED
      BY <3>2, <3>3, <3>4, <3>5
  <2> QED
    BY <2>2, <2>3
<1>9. Service!Without(p, m) = [k \in 1 .. Len(p) - 1 |-> IF k < m THEN p[k] ELSE p[k + 1]]
  BY DEF Service!Without
<1>10. DOMAIN q = 1 .. Len(q) /\ q = [k \in DOMAIN q |-> q[k]]
  BY <1>6
<1>11. q = Service!Without(p, m)
  BY <1>7, <1>8, <1>9, <1>10
<1> QED
  BY <1>7, <1>11 DEF Drops, p, q

LEMMA LoseMaps ==
  ASSUME Drops(Pipeline, Pipeline'), UNCHANGED <<enclave, fresh>>
  PROVE  Service!Next
BY DEF Drops, Service!Next, Service!Lose

LEMMA EndMaps ==
  ASSUME worker'.at = "exited", enclave' = EmptyEnclave, fresh' = fresh
  PROVE  Service!Next
<1>1. Pipeline' = <<>>
  BY DEF Pipeline
<1>2. Service!EmptyEnclave = EmptyEnclave
  BY DEF Service!EmptyEnclave, EmptyEnclave, Service!Ids, Ids, Service!Absent, Absent
<1> QED
  BY <1>1, <1>2 DEF Service!Next, Service!End

LEMMA StutterMaps ==
  ASSUME Pipeline' = Pipeline, UNCHANGED <<enclave, fresh>>
  PROVE  UNCHANGED Service!vars
BY DEF Service!vars

\* A request that is read is passed on, or lost when the process is being stopped.
LEMMA ReceivePipeline ==
  ASSUME Types, Discipline, NEW f \in Slots, Receive(f), worker.at # "exited"
  PROVE  IF phase = "serving" THEN Pipeline' = Pipeline ELSE Drops(Pipeline, Pipeline')
<1> DEFINE m == conn[f].req
<1>1. worker' = worker
  BY DEF Receive
<1>2. /\ Pushed = <<>> /\ Reported = <<m>> /\ m \in R
      /\ Pushed' = (IF phase = "serving" THEN <<m>> ELSE <<>>)
      /\ Reported' = <<>> /\ AcceptedOn' = AcceptedOn
      /\ Queued' = Queued /\ InHand' = InHand
  BY ReceiveForwards
<1>3. AcceptedOn \in Seq(R) /\ QueuedOn \in Seq(R) /\ InHand \in Seq(R) /\ Queued \in Seq(R)
  BY Parts, PartsOn
<1> HIDE DEF m
<1>4. ReportedOn = <<m>> \o AcceptedOn /\ ReportedOn' = <<>> \o AcceptedOn
  BY <1>2 DEF ReportedOn
<1>5. ReportedOn' = AcceptedOn
  BY <1>3, <1>4, ConcatEmptySeq
<1>6. ReportedOn \in Seq(R) /\ PushedOn = ReportedOn
  <2>1. ReportedOn \in Seq(R)
    BY PartsOn
  <2> QED
    BY <1>2, <2>1, ConcatEmptySeq DEF PushedOn
<1>7. Pipeline' = InHand' \o QueuedOn' /\ Pipeline = InHand \o QueuedOn
  BY <1>1, PipelineOn DEF Pipeline, QueuedOn, PushedOn, ReportedOn, AcceptedOn
<1>8. CASE phase = "serving"
  <2>1. PushedOn' = <<m>> \o AcceptedOn
    BY <1>2, <1>5, <1>8 DEF PushedOn
  <2> QED
    BY <1>2, <1>4, <1>6, <1>7, <1>8, <2>1 DEF QueuedOn
<1>9. CASE phase # "serving"
  <2>1. PushedOn' = AcceptedOn
    BY <1>2, <1>3, <1>5, <1>9, ConcatEmptySeq DEF PushedOn
  <2>2. Drops(PushedOn, PushedOn')
    <3>1. Drops(<<m>> \o AcceptedOn, AcceptedOn)
      BY <1>2, <1>3, DropsHead
    <3> QED
      BY <1>4, <1>6, <2>1, <3>1
  <2>3. PushedOn \in Seq(R) /\ PushedOn' \in Seq(R)
    BY <1>3, <1>6, <2>1
  <2>4. QueuedOn' = Queued \o PushedOn'
    BY <1>2 DEF QueuedOn
  <2>5. Drops(QueuedOn, QueuedOn') /\ QueuedOn' \in Seq(R)
    <3>1. Drops(Queued \o PushedOn, Queued \o PushedOn')
      BY <1>3, <2>2, <2>3, DropsBehind
    <3> QED
      BY <1>3, <2>3, <2>4, <3>1, ConcatProperties DEF QueuedOn
  <2>6. Drops(InHand \o QueuedOn, InHand \o QueuedOn')
    BY <1>3, <2>5, DropsBehind
  <2> QED
    BY <1>2, <1>7, <1>9, <2>6
<1> QED
  BY <1>8, <1>9

LEMMA ReceiveMaps ==
  ASSUME Types, Discipline, NEW f \in Slots, Receive(f)
  PROVE  [Service!Next]_Service!vars
<1>1. UNCHANGED <<enclave, fresh>> /\ worker' = worker
  BY ReceiveForwards DEF Receive
<1>2. CASE worker.at = "exited"
  <2>1. Pipeline' = Pipeline
    BY <1>1, <1>2 DEF Pipeline
  <2> QED
    BY <1>1, <2>1, StutterMaps
<1>3. CASE worker.at # "exited"
  BY <1>1, <1>3, ReceivePipeline, StutterMaps, LoseMaps
<1> QED
  BY <1>2, <1>3

\* A connection that is refused loses its request (CPServer::doWork).
LEMMA RefusePipeline ==
  ASSUME Types, Discipline, Refuse, Head(backlog).live, worker.at # "exited"
  PROVE  Drops(Pipeline, Pipeline')
<1> DEFINE m == Head(backlog).req
<1>1. /\ backlog' = Tail(backlog) /\ backlog # <<>> /\ backlog \in Seq(Connections)
      /\ conn' = conn /\ worker' = worker /\ queue' = queue
      /\ server'.ready = server.ready /\ server'.push = server.push
  BY DEF Refuse, Types, TypeOK
<1>2. \A c \in Connections : c.req \in R
  BY DEF Connections, R
<1>3. Waiting = <<m>> \o Waiting' /\ Waiting' \in Seq(R) /\ m \in R
  BY <1>1, <1>2, RequestsInTail, RequestsInType, HeadTailProperties DEF Waiting, RequestsIn
<1>4. UnreadIn(server.ready)' = UnreadIn(server.ready)
      /\ UnreadIn(Slots \ server.ready)' = UnreadIn(Slots \ server.ready)
  BY <1>1 DEF UnreadIn
<1>5. Reported' = Reported /\ Accepted' = Accepted
  BY <1>1, <1>4, UnreadParts
<1>6. Pushed' = Pushed /\ Queued' = Queued /\ InHand' = InHand
  BY <1>1 DEF Pushed, Queued, InHand, One
<1>7. /\ InHand \in Seq(R) /\ Queued \in Seq(R) /\ Pushed \in Seq(R)
      /\ Reported \in Seq(R) /\ Accepted \in Seq(R) /\ Waiting \in Seq(R)
  BY Parts
<1> HIDE DEF m
<1>8. Drops(Waiting, Waiting')
  <2>1. Drops(<<m>> \o Waiting', Waiting')
    BY <1>3, DropsHead
  <2> QED
    BY <1>3, <2>1
<1>9. Drops(AcceptedOn, AcceptedOn') /\ AcceptedOn \in Seq(R) /\ AcceptedOn' \in Seq(R)
  <2>1. Drops(Accepted \o Waiting, Accepted \o Waiting')
    BY <1>3, <1>7, <1>8, DropsBehind
  <2> QED
    BY <1>3, <1>5, <1>7, <2>1, ConcatProperties DEF AcceptedOn
<1>10. Drops(ReportedOn, ReportedOn') /\ ReportedOn \in Seq(R) /\ ReportedOn' \in Seq(R)
  <2>1. Drops(Reported \o AcceptedOn, Reported \o AcceptedOn')
    BY <1>7, <1>9, DropsBehind
  <2> QED
    BY <1>5, <1>7, <1>9, <2>1, ConcatProperties DEF ReportedOn
<1>11. Drops(PushedOn, PushedOn') /\ PushedOn \in Seq(R) /\ PushedOn' \in Seq(R)
  <2>1. Drops(Pushed \o ReportedOn, Pushed \o ReportedOn')
    BY <1>7, <1>10, DropsBehind
  <2> QED
    BY <1>6, <1>7, <1>10, <2>1, ConcatProperties DEF PushedOn
<1>12. Drops(QueuedOn, QueuedOn') /\ QueuedOn \in Seq(R) /\ QueuedOn' \in Seq(R)
  <2>1. Drops(Queued \o PushedOn, Queued \o PushedOn')
    BY <1>7, <1>11, DropsBehind
  <2> QED
    BY <1>6, <1>7, <1>11, <2>1, ConcatProperties DEF QueuedOn
<1>13. Drops(InHand \o QueuedOn, InHand \o QueuedOn')
  BY <1>7, <1>12, DropsBehind
<1>14. Pipeline' = InHand' \o QueuedOn' /\ Pipeline = InHand \o QueuedOn
  BY <1>1, PipelineOn DEF Pipeline, QueuedOn, PushedOn, ReportedOn, AcceptedOn
<1> QED
  BY <1>6, <1>13, <1>14

\* Or the process ends, when the requester is gone.
LEMMA RefuseMaps ==
  ASSUME Types, Discipline, Refuse
  PROVE  [Service!Next]_Service!vars
<1>1. CASE ~Head(backlog).live
  <2>1. worker' = Worker("exited") /\ enclave' = EmptyEnclave /\ fresh' = fresh
    BY <1>1 DEF Refuse, Die
  <2> QED
    BY <2>1, EndMaps DEF Worker
<1>2. CASE Head(backlog).live
  <2>1. UNCHANGED <<enclave, fresh>> /\ worker' = worker
    BY <1>2 DEF Refuse
  <2>2. CASE worker.at = "exited"
    <3>1. Pipeline' = Pipeline
      BY <2>1, <2>2 DEF Pipeline
    <3> QED
      BY <2>1, <3>1, StutterMaps
  <2>3. CASE worker.at # "exited"
    BY <1>2, <2>1, <2>3, RefusePipeline, LoseMaps
  <2> QED
    BY <2>2, <2>3
<1> QED
  BY <1>1, <1>2

\* The abstract service calls the enclave of EnclaveSessions.
LEMMA SameEnclave ==
  ASSUME NEW e, NEW key, NEW m
  PROVE  /\ Service!SessionRequest(e, key) = SessionRequest(e, key)
         /\ Service!ExchangeReport(e, m) = ExchangeReport(e, m)
         /\ Service!GenerateResponse(e, m) = GenerateResponse(e, m)
         /\ Service!CloseRequest(e, m) = CloseRequest(e, m)
<1>1. Service!Ids = Ids /\ Service!Absent = Absent
  BY DEF Service!Ids, Ids, Service!Absent, Absent
<1>2. /\ \A t : Service!Zeroed(t) = Zeroed(t)
      /\ Service!Known(e) = Known(e) /\ Service!Active(e) = Active(e)
  BY <1>1 DEF Service!Zeroed, Zeroed, Service!Known, Known, Service!Active, Active
<1>3. Service!FreeId(e) = FreeId(e)
  BY <1>1 DEF Service!FreeId, FreeId
<1>4. \A id : Service!EndSession(e, id) = EndSession(e, id)
  BY <1>1, <1>2 DEF Service!EndSession, EndSession
<1>5. \A id : Service!Advance(e, id) = Advance(e, id)
  BY DEF Service!Advance, Advance
<1>6. Service!Opens(e, m) <=> Opens(e, m)
  BY <1>2 DEF Service!Opens, Opens
<1>7. \A t : Service!Fits(t) <=> Fits(t)
  BY DEF Service!Fits, Fits, Service!ResponseSize, ResponseSize, Service!MaxPayload, MaxPayload
<1>8. Service!SessionRequest(e, key) = SessionRequest(e, key)
  BY <1>1, <1>2, <1>3 DEF Service!SessionRequest, SessionRequest
<1>9. Service!ExchangeReport(e, m) = ExchangeReport(e, m)
  BY <1>2, <1>4 DEF Service!ExchangeReport, ExchangeReport
<1>10. Service!GenerateResponse(e, m) = GenerateResponse(e, m)
  BY <1>2, <1>5, <1>6, <1>7 DEF Service!GenerateResponse, GenerateResponse
<1>11. Service!CloseRequest(e, m) = CloseRequest(e, m)
  BY <1>2, <1>4 DEF Service!CloseRequest, CloseRequest
<1> QED
  BY <1>8, <1>9, <1>10, <1>11

\* An ECALL is the execution of the oldest request (CPTask::run).
LEMMA CallMaps ==
  ASSUME Types,
         CallSessionRequest \/ CallExchangeReport \/ CallGenerateResponse \/ CallEndSession
  PROVE  Service!Next
<1> DEFINE m == worker.task.req
<1>1. /\ worker.at = "call" /\ worker'.at = "send" /\ queue' = queue
      /\ server' = server /\ conn' = conn /\ backlog' = backlog
  BY DEF CallSessionRequest, CallExchangeReport, CallGenerateResponse, CallEndSession, Call,
         Types, Workers
<1>2. /\ Pipeline = <<m>> \o Pipeline' /\ Pipeline' \in Seq(R) /\ m \in R
  BY <1>1, CallExecutes
<1>3. enclave' = Service!Result(m).enclave
      /\ fresh' = IF m.type = "msg1" THEN fresh + 1 ELSE fresh
  <2>1. CASE CallSessionRequest
    <3>1. m.type = "msg1" /\ enclave' = SessionRequest(enclave, fresh).enclave /\ fresh' = fresh + 1
      BY <2>1 DEF CallSessionRequest, Call
    <3> QED
      BY <3>1, SameEnclave DEF Service!Result
  <2>2. CASE CallExchangeReport
    <3>1. m.type = "msg2" /\ enclave' = ExchangeReport(enclave, m).enclave /\ fresh' = fresh
      BY <2>2 DEF CallExchangeReport, Call
    <3> QED
      BY <3>1, SameEnclave DEF Service!Result
  <2>3. CASE CallGenerateResponse
    <3>1. /\ m.type \in {"exchange", "sync"} /\ fresh' = fresh
          /\ enclave' = GenerateResponse(enclave, m).enclave
      BY <2>3 DEF CallGenerateResponse, Call
    <3> QED
      BY <3>1, SameEnclave DEF Service!Result
  <2>4. CASE CallEndSession
    <3>1. m.type = "close" /\ enclave' = CloseRequest(enclave, m).enclave /\ fresh' = fresh
      BY <2>4 DEF CallEndSession, Call
    <3> QED
      BY <3>1, SameEnclave DEF Service!Result
  <2> QED
    BY <2>1, <2>2, <2>3, <2>4
<1> HIDE DEF m
<1>4. Pipeline # <<>> /\ Head(Pipeline) = m /\ Tail(Pipeline) = Pipeline'
  BY <1>2, HeadTailOfJoined
<1> QED
  BY <1>3, <1>4 DEF Service!Next, Service!Execute

\* The pipeline ends with the worker, and is not touched by what is after the ECALL.
LEMMA WorkerMaps ==
  ASSUME Types, Discipline, WorkerStep
  PROVE  [Service!Next]_Service!vars
<1>1. CASE LoopTest
  <2>1. CASE phase = "serving"
    <3>1. /\ worker.at = "head" /\ worker'.at = "pop"
          /\ UNCHANGED <<server, queue, backlog, conn, enclave, fresh>>
      BY <1>1, <2>1 DEF LoopTest, Worker
    <3> QED
      BY <3>1, PipelineUntouched, StutterMaps
  <2>2. CASE phase # "serving"
    BY <1>1, <2>2, EndMaps DEF LoopTest, Exited, Worker
  <2> QED
    BY <2>1, <2>2
<1>2. CASE PopClosed
  BY <1>2, EndMaps DEF PopClosed, Exited, Worker
<1>3. CASE Pop
  <2>1. CASE phase = "serving"
    BY <1>3, <2>1, PopForwards, StutterMaps
  <2>2. CASE phase = "stopping"
    BY <1>3, <2>2, EndMaps DEF Pop, Exited, Worker
  <2> QED
    BY <1>3, <2>1, <2>2 DEF Pop
<1>4. CASE CallSessionRequest \/ CallExchangeReport \/ CallGenerateResponse \/ CallEndSession
  BY <1>4, CallMaps
<1>5. CASE Send
  <2>1. /\ worker.at = "send" /\ worker'.at = "head"
        /\ UNCHANGED <<server, queue, backlog, conn, enclave, fresh>>
    BY <1>5 DEF Send, Worker
  <2> QED
    BY <2>1, PipelineUntouched, StutterMaps
<1>6. CASE SendDead
  BY <1>6, EndMaps DEF SendDead, Die, Worker
<1> QED
  BY <1>1, <1>2, <1>3, <1>4, <1>5, <1>6 DEF WorkerStep

LEMMA ServerMaps ==
  ASSUME Types, Discipline, Server
  PROVE  [Service!Next]_Service!vars
<1>1. CASE Select
  BY <1>1, SelectForwards, StutterMaps
<1>2. CASE Accept
  BY <1>2, AcceptForwards, StutterMaps
<1>3. CASE Push
  BY <1>3, PushForwards, StutterMaps
<1>4. ASSUME NEW f \in Slots, Hangup(f)
      PROVE  [Service!Next]_Service!vars
  BY <1>4, HangupForwards, StutterMaps
<1>5. ASSUME NEW f \in Slots, Receive(f)
      PROVE  [Service!Next]_Service!vars
  BY <1>5, ReceiveMaps
<1> QED
  BY <1>1, <1>2, <1>3, <1>4, <1>5, RefuseMaps DEF Server

\* A request that is sent is appended (client_send_receive); the requester's
\* other steps leave what it sent where it is.
LEMMA AskMaps ==
  ASSUME Types, Discipline, Ask
  PROVE  [Service!Next]_Service!vars
<1> DEFINE m == RequestOf(initiator)
<1>1. CASE worker.at = "exited"
  BY <1>1, AskAppends, StutterMaps
<1>2. CASE worker.at # "exited"
  <2>1. m \in R /\ Pipeline' = Pipeline \o <<m>> /\ UNCHANGED <<enclave, fresh>>
    BY <1>2, AskAppends
  <2>2. Pipeline \in Seq(R)
    BY PipelineType
  <2> HIDE DEF m
  <2>3. /\ Pipeline' # <<>> /\ Pipeline'[Len(Pipeline')] = m
        /\ Pipeline = SubSeq(Pipeline', 1, Len(Pipeline') - 1)
    BY <2>1, <2>2, LastOfJoined
  <2>4. m \in Service!Message(Service!Requests)
    BY <2>1 DEF R, Message, Requests, Service!Message, Service!Requests
  <2> QED
    BY <2>1, <2>3, <2>4 DEF Service!Next, Service!Request
<1> QED
  BY <1>1, <1>2

LEMMA AbandonMaps ==
  ASSUME Types, Discipline, AbandonAll, server' = server, worker' = worker, queue' = queue,
         UNCHANGED <<enclave, fresh>>
  PROVE  UNCHANGED Service!vars
<1>1. Reported' = Reported /\ Accepted' = Accepted /\ Pushed' = Pushed /\ Waiting' = Waiting
  BY AbandonKeeps, ServerUntouched DEF ServerStays
<1>2. InHand' = InHand /\ Queued' = Queued
  BY DEF InHand, One, Queued
<1> QED
  BY <1>1, <1>2, StutterMaps DEF Pipeline

\* A process that is started again has no request to execute (CPServer::init).
LEMMA RestartPipeline ==
  ASSUME Types, Discipline, Restart
  PROVE  Pipeline' = <<>>
<1>1. /\ queue' = <<>> /\ backlog' = <<>> /\ conn' = Nothing /\ server' = Idle
      /\ worker' = Worker("head")
  BY DEF Restart, Discipline
<1>2. UnreadIn(server.ready)' = {} /\ UnreadIn(Slots \ server.ready)' = {}
  <2>1. server'.ready = {} /\ \A f \in Slots : conn'[f].read
    BY <1>1 DEF Idle, Nothing, NoConn
  <2> QED
    BY <2>1 DEF UnreadIn
<1>3. Reported' = <<>> /\ Accepted' = <<>>
  BY <1>2, UnreadParts DEF RequestFrom
<1>4. Pushed' = <<>> /\ InHand' = <<>>
  BY <1>1 DEF Pushed, InHand, One, Idle, Worker
<1>5. Queued' = <<>> /\ Waiting' = <<>>
  <2>1. Len(queue') = 0 /\ Len(backlog') = 0
    BY <1>1
  <2> QED
    BY <2>1 DEF Queued, Waiting
<1>6. Pipeline' = <<>> \o (<<>> \o (<<>> \o (<<>> \o (<<>> \o <<>>))))
  BY <1>1, <1>3, <1>4, <1>5 DEF Pipeline, Worker
<1> QED
  BY <1>6

LEMMA RestMaps ==
  ASSUME Types, Discipline,
         CloseQueue \/ Exit \/ Invoke \/ Initiator
         \/ Signal \/ ResponderCrash \/ Restart \/ InitiatorCrash
  PROVE  [Service!Next]_Service!vars
<1>1. CASE Exit \/ ResponderCrash
  BY <1>1, EndMaps DEF Exit, ResponderCrash, Die, Worker
<1>2. CASE TakeAnswer \/ Closed \/ InitiatorCrash
  BY <1>2, AbandonMaps DEF TakeAnswer, Closed, InitiatorCrash
<1>3. CASE Signal
  BY <1>3, SignalPipeline, StutterMaps DEF Signal
<1>4. CASE CloseQueue \/ Invoke
  <2>1. UNCHANGED <<enclave, fresh, server, worker, queue, backlog, conn>>
    BY <1>4 DEF CloseQueue, Invoke
  <2> QED
    BY <2>1, PipelineUntouched, StutterMaps
<1>5. CASE Restart
  <2>1. UNCHANGED <<enclave, fresh>> /\ worker.at = "exited"
    BY <1>5 DEF Restart, Discipline
  <2>2. Pipeline' = Pipeline
    BY <1>5, <2>1, RestartPipeline DEF Pipeline
  <2> QED
    BY <2>1, <2>2, StutterMaps
<1> QED
  BY <1>1, <1>2, <1>3, <1>4, <1>5, AskMaps DEF Initiator

LEMMA StepMaps ==
  ASSUME Types, Discipline, [Next]_vars
  PROVE  [Service!Next]_Service!vars
<1>1. CASE UNCHANGED vars
  <2>1. UNCHANGED <<enclave, fresh, server, worker, queue, backlog, conn>>
    BY <1>1 DEF vars
  <2> QED
    BY <2>1, PipelineUntouched, StutterMaps
<1>2. CASE Next
  BY <1>2, ServerMaps, WorkerMaps, RestMaps DEF Next
<1> QED
  BY <1>1, <1>2

\* No request is there at first.
LEMMA InitPipeline ==
  ASSUME Init
  PROVE  Pipeline = <<>>
<1>1. /\ queue = <<>> /\ backlog = <<>> /\ conn = Nothing /\ server = Idle
      /\ worker = Worker("head")
  BY DEF Init, Nothing
<1>2. UnreadIn(server.ready) = {} /\ UnreadIn(Slots \ server.ready) = {}
  <2>1. server.ready = {} /\ \A f \in Slots : conn[f].read
    BY <1>1 DEF Idle, Nothing, NoConn
  <2> QED
    BY <2>1 DEF UnreadIn
<1>3. Reported = <<>> /\ Accepted = <<>> /\ Pushed = <<>> /\ InHand = <<>>
  <2>1. Reported = <<>> /\ Accepted = <<>>
    BY <1>2, UnreadParts DEF RequestFrom
  <2>2. server.push = NoTask /\ worker.at = "head"
    BY <1>1 DEF Idle, Worker
  <2> QED
    BY <2>1, <2>2 DEF Pushed, InHand, One
<1>4. Queued = <<>> /\ Waiting = <<>>
  <2>1. Len(queue) = 0 /\ Len(backlog) = 0
    BY <1>1
  <2> QED
    BY <2>1 DEF Queued, Waiting
<1>5. Pipeline = <<>> \o (<<>> \o (<<>> \o (<<>> \o (<<>> \o <<>>))))
  BY <1>1, <1>3, <1>4 DEF Pipeline, Worker
<1> QED
  BY <1>5

LEMMA InitMaps ==
  ASSUME Init
  PROVE  Service!Init
<1>1. Pipeline = <<>> /\ enclave = EmptyEnclave /\ fresh = 1
  BY InitPipeline DEF Init
<1>2. Service!EmptyEnclave = EmptyEnclave
  BY DEF Service!EmptyEnclave, EmptyEnclave, Service!Ids, Ids, Service!Absent, Absent
<1> QED
  BY <1>1, <1>2 DEF Service!Init

\* CPServer::doWork, the queue and CPTask::run implement the abstract service: the
\* enclave executes each request at most once, in the order in which it was sent.
THEOREM ServiceRefinement == Spec => ImplementsService
<1>1. Init => Service!Init
  BY InitMaps
<1>2. Types /\ Discipline /\ [Next]_vars => [Service!Next]_Service!vars
  BY StepMaps
<1>3. Init => Types /\ Discipline
  BY InitTypes, DisciplineInit
<1>4. Types /\ Discipline /\ [Next]_vars => Types' /\ Discipline'
  BY TypesStep, DisciplineStep
<1> QED
  BY <1>1, <1>2, <1>3, <1>4, PTL DEF Spec, ImplementsService, Service!Spec

=============================================================================
