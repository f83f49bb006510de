----------------------------- MODULE SlotsProofs ------------------------------
(***************************************************************************)
(* ComplexContract without crashes and signals: every request is answered, *)
(* and the answer goes to the requester. So each call of func2 gives its   *)
(* session back.                                                           *)
(***************************************************************************)
EXTENDS SessionProofs

-----------------------------------------------------------------------------
(* The invariant *)

\* The connection in slot f is waited on, and its request has been read.
Busy(f) == conn[f].open /\ conn[f].read /\ conn[f].live

Undisturbed == phase = "serving" /\ born = 1 /\ worker.at # "exited"

\* A request that was read is of a connection that is waited on, until it is answered.
Carried ==
  /\ server.push # NoTask => Busy(server.push.slot)
  /\ \A k \in 1 .. Len(queue) : Busy(queue[k].slot)
  /\ worker.at \in {"call", "send"} => Busy(worker.task.slot)

\* Nobody leaves before its request is read, and no connection is waited on
\* while one is in the backlog.
Patience ==
  /\ \A f \in Slots : conn[f].read \/ conn[f].live
  /\ Len(backlog) <= 1 /\ \A k \in 1 .. Len(backlog) : backlog[k].live
  /\ backlog # <<>> => \A f \in Slots : conn[f].read /\ ~conn[f].live

\* At most one slot is held by a connection that is given up, and at most one
\* by another: there is room for a connection when accept comes.
Room ==
  /\ \A f, g \in Slots :
       conn[f].open /\ conn[g].open /\ f \notin server.ready /\ g \notin server.ready => f = g
  /\ \A f, g \in server.ready : f = g
  /\ \A f \in server.ready : ~Busy(f)
  /\ server.accept => \A f \in Slots : conn[f].open => f \in server.ready
  /\ \A f \in server.ready : ~conn[f].read => \A g \in Slots : conn[g].open => g \in server.ready

\* The initiator's request is the only one there is, and has one answer.
Single ==
  /\ Pipeline # <<>> => /\ Pipeline = <<RequestOf(initiator)>> /\ worker.at # "send"
                        /\ initiator.waiting /\ initiator.answer = NoAnswer
  /\ worker.at = "send" => initiator.waiting /\ initiator.answer = NoAnswer

\* The one slot that is taken is of the session that the initiator holds, is
\* being offered, or has not closed yet.
Replied == IF worker.at = "send" THEN {worker.reply} ELSE initiator.answer
Lent ==
  /\ initiator.stage = "idle" => enclave.tracker = {}
  /\ initiator.stage = "msg1" =>
       /\ Replied = {} => enclave.tracker = {}
       /\ \A r \in Replied : r.type = "msg1" /\ r.key # 0 /\ enclave.tracker = {r.id}
  /\ initiator.stage \notin {"idle", "msg1", "close", "closeFailed"} => enclave.tracker = {Session.id}
  /\ initiator.stage = "msg2" => \A r \in Replied : r.type = "msg3" /\ r.key = Session.key
  /\ initiator.stage \in {"close", "closeFailed"} =>
       enclave.tracker = IF Replied = {} THEN {Session.id} ELSE {}

Calm == Undisturbed /\ Carried /\ Patience /\ Room /\ Single /\ Lent

-----------------------------------------------------------------------------
(* The pipeline *)

LEMMA EmptyParts ==
  ASSUME NEW s \in Seq(R), NEW t \in Seq(R), s \o t = <<>>
  PROVE  s = <<>> /\ t = <<>>
<1>1. Len(s \o t) = Len(s) + Len(t) /\ Len(s) \in Nat /\ Len(t) \in Nat
  BY ConcatProperties
<1>2. Len(s \o t) = 0
  OBVIOUS
<1>3. Len(s) = 0 /\ Len(t) = 0
  BY <1>1, <1>2
<1> QED
  BY <1>3

\* When no request is under way, no thread and no connection has one.
LEMMA NothingUnderWay ==
  ASSUME Types, worker.at # "exited", Pipeline = <<>>
  PROVE  /\ worker.at # "call" /\ queue = <<>> /\ server.push = NoTask /\ backlog = <<>>
         /\ \A f \in Slots : conn[f].read
<1>1. InHand = <<>> /\ QueuedOn = <<>>
  BY Parts, PartsOn, PipelineOn, EmptyParts
<1>2. Queued = <<>> /\ PushedOn = <<>>
  BY <1>1, Parts, PartsOn, EmptyParts DEF QueuedOn
<1>3. Pushed = <<>> /\ ReportedOn = <<>>
  BY <1>2, Parts, PartsOn, EmptyParts DEF PushedOn
<1>4. Reported = <<>> /\ AcceptedOn = <<>>
  BY <1>3, Parts, PartsOn, EmptyParts DEF ReportedOn
<1>5. Accepted = <<>> /\ Waiting = <<>>
  BY <1>4, Parts, EmptyParts DEF AcceptedOn
<1>6. worker.at # "call" /\ server.push = NoTask
  BY <1>1, <1>3 DEF InHand, Pushed, One
<1>7. queue = <<>>
  <2>1. Len(Queued) = Len(queue) /\ Len(queue) \in Nat
    BY DEF Queued, Types, TypeOK
  <2> QED
    BY <1>2, <2>1 DEF Types, TypeOK
<1>8. backlog = <<>>
  <2>1. Len(Waiting) = Len(backlog) /\ Len(backlog) \in Nat
    BY DEF Waiting, Types, TypeOK
  <2> QED
    BY <1>5, <2>1 DEF Types, TypeOK
<1>9. \A f \in Slots : conn[f].read
  <2>1. UnreadIn(server.ready) = {} /\ UnreadIn(Slots \ server.ready) = {}
    BY <1>4, <1>5 DEF Reported, Accepted, Unread
  <2> QED
    BY <2>1 DEF UnreadIn, Types, TypeOK
<1> QED
  BY <1>6, <1>7, <1>8, <1>9

-----------------------------------------------------------------------------
(* The server: where the one request is *)

\* What a step that moves a request leaves alone.
LEMMA SingleKept ==
  ASSUME Single, Pipeline' = Pipeline, initiator' = initiator,
         worker'.at = "send" <=> worker.at = "send"
  PROVE  Single'
BY DEF Single, RequestOf

LEMMA SelectPath ==
  ASSUME Types, Discipline, Carried, Patience, Room, Select
  PROVE  Carried' /\ Patience' /\ Room'
<1>1. /\ server.ready = {} /\ server'.ready = {f \in Slots : Readable(f)}
      /\ server'.accept = (backlog # <<>>) /\ server'.push = NoTask
      /\ UNCHANGED <<worker, queue, backlog, conn>>
  BY DEF Select, Idle
<1>2. Carried' /\ Patience'
  BY <1>1 DEF Carried, Patience, Busy
<1>3. \A f, g \in Slots : conn[f].open /\ conn[g].open => f = g
  BY <1>1 DEF Room
<1>4. \A f \in server'.ready : f \in Slots /\ conn[f].open /\ ~Busy(f)
  BY <1>1 DEF Readable, Busy
<1>5. server'.accept => \A f \in Slots : conn[f].open => f \in server'.ready
  BY <1>1 DEF Patience, Readable
<1> QED
  BY <1>1, <1>2, <1>3, <1>4, <1>5 DEF Room, Busy

LEMMA AcceptPath ==
  ASSUME Types, Discipline, Taken, Carried, Patience, Room, Accept
  PROVE  Carried' /\ Patience' /\ Room'
<1>1. PICK f \in FreeSlots : conn' = [conn EXCEPT ![f] = Head(backlog)]
  BY FreeSlotIsFree DEF Accept
<1>2. /\ backlog # <<>> /\ backlog \in Seq(Connections) /\ backlog' = Tail(backlog)
      /\ server.accept /\ ~server'.accept /\ server'.ready = server.ready
      /\ server'.push = server.push /\ UNCHANGED <<worker, queue>>
      /\ conn \in [Slots -> Connections] /\ server.ready \subseteq Slots
  BY DEF Accept, Types, TypeOK
<1>3. f \in Slots /\ ~conn[f].open /\ f \notin server.ready
  BY <1>1 DEF FreeSlots, Discipline
<1>4. conn'[f].live /\ ~conn'[f].read /\ \A g \in Slots : g # f => conn'[g] = conn[g]
  <2>1. Head(backlog) = backlog[1] /\ 1 \in 1 .. Len(backlog)
    BY <1>2
  <2>2. conn'[f] = backlog[1]
    BY <1>1, <1>2, <1>3, <2>1
  <2> QED
    BY <1>1, <1>2, <1>3, <2>1, <2>2 DEF Patience, Discipline
<1>5. \A g \in Slots : conn[g].read /\ ~conn[g].live
  BY <1>2 DEF Patience
<1>6. Carried'
  <2>1. \A g \in Slots : ~Busy(g)
    BY <1>5 DEF Busy
  <2>2. Carried' <=> Carried
    BY <1>2, <2>1 DEF Carried, Taken
  <2> QED
    BY <2>2
<1>7. Patience'
  <2>1. Len(backlog') = 0 /\ backlog' = <<>>
    <3>1. Len(backlog) \in Nat /\ Len(backlog) # 0 /\ Len(backlog') = Len(backlog) - 1
      BY <1>2
    <3>2. Len(backlog') = 0
      BY <3>1 DEF Patience
    <3>3. backlog' \in Seq(Connections)
      BY <1>2
    <3> QED
      BY <3>2, <3>3
  <2>2. \A g \in Slots : conn'[g].read \/ conn'[g].live
    BY <1>4, <1>5
  <2> QED
    BY <2>1, <2>2 DEF Patience
<1>8. Room'
  <2>1. \A g \in Slots : conn[g].open => g \in server.ready
    BY <1>2 DEF Room
  <2>2. \A g, h \in Slots :
          conn'[g].open /\ conn'[h].open /\ g \notin server.ready /\ h \notin server.ready => g = h
    BY <1>4, <2>1
  <2>3. \A g \in server.ready : g \in Slots /\ conn'[g] = conn[g] /\ conn[g].read
    BY <1>2, <1>3, <1>4, <1>5
  <2>4. \A g \in server.ready : ~Busy(g)'
    BY <1>2, <2>3 DEF Room, Busy
  <2> QED
    BY <1>2, <2>2, <2>3, <2>4 DEF Room
<1> QED
  BY <1>6, <1>7, <1>8

LEMMA ReceivePath ==
  ASSUME Types, Discipline, Taken, Carried, Patience, Room, NEW f \in Slots, Receive(f)
  PROVE  Carried' /\ Patience' /\ Room'
<1>1. /\ conn' = [conn EXCEPT ![f].read = TRUE] /\ conn \in [Slots -> Connections]
      /\ ~conn[f].read /\ f \in server.ready /\ server.ready \subseteq Slots
      /\ server.push = NoTask /\ ~server.accept /\ ~server'.accept
      /\ server'.ready = server.ready \ {f}
      /\ server'.push = NoTask \/ server'.push.slot = f
      /\ UNCHANGED <<worker, queue, backlog>>
  BY DEF Receive, NextReady, Types, TypeOK
<1>2. /\ conn'[f].read /\ conn'[f].open = conn[f].open /\ conn'[f].live = conn[f].live
      /\ \A g \in Slots : g # f => conn'[g] = conn[g]
  BY <1>1 DEF Connections
<1>3. Busy(f)'
  BY <1>1, <1>2 DEF Busy, Patience, Discipline
<1>4. \A g \in Slots : Busy(g) => Busy(g)'
  BY <1>2, <1>3 DEF Busy
<1>5. Carried'
  BY <1>1, <1>3, <1>4 DEF Carried, Taken
<1>6. Patience'
  BY <1>1, <1>2 DEF Patience
<1>7. Room'
  <2>1. \A g \in Slots : conn[g].open => g = f
    BY <1>1 DEF Room
  <2>2. server'.ready = {} /\ \A g \in Slots : conn'[g].open => g = f
    BY <1>1, <1>2, <2>1 DEF Room
  <2> QED
    BY <1>1, <2>2 DEF Room
<1> QED
  BY <1>5, <1>6, <1>7

LEMMA PushPath ==
  ASSUME Types, Carried, Patience, Room, Push
  PROVE  Carried' /\ Patience' /\ Room'
<1>1. /\ queue' = Append(queue, server.push) /\ queue \in Seq(Tasks) /\ server.push \in Tasks
      /\ server.push # NoTask /\ server'.push = NoTask
      /\ server'.ready = server.ready /\ server'.accept = server.accept
      /\ UNCHANGED <<worker, backlog, conn>>
  BY DEF Push, Types, TypeOK
<1>2. \A f : Busy(f)' <=> Busy(f)
  BY <1>1 DEF Busy
<1>3. \A k \in 1 .. Len(queue') : Busy(queue'[k].slot)
  BY <1>1 DEF Carried
<1> QED
  BY <1>1, <1>2, <1>3 DEF Carried, Patience, Room

LEMMA HangupPath ==
  ASSUME Types, Discipline, Taken, Carried, Patience, Room, NEW f \in Slots, Hangup(f)
  PROVE  Carried' /\ Patience' /\ Room'
<1>1. /\ conn' = [conn EXCEPT ![f] = NoConn] /\ conn \in [Slots -> Connections]
      /\ f \in server.ready /\ server.ready \subseteq Slots
      /\ server.push = NoTask /\ ~server.accept /\ ~server'.accept
      /\ server'.ready = server.ready \ {f} /\ server'.push = server.push
      /\ UNCHANGED <<worker, queue, backlog>>
  BY DEF Hangup, NextReady, Types, TypeOK
<1>2. /\ conn'[f].read /\ ~conn'[f].open /\ ~conn'[f].live
      /\ \A g \in Slots : g # f => conn'[g] = conn[g]
  BY <1>1 DEF NoConn
<1>3. \A g \in Slots : Busy(g) => Busy(g)'
  BY <1>1, <1>2 DEF Room, Busy
<1>4. Carried'
  BY <1>1, <1>3 DEF Carried, Taken
<1>5. Patience'
  BY <1>1, <1>2 DEF Patience
<1>6. Room'
  <2>1. server'.ready = {}
    BY <1>1 DEF Room
  <2>2. \A g, h \in Slots : conn'[g].open /\ conn'[h].open => g = h
    BY <1>1, <1>2 DEF Room
  <2> QED
    BY <1>1, <2>1, <2>2 DEF Room
<1> QED
  BY <1>4, <1>5, <1>6

\* With two slots or more the server refuses no connection.
LEMMA NeverFull ==
  ASSUME 2 <= MaxConns, Types, Room, server.accept
  PROVE  FreeSlots # {}
<1>1. 1 \in Slots /\ 2 \in Slots
  BY ComplexContractAssumption DEF Slots
<1>2. \A f, g \in Slots : conn[f].open /\ conn[g].open => f = g
  BY DEF Room
<1>3. 1 \in FreeSlots \/ 2 \in FreeSlots
  BY <1>1, <1>2 DEF FreeSlots
<1> QED
  BY <1>3

\* Every step of the server thread (CPServer::doWork).
LEMMA ServerPath ==
  ASSUME 2 <= MaxConns, Types, Discipline, Taken, Undisturbed,
         Carried, Patience, Room, Single, Server
  PROVE  /\ Carried' /\ Patience' /\ Room' /\ Single'
         /\ UNCHANGED <<phase, enclave, fresh, born, worker, initiator>>
<1>1. ~Refuse
  BY NeverFull DEF Refuse
<1>2. Carried' /\ Patience' /\ Room'
  BY <1>1, SelectPath, AcceptPath, PushPath, ReceivePath, HangupPath DEF Server
<1>3. UNCHANGED <<phase, enclave, fresh, born, worker, initiator>>
  BY <1>1 DEF Server, Select, Accept, Push, Receive, Hangup
<1>4. Pipeline' = Pipeline
  BY <1>1, SelectForwards, AcceptForwards, PushForwards, HangupForwards, ReceivePipeline
  DEF Server, Undisturbed
<1> QED
  BY <1>2, <1>3, <1>4, SingleKept

-----------------------------------------------------------------------------
(* The worker *)

\* The worker takes up the request.
LEMMA TakeUpPath ==
  ASSUME Types, Undisturbed, Carried, Patience, Room, Single, LoopTest \/ Pop
  PROVE  /\ Carried' /\ Patience' /\ Room' /\ Single'
         /\ UNCHANGED <<phase, enclave, fresh, born, initiator>>
         /\ worker.at # "send" /\ worker'.at \notin {"send", "exited"}
<1>1. CASE LoopTest
  <2>1. /\ UNCHANGED <<phase, enclave, fresh, born, server, queue, backlog, conn, initiator>>
        /\ worker.at = "head" /\ worker'.at = "pop"
    BY <1>1 DEF LoopTest, Undisturbed, Worker
  <2>2. Pipeline' = Pipeline
    BY <2>1, PipelineUntouched
  <2>3. Carried' /\ Patience' /\ Room'
    BY <2>1 DEF Carried, Patience, Room, Busy
  <2> QED
    BY <2>1, <2>2, <2>3, SingleKept
<1>2. CASE Pop
  <2>1. /\ UNCHANGED <<phase, enclave, fresh, born, server, backlog, conn, initiator>>
        /\ worker.at = "pop" /\ worker'.at = "call" /\ worker'.task = Head(queue)
        /\ queue' = Tail(queue) /\ queue # <<>> /\ queue \in Seq(Tasks)
    BY <1>2 DEF Pop, Undisturbed, Worker, Types, TypeOK
  <2>2. Pipeline' = Pipeline
    BY <1>2, PopForwards DEF Undisturbed
  <2>3. Carried'
    <3>1. /\ 1 \in 1 .. Len(queue) /\ Head(queue) = queue[1]
          /\ \A k \in 1 .. Len(queue') : k + 1 \in 1 .. Len(queue) /\ queue'[k] = queue[k + 1]
      BY <2>1
    <3> QED
      BY <2>1, <3>1 DEF Carried, Busy
  <2>4. Patience' /\ Room'
    BY <2>1 DEF Patience, Room, Busy
  <2> QED
    BY <2>1, <2>2, <2>3, <2>4, SingleKept
<1> QED
  BY <1>1, <1>2

\* An ECALL executes the initiator's request.
LEMMA CallPath ==
  ASSUME Types, Undisturbed, Carried, Patience, Room, Single,
         CallSessionRequest \/ CallExchangeReport \/ CallGenerateResponse \/ CallEndSession
  PROVE  /\ Carried' /\ Patience' /\ Room' /\ Single'
         /\ UNCHANGED <<phase, born, initiator>>
         /\ worker.at = "call" /\ worker'.at = "send"
         /\ worker.task.req = RequestOf(initiator) /\ worker.task.req \in R
         /\ Pipeline # <<>> /\ 1 \in 1 .. Len(Pipeline) /\ Pipeline[1] = worker.task.req
         /\ initiator.waiting /\ initiator.answer = NoAnswer
<1>1. /\ worker.at = "call" /\ worker'.at = "send" /\ worker'.task = worker.task
      /\ UNCHANGED <<phase, born, server, queue, backlog, conn, initiator>>
  BY DEF CallSessionRequest, CallExchangeReport, CallGenerateResponse, CallEndSession, Call,
         Types, Workers
<1>2. /\ Pipeline = <<worker.task.req>> \o Pipeline' /\ Pipeline' \in Seq(R)
      /\ worker.task.req \in R
  BY <1>1, CallExecutes
<1> PICK m \in R : m = worker.task.req
  BY <1>2
<1>3. Executes(m)
  BY <1>1, <1>2 DEF Executes
<1>4. /\ Pipeline # <<>> /\ Len(Pipeline) = Len(Pipeline') + 1
      /\ 1 \in 1 .. Len(Pipeline) /\ Pipeline[1] = m
  BY <1>3, ExecutesPipe
<1>5. /\ Pipeline = <<RequestOf(initiator)>>
      /\ initiator.waiting /\ initiator.answer = NoAnswer
  BY <1>4 DEF Single
<1>6. m = RequestOf(initiator) /\ Len(Pipeline) = 1
  BY <1>4, <1>5
<1>7. Pipeline' = <<>>
  <2>1. Len(Pipeline') + 1 = 1
    BY <1>4, <1>6, Zenon
  <2> QED
    BY <1>2, <2>1, OneLess
<1>8. Single'
  BY <1>1, <1>5, <1>7 DEF Single
<1>9. Carried' /\ Patience' /\ Room'
  BY <1>1 DEF Carried, Patience, Room, Busy
<1> QED
  BY <1>1, <1>2, <1>4, <1>5, <1>6, <1>8, <1>9

\* The answer reaches the initiator.
LEMMA SendPath ==
  ASSUME Types, Taken, Undisturbed, Carried, Patience, Room, Single, Send
  PROVE  /\ Carried' /\ Patience' /\ Room' /\ Single'
         /\ UNCHANGED <<phase, enclave, fresh, born>> /\ worker'.at = "head"
         /\ worker.at = "send" /\ initiator' = [initiator EXCEPT !.answer = {worker.reply}]
<1>1. /\ UNCHANGED <<phase, enclave, fresh, born, server, queue, backlog, conn>>
      /\ worker.at = "send" /\ worker'.at = "head"
      /\ conn[worker.task.slot].open /\ initiator.answer = NoAnswer
  BY DEF Send, Worker, Carried, Busy, Single
<1>2. initiator' = [initiator EXCEPT !.answer = {worker.reply}]
  BY <1>1 DEF Send
<1>3. Pipeline = <<>>
  BY <1>1 DEF Single
<1>4. Pipeline' = Pipeline
  BY <1>1, PipelineUntouched
<1>5. Single'
  BY <1>1, <1>3, <1>4 DEF Single
<1>6. Carried' /\ Patience' /\ Room'
  BY <1>1 DEF Carried, Patience, Room, Busy
<1> QED
  BY <1>1, <1>2, <1>5, <1>6

-----------------------------------------------------------------------------
(* The initiator *)

\* It leaves with its answer, when nothing is under way.
LEMMA LeavePath ==
  ASSUME Types, Discipline, Undisturbed, Carried, Patience, Room, Single,
         initiator.answer # NoAnswer \/ ~initiator.waiting,
         AbandonAll \/ UNCHANGED <<backlog, conn>>,
         UNCHANGED <<phase, enclave, fresh, born, server, worker, queue>>
  PROVE  Carried' /\ Patience' /\ Room' /\ Single' /\ worker.at # "send"
<1>1. Pipeline = <<>> /\ worker.at # "send" /\ worker.at # "exited"
  BY DEF Single, Undisturbed
<1>2. /\ worker.at # "call" /\ queue = <<>> /\ server.push = NoTask /\ backlog = <<>>
      /\ \A f \in Slots : conn[f].read
  BY <1>1, NothingUnderWay
<1>3. /\ \A f \in Slots : /\ conn'[f].read = conn[f].read /\ conn'[f].open = conn[f].open
                          /\ conn'[f].live => conn[f].live
      /\ backlog' = <<>>
  <2>1. CASE AbandonAll
    BY <1>2, <2>1, AbandonKeeps, NoneLive
  <2>2. CASE UNCHANGED <<backlog, conn>>
    BY <1>2, <2>2
  <2> QED
    BY <2>1, <2>2
<1>4. Pipeline' = Pipeline
  BY AbandonPipeline, PipelineUntouched
<1>5. Carried' /\ Patience'
  BY <1>1, <1>2, <1>3 DEF Carried, Patience
<1>6. Room'
  <2>1. server.ready \subseteq Slots
    BY DEF Types, TypeOK
  <2>2. \A f \in server.ready : ~Busy(f)'
    BY <1>3, <2>1 DEF Room, Busy
  <2> QED
    BY <1>2, <1>3, <2>1, <2>2 DEF Room
<1>7. Single'
  BY <1>1, <1>4 DEF Single
<1> QED
  BY <1>1, <1>5, <1>6, <1>7

\* It sends its next request.
LEMMA AskPath ==
  ASSUME Types, Discipline, Shape, Undisturbed, Carried, Patience, Room, Single, Ask
  PROVE  /\ Carried' /\ Patience' /\ Room' /\ Single'
         /\ UNCHANGED <<phase, enclave, fresh, born, worker>>
         /\ initiator' = [initiator EXCEPT !.waiting = TRUE]
         /\ initiator.answer = NoAnswer /\ worker.at # "send"
<1>1. /\ UNCHANGED <<phase, enclave, fresh, born, server, worker, queue, conn>>
      /\ initiator' = [initiator EXCEPT !.waiting = TRUE] /\ ~initiator.waiting
      /\ backlog' = Append(backlog, [req |-> RequestOf(initiator), read |-> FALSE,
                                     live |-> TRUE, open |-> TRUE])
  BY DEF Ask, Undisturbed
<1>2. /\ initiator.answer = NoAnswer /\ \A f \in Slots : ~conn[f].live
      /\ worker.at # "send" /\ worker.at # "exited" /\ Pipeline = <<>>
  BY <1>1 DEF Shape, Single, Undisturbed, Types, TypeOK
<1>3. backlog = <<>> /\ \A f \in Slots : conn[f].read
  BY <1>2, NothingUnderWay
<1>4. Len(backlog') = 1 /\ backlog'[1].live
  BY <1>1, <1>3
<1>5. Carried' /\ Room'
  BY <1>1 DEF Carried, Room, Busy
<1>6. Patience'
  BY <1>1, <1>2, <1>3, <1>4 DEF Patience
<1>7. Single'
  <2>1. RequestOf(initiator) \in R /\ Pipeline' = Pipeline \o <<RequestOf(initiator)>>
    BY <1>2, AskAppends
  <2>2. Pipeline' = <<RequestOf(initiator)>>
    BY <1>2, <2>1
  <2>3. RequestOf(initiator)' = RequestOf(initiator) /\ initiator'.waiting /\ initiator'.answer = NoAnswer
    BY <1>1, <1>2 DEF RequestOf, Types, Initiators
  <2> QED
    BY <1>1, <1>2, <2>2, <2>3 DEF Single
<1> QED
  BY <1>1, <1>2, <1>5, <1>6, <1>7

-----------------------------------------------------------------------------
(* The session *)

\* The ECALLs: the slot goes to the session that is offered, and comes back
\* with the close.
LEMMA CallLent ==
  ASSUME Types, Undisturbed, Carried, Patience, Room, Single, SessionInv, SessionInv', Lent,
         CallSessionRequest \/ CallExchangeReport \/ CallGenerateResponse \/ CallEndSession
  PROVE  Lent'
<1>1. /\ worker.at = "call" /\ worker'.at = "send" /\ initiator' = initiator /\ worker.task.req \in R
      /\ worker.task.req = RequestOf(initiator) /\ initiator.waiting /\ initiator.answer = NoAnswer
      /\ 1 \in 1 .. Len(Pipeline) /\ Pipeline[1] = worker.task.req
  BY CallPath
<1> PICK m \in R : m = worker.task.req
  BY <1>1
<1>2. /\ Replied = {} /\ Replied' = {worker'.reply} /\ Session' = Session
      /\ initiator.stage \in Stages \ {"idle"}
  BY <1>1 DEF Replied, NoAnswer, Session, Types, TypeOK
<1>3. /\ m.type = RequestType[initiator.stage] /\ m.id = Session.id
      /\ initiator.stage = "msg2" => m.key = Session.key
  BY <1>1, <1>2 DEF RequestOf, Session
<1>4. /\ m.type = "msg1" <=> initiator.stage = "msg1"
      /\ m.type = "msg2" <=> initiator.stage = "msg2"
      /\ m.type = "close" <=> initiator.stage \in {"close", "closeFailed"}
  BY <1>2, <1>3 DEF RequestType, Stages
<1>5. Live /\ enclave.tracker = Known(enclave) /\ enclave.count = Cardinality(Active(enclave))
  BY <1>1 DEF SessionInv, Counted, SlotsMatchSessions
<1>6. CASE CallSessionRequest
  <2>1. /\ enclave' = SessionRequest(enclave, fresh).enclave /\ m.type = "msg1"
        /\ worker'.reply = SessionRequest(enclave, fresh).reply
    BY <1>6 DEF CallSessionRequest, Call, Types, Workers
  <2>2. enclave.tracker = {} /\ ~(Ids \subseteq enclave.tracker)
    <3>1. 0 \in Ids
      BY MaxSessionsAssumption DEF Ids
    <3> QED
      BY <1>2, <1>4, <2>1, <3>1 DEF Lent
  <2>3. /\ enclave'.tracker = {worker'.reply.id}
        /\ worker'.reply.type = "msg1" /\ worker'.reply.key = fresh
    BY <2>1, <2>2 DEF SessionRequest
  <2>4. fresh # 0
    BY EntryTypes DEF SessionInv, Keys
  <2> QED
    BY <1>1, <1>2, <1>4, <2>1, <2>3, <2>4 DEF Lent
<1>7. CASE CallExchangeReport
  <2>1. /\ enclave' = ExchangeReport(enclave, m).enclave /\ m.type = "msg2"
        /\ worker'.reply = ExchangeReport(enclave, m).reply
    BY <1>7 DEF CallExchangeReport, Call, Types, Workers
  <2>2. enclave.tracker = {Session.id}
    BY <1>4, <2>1 DEF Lent
  <2>3. Msg2Fits(m)
    BY <1>1, <1>3, <1>5, <2>1, <2>2 DEF Live, Msg2OK
  <2>4. m.id \in Known(enclave) /\ Entry(m.id).status = "inProgress" /\ Entry(m.id).key = m.key
    BY <2>3 DEF Msg2Fits, Pending, Known, Entry
  <2>5. /\ enclave'.tracker = enclave.tracker
        /\ worker'.reply.type = "msg3" /\ worker'.reply.key = m.key
    BY <2>1, <2>4 DEF ExchangeReport, Entry
  <2> QED
    BY <1>1, <1>2, <1>3, <1>4, <2>1, <2>2, <2>5 DEF Lent
<1>8. CASE CallGenerateResponse
  <2>1. /\ enclave' = GenerateResponse(enclave, m).enclave
        /\ m.type \notin {"msg1", "msg2", "close"}
    BY <1>8 DEF CallGenerateResponse, Call, Types, Workers
  <2>2. enclave'.tracker = enclave.tracker
    BY <2>1 DEF GenerateResponse, Advance, Types, TypeOK, EnclaveType
  <2> QED
    BY <1>1, <1>2, <1>4, <2>1, <2>2 DEF Lent
<1>9. CASE CallEndSession
  <2>1. enclave' = EndSession(enclave, m.id) /\ m.type = "close"
    BY <1>9 DEF CallEndSession, Call, CloseRequest, Types, Workers
  <2>2. enclave.tracker = {m.id} /\ m.id \in Known(enclave)
    BY <1>2, <1>3, <1>4, <1>5, <2>1 DEF Lent
  <2>3. m.id \in Active(enclave)
    BY <1>1, <1>5, <2>1, <2>2 DEF Live, CloseOK, CloseFits
  <2>4. enclave.count > 0
    <3>1. IsFiniteSet(Active(enclave))
      BY ActiveFinite
    <3>2. Cardinality(Active(enclave)) \in Nat /\ Cardinality(Active(enclave)) # 0
      BY <2>3, <3>1, FS_CardinalityType, FS_EmptySet
    <3> QED
      BY <1>5, <3>2
  <2>5. enclave'.tracker = {}
    BY <2>1, <2>2, <2>4 DEF EndSession
  <2> QED
    BY <1>1, <1>2, <1>4, <2>1, <2>5 DEF Lent
<1> QED
  BY <1>6, <1>7, <1>8, <1>9

\* The answer: the initiator takes the offer, and goes on until it closes.
LEMMA TakeAnswerLent ==
  ASSUME Types, Single, Lent, TakeAnswer
  PROVE  Lent'
<1>1. initiator.answer \in Answers /\ initiator.answer # NoAnswer /\ initiator.answer # {}
  BY DEF TakeAnswer, Types, Initiators, NoAnswer
<1> PICK r \in initiator.answer : r = CHOOSE x \in initiator.answer : TRUE
  BY <1>1
<1>2. worker.at # "send" /\ Replied = initiator.answer /\ r \in Replied /\ Replied # {}
  BY <1>1 DEF Single, Replied
<1> DEFINE ok == Valid(initiator.stage, Session, r)
           next == NextStage(initiator.stage, ok, initiator.left = 1)
<1>3. /\ initiator'.stage = next /\ initiator'.answer = NoAnswer
      /\ Session' = IF next = "idle" THEN NoSession
                    ELSE IF ok THEN Established(initiator.stage, Session, r) ELSE Session
      /\ initiator.stage \in Stages \ {"idle", "close", "closeFailed"}
      /\ UNCHANGED <<enclave, worker>>
  BY DEF TakeAnswer, Session, Types, TypeOK
<1>4. Replied' = {}
  BY <1>2, <1>3 DEF Replied, NoAnswer
<1>5. /\ initiator.stage = "msg1" => ok /\ enclave.tracker = {r.id}
      /\ initiator.stage = "msg2" => ok /\ enclave.tracker = {Session.id}
      /\ initiator.stage \notin {"msg1", "msg2"} => enclave.tracker = {Session.id}
  BY <1>2, <1>3 DEF Lent, Valid
<1>6. ok \in BOOLEAN /\ (initiator.left = 1) \in BOOLEAN
  BY DEF Valid
<1>7. Session \in Sessions
  BY DEF Types, Initiators, Session
<1>8. /\ initiator.stage = "msg1" => Established(initiator.stage, Session, r).id = r.id
      /\ initiator.stage # "msg1" => Established(initiator.stage, Session, r).id = Session.id
  BY <1>7 DEF Established, NoSession, Sessions
<1> HIDE DEF ok
<1>9. /\ initiator.stage = "msg1" /\ ok => next = "msg2"
      /\ initiator.stage = "msg2" /\ ok => next = "exchange"
      /\ initiator.stage \notin {"msg1", "msg2"} => next \in Stages \ {"idle", "msg1", "msg2"}
  BY <1>3, <1>6 DEF NextStage, Stages
<1> HIDE DEF next
<1>10. next \notin {"idle", "msg1"} /\ enclave.tracker = {Session'.id}
  BY <1>3, <1>5, <1>6, <1>8, <1>9
<1> QED
  BY <1>3, <1>4, <1>10 DEF Lent

-----------------------------------------------------------------------------
(* The theorem *)

\* What the initiator does leaves the one request, and the one slot, where they are.
LEMMA InitiatorCalm ==
  ASSUME Types, Discipline, SessionInv, Calm, Invoke \/ Initiator
  PROVE  Calm'
<1>1. Undisturbed /\ Carried /\ Patience /\ Room /\ Single /\ Lent /\ Shape
  BY DEF Calm, SessionInv
<1>2. CASE Ask
  <2>1. /\ Carried' /\ Patience' /\ Room' /\ Single'
        /\ UNCHANGED <<phase, enclave, fresh, born, worker>>
        /\ initiator' = [initiator EXCEPT !.waiting = TRUE]
    BY <1>1, <1>2, AskPath
  <2>2. /\ initiator'.stage = initiator.stage /\ initiator'.answer = initiator.answer
        /\ Session' = Session
    BY <2>1 DEF Session, Types, Initiators
  <2>3. Lent'
    BY <1>1, <2>1, <2>2 DEF Lent, Replied
  <2> QED
    BY <1>1, <2>1, <2>3 DEF Calm, Undisturbed
<1>3. CASE TakeAnswer
  <2>1. /\ UNCHANGED <<phase, enclave, fresh, born, server, worker, queue>>
        /\ AbandonAll /\ initiator.answer # NoAnswer
    BY <1>3 DEF TakeAnswer
  <2>2. Carried' /\ Patience' /\ Room' /\ Single'
    BY <1>1, <2>1, LeavePath
  <2>3. Lent'
    BY <1>1, <1>3, TakeAnswerLent
  <2> QED
    BY <1>1, <2>1, <2>2, <2>3 DEF Calm, Undisturbed
<1>4. CASE Closed \/ Invoke
  <2>1. /\ UNCHANGED <<phase, enclave, fresh, born, server, worker, queue>>
        /\ AbandonAll \/ UNCHANGED <<backlog, conn>>
        /\ initiator.answer # NoAnswer \/ ~initiator.waiting
        /\ initiator'.stage \in {"idle", "msg1"} /\ initiator'.answer = NoAnswer
    BY <1>4 DEF Closed, Invoke, NotAsking
  <2>2. Carried' /\ Patience' /\ Room' /\ Single' /\ worker.at # "send"
    BY <1>1, <2>1, LeavePath
  <2>3. enclave.tracker = {}
    <3>1. CASE Closed
      <4>1. Replied # {} /\ initiator.stage \in {"close", "closeFailed"}
        BY <2>2, <3>1 DEF Closed, Replied, NoAnswer
      <4> QED
        BY <1>1, <4>1 DEF Lent
    <3>2. CASE Invoke
      BY <1>1, <3>2 DEF Invoke, NotAsking, Lent
    <3> QED
      BY <1>4, <3>1, <3>2
  <2>4. Replied' = {}
    BY <2>1, <2>2 DEF Replied, NoAnswer
  <2>5. Lent'
    BY <2>1, <2>3, <2>4 DEF Lent
  <2> QED
    BY <1>1, <2>1, <2>2, <2>5 DEF Calm, Undisturbed
<1> QED
  BY <1>2, <1>3, <1>4 DEF Initiator

\* The threads of the responder.
LEMMA ResponderCalm ==
  ASSUME 2 <= MaxConns, Types, Discipline, Taken, SessionInv, SessionInv', Calm,
         Server \/ WorkerStep
  PROVE  Calm'
<1>1. Undisturbed /\ Carried /\ Patience /\ Room /\ Single /\ Lent
  BY DEF Calm
<1>2. CASE Server
  <2>1. /\ Carried' /\ Patience' /\ Room' /\ Single'
        /\ UNCHANGED <<phase, enclave, fresh, born, worker, initiator>>
    BY <1>1, <1>2, ServerPath
  <2>2. Lent'
    BY <1>1, <2>1 DEF Lent, Replied, Session
  <2> QED
    BY <1>1, <2>1, <2>2 DEF Calm, Undisturbed
<1>3. CASE LoopTest \/ Pop
  <2>1. /\ Carried' /\ Patience' /\ Room' /\ Single'
        /\ UNCHANGED <<phase, enclave, fresh, born, initiator>>
        /\ worker.at # "send" /\ worker'.at \notin {"send", "exited"}
    BY <1>1, <1>3, TakeUpPath
  <2>2. Lent'
    BY <1>1, <2>1 DEF Lent, Replied, Session
  <2> QED
    BY <1>1, <2>1, <2>2 DEF Calm, Undisturbed
<1>4. CASE CallSessionRequest \/ CallExchangeReport \/ CallGenerateResponse \/ CallEndSession
  <2>1. /\ Carried' /\ Patience' /\ Room' /\ Single'
        /\ UNCHANGED <<phase, born, initiator>> /\ worker'.at = "send"
    BY <1>1, <1>4, CallPath
  <2>2. Lent'
    BY <1>1, <1>4, CallLent
  <2> QED
    BY <1>1, <2>1, <2>2 DEF Calm, Undisturbed
<1>5. CASE Send
  <2>1. /\ Carried' /\ Patience' /\ Room' /\ Single'
        /\ UNCHANGED <<phase, enclave, fresh, born>> /\ worker'.at = "head"
        /\ worker.at = "send" /\ initiator' = [initiator EXCEPT !.answer = {worker.reply}]
    BY <1>1, <1>5, SendPath
  <2>2. initiator'.stage = initiator.stage /\ Session' = Session /\ Replied' = Replied
    BY <2>1 DEF Replied, Session, Types, Initiators
  <2>3. Lent'
    BY <1>1, <2>1, <2>2 DEF Lent
  <2> QED
    BY <1>1, <2>1, <2>3 DEF Calm, Undisturbed
<1>6. ~PopClosed /\ ~SendDead
  BY <1>1 DEF PopClosed, SendDead, Undisturbed, Carried, Busy
<1> QED
  BY <1>2, <1>3, <1>4, <1>5, <1>6 DEF WorkerStep

LEMMA CalmStep ==
  ASSUME 2 <= MaxConns, Types, Types', Discipline, Taken, SessionInv, SessionInv',
         faults = 0 => Calm, [Next]_vars
  PROVE  faults' = 0 => Calm'
<1> SUFFICES ASSUME faults' = 0
             PROVE  Calm'
  OBVIOUS
<1>1. faults = 0 /\ ~Signal /\ ~ResponderCrash /\ ~InitiatorCrash
  <2>1. faults \in Nat
    BY DEF Types, TypeOK
  <2>2. ~Signal /\ ~ResponderCrash /\ ~InitiatorCrash
    BY <2>1 DEF Signal, ResponderCrash, InitiatorCrash
  <2>3. Server => faults' = faults
    BY DEF Server, Select, Accept, Refuse, Push, Receive, Hangup
  <2>4. WorkerStep => faults' = faults
    BY DEF WorkerStep, LoopTest, PopClosed, Pop, CallSessionRequest, CallExchangeReport,
           CallGenerateResponse, CallEndSession, Call, Send, SendDead
  <2>5. CloseQueue \/ Exit \/ Restart \/ Invoke \/ Initiator \/ UNCHANGED vars => faults' = faults
    BY DEF CloseQueue, Exit, Restart, Invoke, Initiator, Ask, TakeAnswer, Closed, vars
  <2> QED
    BY <2>2, <2>3, <2>4, <2>5 DEF Next
<1>2. Calm
  BY <1>1
<1>3. ~CloseQueue /\ ~Exit /\ ~Restart
  BY <1>2 DEF Calm, Undisturbed, CloseQueue, Exit, Restart
<1>4. CASE UNCHANGED vars
  <2>1. UNCHANGED <<phase, enclave, born, server, worker, queue, backlog, conn, initiator>>
    BY <1>4 DEF vars
  <2>2. Pipeline' = Pipeline
    BY <2>1, PipelineUntouched
  <2>3. Undisturbed' /\ Carried' /\ Patience' /\ Room'
    BY <1>2, <2>1 DEF Calm, Undisturbed, Carried, Patience, Room, Busy
  <2>4. Single' /\ Lent'
    BY <1>2, <2>1, <2>2, SingleKept DEF Calm, Lent, Replied, Session
  <2> QED
    BY <2>3, <2>4 DEF Calm
<1>5. CASE Server \/ WorkerStep
  BY <1>2, <1>5, ResponderCalm
<1>6. CASE Invoke \/ Initiator
  BY <1>2, <1>6, InitiatorCalm
<1> QED
  BY <1>1, <1>3, <1>4, <1>5, <1>6 DEF Next

LEMMA CalmInit ==
  ASSUME Init
  PROVE  Calm
<1>1. /\ phase = "serving" /\ enclave = EmptyEnclave /\ born = 1 /\ worker = Worker("head")
      /\ queue = <<>> /\ backlog = <<>> /\ conn = [f \in Slots |-> NoConn]
      /\ server = Idle /\ initiator = NotAsking /\ Pipeline = <<>>
  BY InitPipeline DEF Init
<1>2. /\ worker.at = "head" /\ server.push = NoTask /\ server.ready = {} /\ ~server.accept
      /\ initiator.stage = "idle" /\ enclave.tracker = {}
      /\ Len(queue) = 0 /\ Len(backlog) = 0
      /\ \A f \in Slots : conn[f].read /\ ~conn[f].open
  BY <1>1 DEF Worker, Idle, NotAsking, EmptyEnclave, NoConn
<1>3. Undisturbed /\ Carried /\ Patience /\ Room
  BY <1>1, <1>2 DEF Undisturbed, Carried, Patience, Room
<1>4. Single /\ Lent
  BY <1>1, <1>2 DEF Single, Lent
<1> QED
  BY <1>3, <1>4 DEF Calm

\* As long as nothing crashes and no signal comes, a provider with two slots for
\* connections or more has no session open when no call of func2 is under way:
\* CONCURRENT_MAX is 32, and with one slot the close request could be refused.
THEOREM SlotsReturnedCorrect ==
  ASSUME 2 <= MaxConns
  PROVE  Spec => []SlotsReturned
<1>1. Init => Types /\ Discipline /\ Taken /\ SessionInv /\ (faults = 0 => Calm)
  BY InitTypes, DisciplineInit, TakenInit, SessionInit, CalmInit
<1>2. /\ Types /\ Discipline /\ Taken /\ SessionInv /\ (faults = 0 => Calm)
      /\ [Next]_vars
      => Types' /\ Discipline' /\ Taken' /\ SessionInv' /\ (faults = 0 => Calm)'
  BY TypesStep, DisciplineStep, TakenStep, SessionStep, CalmStep
<1>3. (faults = 0 => Calm) => SlotsReturned
  BY DEF Calm, Lent, SlotsReturned, NotAsking
<1> QED
  BY <1>1, <1>2, <1>3, PTL DEF Spec

=============================================================================
