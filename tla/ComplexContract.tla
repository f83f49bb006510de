--------------------------- MODULE ComplexContract ---------------------------
(***************************************************************************)
(* Two provider processes of demos/Complex_contract while the contract C2  *)
(* of one of them, the initiator, synchronises its state with the other,   *)
(* the responder. Each process plays both roles; the roles share no        *)
(* variable of a process, so one direction is modelled.                    *)
(*                                                                         *)
(* The initiator runs func2 on the main thread: a sequence of requests,    *)
(* each over a connection of its own (fifo.cpp). The responder has three   *)
(* threads: the server (CPServer::doWork, one pass of select at a time),   *)
(* the worker (CPTask::run), which pops a queue and calls the enclave, and *)
(* the main thread, where a signal runs the shutdown.                      *)
(***************************************************************************)
EXTENDS EnclaveSessions, FiniteSets, Sequences

CONSTANTS MaxConns,       \* CONCURRENT_MAX: connections the server watches
          Syncs,          \* STATE_SYNC requests per contract: temp_num in func2
          MaxCalls,       \* bound: datagrams that start func2
          MaxFaults       \* bound: crashes and signals

ASSUME ComplexContractAssumption ==
         /\ MaxConns \in Nat \ {0} /\ Syncs \in Nat \ {0}
         /\ MaxCalls \in Nat /\ MaxFaults \in Nat

VARIABLES
  phase,     \* the responder: serving, stopping (stop), joining (queue closed), down
  enclave,   \* its globals
  fresh,     \* number of the next handshake it offers
  born,      \* fresh when the responder was started
  server,    \* the server thread: what select reported and is still to be handled
  worker,    \* the worker thread
  queue,     \* CPTask::m_queue
  backlog,   \* connections waiting for accept
  conn,      \* client_fds: the connection in each slot
  initiator, \* the requester
  calls, faults

vars == <<phase, enclave, fresh, born, server, worker, queue, backlog, conn,
          initiator, calls, faults>>

Slots == 1 .. MaxConns

\* a connection: its request, whether that was read, and whether the requester
\* still waits on it
NoConn == [req |-> Zeroed("close"), read |-> TRUE, live |-> FALSE, open |-> FALSE]
Connections == [req : Message(Requests), read : BOOLEAN, live : BOOLEAN, open : BOOLEAN]

NoTask == [slot |-> 0, req |-> Zeroed("close")]
Tasks == [slot : 0 .. MaxConns, req : Message(Requests)]

\* late: the server was in select, behind the loop test, when the signal came
Idle == [accept |-> FALSE, ready |-> {}, push |-> NoTask, late |-> FALSE]

\* head: the loop test; pop: in blockingPop; call: before the ECALL; send: after it
WorkerPlaces == {"head", "pop", "call", "send", "exited"}
Worker(at) == [at |-> at, task |-> NoTask, reply |-> Zeroed("ack")]

NoSession == [id |-> 0, key |-> 0, counter |-> 0, status |-> "absent"]
Stages == {"idle", "msg1", "msg2", "exchange", "check1", "sync1", "check2", "sync2",
           "close", "closeFailed"}

\* an answer is a reply or the end of the connection
NoAnswer == {}
Eof == {Zeroed("eof")}
Answers == {NoAnswer, Eof} \cup {{r} : r \in Message(Replies)}

NotAsking == [stage |-> "idle", left |-> 0, session |-> NoSession,
              waiting |-> FALSE, answer |-> NoAnswer]

Init ==
  /\ phase = "serving" /\ enclave = EmptyEnclave
  /\ fresh = 1 /\ born = 1
  /\ server = Idle /\ worker = Worker("head")
  /\ queue = <<>> /\ backlog = <<>> /\ conn = [f \in Slots |-> NoConn]
  /\ initiator = NotAsking
  /\ calls = 0 /\ faults = 0

------------------------------------------------------------------------------
\* The end of the responder's process

\* the connections of the process are closed with it
Ended(i) == IF i.waiting /\ i.answer = NoAnswer THEN [i EXCEPT !.answer = Eof] ELSE i

Die ==
  /\ phase' = "down" /\ enclave' = EmptyEnclave
  /\ server' = Idle /\ worker' = Worker("exited")
  /\ queue' = <<>> /\ backlog' = <<>> /\ conn' = [f \in Slots |-> NoConn]
  /\ initiator' = Ended(initiator)

\* what the requester left on its connection is still there to be read
Abandoned(c) == [c EXCEPT !.live = FALSE]
AbandonAll ==
  /\ backlog' = [k \in DOMAIN backlog |-> Abandoned(backlog[k])]
  /\ conn' = [f \in Slots |-> Abandoned(conn[f])]

------------------------------------------------------------------------------
\* The server thread

\* select reports a request to be read, or a connection closed by its requester;
\* the loop test keeps it from being called again after the signal
Readable(f) == conn[f].open /\ (~conn[f].read \/ ~conn[f].live)

Select ==
  /\ (phase = "serving" /\ server = Idle) \/ server = [Idle EXCEPT !.late = TRUE]
  /\ backlog # <<>> \/ \E f \in Slots : Readable(f)
  /\ server' = [Idle EXCEPT !.accept = (backlog # <<>>), !.ready = {f \in Slots : Readable(f)}]
  /\ UNCHANGED <<phase, enclave, fresh, born, worker, queue, backlog, conn, initiator, calls, faults>>

FreeSlots == {f \in Slots : ~conn[f].open}

\* accept comes before the requests are read, and takes the first free slot
Accept ==
  /\ phase # "down" /\ server.accept /\ FreeSlots # {}
  /\ LET f == CHOOSE f \in FreeSlots : \A g \in FreeSlots : f <= g
     IN  conn' = [conn EXCEPT ![f] = Head(backlog)]
  /\ backlog' = Tail(backlog)
  /\ server' = [server EXCEPT !.accept = FALSE]
  /\ UNCHANGED <<phase, enclave, fresh, born, worker, queue, initiator, calls, faults>>

\* no slot is free: the requester gets a text and its connection is forgotten;
\* when the requester is gone, send raises SIGPIPE
Refuse ==
  /\ phase # "down" /\ server.accept /\ FreeSlots = {}
  /\ IF Head(backlog).live
     THEN /\ initiator' = IF initiator.answer = NoAnswer
                          THEN [initiator EXCEPT !.answer = {Zeroed("full")}] ELSE initiator
          /\ backlog' = Tail(backlog)
          /\ server' = [server EXCEPT !.accept = FALSE]
          /\ UNCHANGED <<phase, enclave, worker, queue, conn>>
     ELSE Die
  /\ UNCHANGED <<fresh, born, calls, faults>>

NextReady(f) == server.ready # {} /\ f \in server.ready /\ \A g \in server.ready : f <= g

\* recv gives a request, which puttask takes unless the worker is being stopped
Receive(f) ==
  /\ phase # "down" /\ ~server.accept /\ server.push = NoTask
  /\ NextReady(f) /\ ~conn[f].read
  /\ conn' = [conn EXCEPT ![f].read = TRUE]
  /\ server' = [server EXCEPT !.ready = @ \ {f},
                              !.push = IF phase = "serving" THEN [slot |-> f, req |-> conn[f].req]
                                       ELSE NoTask]
  /\ UNCHANGED <<phase, enclave, fresh, born, worker, queue, backlog, initiator, calls, faults>>

\* Queue::push, after the test of isStopped
Push ==
  /\ phase # "down" /\ server.push # NoTask
  /\ queue' = Append(queue, server.push)
  /\ server' = [server EXCEPT !.push = NoTask]
  /\ UNCHANGED <<phase, enclave, fresh, born, worker, backlog, conn, initiator, calls, faults>>

\* recv gives 0: the slot, and the descriptor, are free for another connection
Hangup(f) ==
  /\ phase # "down" /\ ~server.accept /\ server.push = NoTask
  /\ NextReady(f) /\ conn[f].read
  /\ conn' = [conn EXCEPT ![f] = NoConn]
  /\ server' = [server EXCEPT !.ready = @ \ {f}]
  /\ UNCHANGED <<phase, enclave, fresh, born, worker, queue, backlog, initiator, calls, faults>>

Server == Select \/ Accept \/ Refuse \/ Push
          \/ \E f \in Slots : Receive(f) \/ Hangup(f)

------------------------------------------------------------------------------
\* The worker thread

Exited == worker' = Worker("exited") /\ enclave' = EmptyEnclave   \* destroy_enclave

LoopTest ==
  /\ worker.at = "head" /\ phase # "down"
  /\ \/ phase = "serving" /\ worker' = Worker("pop") /\ UNCHANGED enclave
     \/ phase # "serving" /\ Exited
  /\ UNCHANGED <<phase, fresh, born, server, queue, backlog, conn, initiator, calls, faults>>

\* blockingPop of a closed queue empties it and gives NULL
PopClosed ==
  /\ worker.at = "pop" /\ phase = "joining"
  /\ queue' = <<>> /\ Exited
  /\ UNCHANGED <<phase, fresh, born, server, backlog, conn, initiator, calls, faults>>

\* Weakened: the newest request is popped first.
PopNewest ==
  /\ worker.at = "pop" /\ phase \in {"serving", "stopping"} /\ queue # <<>>
  /\ queue' = SubSeq(queue, 1, Len(queue) - 1)
  /\ \/ phase = "stopping" /\ Exited
     \/ phase = "serving" /\ worker' = [Worker("call") EXCEPT !.task = queue[Len(queue)]]
        /\ UNCHANGED enclave
  /\ UNCHANGED <<phase, fresh, born, server, backlog, conn, initiator, calls, faults>>

\* a request popped after stop is freed without being served
Pop ==
  /\ worker.at = "pop" /\ phase \in {"serving", "stopping"} /\ queue # <<>>
  /\ queue' = Tail(queue)
  /\ \/ phase = "stopping" /\ Exited
     \/ phase = "serving" /\ worker' = [Worker("call") EXCEPT !.task = Head(queue)]
        /\ UNCHANGED enclave
  /\ UNCHANGED <<phase, fresh, born, server, backlog, conn, initiator, calls, faults>>

\* the ECALL, by the type of the request
Call(types, result) ==
  /\ worker.at = "call" /\ worker.task.req.type \in types
  /\ enclave' = result.enclave
  /\ worker' = [worker EXCEPT !.at = "send", !.reply = result.reply]
  /\ UNCHANGED <<phase, born, server, queue, backlog, conn, initiator, calls, faults>>

CallSessionRequest ==
  Call({"msg1"}, SessionRequest(enclave, fresh)) /\ fresh' = fresh + 1
CallExchangeReport ==
  Call({"msg2"}, ExchangeReport(enclave, worker.task.req)) /\ UNCHANGED fresh
CallGenerateResponse ==
  Call({"exchange", "sync"}, GenerateResponse(enclave, worker.task.req)) /\ UNCHANGED fresh
CallEndSession ==
  Call({"close"}, CloseRequest(enclave, worker.task.req)) /\ UNCHANGED fresh

\* Weakened: a call that failed is not answered.
SendOnSuccess ==
  LET c == conn[worker.task.slot] IN
  /\ worker.at = "send" /\ (c.open => c.live)
  /\ initiator' = IF c.open /\ initiator.answer = NoAnswer
                       /\ (worker.reply.key # 0 \/ worker.reply.type = "ack")
                  THEN [initiator EXCEPT !.answer = {worker.reply}] ELSE initiator
  /\ worker' = Worker("head")
  /\ UNCHANGED <<phase, enclave, fresh, born, server, queue, backlog, conn, calls, faults>>

\* whoever holds the descriptor now gets the reply; a closed one gets an error
Send ==
  LET c == conn[worker.task.slot] IN
  /\ worker.at = "send" /\ (c.open => c.live)
  /\ initiator' = IF c.open /\ initiator.answer = NoAnswer
                  THEN [initiator EXCEPT !.answer = {worker.reply}] ELSE initiator
  /\ worker' = Worker("head")
  /\ UNCHANGED <<phase, enclave, fresh, born, server, queue, backlog, conn, calls, faults>>

\* the requester has closed its end: SIGPIPE ends the process
SendDead ==
  /\ worker.at = "send"
  /\ conn[worker.task.slot].open /\ ~conn[worker.task.slot].live
  /\ Die
  /\ UNCHANGED <<fresh, born, calls, faults>>

WorkerStep == LoopTest \/ PopClosed \/ Pop \/ CallSessionRequest \/ CallExchangeReport
              \/ CallGenerateResponse \/ CallEndSession \/ Send \/ SendDead

------------------------------------------------------------------------------
\* The signal handler, on the main thread: stop, close the queue, join, exit

CloseQueue ==
  /\ phase = "stopping" /\ phase' = "joining"
  /\ UNCHANGED <<enclave, fresh, born, server, worker, queue, backlog, conn, initiator, calls, faults>>

\* Weakened: the process exits only when no request is left in the queue.
ExitWhenEmpty ==
  /\ phase = "joining" /\ worker.at = "exited" /\ queue = <<>> /\ server = Idle
  /\ Die
  /\ UNCHANGED <<fresh, born, calls, faults>>

Exit ==
  /\ phase = "joining" /\ worker.at = "exited"
  /\ Die
  /\ UNCHANGED <<fresh, born, calls, faults>>

------------------------------------------------------------------------------
\* The initiator: func2 of C2

\* a datagram arrives at the provider
Invoke ==
  /\ initiator = NotAsking /\ calls < MaxCalls
  /\ calls' = calls + 1
  /\ initiator' = [NotAsking EXCEPT !.stage = "msg1"]
  /\ UNCHANGED <<phase, enclave, fresh, born, server, worker, queue, backlog, conn, faults>>

RequestType == [msg1 |-> "msg1", msg2 |-> "msg2", exchange |-> "exchange",
                check1 |-> "exchange", sync1 |-> "sync", check2 |-> "exchange",
                sync2 |-> "sync", close |-> "close", closeFailed |-> "close"]

RequestOf(i) == [type |-> RequestType[i.stage], id |-> i.session.id,
                 key  |-> IF i.stage \in {"msg1", "close", "closeFailed"} THEN 0 ELSE i.session.key,
                 nonce |-> i.session.counter]

\* client_send_receive: connect, which fails when nobody listens, and send
Ask ==
  /\ initiator.stage # "idle" /\ ~initiator.waiting
  /\ IF phase = "down"
     THEN /\ initiator' = [initiator EXCEPT !.waiting = TRUE, !.answer = Eof]
          /\ UNCHANGED backlog
     ELSE /\ initiator' = [initiator EXCEPT !.waiting = TRUE]
          /\ backlog' = Append(backlog, [req |-> RequestOf(initiator), read |-> FALSE,
                                         live |-> TRUE, open |-> TRUE])
  /\ UNCHANGED <<phase, enclave, fresh, born, server, worker, queue, conn, calls, faults>>

\* the header of an answer is not looked at: what counts is whether its body
\* can be verified with the keys of this handshake
Valid(stage, s, r) ==
  IF stage = "msg1" THEN r.type = "msg1" /\ r.key # 0
  ELSE IF stage = "msg2" THEN r.type = "msg3" /\ r.key = s.key
  ELSE r.type = "resp" /\ r.key = s.key /\ r.nonce = s.counter + 1

Established(stage, s, r) ==
  IF stage = "msg1" THEN [NoSession EXCEPT !.id = r.id, !.key = r.key]
  ELSE IF stage = "msg2" THEN [s EXCEPT !.status = "active"]
  ELSE [s EXCEPT !.counter = @ + 1]

\* the next request of func2; the result of a STATE_SYNC is not looked at, and
\* a check that fails skips the STATE_SYNCs it guards
NextStage(stage, ok, last) ==
  LET then == [msg1 |-> "msg2", msg2 |-> "exchange", exchange |-> "check1",
               check1 |-> "sync1", check2 |-> "sync2"]
      else == [msg1 |-> "idle", msg2 |-> "idle", exchange |-> "closeFailed",
               check1 |-> "check2", check2 |-> "close"]
  IN  IF stage = "sync1" THEN (IF last THEN "check2" ELSE "sync1")
      ELSE IF stage = "sync2" THEN (IF last THEN "close" ELSE "sync2")
      ELSE IF ok THEN then[stage] ELSE else[stage]

\* an answer to a close request, whatever it says, ends the call and clears g_session
Closed ==
  /\ initiator.stage \in {"close", "closeFailed"}
  /\ initiator.waiting /\ initiator.answer # NoAnswer
  /\ initiator' = NotAsking
  /\ AbandonAll
  /\ UNCHANGED <<phase, enclave, fresh, born, server, worker, queue, calls, faults>>

\* any other answer
TakeAnswer ==
  LET i == initiator
      r == CHOOSE r \in i.answer : TRUE
      ok == Valid(i.stage, i.session, r)
      next == NextStage(i.stage, ok, i.left = 1)
  IN
  /\ i.stage \notin {"close", "closeFailed"} /\ i.waiting /\ i.answer # NoAnswer
  /\ initiator' = [stage   |-> next,
                   left    |-> IF next \in {"sync1", "sync2"}
                               THEN IF next = i.stage THEN i.left - 1 ELSE Syncs ELSE 0,
                   session |-> IF next = "idle" THEN NoSession
                               ELSE IF ok THEN Established(i.stage, i.session, r) ELSE i.session,
                   waiting |-> FALSE, answer |-> NoAnswer]
  /\ AbandonAll
  /\ UNCHANGED <<phase, enclave, fresh, born, server, worker, queue, calls, faults>>

Initiator == Ask \/ TakeAnswer \/ Closed

------------------------------------------------------------------------------
\* Signals, crashes and restarts

Signal ==
  /\ phase = "serving" /\ faults < MaxFaults
  /\ phase' = "stopping" /\ faults' = faults + 1
  /\ \E late \in BOOLEAN : (late => server = Idle) /\ server' = [server EXCEPT !.late = late]
  /\ UNCHANGED <<enclave, fresh, born, worker, queue, backlog, conn, initiator, calls>>

ResponderCrash ==
  /\ phase # "down" /\ faults < MaxFaults
  /\ faults' = faults + 1 /\ Die
  /\ UNCHANGED <<fresh, born, calls>>

\* CPServer::init unlinks and binds the address again
Restart ==
  /\ phase = "down" /\ phase' = "serving"
  /\ born' = fresh /\ worker' = Worker("head")
  /\ UNCHANGED <<enclave, fresh, server, queue, backlog, conn, initiator, calls, faults>>

InitiatorCrash ==
  /\ initiator # NotAsking /\ faults < MaxFaults
  /\ faults' = faults + 1 /\ initiator' = NotAsking
  /\ AbandonAll
  /\ UNCHANGED <<phase, enclave, fresh, born, server, worker, queue, calls>>

Next == Server \/ WorkerStep \/ CloseQueue \/ Exit \/ Invoke \/ Initiator
        \/ Signal \/ ResponderCrash \/ Restart \/ InitiatorCrash

\* the threads run; datagrams, signals, crashes and restarts may never come
Fairness == /\ WF_vars(Server) /\ WF_vars(WorkerStep)
            /\ WF_vars(CloseQueue \/ Exit) /\ WF_vars(Initiator)

Spec == Init /\ [][Next]_vars /\ Fairness

------------------------------------------------------------------------------
\* The requests a live worker still has to execute, in the order in which it
\* will: they sit in its hands, in the queue, in the server's hands, in the
\* connections that select reported, in the others, and in the backlog.

One(condition, m) == IF condition THEN <<m>> ELSE <<>>

UnreadIn(slots) == {f \in slots : ~conn[f].read}
Unread(slots) == IF UnreadIn(slots) = {} THEN <<>>
                 ELSE <<conn[CHOOSE f \in UnreadIn(slots) : TRUE].req>>

InHand   == One(worker.at = "call", worker.task.req)
Queued   == [k \in 1 .. Len(queue) |-> queue[k].req]
Pushed   == One(server.push # NoTask, server.push.req)
Reported == Unread(server.ready)
Accepted == Unread(Slots \ server.ready)
Waiting  == [k \in 1 .. Len(backlog) |-> backlog[k].req]

Pipeline ==
  IF worker.at = "exited" THEN <<>>
  ELSE InHand \o (Queued \o (Pushed \o (Reported \o (Accepted \o Waiting))))

Service == INSTANCE SessionService WITH pipe <- Pipeline

------------------------------------------------------------------------------
\* Properties

\* The state of the threads and of the enclave keeps its type.
TypeOK ==
  /\ phase \in {"serving", "stopping", "joining", "down"}
  /\ enclave \in EnclaveType
  /\ fresh \in Nat /\ born \in Nat
  /\ server \in [accept : BOOLEAN, ready : SUBSET Slots, push : Tasks, late : BOOLEAN]
  /\ worker.at \in WorkerPlaces /\ worker.task \in Tasks
  /\ queue \in Seq(Tasks) /\ backlog \in Seq(Connections)
  /\ conn \in [Slots -> Connections]
  /\ initiator.stage \in Stages /\ initiator.waiting \in BOOLEAN
  /\ calls \in 0 .. MaxCalls /\ faults \in 0 .. MaxFaults

\* A slot of the tracker is taken exactly for the sessions of the map, and
\* g_session_count counts the ones that are open: end_session, which frees a
\* slot only while the count is positive, never loses one.
SlotsMatchSessions ==
  enclave.tracker = Known(enclave) /\ enclave.count = Cardinality(Active(enclave))

\* Without crashes and signals, a call of func2 that has ended, in success or
\* not, has given its session back.
SlotsReturned == faults = 0 /\ initiator = NotAsking => enclave.tracker = {}

\* While the initiator holds an open session with this responder, the responder
\* has that session open under the same key, and its counter is the
\* initiator's, or one ahead while an answer is under way: whatever was
\* answered to somebody else, or refused, the two stay in step.
SessionInStep ==
  LET s == initiator.session IN
  s.status = "active" /\ s.key >= born /\ worker.at # "exited"
    /\ initiator.stage \notin {"close", "closeFailed"}
  => /\ s.id \in Active(enclave)
     /\ enclave.session[s.id].key = s.key
     /\ enclave.session[s.id].counter
          \in s.counter .. s.counter + (IF initiator.waiting THEN 1 ELSE 0)

\* The connections, the select loop, the queue and the worker (CPServer::doWork,
\* CPTask::run) are a queue of requests in front of the enclave: whatever slots are
\* used again, each request is executed at most once, in the order of arrival.
ImplementsService == Service!Spec

\* A requester never waits for ever: not for a responder that is being stopped,
\* that has crashed, or that has given its answer to another connection.
RequestsEnd == initiator.waiting ~> ~initiator.waiting

\* A signal always ends the process: the worker, wherever it is, gets to the
\* end of its loop and is joined.
ShutdownEnds == phase \in {"stopping", "joining"} ~> phase = "down"

==============================================================================
