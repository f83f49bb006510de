---------------------------- MODULE SessionProofs -----------------------------
(***************************************************************************)
(* Theorems about the sessions of ComplexContract: the slots that the      *)
(* responder's enclave counts, and the counters of the two ends, through   *)
(* requests that are lost, answers that reach somebody else, crashes and   *)
(* restarts.                                                               *)
(***************************************************************************)
EXTENDS ComplexContractProofs

-----------------------------------------------------------------------------
(* The invariant *)

Session == initiator.session
Entry(id) == enclave.session[id]

\* the initiator waits for the answer to its close request
Closing == initiator.stage \in {"close", "closeFailed"} /\ initiator.waiting

\* the handshake k is waiting for its msg2, or is an open session, under id
Pending(id, k) == id \in Ids /\ Entry(id).status = "inProgress" /\ Entry(id).key = k
Opened(id, k) == id \in Active(enclave) /\ Entry(id).key = k

\* The handshake k was offered under id, and no msg2 has answered it: the msg1
\* is in the worker's hands, or has reached the initiator.
InReply(id, k) ==
  /\ worker.at = "send" /\ worker.reply.type = "msg1"
  /\ worker.reply.id = id /\ worker.reply.key = k
InAnswer(id, k) ==
  /\ initiator.stage = "msg1"
  /\ \E r \in initiator.answer : r.type = "msg1" /\ r.id = id /\ r.key = k
InSession(id, k) ==
  initiator.stage = "msg2" /\ ~initiator.waiting /\ Session.id = id /\ Session.key = k
Offered(id, k) == k # 0 /\ (InReply(id, k) \/ InAnswer(id, k) \/ InSession(id, k))

\* The n-th request of a sequence has no request for a session before it, and
\* is the only one of its type for its session.
NoOffer(p, n) == \A j \in 1 .. Len(p) : j < n => p[j].type # "msg1"
Alone(p, n) == \A j \in 1 .. Len(p) : p[j].type = p[n].type /\ p[j].id = p[n].id => j = n

\* What the initiator holds at each of its stages. A connection is live only
\* while the initiator waits on it.
Shape ==
  /\ initiator.stage \in {"idle", "msg1"} => Session = NoSession
  /\ initiator.stage \notin {"idle", "msg1"} => Session.key # 0
  /\ initiator.stage = "msg2" => Session.status = "absent" /\ Session.counter = 0
  /\ initiator.stage \notin {"idle", "msg1", "msg2"} => Session.status = "active"
  /\ ~initiator.waiting => initiator.answer = NoAnswer
  /\ \A f \in Slots : conn[f].live => initiator.waiting
  /\ \A j \in 1 .. Len(backlog) : backlog[j].live => initiator.waiting

\* No key is older than the process that offers it, or used for two sessions.
Keys ==
  /\ 0 < born /\ born <= fresh /\ Session.key < fresh
  /\ \A r \in initiator.answer : r.key < fresh
  /\ worker.at = "send" /\ worker.reply.key # 0
     => born <= worker.reply.key /\ worker.reply.key < fresh
  /\ \A i \in Known(enclave) : born <= Entry(i).key /\ Entry(i).key < fresh
  /\ \A i, j \in Known(enclave) : Entry(i).key = Entry(j).key => i = j

Counted == SlotsMatchSessions /\ (worker.at = "exited" => enclave = EmptyEnclave)

\* An initiator that holds a handshake with a responder that has ended: the
\* new responder has no session, and nobody has asked for one.
Unused == Known(enclave) = {} /\ \A j \in 1 .. Len(Pipeline) : Pipeline[j].type # "msg1"
Stale ==
  /\ Session.key # 0 /\ Session.key < born => Unused
  /\ \A r \in initiator.answer :
       initiator.stage = "msg1" /\ r.type = "msg1" /\ r.key # 0 /\ r.key < born => Unused

\* An offer is for a session that is in progress, is made to one requester, and
\* has no msg3 yet.
OffersPending ==
  /\ \A id, k \in Nat : Offered(id, k) /\ born <= k => Pending(id, k)
  /\ \A id, k \in Nat : InReply(id, k) /\ k # 0 =>
       Session.key # k /\ \A r \in initiator.answer : initiator.stage = "msg1" => r.key # k
  /\ \A id, k \in Nat :
       Offered(id, k) /\ worker.at = "send" /\ worker.reply.type = "msg3" => worker.reply.key # k

\* A msg2 finds its session in progress, or is older than the responder.
Msg2Fits(m) == Pending(m.id, m.key) /\ \A id \in Nat : ~Offered(id, m.key)
Msg2OK ==
  \A n \in 1 .. Len(Pipeline), m \in R : Pipeline[n] = m /\ m.type = "msg2" =>
    \/ m.id \notin Known(enclave) /\ NoOffer(Pipeline, n) /\ m.key < born
    \/ Msg2Fits(m) /\ Alone(Pipeline, n)

\* A close finds its session open, and no longer used, or finds none.
CloseFits(m) == m.id \in Active(enclave) /\ (Closing \/ Session.key # Entry(m.id).key)
CloseOK ==
  \A n \in 1 .. Len(Pipeline), m \in R : Pipeline[n] = m /\ m.type = "close" =>
    \/ m.id \notin Known(enclave) /\ NoOffer(Pipeline, n)
    \/ CloseFits(m) /\ Alone(Pipeline, n)

\* The initiator's session: it is open until it is closed; a msg3 of its
\* handshake comes from the last request.
HeldOpen == Session.status = "active" /\ ~Closing => Opened(Session.id, Session.key)
HeldOnce ==
  \A i \in Known(enclave) :
    Entry(i).key = Session.key => i = Session.id /\ (Session.status = "active" => i \in Active(enclave))
HeldAnswer ==
  \A r \in initiator.answer :
    initiator.stage = "msg2" /\ r.type = "msg3" /\ r.key = Session.key =>
      /\ Opened(Session.id, Session.key) /\ Entry(Session.id).counter = 0
      /\ Pipeline = <<>> /\ worker.at # "send"
HeldReply ==
  worker.at = "send" /\ worker.reply.type = "msg3" /\ worker.reply.key = Session.key =>
    /\ initiator.stage = "msg2" /\ initiator.waiting
    /\ Opened(Session.id, Session.key) /\ Entry(Session.id).counter = 0 /\ Pipeline = <<>>
HeldLast ==
  initiator.stage = "msg2" /\ initiator.waiting =>
    \A j \in 1 .. Len(Pipeline) : Pipeline[j].type = "msg2" /\ Pipeline[j].key = Session.key => j = Len(Pipeline)
Held == born <= Session.key => HeldOpen /\ HeldOnce /\ HeldAnswer /\ HeldReply /\ HeldLast

\* While a session is open, its initiator's request is the only one there is,
\* and the counter of the enclave is ahead by an answer that can be verified.
Ahead(r) == IF Valid(initiator.stage, Session, r) THEN 1 ELSE 0
AtRest == Pipeline = <<>> /\ worker.at # "send" /\ Entry(Session.id).counter = Session.counter
Asked ==
  \/ Pipeline = <<RequestOf(initiator)>> /\ worker.at # "send" /\ Entry(Session.id).counter = Session.counter
  \/ /\ Pipeline = <<>> /\ worker.at = "send"
     /\ Entry(Session.id).counter = Session.counter + Ahead(worker.reply)
  \/ Pipeline = <<>> /\ worker.at # "send" /\ Entry(Session.id).counter \in {Session.counter, Session.counter + 1}
Answered(r) == Pipeline = <<>> /\ worker.at # "send" /\ Entry(Session.id).counter = Session.counter + Ahead(r)
InUse == Session.status = "active" /\ born <= Session.key /\ ~Closing
LockStep ==
  InUse =>
    /\ ~initiator.waiting => AtRest
    /\ initiator.waiting /\ initiator.answer = NoAnswer => Asked
    /\ initiator.waiting => \A r \in initiator.answer : Answered(r)

Live == Stale /\ OffersPending /\ Msg2OK /\ CloseOK /\ Held /\ LockStep

SessionInv == Shape /\ Keys /\ Counted /\ (worker.at # "exited" => Live)

-----------------------------------------------------------------------------
(* The requests that remain when one is lost or executed *)

\* Each request of q is one of p, in whose place it was.
Keeps(p, q) ==
  \A n \in 1 .. Len(q) : \E k \in 1 .. Len(p) :
    /\ q[n] = p[k]
    /\ NoOffer(p, k) => NoOffer(q, n)
    /\ Alone(p, k) => Alone(q, n)
    /\ k = Len(p) => n = Len(q)

LEMMA KeepsAll ==
  ASSUME NEW p \in Seq(R)
  PROVE  Keeps(p, p)
BY DEF Keeps

\* A request is lost (Receive while the process is being stopped, Refuse).
LEMMA KeepsDropped ==
  ASSUME NEW p \in Seq(R), NEW q, Drops(p, q)
  PROVE  Keeps(p, q) /\ Len(p) = Len(q) + 1 /\ q \in Seq(R)
<1>1. PICK m \in 1 .. Len(p) : q = Service!Without(p, m)
  BY DEF Drops
<1>2. q = [k \in 1 .. Len(p) - 1 |-> IF k < m THEN p[k] ELSE p[k + 1]] /\ Len(p) \in Nat
  BY <1>1 DEF Service!Without
<1> DEFINE h(n) == IF n < m THEN n ELSE n + 1
<1>3. Len(q) = Len(p) - 1 /\ m \in 1 .. Len(p) /\ q \in Seq(R)
  <2>1. Len(p) - 1 \in Nat /\ \A k \in 1 .. Len(p) - 1 : k \in 1 .. Len(p) /\ k + 1 \in 1 .. Len(p)
    BY <1>1, <1>2
  <2>2. \A k \in 1 .. Len(p) - 1 : (IF k < m THEN p[k] ELSE p[k + 1]) \in R
    BY <2>1
  <2>3. q \in [1 .. Len(p) - 1 -> R]
    BY <1>2, <2>2
  <2>4. q \in Seq(R)
    BY <2>1, <2>3, SeqDef
  <2>5. Len(q) = Len(p) - 1
    BY <2>1, <2>3, <2>4, LenProperties
  <2> QED
    BY <1>1, <2>4, <2>5
<1>4. \A n \in 1 .. Len(q) : h(n) \in 1 .. Len(p) /\ q[n] = p[h(n)]
  BY <1>2, <1>3
<1>5. \A j, n \in 1 .. Len(q) : (j < n => h(j) < h(n)) /\ (h(j) = h(n) => j = n)
  BY <1>2, <1>3
<1>6. \A n \in 1 .. Len(q) : h(n) = Len(p) => n = Len(q)
  BY <1>2, <1>3
<1> HIDE DEF h
<1>7. ASSUME NEW n \in 1 .. Len(q)
      PROVE  /\ NoOffer(p, h(n)) => NoOffer(q, n)
             /\ Alone(p, h(n)) => Alone(q, n)
  BY <1>4, <1>5 DEF NoOffer, Alone
<1>8. Keeps(p, q)
  BY <1>4, <1>6, <1>7 DEF Keeps
<1> QED
  BY <1>2, <1>3, <1>8

LEMMA OneLess ==
  ASSUME NEW q \in Seq(R), Len(q) + 1 = 1
  PROVE  q = <<>>
<1>1. Len(q) \in Nat
  OBVIOUS
<1>2. Len(q) = 0
  BY <1>1
<1> QED
  BY <1>2

\* m is the first request of p, and q are the others.
Behind(p, m, q) ==
  /\ p \in Seq(R) /\ Len(p) = Len(q) + 1 /\ p[1] = m
  /\ \A n \in 1 .. Len(q) :
       /\ n + 1 \in 1 .. Len(p) /\ q[n] = p[n + 1]
       /\ NoOffer(p, n + 1) => NoOffer(q, n) /\ m.type # "msg1"
       /\ Alone(p, n + 1) => Alone(q, n) /\ ~(m.type = q[n].type /\ m.id = q[n].id)

\* The first request is executed (CPTask::run).
LEMMA KeepsBehind ==
  ASSUME NEW m \in R, NEW q \in Seq(R), NEW p, p = <<m>> \o q
  PROVE  Behind(p, m, q)
<1>1. /\ p \in Seq(R) /\ Len(p) = Len(q) + 1 /\ Len(q) \in Nat
      /\ \A k \in 1 .. Len(q) + 1 : p[k] = IF k <= 1 THEN <<m>>[k] ELSE q[k - 1]
  <2>1. <<m>> \in Seq(R) /\ Len(<<m>>) = 1
    OBVIOUS
  <2> QED
    BY <2>1, ConcatProperties
<1>2. p[1] = m /\ 1 \in 1 .. Len(p)
  BY <1>1
<1>3. ASSUME NEW n \in 1 .. Len(q)
      PROVE  n + 1 \in 1 .. Len(p) /\ q[n] = p[n + 1]
  <2>1. n + 1 \in 1 .. Len(q) + 1 /\ ~(n + 1 <= 1) /\ (n + 1) - 1 = n
    BY <1>1
  <2>2. p[n + 1] = q[(n + 1) - 1]
    BY <1>1, <2>1
  <2> QED
    BY <1>1, <2>1, <2>2
<1>4. ASSUME NEW n \in 1 .. Len(q)
      PROVE  /\ NoOffer(p, n + 1) => NoOffer(q, n) /\ m.type # "msg1"
             /\ Alone(p, n + 1) => Alone(q, n) /\ ~(m.type = q[n].type /\ m.id = q[n].id)
  <2>1. 1 < n + 1 /\ \A j \in 1 .. Len(q) : (j < n => j + 1 < n + 1) /\ (j + 1 = n + 1 => j = n)
    BY <1>1
  <2>2. NoOffer(p, n + 1) => NoOffer(q, n) /\ m.type # "msg1"
    BY <1>2, <1>3, <2>1 DEF NoOffer
  <2>3. Alone(p, n + 1) => Alone(q, n) /\ ~(m.type = q[n].type /\ m.id = q[n].id)
    <3>1. q[n] = p[n + 1] /\ \A j \in 1 .. Len(q) : j + 1 \in 1 .. Len(p) /\ q[j] = p[j + 1]
      BY <1>3
    <3>2. 1 # n + 1
      BY <2>1
    <3> QED
      BY <1>2, <2>1, <3>1, <3>2 DEF Alone
  <2> QED
    BY <2>2, <2>3
<1> QED
  BY <1>1, <1>2, <1>3, <1>4 DEF Behind

\* m is the last request of q, and p are the others.
Before(p, m, q) ==
  /\ q \in Seq(R) /\ Len(q) = Len(p) + 1 /\ q[Len(q)] = m
  /\ NoOffer(p, Len(p) + 1) => NoOffer(q, Len(q))
  /\ \A n \in 1 .. Len(p) :
       /\ n \in 1 .. Len(q) /\ q[n] = p[n]
       /\ NoOffer(p, n) => NoOffer(q, n)
       /\ Alone(p, n) /\ ~(m.type = p[n].type /\ m.id = p[n].id) => Alone(q, n)

\* A request is sent (client_send_receive).
LEMMA KeepsBefore ==
  ASSUME NEW m \in R, NEW p \in Seq(R), NEW q, q = p \o <<m>>
  PROVE  Before(p, m, q)
<1>1. /\ q \in Seq(R) /\ Len(q) = Len(p) + 1 /\ Len(p) \in Nat
      /\ \A k \in 1 .. Len(p) + 1 : q[k] = IF k <= Len(p) THEN p[k] ELSE <<m>>[k - Len(p)]
  <2>1. <<m>> \in Seq(R) /\ Len(<<m>>) = 1
    OBVIOUS
  <2> QED
    BY <2>1, ConcatProperties
<1>2. q[Len(p) + 1] = m /\ \A n \in 1 .. Len(p) : n \in 1 .. Len(q) /\ q[n] = p[n]
  BY <1>1
<1>3. \A j \in 1 .. Len(q) : j \in 1 .. Len(p) \/ j = Len(p) + 1
  BY <1>1
<1>4. \A n \in 1 .. Len(p) : ~(Len(p) + 1 < n)
  BY <1>1
<1>5. ~(Len(p) + 1 < Len(p) + 1)
  BY <1>1
<1>6. NoOffer(p, Len(p) + 1) => NoOffer(q, Len(q))
  BY <1>1, <1>2, <1>3, <1>5 DEF NoOffer
<1>7. ASSUME NEW n \in 1 .. Len(p)
      PROVE  /\ NoOffer(p, n) => NoOffer(q, n)
             /\ Alone(p, n) /\ ~(m.type = p[n].type /\ m.id = p[n].id) => Alone(q, n)
  <2>1. NoOffer(p, n) => NoOffer(q, n)
    BY <1>2, <1>3, <1>4 DEF NoOffer
  <2>2. Alone(p, n) /\ ~(m.type = p[n].type /\ m.id = p[n].id) => Alone(q, n)
    BY <1>2, <1>3 DEF Alone
  <2> QED
    BY <2>1, <2>2
<1> QED
  BY <1>1, <1>2, <1>6, <1>7 DEF Before

-----------------------------------------------------------------------------
(* Steps that leave the enclave as it is *)

\* The entries of the map, and the type of what is in the pipeline.
LEMMA EntryTypes ==
  ASSUME Types
  PROVE  /\ Known(enclave) \subseteq Ids /\ Active(enclave) \subseteq Known(enclave)
         /\ Ids \subseteq Nat /\ enclave.session \in [Ids -> [status : SessionStatuses, key : Nat, counter : Nat]]
         /\ \A id \in Ids : Entry(id).key \in Nat /\ Entry(id).counter \in Nat
         /\ \A m \in R : m.id \in Nat /\ m.key \in Nat /\ m.nonce \in Nat
         /\ Pipeline \in Seq(R) /\ \A n \in 1 .. Len(Pipeline) : Pipeline[n] \in R
         /\ Session.id \in Nat /\ Session.key \in Nat /\ Session.counter \in Nat
         /\ fresh \in Nat /\ born \in Nat
<1>1. enclave.session \in [Ids -> [status : SessionStatuses, key : Nat, counter : Nat]]
  BY DEF Types, TypeOK, EnclaveType
<1>2. Known(enclave) \subseteq Ids /\ Active(enclave) \subseteq Known(enclave) /\ Ids \subseteq Nat
  BY DEF Known, Active, Ids
<1>3. \A id \in Ids : Entry(id).key \in Nat /\ Entry(id).counter \in Nat
  BY <1>1 DEF Entry
<1>4. Pipeline \in Seq(R) /\ \A n \in 1 .. Len(Pipeline) : Pipeline[n] \in R
  BY PipelineType
<1>5. \A m \in R : m.id \in Nat /\ m.key \in Nat /\ m.nonce \in Nat
  BY DEF R, Message
<1>6. Session.id \in Nat /\ Session.key \in Nat /\ Session.counter \in Nat
  BY DEF Types, Initiators, Session, Sessions
<1>7. fresh \in Nat /\ born \in Nat
  BY DEF Types, TypeOK
<1> QED
  BY <1>1, <1>2, <1>3, <1>4, <1>5, <1>6, <1>7

\* The sessions of the map, and the open ones, by their entries.
LEMMA Statuses ==
  /\ \A i \in Ids : (i \in Known(enclave) <=> Entry(i).status # "absent")
  /\ \A i \in Ids : (i \in Active(enclave) <=> Entry(i).status = "active")
  /\ \A i \in Ids : (i \in Known(enclave)' <=> Entry(i)'.status # "absent")
  /\ \A i \in Ids : (i \in Active(enclave)' <=> Entry(i)'.status = "active")
  /\ Known(enclave)' \subseteq Ids /\ Active(enclave)' \subseteq Ids
BY DEF Known, Active, Entry

\* There are at most MAX_SESSION_COUNT sessions.
LEMMA ActiveFinite == IsFiniteSet(Active(enclave))
<1>1. IsFiniteSet(Ids) /\ Ids \subseteq Int
  BY MaxSessionsAssumption, FS_Interval DEF Ids
<1>2. Active(enclave) \subseteq Ids
  BY DEF Active
<1> QED
  BY <1>1, <1>2, FS_Subset

\* What is said of the entries stays true of an enclave that stays.
LEMMA SameEntries ==
  ASSUME enclave' = enclave
  PROVE  /\ Known(enclave)' = Known(enclave) /\ Active(enclave)' = Active(enclave)
         /\ \A id : Entry(id)' = Entry(id)
         /\ \A id, k : (Pending(id, k)' <=> Pending(id, k)) /\ (Opened(id, k)' <=> Opened(id, k))
BY DEF Entry, Pending, Opened, Known, Active

\* No session is used, or offered, that was not. What was offered may be taken.
ClaimsKept ==
  /\ \A id, k \in Nat : Offered(id, k)' => Offered(id, k)
  /\ \/ Closing'
     \/ Session'.key = Session.key /\ ~Closing
     \/ \E id \in Nat : Offered(id, Session'.key)
     \/ Session'.key = 0

\* A request that stays is as fit as it was, while no session changes hands.
LEMMA PipeKept ==
  ASSUME Types, Types', Keys, OffersPending, Msg2OK, CloseOK,
         enclave' = enclave, born' = born, Keeps(Pipeline, Pipeline'), ClaimsKept
  PROVE  Msg2OK' /\ CloseOK'
<1>1. /\ Known(enclave)' = Known(enclave) /\ Active(enclave)' = Active(enclave)
      /\ \A id : Entry(id)' = Entry(id)
      /\ \A id, k : Pending(id, k)' <=> Pending(id, k)
  BY SameEntries
<1>2. ASSUME NEW n \in 1 .. Len(Pipeline'), NEW m \in R, Pipeline'[n] = m
      PROVE  \E k \in 1 .. Len(Pipeline) :
               /\ Pipeline[k] = m
               /\ NoOffer(Pipeline, k) => NoOffer(Pipeline', n)
               /\ Alone(Pipeline, k) => Alone(Pipeline', n)
  BY <1>2 DEF Keeps
<1>3. ASSUME NEW m \in R, Msg2Fits(m)
      PROVE  Msg2Fits(m)'
  BY <1>1, <1>3, EntryTypes DEF Msg2Fits, ClaimsKept
<1>4. ASSUME NEW m \in R, CloseFits(m)
      PROVE  CloseFits(m)'
  <2>1. m.id \in Active(enclave)' /\ m.id \in Known(enclave) /\ Entry(m.id)' = Entry(m.id)
    BY <1>1, <1>4, EntryTypes DEF CloseFits
  <2>2. CASE Session'.key = Session.key /\ ~Closing
    BY <1>4, <2>1, <2>2 DEF CloseFits
  <2>3. CASE \E id \in Nat : Offered(id, Session'.key)
    <3>1. PICK id \in Nat : Offered(id, Session'.key)
      BY <2>3
    <3> DEFINE k == Session'.key
    <3>2. k \in Nat /\ Entry(m.id).key \in Nat /\ born <= Entry(m.id).key
      BY <2>1, EntryTypes DEF Keys, Types, Initiators, Session, Sessions
    <3>3. k = Entry(m.id).key => Pending(id, k)
      BY <3>1, <3>2 DEF OffersPending
    <3>4. k = Entry(m.id).key => id = m.id
      BY <2>1, <3>2, <3>3, EntryTypes DEF Keys, Pending, Known, Entry
    <3>5. k # Entry(m.id).key
      BY <1>4, <3>3, <3>4 DEF CloseFits, Pending, Active, Entry
    <3> QED
      BY <2>1, <3>5 DEF CloseFits
  <2>4. CASE Session'.key = 0
    <3>1. 0 < Entry(m.id).key
      BY <2>1, EntryTypes DEF Keys
    <3> QED
      BY <2>1, <2>4, <3>1 DEF CloseFits
  <2> QED
    BY <2>1, <2>2, <2>3, <2>4 DEF ClaimsKept, CloseFits
<1>5. Msg2OK'
  BY <1>1, <1>2, <1>3 DEF Msg2OK
<1>6. CloseOK'
  BY <1>1, <1>2, <1>4 DEF CloseOK
<1> QED
  BY <1>5, <1>6

\* Nobody has asked for a session since the process started.
LEMMA UnusedKept ==
  ASSUME Unused, enclave' = enclave, Keeps(Pipeline, Pipeline')
  PROVE  Unused'
BY SameEntries DEF Unused, Keeps

\* The entry of a session that the initiator uses stays.
LEMMA EntryKept ==
  ASSUME enclave' = enclave, Session' = Session
  PROVE  /\ Entry(Session.id)' = Entry(Session.id)
         /\ Opened(Session.id, Session.key)' <=> Opened(Session.id, Session.key)
BY DEF Entry, Opened, Active

\* A step that neither the enclave nor the initiator sees.
LEMMA QuietKeeps ==
  ASSUME Types, Types', SessionInv, Pipeline' = Pipeline, initiator' = initiator,
         UNCHANGED <<enclave, fresh, born>>,
         worker'.at = "send" <=> worker.at = "send",
         worker'.at = "exited" <=> worker.at = "exited",
         worker.at = "send" => worker'.reply = worker.reply,
         \A f \in Slots : conn'[f].live => initiator.waiting,
         \A j \in 1 .. Len(backlog') : backlog'[j].live => initiator.waiting
  PROVE  SessionInv'
<1>1. Session' = Session /\ (Closing' <=> Closing)
  BY DEF Session, Closing
<1>2. \A i : Entry(i)' = Entry(i)
  BY SameEntries
<1>3. Shape' /\ Counted'
  BY <1>1 DEF SessionInv, Shape, Counted, SlotsMatchSessions, Known, Active
<1>4. Keys'
  BY <1>1, <1>2 DEF SessionInv, Keys, Known
<1>5. SUFFICES ASSUME worker.at # "exited" PROVE Live'
  BY <1>3, <1>4 DEF SessionInv
<1>6. Keeps(Pipeline, Pipeline')
  BY KeepsAll, EntryTypes
<1>7. \A id, k \in Nat : Offered(id, k)' <=> Offered(id, k)
  BY <1>1 DEF Offered, InReply, InAnswer, InSession
<1>8. \A id, k \in Nat : InReply(id, k)' <=> InReply(id, k)
  BY DEF InReply
<1>9. Stale'
  BY <1>1, <1>5, <1>6, UnusedKept DEF SessionInv, Live, Stale
<1>10. OffersPending'
  BY <1>1, <1>5, <1>7, <1>8, SameEntries DEF SessionInv, Live, OffersPending
<1>11. Msg2OK' /\ CloseOK'
  <2>1. ClaimsKept
    BY <1>1, <1>7 DEF ClaimsKept
  <2> QED
    BY <1>5, <1>6, <2>1, PipeKept DEF SessionInv, Live
<1>12. Held'
  BY <1>1, <1>2, <1>5, EntryKept
  DEF SessionInv, Live, Held, HeldOpen, HeldOnce, HeldAnswer, HeldReply, HeldLast, Known, Active
<1>13. LockStep'
  BY <1>1, <1>2, <1>5, EntryKept
  DEF SessionInv, Live, LockStep, InUse, AtRest, Asked, Answered, Ahead
<1> QED
  BY <1>9, <1>10, <1>11, <1>12, <1>13 DEF Live

\* The initiator's request is the only one of its session: when a request is
\* there while the session is open, it is the one the initiator waits on.
LEMMA OnlyRequest ==
  ASSUME Types, LockStep, InUse, Pipeline # <<>>
  PROVE  /\ initiator.waiting /\ initiator.answer = NoAnswer
         /\ Pipeline = <<RequestOf(initiator)>> /\ Len(Pipeline) = 1
         /\ worker.at # "send" /\ Entry(Session.id).counter = Session.counter
<1>1. initiator.waiting
  BY DEF LockStep, AtRest, Types, TypeOK
<1>2. initiator.answer = NoAnswer
  BY <1>1 DEF LockStep, Answered, NoAnswer
<1>3. /\ Pipeline = <<RequestOf(initiator)>>
      /\ worker.at # "send" /\ Entry(Session.id).counter = Session.counter
  BY <1>1, <1>2 DEF LockStep, Asked
<1>4. Len(Pipeline) = 1
  BY <1>3
<1> QED
  BY <1>1, <1>2, <1>3, <1>4

\* A request that is lost (CPTask::puttask after stop, a connection refused).
LEMMA DroppedKeeps ==
  ASSUME Types, Types', SessionInv, Drops(Pipeline, Pipeline'),
         UNCHANGED <<enclave, fresh, born, worker>>, worker.at # "exited",
         \/ initiator' = initiator
         \/ /\ initiator' = [initiator EXCEPT !.answer = {Zeroed("full")}]
            /\ initiator.waiting,
         \A f \in Slots : conn'[f].live => initiator.waiting,
         \A j \in 1 .. Len(backlog') : backlog'[j].live => initiator.waiting
  PROVE  SessionInv'
<1>1. /\ Session' = Session /\ (Closing' <=> Closing)
      /\ initiator'.stage = initiator.stage /\ initiator'.waiting = initiator.waiting
      /\ \A r \in initiator'.answer : r \in initiator.answer \/ r = Zeroed("full")
      /\ initiator'.answer # initiator.answer => initiator.waiting
  BY DEF Session, Closing, Types, Initiators
<1>2. \A i : Entry(i)' = Entry(i)
  BY SameEntries
<1>3. Zeroed("full").type = "full" /\ Zeroed("full").key = 0
  BY DEF Zeroed
<1>4. /\ Keeps(Pipeline, Pipeline') /\ Len(Pipeline) = Len(Pipeline') + 1
      /\ Len(Pipeline') \in Nat /\ Pipeline' \in Seq(R)
  <2>1. Pipeline \in Seq(R)
    BY EntryTypes
  <2>2. Keeps(Pipeline, Pipeline') /\ Len(Pipeline) = Len(Pipeline') + 1 /\ Pipeline' \in Seq(R)
    BY <2>1, KeepsDropped
  <2> QED
    BY <2>2
<1>5. Shape'
  BY <1>1 DEF SessionInv, Shape
<1>6. Counted'
  BY DEF SessionInv, Counted, SlotsMatchSessions, Known, Active
<1>7. Keys'
  <2>1. Known(enclave)' = Known(enclave)
    BY SameEntries
  <2>2. \A r \in initiator'.answer : r.key < fresh
    <3>1. 0 < fresh
      BY EntryTypes DEF SessionInv, Keys
    <3> QED
      BY <1>1, <1>3, <3>1 DEF SessionInv, Keys
  <2> QED
    BY <1>1, <1>2, <2>1, <2>2 DEF SessionInv, Keys
<1>8. \A id, k \in Nat : (Offered(id, k)' => Offered(id, k)) /\ (InReply(id, k)' <=> InReply(id, k))
  BY <1>1, <1>3 DEF Offered, InReply, InAnswer, InSession
<1>9. Stale'
  BY <1>1, <1>3, <1>4, UnusedKept DEF SessionInv, Live, Stale
<1>10. OffersPending'
  BY <1>1, <1>3, <1>8, SameEntries DEF SessionInv, Live, OffersPending
<1>11. Msg2OK' /\ CloseOK'
  <2>1. ClaimsKept
    BY <1>1, <1>8 DEF ClaimsKept
  <2> QED
    BY <1>4, <2>1, PipeKept DEF SessionInv, Live
<1>12. Held'
  <2> SUFFICES ASSUME born <= Session.key
               PROVE  HeldOpen' /\ HeldOnce' /\ HeldAnswer' /\ HeldReply' /\ HeldLast'
    BY <1>1 DEF Held
  <2>1. HeldOpen /\ HeldOnce /\ HeldAnswer /\ HeldReply /\ HeldLast
    BY DEF SessionInv, Live, Held
  <2>2. HeldOpen' /\ HeldOnce'
    BY <1>1, <1>2, <2>1, EntryKept DEF HeldOpen, HeldOnce, Known, Active
  <2>3. Pipeline # <<>>
    BY <1>4
  <2>4. HeldAnswer' /\ HeldReply'
    BY <1>1, <1>2, <1>3, <2>1, <2>3, EntryKept DEF HeldAnswer, HeldReply
  <2>5. HeldLast'
    BY <1>1, <1>4, <2>1 DEF HeldLast, Keeps
  <2> QED
    BY <2>2, <2>4, <2>5
<1>13. LockStep'
  <2> SUFFICES ASSUME InUse
               PROVE  LockStep'
    BY <1>1 DEF InUse, LockStep
  <2>1. /\ initiator.waiting /\ initiator.answer = NoAnswer /\ Len(Pipeline) = 1
        /\ worker.at # "send" /\ Entry(Session.id).counter = Session.counter
    BY <1>4, OnlyRequest DEF SessionInv, Live
  <2>2. Pipeline' = <<>> /\ worker'.at # "send" /\ initiator'.waiting
    <3>1. Len(Pipeline') + 1 = 1
      BY <1>4, <2>1, Zenon
    <3>2. Pipeline' \in Seq(R)
      BY <1>4
    <3>3. Pipeline' = <<>>
      BY <3>1, <3>2, OneLess
    <3> QED
      BY <1>1, <2>1, <3>3
  <2>3. Entry(Session.id)' = Entry(Session.id)
    BY <1>1, EntryKept
  <2>4. \A r \in initiator'.answer : r = Zeroed("full")
    BY <1>1, <2>1 DEF NoAnswer
  <2>5. ~Valid(initiator'.stage, Session', Zeroed("full"))
    BY <1>3 DEF Valid
  <2>6. Session.counter \in Nat
    BY EntryTypes
  <2>7. \A r \in initiator'.answer : Answered(r)'
    BY <1>1, <2>1, <2>2, <2>3, <2>4, <2>5, <2>6 DEF Answered, Ahead
  <2>8. Asked'
    BY <1>1, <2>1, <2>2, <2>3 DEF Asked
  <2> QED
    BY <2>2, <2>7, <2>8 DEF LockStep
<1> QED
  BY <1>5, <1>6, <1>7, <1>9, <1>10, <1>11, <1>12, <1>13 DEF SessionInv, Live

\* A task that is passed on is of a connection (CPServer::doWork, CPTask::puttask).
Taken ==
  /\ \A k \in 1 .. Len(queue) : queue[k].slot \in Slots
  /\ server.push # NoTask => server.push.slot \in Slots
  /\ worker.at \in {"call", "send"} => worker.task.slot \in Slots

LEMMA TakenStep ==
  ASSUME Types, Taken, [Next]_vars
  PROVE  Taken'
<1>1. CASE UNCHANGED <<queue, server, worker>>
  BY <1>1 DEF Taken
<1>2. ASSUME Die
      PROVE  Taken'
  <2>1. Len(queue') = 0 /\ server'.push = NoTask /\ worker'.at = "exited"
    BY <1>2 DEF Die, Idle, Worker
  <2> QED
    BY <2>1 DEF Taken
<1>3. CASE Server
  <2>1. ASSUME UNCHANGED <<queue, worker>>, server'.push \in {server.push, NoTask}
        PROVE  Taken'
    BY <2>1 DEF Taken
  <2>2. CASE Push
    <3>1. /\ queue' = Append(queue, server.push) /\ queue \in Seq(Tasks)
          /\ server.push \in Tasks /\ server'.push = NoTask /\ worker' = worker
      BY <2>2 DEF Push, Types, TypeOK
    <3>2. \A k \in 1 .. Len(queue') : queue'[k].slot \in Slots
      BY <2>2, <3>1 DEF Taken, Push
    <3> QED
      BY <3>1, <3>2 DEF Taken
  <2>3. ASSUME NEW f \in Slots, Receive(f)
        PROVE  Taken'
    <3>1. server'.push = NoTask \/ server'.push.slot = f
      BY <2>3 DEF Receive, Types, TypeOK
    <3> QED
      BY <2>3, <3>1 DEF Taken, Receive
  <2>4. CASE Select \/ Accept \/ \E f \in Slots : Hangup(f)
    BY <2>1, <2>4 DEF Select, Accept, Hangup, Idle, Types, TypeOK
  <2>5. CASE Refuse
    BY <1>2, <2>1, <2>5 DEF Refuse, Types, TypeOK
  <2> QED
    BY <1>3, <2>2, <2>3, <2>4, <2>5 DEF Server
<1>4. CASE WorkerStep
  <2>1. CASE LoopTest \/ PopClosed \/ Send
    <3>1. /\ queue' = queue \/ queue' = <<>>
          /\ server' = server /\ worker'.at \notin {"call", "send"}
      BY <2>1 DEF LoopTest, PopClosed, Send, Exited, Worker
    <3>2. \A k \in 1 .. Len(queue') : queue'[k].slot \in Slots
      BY <3>1 DEF Taken
    <3> QED
      BY <3>1, <3>2 DEF Taken
  <2>2. CASE Pop
    <3>1. /\ queue' = Tail(queue) /\ queue \in Seq(Tasks) /\ queue # <<>> /\ server' = server
          /\ worker'.at = "exited" \/ worker'.task = Head(queue)
      BY <2>2 DEF Pop, Exited, Worker, Types, TypeOK
    <3>2. /\ \A k \in 1 .. Len(queue') : queue'[k].slot \in Slots
          /\ Head(queue).slot \in Slots
      BY <3>1 DEF Taken
    <3> QED
      BY <3>1, <3>2 DEF Taken
  <2>3. CASE CallSessionRequest \/ CallExchangeReport \/ CallGenerateResponse \/ CallEndSession
    <3>1. /\ worker.at = "call" /\ worker'.task = worker.task
          /\ queue' = queue /\ server' = server
      BY <2>3 DEF CallSessionRequest, CallExchangeReport, CallGenerateResponse, CallEndSession,
                  Call, Types, Workers
    <3> QED
      BY <3>1 DEF Taken
  <2>4. CASE SendDead
    BY <1>2, <2>4 DEF SendDead
  <2> QED
    BY <1>4, <2>1, <2>2, <2>3, <2>4 DEF WorkerStep
<1>5. CASE Exit \/ ResponderCrash
  BY <1>2, <1>5 DEF Exit, ResponderCrash
<1>6. CASE Restart
  BY <1>6 DEF Restart, Taken, Worker
<1>7. CASE CloseQueue \/ Invoke \/ Initiator \/ InitiatorCrash \/ UNCHANGED vars
  BY <1>1, <1>7 DEF CloseQueue, Invoke, Initiator, Ask, TakeAnswer, Closed, InitiatorCrash, vars
<1>8. CASE Signal
  <2>1. server'.push = server.push /\ queue' = queue /\ worker' = worker
    BY <1>8 DEF Signal, Types, TypeOK
  <2> QED
    BY <2>1 DEF Taken
<1> QED
  BY <1>3, <1>4, <1>5, <1>6, <1>7, <1>8 DEF Next

LEMMA TakenInit ==
  ASSUME Init
  PROVE  Taken
<1>1. Len(queue) = 0 /\ server.push = NoTask /\ worker.at = "head"
  BY DEF Init, Idle, Worker
<1> QED
  BY <1>1 DEF Taken

\* The reply goes to whoever holds the descriptor now, or to nobody (CPTask::run).
LEMMA SendKeeps ==
  ASSUME Types, Types', Taken, SessionInv, Send, Pipeline' = Pipeline
  PROVE  SessionInv'
<1>1. /\ worker.at = "send" /\ worker'.at = "head"
      /\ UNCHANGED <<enclave, fresh, born, backlog, conn>>
  BY DEF Send, Worker
<1>2. \/ initiator' = initiator
      \/ /\ initiator' = [initiator EXCEPT !.answer = {worker.reply}]
         /\ initiator.waiting /\ initiator.answer = NoAnswer
  <2> DEFINE c == conn[worker.task.slot]
  <2>1. ASSUME c.open, initiator.answer = NoAnswer
        PROVE  initiator.waiting
    <3>1. c.live
      BY <2>1 DEF Send
    <3> QED
      BY <1>1, <3>1 DEF SessionInv, Shape, Taken
  <2> QED
    BY <2>1 DEF Send
<1>3. /\ Session' = Session /\ (Closing' <=> Closing)
      /\ initiator'.stage = initiator.stage /\ initiator'.waiting = initiator.waiting
      /\ \A r \in initiator'.answer : r \in initiator.answer \/ r = worker.reply
      /\ initiator'.answer # initiator.answer => initiator.waiting
  BY <1>2 DEF Session, Closing, Types, Initiators
<1>4. \A i : Entry(i)' = Entry(i)
  BY <1>1, SameEntries
<1>5. Live
  BY <1>1 DEF SessionInv
<1>6. Keeps(Pipeline, Pipeline')
  BY KeepsAll, EntryTypes
<1>7. Shape'
  BY <1>1, <1>3 DEF SessionInv, Shape
<1>8. Counted'
  BY <1>1 DEF SessionInv, Counted, SlotsMatchSessions, Known, Active
<1>9. Keys'
  <2>1. \A r \in initiator'.answer : r.key < fresh
    BY <1>1, <1>3, EntryTypes DEF SessionInv, Keys
  <2> QED
    BY <1>1, <1>3, <1>4, <2>1 DEF SessionInv, Keys, Known
<1>10. \A id, k \in Nat : (Offered(id, k)' => Offered(id, k)) /\ ~InReply(id, k)'
  <2>1. \A id, k \in Nat : ~InReply(id, k)' /\ (InSession(id, k)' <=> InSession(id, k))
    BY <1>1, <1>3 DEF InReply, InSession
  <2>2. \A id, k \in Nat : InAnswer(id, k)' => InAnswer(id, k) \/ InReply(id, k)
    BY <1>1, <1>3 DEF InAnswer, InReply
  <2> QED
    BY <2>1, <2>2 DEF Offered
<1>11. Stale'
  <2>1. Session.key # 0 /\ Session.key < born => Unused'
    BY <1>1, <1>5, <1>6, UnusedKept DEF Live, Stale
  <2>2. ASSUME NEW r \in initiator'.answer, initiator.stage = "msg1", r.type = "msg1",
               r.key # 0, r.key < born
        PROVE  Unused'
    <3>1. r # worker.reply
      BY <1>1, <2>2, EntryTypes DEF SessionInv, Keys, Types, Workers, Message
    <3> QED
      BY <1>1, <1>3, <1>5, <1>6, <2>2, <3>1, UnusedKept DEF Live, Stale
  <2> QED
    BY <1>1, <1>3, <2>1, <2>2 DEF Stale
<1>12. OffersPending'
  BY <1>1, <1>5, <1>10, SameEntries DEF Live, OffersPending
<1>13. Msg2OK' /\ CloseOK'
  <2>1. ClaimsKept
    BY <1>3, <1>10 DEF ClaimsKept
  <2> QED
    BY <1>1, <1>5, <1>6, <2>1, PipeKept DEF SessionInv, Live
<1>14. Held'
  <2> SUFFICES ASSUME born <= Session.key
               PROVE  HeldOpen' /\ HeldOnce' /\ HeldAnswer' /\ HeldReply' /\ HeldLast'
    BY <1>1, <1>3 DEF Held
  <2>1. HeldOpen /\ HeldOnce /\ HeldAnswer /\ HeldReply /\ HeldLast
    BY <1>5 DEF Live, Held
  <2>2. HeldOpen' /\ HeldOnce'
    BY <1>1, <1>3, <1>4, <2>1, EntryKept DEF HeldOpen, HeldOnce, Known, Active
  <2>3. HeldReply' /\ HeldLast'
    BY <1>1, <1>3, <2>1 DEF HeldReply, HeldLast
  <2>4. HeldAnswer'
    BY <1>1, <1>3, <1>4, <2>1, EntryKept DEF HeldAnswer, HeldReply
  <2> QED
    BY <2>2, <2>3, <2>4
<1>15. LockStep'
  <2> SUFFICES ASSUME InUse
               PROVE  LockStep'
    BY <1>1, <1>3 DEF InUse, LockStep
  <2>1. initiator.waiting /\ initiator.answer = NoAnswer
    BY <1>1, <1>5 DEF Live, LockStep, AtRest, Answered, NoAnswer, Types, TypeOK
  <2>2. Pipeline = <<>> /\ Entry(Session.id).counter = Session.counter + Ahead(worker.reply)
    BY <1>1, <1>5, <2>1 DEF Live, LockStep, Asked
  <2>3. /\ Entry(Session.id)' = Entry(Session.id) /\ Session.counter \in Nat
        /\ \A r : Ahead(r)' = Ahead(r)
    BY <1>1, <1>3, EntryKept, EntryTypes DEF Ahead
  <2>4. \A r \in initiator'.answer : Answered(r)'
    BY <1>1, <1>3, <2>1, <2>2, <2>3 DEF Answered, NoAnswer
  <2>5. Asked'
    BY <1>1, <1>3, <2>2, <2>3 DEF Asked, Ahead
  <2> QED
    BY <1>3, <2>1, <2>4, <2>5 DEF LockStep
<1> QED
  BY <1>7, <1>8, <1>9, <1>11, <1>12, <1>13, <1>14, <1>15 DEF SessionInv, Live

-----------------------------------------------------------------------------
(* The calls of the enclave *)

\* The request m, the oldest one, is executed.
Executes(m) ==
  /\ worker.at = "call" /\ worker'.at = "send"
  /\ Pipeline = <<m>> \o Pipeline' /\ Pipeline' \in Seq(R)
  /\ UNCHANGED <<born, backlog, conn, initiator>>

LEMMA ExecutesPipe ==
  ASSUME Types, NEW m \in R, Executes(m)
  PROVE  /\ Pipeline # <<>> /\ Len(Pipeline) = Len(Pipeline') + 1
         /\ 1 \in 1 .. Len(Pipeline) /\ Pipeline[1] = m
         /\ Keeps(Pipeline, Pipeline')
         /\ Session' = Session /\ (Closing' <=> Closing)
<1>1. /\ Pipeline \in Seq(R) /\ Len(Pipeline) = Len(Pipeline') + 1 /\ Pipeline[1] = m
      /\ \A n \in 1 .. Len(Pipeline') :
           /\ n + 1 \in 1 .. Len(Pipeline) /\ Pipeline'[n] = Pipeline[n + 1]
           /\ NoOffer(Pipeline, n + 1) => NoOffer(Pipeline', n)
           /\ Alone(Pipeline, n + 1) => Alone(Pipeline', n)
  <2>1. Pipeline' \in Seq(R) /\ Pipeline = <<m>> \o Pipeline'
    BY DEF Executes
  <2>2. Behind(Pipeline, m, Pipeline')
    BY <2>1, KeepsBehind
  <2> QED
    BY <2>2 DEF Behind
<1>2. Len(Pipeline') \in Nat
  BY DEF Executes
<1>3. 1 \in 1 .. Len(Pipeline) /\ Pipeline # <<>>
  BY <1>1, <1>2
<1>4. \A n \in 1 .. Len(Pipeline') : n + 1 = Len(Pipeline) => n = Len(Pipeline')
  BY <1>1, <1>2
<1>5. Keeps(Pipeline, Pipeline')
  BY <1>1, <1>4 DEF Keeps
<1> QED
  BY <1>1, <1>3, <1>5 DEF Executes, Session, Closing

\* Where the initiator holds an open session, the request is its own, and the last.
LEMMA ExecutesOwn ==
  ASSUME Types, LockStep, InUse, NEW m \in R, Executes(m)
  PROVE  /\ initiator.waiting /\ initiator.answer = NoAnswer
         /\ m = RequestOf(initiator) /\ Pipeline' = <<>>
         /\ Entry(Session.id).counter = Session.counter
<1>1. Pipeline # <<>> /\ Pipeline[1] = m /\ Len(Pipeline) = Len(Pipeline') + 1
  BY ExecutesPipe
<1>2. /\ initiator.waiting /\ initiator.answer = NoAnswer
      /\ Pipeline = <<RequestOf(initiator)>> /\ Len(Pipeline) = 1
      /\ Entry(Session.id).counter = Session.counter
  BY <1>1, OnlyRequest
<1>3. m = RequestOf(initiator)
  BY <1>1, <1>2
<1>4. Len(Pipeline') + 1 = 1
  BY <1>1, <1>2, Zenon
<1>5. Pipeline' = <<>>
  BY <1>4, OneLess DEF Executes
<1> QED
  BY <1>2, <1>3, <1>5

LEMMA ExecutesShape ==
  ASSUME Shape, NEW m \in R, Executes(m)
  PROVE  Shape'
BY DEF Shape, Executes, Session

\* The requests behind the one that is executed stay as fit as they were.
LEMMA ExecutesBehind ==
  ASSUME Types, Msg2OK, CloseOK, NEW m \in R, Executes(m),
         \A x \in R : Msg2Fits(x) /\ ~(m.type = "msg2" /\ m.id = x.id) => Msg2Fits(x)',
         \A x \in R : CloseFits(x) /\ ~(m.type = "close" /\ m.id = x.id) => CloseFits(x)',
         m.type = "msg1" \/ \A i \in Nat : i \notin Known(enclave) => i \notin Known(enclave)'
  PROVE  Msg2OK' /\ CloseOK'
<1>1. ASSUME NEW n \in 1 .. Len(Pipeline'), NEW x \in R, Pipeline'[n] = x
      PROVE  \E k \in 1 .. Len(Pipeline) :
               /\ Pipeline[k] = x
               /\ NoOffer(Pipeline, k) => NoOffer(Pipeline', n) /\ m.type # "msg1"
               /\ Alone(Pipeline, k) => Alone(Pipeline', n) /\ ~(m.type = x.type /\ m.id = x.id)
  <2>1. Pipeline' \in Seq(R) /\ Pipeline = <<m>> \o Pipeline'
    BY DEF Executes
  <2>2. Behind(Pipeline, m, Pipeline')
    BY <2>1, KeepsBehind
  <2> QED
    BY <1>1, <2>2 DEF Behind
<1>2. \A x \in R : x.id \in Nat
  BY EntryTypes
<1>3. ASSUME NEW n \in 1 .. Len(Pipeline'), NEW x \in R, Pipeline'[n] = x, x.type = "msg2"
      PROVE  \/ x.id \notin Known(enclave)' /\ NoOffer(Pipeline', n) /\ x.key < born'
             \/ Msg2Fits(x)' /\ Alone(Pipeline', n)
  <2>1. PICK k \in 1 .. Len(Pipeline) :
               /\ Pipeline[k] = x
               /\ NoOffer(Pipeline, k) => NoOffer(Pipeline', n) /\ m.type # "msg1"
               /\ Alone(Pipeline, k) => Alone(Pipeline', n) /\ ~(m.type = x.type /\ m.id = x.id)
    BY <1>1, <1>3
  <2>2. CASE x.id \notin Known(enclave) /\ NoOffer(Pipeline, k) /\ x.key < born
    BY <1>2, <2>1, <2>2 DEF Executes
  <2>3. CASE Msg2Fits(x) /\ Alone(Pipeline, k)
    BY <1>3, <2>1, <2>3
  <2> QED
    BY <1>3, <2>1, <2>2, <2>3 DEF Msg2OK
<1>4. ASSUME NEW n \in 1 .. Len(Pipeline'), NEW x \in R, Pipeline'[n] = x, x.type = "close"
      PROVE  \/ x.id \notin Known(enclave)' /\ NoOffer(Pipeline', n)
             \/ CloseFits(x)' /\ Alone(Pipeline', n)
  <2>1. PICK k \in 1 .. Len(Pipeline) :
               /\ Pipeline[k] = x
               /\ NoOffer(Pipeline, k) => NoOffer(Pipeline', n) /\ m.type # "msg1"
               /\ Alone(Pipeline, k) => Alone(Pipeline', n) /\ ~(m.type = x.type /\ m.id = x.id)
    BY <1>1, <1>4
  <2>2. CASE x.id \notin Known(enclave) /\ NoOffer(Pipeline, k)
    BY <1>2, <2>1, <2>2
  <2>3. CASE CloseFits(x) /\ Alone(Pipeline, k)
    BY <1>4, <2>1, <2>3
  <2> QED
    BY <1>4, <2>1, <2>2, <2>3 DEF CloseOK
<1>5. Msg2OK'
  BY <1>3 DEF Msg2OK
<1>6. CloseOK'
  BY <1>4 DEF CloseOK
<1> QED
  BY <1>5, <1>6

\* A call that fails and leaves the enclave as it is: it is answered by zeroes.
LEMMA FailedCallKeeps ==
  ASSUME Types, Types', SessionInv, NEW m \in R, Executes(m),
         enclave' = enclave, worker'.reply.key = 0, fresh' \in {fresh, fresh + 1}
  PROVE  SessionInv'
<1>1. /\ Session' = Session /\ (Closing' <=> Closing) /\ initiator' = initiator /\ born' = born
      /\ worker.at = "call" /\ worker'.at = "send"
      /\ Pipeline # <<>> /\ Keeps(Pipeline, Pipeline')
  BY ExecutesPipe DEF Executes
<1>2. \A i : Entry(i)' = Entry(i)
  BY SameEntries
<1>3. Live
  BY <1>1 DEF SessionInv
<1>4. Shape'
  BY ExecutesShape DEF SessionInv
<1>5. Counted'
  BY <1>1 DEF SessionInv, Counted, SlotsMatchSessions, Known, Active
<1>6. Keys'
  <2>1. \A k \in Nat : k < fresh => k < fresh'
    BY EntryTypes
  <2>2. born' <= fresh' /\ Session'.key < fresh' /\ \A r \in initiator'.answer : r.key < fresh'
    BY <1>1, EntryTypes DEF SessionInv, Keys, Types, Initiators, Answers, NoAnswer, Eof, Zeroed, Message
  <2>3. \A i \in Known(enclave)' : born' <= Entry(i)'.key /\ Entry(i)'.key < fresh'
    BY <1>1, <1>2, <2>1, EntryTypes, SameEntries DEF SessionInv, Keys
  <2>4. \A i, j \in Known(enclave)' : Entry(i)'.key = Entry(j)'.key => i = j
    BY <1>2, SameEntries DEF SessionInv, Keys
  <2> QED
    BY <1>1, <2>2, <2>3, <2>4 DEF SessionInv, Keys
<1>7. /\ \A id, k \in Nat : Offered(id, k)' => Offered(id, k) /\ k # 0
      /\ \A id, k \in Nat : k # 0 => ~InReply(id, k)'
  BY <1>1 DEF Offered, InReply, InAnswer, InSession
<1>8. Stale'
  BY <1>1, <1>3, UnusedKept DEF Live, Stale
<1>9. OffersPending'
  BY <1>1, <1>3, <1>7, SameEntries DEF Live, OffersPending
<1>10. Msg2OK' /\ CloseOK'
  <2>1. ClaimsKept
    BY <1>1, <1>7 DEF ClaimsKept
  <2> QED
    BY <1>1, <1>3, <2>1, PipeKept DEF SessionInv, Live
<1>11. Held'
  <2> SUFFICES ASSUME born <= Session.key
               PROVE  HeldOpen' /\ HeldOnce' /\ HeldAnswer' /\ HeldReply' /\ HeldLast'
    BY <1>1 DEF Held
  <2>1. HeldOpen /\ HeldOnce /\ HeldAnswer /\ HeldLast
    BY <1>3 DEF Live, Held
  <2>2. HeldOpen' /\ HeldOnce'
    BY <1>1, <1>2, <2>1, EntryKept DEF HeldOpen, HeldOnce, Known, Active
  <2>3. Session.key # 0
    BY EntryTypes DEF SessionInv, Keys
  <2>4. HeldAnswer' /\ HeldReply'
    BY <1>1, <2>1, <2>3 DEF HeldAnswer, HeldReply
  <2>5. HeldLast'
    BY <1>1, <2>1 DEF HeldLast, Keeps
  <2> QED
    BY <2>2, <2>4, <2>5
<1>12. LockStep'
  <2> SUFFICES ASSUME InUse
               PROVE  LockStep'
    BY <1>1 DEF InUse, LockStep
  <2>1. /\ initiator.waiting /\ initiator.answer = NoAnswer /\ Pipeline' = <<>>
        /\ Entry(Session.id).counter = Session.counter
    BY <1>3, ExecutesOwn DEF Live
  <2>2. Session.key # 0 /\ Session.counter \in Nat
    BY EntryTypes DEF SessionInv, Keys, InUse
  <2>3. ~Valid(initiator'.stage, Session', worker'.reply)
    BY <1>1, <2>2 DEF Valid
  <2>4. Asked'
    BY <1>1, <2>1, <2>2, <2>3, EntryKept DEF Asked, Ahead
  <2> QED
    BY <1>1, <2>1, <2>4 DEF LockStep, NoAnswer
<1> QED
  BY <1>4, <1>5, <1>6, <1>8, <1>9, <1>10, <1>11, <1>12 DEF SessionInv, Live

\* Where the initiator holds an open session, its request is a secured message
\* under the key and with the counter it keeps (send_request_receive_response).
LEMMA ExecutesInUse ==
  ASSUME Types, Shape, LockStep, InUse, NEW m \in R, Executes(m)
  PROVE  /\ m.type \in {"exchange", "sync"} /\ initiator.stage \notin {"msg1", "msg2"}
         /\ m.id = Session.id /\ m.key = Session.key /\ m.nonce = Session.counter
<1>1. initiator.waiting /\ m = RequestOf(initiator)
  BY ExecutesOwn
<1>2. initiator.stage \in Stages \ {"idle", "msg1", "msg2", "close", "closeFailed"}
  BY <1>1 DEF Shape, InUse, Closing, NoSession, Types, TypeOK
<1>3. RequestType[initiator.stage] \in {"exchange", "sync"}
  BY <1>2 DEF RequestType, Stages
<1> QED
  BY <1>1, <1>2, <1>3 DEF RequestOf, Session

\* The answer and the request of a handshake that the initiator still waits on
\* are as they were (a request that is there has no answer yet).
LEMMA ExecutesHeld ==
  ASSUME Types, Held, NEW m \in R, Executes(m), born <= Session.key
  PROVE  HeldAnswer' /\ HeldLast'
<1>1. /\ Session' = Session /\ initiator' = initiator
      /\ Pipeline # <<>> /\ Keeps(Pipeline, Pipeline')
  BY ExecutesPipe DEF Executes
<1>2. HeldAnswer /\ HeldLast
  BY DEF Held
<1>3. HeldAnswer'
  BY <1>1, <1>2 DEF HeldAnswer
<1>4. HeldLast'
  BY <1>1, <1>2 DEF HeldLast, Keeps
<1> QED
  BY <1>3, <1>4

\* A call that is not session_request offers nothing.
LEMMA ExecutesOffers ==
  ASSUME NEW m \in R, Executes(m), worker'.reply.type # "msg1"
  PROVE  \A id, k \in Nat : (Offered(id, k)' => Offered(id, k)) /\ ~InReply(id, k)'
<1>1. initiator' = initiator /\ Session' = Session
  BY DEF Executes, Session
<1> QED
  BY <1>1 DEF Offered, InReply, InAnswer, InSession

\* session_request: a slot and a handshake that nobody has.
LEMMA SessionRequestKeeps ==
  ASSUME Types, Types', SessionInv, NEW m \in R, Executes(m), m.type = "msg1",
         ~(Ids \subseteq enclave.tracker), NEW new \in Ids, new = FreeId(enclave),
         enclave' = SessionRequest(enclave, fresh).enclave,
         worker'.reply = SessionRequest(enclave, fresh).reply, fresh' = fresh + 1
  PROVE  SessionInv'
<1>1. /\ Session' = Session /\ (Closing' <=> Closing) /\ initiator' = initiator /\ born' = born
      /\ worker.at = "call" /\ worker'.at = "send"
      /\ 1 \in 1 .. Len(Pipeline) /\ Pipeline[1] = m /\ Keeps(Pipeline, Pipeline')
  BY ExecutesPipe DEF Executes
<1>2. Live
  BY <1>1 DEF SessionInv
<1>3. new \in Ids /\ new \notin enclave.tracker /\ enclave.tracker = Known(enclave)
  BY FreeIdIsFree DEF Types, TypeOK, SessionInv, Counted, SlotsMatchSessions
<1>4. /\ enclave' = [tracker |-> enclave.tracker \cup {new},
                     session |-> [enclave.session EXCEPT ![new] =
                                    IF @.status = "absent"
                                    THEN [status |-> "inProgress", key |-> fresh, counter |-> 0]
                                    ELSE @],
                     count   |-> enclave.count]
      /\ worker'.reply = [type |-> "msg1", id |-> new, key |-> fresh, nonce |-> 0]
  BY DEF SessionRequest
<1>5. /\ Entry(new)' = [status |-> "inProgress", key |-> fresh, counter |-> 0]
      /\ \A i \in Ids : i # new => Entry(i)' = Entry(i)
      /\ enclave.session[new].status = "absent"
  BY <1>3, <1>4, EntryTypes DEF Entry, Known
<1>6. Known(enclave)' = Known(enclave) \cup {new} /\ Active(enclave)' = Active(enclave)
  BY <1>3, <1>5 DEF Known, Active, Entry
<1>7. Shape'
  BY ExecutesShape DEF SessionInv
<1>8. Counted'
  <2>1. enclave.count = Cardinality(Active(enclave))
    BY DEF SessionInv, Counted, SlotsMatchSessions
  <2>2. enclave'.tracker = enclave.tracker \cup {new} /\ enclave'.count = enclave.count
    BY <1>4
  <2> QED
    BY <1>1, <1>3, <1>6, <2>1, <2>2 DEF Counted, SlotsMatchSessions
<1>9. Known(enclave) \subseteq Ids /\ Active(enclave) \subseteq Known(enclave) /\ Ids \subseteq Nat
  BY EntryTypes
<1>10. \A i \in Known(enclave) : i # new /\ Entry(i)' = Entry(i)
  BY <1>3, <1>5, <1>9
<1>11. /\ fresh \in Nat /\ born \in Nat /\ Session.key \in Nat /\ born <= fresh
       /\ \A i \in Known(enclave) : Entry(i).key \in Nat /\ Entry(i).key < fresh
       /\ Session.key < fresh /\ \A r \in initiator.answer : r.key < fresh
  BY <1>9, EntryTypes DEF SessionInv, Keys
<1>12. \A r \in initiator.answer : r.key \in Nat
  BY DEF Types, Initiators, Answers, NoAnswer, Eof, Zeroed, Message
<1>13. Keys'
  <2>1. \A k \in Nat : k < fresh => k < fresh'
    BY <1>11
  <2>2. 0 < born' /\ born' <= fresh' /\ Session'.key < fresh' /\ \A r \in initiator'.answer : r.key < fresh'
    BY <1>1, <1>11, <1>12, <2>1 DEF SessionInv, Keys
  <2>3. born' <= worker'.reply.key /\ worker'.reply.key < fresh'
    BY <1>1, <1>4, <1>11
  <2>4. \A i \in Known(enclave)' : born' <= Entry(i)'.key /\ Entry(i)'.key < fresh'
    BY <1>1, <1>5, <1>6, <1>10, <1>11, <2>1 DEF SessionInv, Keys
  <2>5. \A i, j \in Known(enclave)' : Entry(i)'.key = Entry(j)'.key => i = j
    BY <1>5, <1>6, <1>10, <1>11 DEF SessionInv, Keys
  <2> QED
    BY <2>2, <2>3, <2>4, <2>5 DEF Keys
<1>14. ~Unused
  BY <1>1 DEF Unused
<1>15. Stale'
  BY <1>1, <1>2, <1>14 DEF Live, Stale
<1> PICK key \in Nat : key = fresh
  BY <1>11
<1>16. Pending(new, key)' /\ \A i, k \in Nat : Pending(i, k) => Pending(i, k)'
  <2>1. Pending(new, key)'
    BY <1>5 DEF Pending
  <2>2. ASSUME NEW i \in Nat, NEW k \in Nat, Pending(i, k)
        PROVE  Pending(i, k)'
    <3>1. i \in Known(enclave)
      BY <2>2 DEF Pending, Known, Entry
    <3> QED
      BY <1>10, <2>2, <3>1 DEF Pending
  <2> QED
    BY <2>1, <2>2
<1>17. /\ \A i, k \in Nat : Offered(i, k)' => Offered(i, k) \/ (i = new /\ k = key)
       /\ \A i, k \in Nat : InReply(i, k)' => k = key
  BY <1>1, <1>4 DEF Offered, InReply, InAnswer, InSession
<1>18. OffersPending'
  <2>1. \A i, k \in Nat : Offered(i, k)' /\ born' <= k => Pending(i, k)'
    BY <1>1, <1>2, <1>16, <1>17 DEF Live, OffersPending
  <2>2. Session'.key # key /\ \A r \in initiator'.answer : r.key # key
    BY <1>1, <1>11, <1>12
  <2>3. worker'.reply.type # "msg3"
    BY <1>4
  <2> QED
    BY <1>17, <2>1, <2>2, <2>3 DEF OffersPending
<1>19. Msg2OK' /\ CloseOK'
  <2>1. ASSUME NEW x \in R, Msg2Fits(x)
        PROVE  Msg2Fits(x)'
    <3>1. x.id \in Nat /\ x.key \in Nat
      BY EntryTypes
    <3>2. x.id \in Known(enclave) /\ Entry(x.id).key = x.key
      BY <2>1 DEF Msg2Fits, Pending, Known, Entry
    <3>3. x.key # key
      BY <1>11, <3>2
    <3> QED
      BY <1>16, <1>17, <2>1, <3>1, <3>3 DEF Msg2Fits
  <2>2. ASSUME NEW x \in R, CloseFits(x)
        PROVE  CloseFits(x)'
    <3>1. x.id \in Active(enclave) /\ Entry(x.id)' = Entry(x.id)
      BY <1>9, <1>10, <2>2 DEF CloseFits
    <3> QED
      BY <1>1, <1>6, <2>2, <3>1 DEF CloseFits
  <2>3. Msg2OK /\ CloseOK
    BY <1>2 DEF Live
  <2> QED
    BY <2>1, <2>2, <2>3, ExecutesBehind
<1>20. Held'
  <2> SUFFICES ASSUME born <= Session.key
               PROVE  HeldOpen' /\ HeldOnce' /\ HeldAnswer' /\ HeldReply' /\ HeldLast'
    BY <1>1 DEF Held
  <2>1. HeldOpen /\ HeldOnce
    BY <1>2 DEF Live, Held
  <2>2. HeldOpen'
    BY <1>1, <1>6, <1>9, <1>10, <2>1 DEF HeldOpen, Opened
  <2>3. HeldOnce'
    BY <1>1, <1>5, <1>6, <1>10, <1>11, <2>1 DEF HeldOnce
  <2>4. HeldReply'
    BY <1>4 DEF HeldReply
  <2>5. HeldAnswer' /\ HeldLast'
    BY <1>2, ExecutesHeld DEF Live
  <2> QED
    BY <2>2, <2>3, <2>4, <2>5
<1>21. LockStep'
  <2>1. ~InUse
    BY <1>2, ExecutesInUse DEF SessionInv, Live
  <2> QED
    BY <1>1, <2>1 DEF InUse, LockStep
<1> QED
  BY <1>7, <1>8, <1>13, <1>15, <1>18, <1>19, <1>20, <1>21 DEF SessionInv, Live

\* exchange_report: the session that was in progress is open, and counted.
LEMMA ExchangeReportKeeps ==
  ASSUME Types, Types', SessionInv, NEW m \in R, Executes(m), m.type = "msg2",
         m.id \in Known(enclave), Entry(m.id).status = "inProgress", Entry(m.id).key = m.key,
         enclave' = ExchangeReport(enclave, m).enclave,
         worker'.reply = ExchangeReport(enclave, m).reply, fresh' = fresh
  PROVE  SessionInv'
<1>1. /\ Session' = Session /\ (Closing' <=> Closing) /\ initiator' = initiator /\ born' = born
      /\ worker.at = "call" /\ worker'.at = "send" /\ Len(Pipeline) = Len(Pipeline') + 1
      /\ 1 \in 1 .. Len(Pipeline) /\ Pipeline[1] = m /\ Keeps(Pipeline, Pipeline')
  BY ExecutesPipe DEF Executes
<1>2. Live
  BY <1>1 DEF SessionInv
<1>3. /\ enclave' = [tracker |-> enclave.tracker,
                     session |-> [enclave.session EXCEPT ![m.id] =
                                    [status |-> "active", key |-> m.key, counter |-> 0]],
                     count   |-> enclave.count + 1]
      /\ worker'.reply = [type |-> "msg3", id |-> m.id, key |-> m.key, nonce |-> 0]
  BY DEF ExchangeReport, Entry
<1>4. Known(enclave) \subseteq Ids /\ Active(enclave) \subseteq Known(enclave) /\ Ids \subseteq Nat
  BY EntryTypes
<1>5. /\ Entry(m.id)' = [status |-> "active", key |-> m.key, counter |-> 0]
      /\ \A i \in Ids : i # m.id => Entry(i)' = Entry(i)
  BY <1>3, <1>4, EntryTypes DEF Entry
<1>6. /\ Known(enclave)' = Known(enclave) /\ Active(enclave)' = Active(enclave) \cup {m.id}
      /\ m.id \notin Active(enclave)
  <2>1. m.id \in Ids /\ \A i \in Ids : i # m.id => Entry(i)'.status = Entry(i).status
    BY <1>4, <1>5
  <2>2. m.id \in Known(enclave)' /\ m.id \in Active(enclave)' /\ m.id \notin Active(enclave)
    <3>1. Entry(m.id)'.status = "active"
      BY <1>5
    <3> QED
      BY <2>1, <3>1, Statuses
  <2>3. ASSUME NEW i \in Ids, i # m.id
        PROVE  /\ i \in Known(enclave)' <=> i \in Known(enclave)
               /\ i \in Active(enclave)' <=> i \in Active(enclave)
    BY <2>1, <2>3, Statuses
  <2> QED
    BY <1>4, <2>1, <2>2, <2>3, Statuses
<1>7. \A i \in Known(enclave) : Entry(i)'.key = Entry(i).key
  <2>1. Entry(m.id)'.key = Entry(m.id).key
    BY <1>5
  <2>2. ASSUME NEW i \in Ids, i # m.id
        PROVE  Entry(i)'.key = Entry(i).key
    BY <1>5, <2>2
  <2> QED
    BY <1>4, <2>1, <2>2
<1>8. Shape'
  BY ExecutesShape DEF SessionInv
<1>9. Counted'
  <2>1. IsFiniteSet(Active(enclave))
    BY ActiveFinite
  <2>2. Cardinality(Active(enclave) \cup {m.id}) = Cardinality(Active(enclave)) + 1
    BY <1>6, <2>1, FS_AddElement
  <2>3. enclave.tracker = Known(enclave) /\ enclave.count = Cardinality(Active(enclave))
    BY DEF SessionInv, Counted, SlotsMatchSessions
  <2>4. enclave'.tracker = enclave.tracker /\ enclave'.count = enclave.count + 1
    BY <1>3
  <2> QED
    BY <1>1, <1>6, <2>2, <2>3, <2>4 DEF Counted, SlotsMatchSessions
<1>10. Keys'
  <2>1. born' <= worker'.reply.key /\ worker'.reply.key < fresh'
    BY <1>1, <1>3 DEF SessionInv, Keys
  <2> QED
    BY <1>1, <1>6, <1>7, <2>1 DEF SessionInv, Keys
<1>11. Stale'
  BY <1>1, <1>2, <1>6 DEF Live, Stale, Unused
<1>12. Msg2Fits(m)
  BY <1>1, <1>2 DEF Live, Msg2OK
<1>13. m.id \in Nat /\ m.key \in Nat
  BY EntryTypes
<1>14. \A i, k \in Nat : Pending(i, k) /\ i # m.id => Pending(i, k)'
  BY <1>5 DEF Pending
<1>15. \A i, k \in Nat : (Offered(i, k)' => Offered(i, k)) /\ ~InReply(i, k)'
  BY <1>3, ExecutesOffers
<1>16. OffersPending'
  <2>1. ASSUME NEW i \in Nat, NEW k \in Nat, Offered(i, k), born <= k
        PROVE  Pending(i, k)'
    <3>1. Pending(i, k)
      BY <1>2, <2>1 DEF Live, OffersPending
    <3>2. k # m.key
      BY <1>12, <2>1 DEF Msg2Fits
    <3>3. i # m.id
      BY <3>1, <3>2 DEF Pending
    <3> QED
      BY <1>14, <3>1, <3>3
  <2>2. \A i, k \in Nat : Offered(i, k) => worker'.reply.key # k
    BY <1>3, <1>12 DEF Msg2Fits
  <2> QED
    BY <1>1, <1>15, <2>1, <2>2 DEF OffersPending
<1>17. Msg2OK' /\ CloseOK'
  <2>1. ASSUME NEW x \in R, Msg2Fits(x), ~(m.type = "msg2" /\ m.id = x.id)
        PROVE  Msg2Fits(x)'
    <3>1. x.id \in Nat /\ x.key \in Nat
      BY EntryTypes
    <3> QED
      BY <1>14, <1>15, <2>1, <3>1 DEF Msg2Fits
  <2>2. ASSUME NEW x \in R, CloseFits(x)
        PROVE  CloseFits(x)'
    BY <1>1, <1>4, <1>6, <1>7, <2>2 DEF CloseFits
  <2>3. Msg2OK /\ CloseOK
    BY <1>2 DEF Live
  <2> QED
    BY <1>6, <2>1, <2>2, <2>3, ExecutesBehind
<1>18. Held'
  <2> SUFFICES ASSUME born <= Session.key
               PROVE  HeldOpen' /\ HeldOnce' /\ HeldAnswer' /\ HeldReply' /\ HeldLast'
    BY <1>1 DEF Held
  <2>1. HeldOpen /\ HeldOnce /\ HeldLast
    BY <1>2 DEF Live, Held
  <2>2. HeldOpen'
    BY <1>1, <1>4, <1>5, <1>6, <2>1 DEF HeldOpen, Opened
  <2>3. HeldOnce'
    BY <1>1, <1>6, <1>7, <2>1 DEF HeldOnce
  <2>4. HeldReply'
    <3> SUFFICES ASSUME m.key = Session.key
                 PROVE  /\ initiator.stage = "msg2" /\ initiator.waiting /\ Pipeline' = <<>>
                        /\ m.id = Session.id
      BY <1>1, <1>3, <1>5, <1>6 DEF HeldReply, Opened
    <3>1. m.id = Session.id /\ Session.status # "active"
      BY <1>6, <2>1 DEF HeldOnce
    <3>2. Session.key # 0
      BY EntryTypes DEF SessionInv, Keys
    <3>3. initiator.stage = "msg2"
      BY <3>1, <3>2 DEF SessionInv, Shape, NoSession
    <3>4. initiator.waiting
      <4>1. ~Offered(m.id, m.key)
        BY <1>12, <1>13 DEF Msg2Fits
      <4>2. initiator.waiting \in BOOLEAN
        BY DEF Types, TypeOK
      <4> QED
        BY <3>1, <3>2, <3>3, <4>1, <4>2 DEF Offered, InSession
    <3>5. 1 = Len(Pipeline)
      BY <1>1, <2>1, <3>3, <3>4 DEF HeldLast
    <3>6. Len(Pipeline') + 1 = 1
      BY <1>1, <3>5, Zenon
    <3>7. Pipeline' = <<>>
      BY <3>6, OneLess DEF Executes
    <3> QED
      BY <3>1, <3>3, <3>4, <3>7
  <2>5. HeldAnswer' /\ HeldLast'
    BY <1>2, ExecutesHeld DEF Live
  <2> QED
    BY <2>2, <2>3, <2>4, <2>5
<1>19. LockStep'
  <2>1. ~InUse
    BY <1>2, ExecutesInUse DEF SessionInv, Live
  <2> QED
    BY <1>1, <2>1 DEF InUse, LockStep
<1> QED
  BY <1>8, <1>9, <1>10, <1>11, <1>16, <1>17, <1>18, <1>19 DEF SessionInv, Live

\* generate_response: the counter of the session moves, and the answer says so.
LEMMA GenerateResponseKeeps ==
  ASSUME Types, Types', SessionInv, NEW m \in R, Executes(m),
         Opens(enclave, m) /\ Fits(m.type),
         enclave' = GenerateResponse(enclave, m).enclave,
         worker'.reply = GenerateResponse(enclave, m).reply, fresh' = fresh,
         m.type \notin {"msg1", "msg2", "close"}
  PROVE  SessionInv'
<1>1. /\ Session' = Session /\ (Closing' <=> Closing) /\ initiator' = initiator /\ born' = born
      /\ worker.at = "call" /\ worker'.at = "send"
      /\ 1 \in 1 .. Len(Pipeline) /\ Pipeline[1] = m /\ Keeps(Pipeline, Pipeline')
  BY ExecutesPipe DEF Executes
<1>2. Live
  BY <1>1 DEF SessionInv
<1>3. /\ enclave' = [enclave EXCEPT !.session =
                       [enclave.session EXCEPT ![m.id].counter = @ + 1]]
      /\ worker'.reply = [type |-> "resp", id |-> m.id, key |-> m.key, nonce |-> m.nonce + 1]
  BY DEF GenerateResponse, Advance
<1>4. /\ Known(enclave) \subseteq Ids /\ Active(enclave) \subseteq Known(enclave) /\ Ids \subseteq Nat
      /\ m.id \in Active(enclave) /\ m.id \in Ids
  BY EntryTypes DEF Opens
<1>5. /\ \A i \in Ids : Entry(i)'.status = Entry(i).status /\ Entry(i)'.key = Entry(i).key
      /\ Entry(m.id)'.counter = Entry(m.id).counter + 1
      /\ enclave'.tracker = enclave.tracker /\ enclave'.count = enclave.count
  <2>1. enclave'.session = [enclave.session EXCEPT ![m.id].counter = @ + 1]
    BY <1>3 DEF Types, TypeOK, EnclaveType
  <2>2. enclave'.tracker = enclave.tracker /\ enclave'.count = enclave.count
    BY <1>3 DEF Types, TypeOK, EnclaveType
  <2>3. /\ Entry(m.id)'.status = Entry(m.id).status /\ Entry(m.id)'.key = Entry(m.id).key
        /\ Entry(m.id)'.counter = Entry(m.id).counter + 1
    <3>1. enclave.session[m.id] \in [status : SessionStatuses, key : Nat, counter : Nat]
      BY <1>4, EntryTypes
    <3>2. enclave'.session[m.id] = [enclave.session[m.id] EXCEPT !.counter = @ + 1]
      BY <1>4, <2>1, EntryTypes
    <3> QED
      BY <3>1, <3>2 DEF Entry
  <2>4. \A i \in Ids : i # m.id => Entry(i)' = Entry(i)
    BY <2>1, EntryTypes DEF Entry
  <2> QED
    BY <2>2, <2>3, <2>4
<1>6. Known(enclave)' = Known(enclave) /\ Active(enclave)' = Active(enclave)
  <2>1. ASSUME NEW i \in Ids
        PROVE  /\ i \in Known(enclave)' <=> i \in Known(enclave)
               /\ i \in Active(enclave)' <=> i \in Active(enclave)
    <3>1. Entry(i)'.status = Entry(i).status
      BY <1>5
    <3> QED
      BY <3>1, Statuses
  <2>2. Known(enclave)' \subseteq Ids /\ Active(enclave)' \subseteq Ids
    BY Statuses
  <2>3. Known(enclave) \subseteq Ids /\ Active(enclave) \subseteq Ids
    BY <1>4
  <2> QED
    BY <2>1, <2>2, <2>3
<1>7. \A i, k \in Nat : (Pending(i, k)' <=> Pending(i, k)) /\ (Opened(i, k)' <=> Opened(i, k))
  BY <1>4, <1>5, <1>6 DEF Pending, Opened
<1>8. Shape'
  BY ExecutesShape DEF SessionInv
<1>9. Counted'
  BY <1>1, <1>5, <1>6 DEF SessionInv, Counted, SlotsMatchSessions
<1>10. Keys'
  <2>1. m.key = Entry(m.id).key /\ m.id \in Known(enclave) /\ worker'.reply.key = m.key
    BY <1>3, <1>4 DEF Opens, Entry
  <2>2. born' <= worker'.reply.key /\ worker'.reply.key < fresh'
    BY <1>1, <2>1 DEF SessionInv, Keys
  <2>3. \A i \in Known(enclave) : Entry(i)'.key = Entry(i).key
    BY <1>4, <1>5
  <2> QED
    BY <1>1, <1>6, <2>2, <2>3 DEF SessionInv, Keys
<1>11. Stale'
  BY <1>1, <1>2, <1>4 DEF Live, Stale, Unused
<1>12. \A i, k \in Nat : (Offered(i, k)' => Offered(i, k)) /\ ~InReply(i, k)'
  BY <1>3, ExecutesOffers
<1>13. OffersPending'
  <2>1. worker'.reply.type # "msg3"
    BY <1>3
  <2> QED
    BY <1>1, <1>2, <1>7, <1>12, <2>1 DEF Live, OffersPending
<1>14. Msg2OK' /\ CloseOK'
  <2>1. ASSUME NEW x \in R, Msg2Fits(x)
        PROVE  Msg2Fits(x)'
    <3>1. x.id \in Nat /\ x.key \in Nat
      BY EntryTypes
    <3> QED
      BY <1>7, <1>12, <2>1, <3>1 DEF Msg2Fits
  <2>2. ASSUME NEW x \in R, CloseFits(x)
        PROVE  CloseFits(x)'
    BY <1>1, <1>4, <1>5, <1>6, <2>2 DEF CloseFits
  <2>3. Msg2OK /\ CloseOK
    BY <1>2 DEF Live
  <2> QED
    BY <1>6, <2>1, <2>2, <2>3, ExecutesBehind
<1>15. Held'
  <2> SUFFICES ASSUME born <= Session.key
               PROVE  HeldOpen' /\ HeldOnce' /\ HeldAnswer' /\ HeldReply' /\ HeldLast'
    BY <1>1 DEF Held
  <2>1. HeldOpen /\ HeldOnce
    BY <1>2 DEF Live, Held
  <2>2. HeldOpen'
    BY <1>1, <1>7, <2>1, EntryTypes DEF HeldOpen
  <2>3. HeldOnce'
    BY <1>1, <1>4, <1>5, <1>6, <2>1 DEF HeldOnce
  <2>4. HeldReply'
    BY <1>3 DEF HeldReply
  <2>5. HeldAnswer' /\ HeldLast'
    BY <1>2, ExecutesHeld DEF Live
  <2> QED
    BY <2>2, <2>3, <2>4, <2>5
<1>16. LockStep'
  <2> SUFFICES ASSUME InUse
               PROVE  LockStep'
    BY <1>1 DEF InUse, LockStep
  <2>1. /\ initiator.waiting /\ initiator.answer = NoAnswer /\ Pipeline' = <<>>
        /\ Entry(Session.id).counter = Session.counter
        /\ m.id = Session.id /\ m.key = Session.key /\ m.nonce = Session.counter
        /\ initiator.stage \notin {"msg1", "msg2"}
    BY <1>2, ExecutesOwn, ExecutesInUse DEF SessionInv, Live
  <2>2. Valid(initiator'.stage, Session', worker'.reply)
    BY <1>1, <1>3, <2>1 DEF Valid
  <2>3. Entry(Session.id)' = Entry(m.id)'
    BY <1>1, <2>1 DEF Entry
  <2>4. Asked'
    BY <1>1, <1>5, <2>1, <2>2, <2>3 DEF Asked, Ahead
  <2> QED
    BY <1>1, <2>1, <2>4 DEF LockStep, NoAnswer
<1> QED
  BY <1>8, <1>9, <1>10, <1>11, <1>13, <1>14, <1>15, <1>16 DEF SessionInv, Live

\* end_session of an open session: its slot is free, and the count is right.
LEMMA EndSessionKeeps ==
  ASSUME Types, Types', SessionInv, NEW m \in R, Executes(m), m.type = "close",
         CloseFits(m),
         enclave' = CloseRequest(enclave, m).enclave,
         worker'.reply = CloseRequest(enclave, m).reply, fresh' = fresh
  PROVE  SessionInv'
<1>1. /\ Session' = Session /\ (Closing' <=> Closing) /\ initiator' = initiator /\ born' = born
      /\ worker.at = "call" /\ worker'.at = "send"
      /\ 1 \in 1 .. Len(Pipeline) /\ Pipeline[1] = m /\ Keeps(Pipeline, Pipeline')
  BY ExecutesPipe DEF Executes
<1>2. Live
  BY <1>1 DEF SessionInv
<1>3. /\ Known(enclave) \subseteq Ids /\ Active(enclave) \subseteq Known(enclave) /\ Ids \subseteq Nat
      /\ m.id \in Active(enclave) /\ m.id \in Known(enclave) /\ m.id \in Ids
  BY EntryTypes DEF CloseFits
<1>4. enclave.tracker = Known(enclave) /\ enclave.count = Cardinality(Active(enclave))
  BY DEF SessionInv, Counted, SlotsMatchSessions
<1>5. /\ Cardinality(Active(enclave) \ {m.id}) = Cardinality(Active(enclave)) - 1
      /\ Cardinality(Active(enclave)) \in Nat \ {0}
  <2>1. IsFiniteSet(Active(enclave))
    BY ActiveFinite
  <2>2. Cardinality(Active(enclave) \ {m.id}) = Cardinality(Active(enclave)) - 1
    BY <1>3, <2>1, FS_RemoveElement
  <2>3. Cardinality(Active(enclave)) \in Nat
    BY <2>1, FS_CardinalityType
  <2>4. Cardinality(Active(enclave)) # 0
    BY <1>3, <2>1, FS_EmptySet
  <2> QED
    BY <2>2, <2>3, <2>4
<1>6. /\ enclave' = [tracker |-> enclave.tracker \ {m.id},
                     session |-> [enclave.session EXCEPT ![m.id] = Absent],
                     count   |-> enclave.count - 1]
      /\ worker'.reply = Zeroed("ack")
  <2>1. enclave.count > 0
    BY <1>4, <1>5
  <2> QED
    BY <1>3, <1>4, <2>1 DEF CloseRequest, EndSession
<1>7. worker'.reply.type = "ack" /\ worker'.reply.key = 0
  BY <1>6 DEF Zeroed
<1>8. /\ Entry(m.id)'.status = "absent"
      /\ \A i \in Ids : i # m.id => Entry(i)' = Entry(i)
  BY <1>3, <1>6, EntryTypes DEF Entry, Absent
<1>9. /\ Known(enclave)' = Known(enclave) \ {m.id} /\ Active(enclave)' = Active(enclave) \ {m.id}
  <2>1. m.id \notin Known(enclave)' /\ m.id \notin Active(enclave)'
    BY <1>3, <1>8, Statuses
  <2>2. ASSUME NEW i \in Ids, i # m.id
        PROVE  /\ i \in Known(enclave)' <=> i \in Known(enclave)
               /\ i \in Active(enclave)' <=> i \in Active(enclave)
    BY <1>8, <2>2, Statuses
  <2> QED
    BY <1>3, <2>1, <2>2, Statuses
<1>10. \A i \in Known(enclave)' : i \in Known(enclave) /\ Entry(i)' = Entry(i)
  BY <1>3, <1>8, <1>9
<1>11. Shape'
  BY ExecutesShape DEF SessionInv
<1>12. Counted'
  <2>1. enclave'.tracker = enclave.tracker \ {m.id} /\ enclave'.count = enclave.count - 1
    BY <1>6
  <2> QED
    BY <1>1, <1>4, <1>5, <1>9, <2>1 DEF Counted, SlotsMatchSessions
<1>13. Keys'
  BY <1>1, <1>7, <1>10 DEF SessionInv, Keys
<1>14. Stale'
  BY <1>1, <1>2, <1>3 DEF Live, Stale, Unused
<1>15. \A i, k \in Nat : (Offered(i, k)' => Offered(i, k)) /\ ~InReply(i, k)'
  BY <1>7, ExecutesOffers
<1>16. \A i, k \in Nat : Pending(i, k) => Pending(i, k)'
  <2>1. Entry(m.id).status = "active"
    BY <1>3, Statuses
  <2>2. ASSUME NEW i \in Nat, NEW k \in Nat, Pending(i, k)
        PROVE  Pending(i, k)'
    <3>1. i # m.id
      BY <2>1, <2>2 DEF Pending
    <3> QED
      BY <1>8, <2>2, <3>1 DEF Pending
  <2> QED
    BY <2>2
<1>17. OffersPending'
  BY <1>1, <1>2, <1>7, <1>15, <1>16 DEF Live, OffersPending
<1>18. Msg2OK' /\ CloseOK'
  <2>1. ASSUME NEW x \in R, Msg2Fits(x)
        PROVE  Msg2Fits(x)'
    <3>1. x.id \in Nat /\ x.key \in Nat
      BY EntryTypes
    <3> QED
      BY <1>15, <1>16, <2>1, <3>1 DEF Msg2Fits
  <2>2. ASSUME NEW x \in R, CloseFits(x), ~(m.type = "close" /\ m.id = x.id)
        PROVE  CloseFits(x)'
    <3>1. x.id \in Active(enclave) /\ x.id \in Ids /\ x.id # m.id
      BY <1>3, <2>2 DEF CloseFits
    <3>2. Entry(x.id)' = Entry(x.id) /\ x.id \in Active(enclave)'
      BY <1>8, <1>9, <3>1
    <3> QED
      BY <1>1, <2>2, <3>2 DEF CloseFits
  <2>3. Msg2OK /\ CloseOK
    BY <1>2 DEF Live
  <2> QED
    BY <1>9, <2>1, <2>2, <2>3, ExecutesBehind
<1>19. Held'
  <2> SUFFICES ASSUME born <= Session.key
               PROVE  HeldOpen' /\ HeldOnce' /\ HeldAnswer' /\ HeldReply' /\ HeldLast'
    BY <1>1 DEF Held
  <2>1. HeldOpen /\ HeldOnce
    BY <1>2 DEF Live, Held
  <2>2. HeldOpen'
    <3> SUFFICES ASSUME Session.status = "active", ~Closing
                 PROVE  Opened(Session.id, Session.key)'
      BY <1>1 DEF HeldOpen
    <3>1. Opened(Session.id, Session.key)
      BY <2>1 DEF HeldOpen
    <3>2. Session.id # m.id
      BY <3>1 DEF CloseFits, Opened
    <3>3. Session.id \in Active(enclave)' /\ Session.id \in Ids
      BY <1>3, <1>9, <3>1, <3>2 DEF Opened
    <3>4. Entry(Session.id)' = enclave'.session[Session.id] /\ Entry(Session.id) = enclave.session[Session.id]
      BY <1>1 DEF Entry
    <3>5. Entry(Session.id)' = Entry(Session.id)
      BY <1>8, <3>2, <3>3, <3>4 DEF Entry
    <3> QED
      BY <1>1, <3>1, <3>3, <3>5 DEF Opened
  <2>3. HeldOnce'
    <3> SUFFICES ASSUME NEW i \in Known(enclave)', Entry(i)'.key = Session.key
                 PROVE  i = Session.id /\ (Session.status = "active" => i \in Active(enclave)')
      BY <1>1 DEF HeldOnce
    <3>1. i \in Known(enclave) /\ i # m.id /\ Entry(i).key = Session.key
      BY <1>9, <1>10
    <3> QED
      BY <1>9, <2>1, <3>1 DEF HeldOnce
  <2>4. HeldReply'
    BY <1>7 DEF HeldReply
  <2>5. HeldAnswer' /\ HeldLast'
    BY <1>2, ExecutesHeld DEF Live
  <2> QED
    BY <2>2, <2>3, <2>4, <2>5
<1>20. LockStep'
  <2>1. ~InUse
    BY <1>2, ExecutesInUse DEF SessionInv, Live
  <2> QED
    BY <1>1, <2>1 DEF InUse, LockStep
<1> QED
  BY <1>11, <1>12, <1>13, <1>14, <1>17, <1>18, <1>19, <1>20 DEF SessionInv, Live

\* An ECALL of the worker (CPTask::run).
LEMMA CallKeeps ==
  ASSUME Types, Types', SessionInv,
         CallSessionRequest \/ CallExchangeReport \/ CallGenerateResponse \/ CallEndSession
  PROVE  SessionInv'
<1>1. /\ worker.at = "call" /\ worker'.at = "send" /\ queue' = queue /\ server' = server
      /\ conn' = conn /\ backlog' = backlog /\ initiator' = initiator /\ born' = born
  BY DEF CallSessionRequest, CallExchangeReport, CallGenerateResponse, CallEndSession, Call,
         Types, Workers
<1>2. /\ Pipeline = <<worker.task.req>> \o Pipeline' /\ Pipeline' \in Seq(R)
      /\ worker.task.req \in R
  BY <1>1, CallExecutes
<1> PICK m \in R : m = worker.task.req
  BY <1>2
<1>3. Executes(m)
  BY <1>1, <1>2 DEF Executes
<1>4. /\ 1 \in 1 .. Len(Pipeline) /\ Pipeline[1] = m
      /\ Live
  BY <1>1, <1>3, ExecutesPipe DEF SessionInv
<1>5. CASE CallSessionRequest
  <2>1. /\ enclave' = SessionRequest(enclave, fresh).enclave /\ fresh' = fresh + 1
        /\ worker'.reply = SessionRequest(enclave, fresh).reply /\ m.type = "msg1"
    BY <1>5 DEF CallSessionRequest, Call, Types, Workers
  <2>2. CASE Ids \subseteq enclave.tracker
    <3>1. enclave' = enclave /\ worker'.reply.key = 0
      BY <2>1, <2>2 DEF SessionRequest, Zeroed
    <3> QED
      BY <1>3, <2>1, <3>1, FailedCallKeeps
  <2>3. CASE ~(Ids \subseteq enclave.tracker)
    <3>1. FreeId(enclave) \in Ids
      BY <2>3, FreeIdIsFree DEF Types, TypeOK
    <3>2. PICK new \in Ids : new = FreeId(enclave)
      BY <3>1
    <3> QED
      BY <1>3, <2>1, <2>3, <3>2, SessionRequestKeeps
  <2> QED
    BY <2>2, <2>3
<1>6. CASE CallExchangeReport
  <2>1. /\ enclave' = ExchangeReport(enclave, m).enclave /\ fresh' = fresh
        /\ worker'.reply = ExchangeReport(enclave, m).reply /\ m.type = "msg2"
    BY <1>6 DEF CallExchangeReport, Call, Types, Workers
  <2>2. CASE m.id \in Known(enclave) /\ Entry(m.id).status = "inProgress" /\ Entry(m.id).key = m.key
    BY <1>3, <2>1, <2>2, ExchangeReportKeeps
  <2>3. CASE ~(m.id \in Known(enclave) /\ Entry(m.id).status = "inProgress" /\ Entry(m.id).key = m.key)
    <3>1. m.id \notin Known(enclave)
      <4>1. m.id \notin Known(enclave) \/ Msg2Fits(m)
        BY <1>4, <2>1 DEF Live, Msg2OK
      <4>2. Pending(m.id, m.key) => m.id \in Known(enclave)
        BY DEF Pending, Known, Entry
      <4> QED
        BY <2>3, <4>1, <4>2 DEF Msg2Fits, Pending
    <3>2. enclave' = enclave /\ worker'.reply.key = 0
      BY <2>1, <3>1 DEF ExchangeReport, EndSession, Zeroed
    <3> QED
      BY <1>3, <2>1, <3>2, FailedCallKeeps
  <2> QED
    BY <2>2, <2>3
<1>7. CASE CallGenerateResponse
  <2>1. /\ enclave' = GenerateResponse(enclave, m).enclave /\ fresh' = fresh
        /\ worker'.reply = GenerateResponse(enclave, m).reply
        /\ m.type \notin {"msg1", "msg2", "close"}
    BY <1>7 DEF CallGenerateResponse, Call, Types, Workers
  <2>2. CASE Opens(enclave, m) /\ Fits(m.type)
    BY <1>3, <2>1, <2>2, GenerateResponseKeeps
  <2>3. CASE ~(Opens(enclave, m) /\ Fits(m.type))
    <3>1. enclave' = enclave /\ worker'.reply.key = 0
      BY <2>1, <2>3 DEF GenerateResponse, Zeroed
    <3> QED
      BY <1>3, <2>1, <3>1, FailedCallKeeps
  <2> QED
    BY <2>2, <2>3
<1>8. CASE CallEndSession
  <2>1. /\ enclave' = CloseRequest(enclave, m).enclave /\ fresh' = fresh
        /\ worker'.reply = CloseRequest(enclave, m).reply /\ m.type = "close"
    BY <1>8 DEF CallEndSession, Call, Types, Workers
  <2>2. CASE CloseFits(m)
    BY <1>3, <2>1, <2>2, EndSessionKeeps
  <2>3. CASE ~CloseFits(m)
    <3>1. m.id \notin Known(enclave)
      BY <1>4, <2>1, <2>3 DEF Live, CloseOK
    <3>2. enclave' = enclave /\ worker'.reply.key = 0
      BY <2>1, <3>1 DEF CloseRequest, EndSession, Zeroed
    <3> QED
      BY <1>3, <2>1, <3>2, FailedCallKeeps
  <2> QED
    BY <2>2, <2>3
<1> QED
  BY <1>5, <1>6, <1>7, <1>8

-----------------------------------------------------------------------------
(* The end of the worker, of the process, and a new one *)

\* What SessionInv says of an enclave that has been destroyed.
LEMMA EmptyCounted ==
  ASSUME enclave' = EmptyEnclave, worker'.at = "exited"
  PROVE  Counted' /\ Known(enclave)' = {}
<1>1. \A i \in Ids : enclave'.session[i].status = "absent"
  BY DEF EmptyEnclave, Absent
<1>2. Known(enclave)' = {} /\ Active(enclave)' = {}
  BY <1>1 DEF Known, Active
<1>3. enclave'.tracker = {} /\ enclave'.count = 0
  BY DEF EmptyEnclave
<1> QED
  BY <1>2, <1>3, FS_EmptySet DEF Counted, SlotsMatchSessions

\* Once the worker has ended, only the initiator's own state is of interest.
LEMMA EndedKeeps ==
  ASSUME Types, Types', SessionInv, enclave' = EmptyEnclave, worker'.at = "exited",
         Shape', UNCHANGED <<fresh, born>>, Session'.key \in {Session.key, 0},
         \A r \in initiator'.answer : r \in initiator.answer \/ r.key = 0
  PROVE  SessionInv'
<1>1. Counted' /\ Known(enclave)' = {}
  BY EmptyCounted
<1>2. 0 < fresh
  BY EntryTypes DEF SessionInv, Keys
<1>3. Keys'
  BY <1>1, <1>2 DEF SessionInv, Keys
<1> QED
  BY <1>1, <1>3 DEF SessionInv

\* The process ends, with its connections (signal_handler, a crash, SIGPIPE).
LEMMA DieKeeps ==
  ASSUME Types, Types', SessionInv, Die, UNCHANGED <<fresh, born>>
  PROVE  SessionInv'
<1>1. /\ enclave' = EmptyEnclave /\ worker'.at = "exited" /\ initiator' = Ended(initiator)
      /\ Len(backlog') = 0 /\ \A f \in Slots : ~conn'[f].live
  BY DEF Die, Worker, NoConn
<1>2. /\ initiator'.stage = initiator.stage /\ Session' = Session
      /\ initiator'.waiting = initiator.waiting
      /\ initiator'.answer = initiator.answer \/ (initiator'.answer = Eof /\ initiator.waiting)
  BY <1>1 DEF Ended, Session, Types, Initiators
<1>3. Shape'
  BY <1>1, <1>2 DEF SessionInv, Shape
<1>4. \A r \in initiator'.answer : r \in initiator.answer \/ r.key = 0
  BY <1>2 DEF Eof, Zeroed
<1> QED
  BY <1>1, <1>2, <1>3, <1>4, EndedKeeps

\* The worker leaves its loop, and the enclave is destroyed (CPTask::run).
LEMMA ExitedKeeps ==
  ASSUME Types, Types', SessionInv, Exited, UNCHANGED <<fresh, born, initiator, backlog, conn>>
  PROVE  SessionInv'
<1>1. enclave' = EmptyEnclave /\ worker'.at = "exited" /\ Session' = Session
  BY DEF Exited, Worker, Session
<1>2. Shape'
  BY <1>1 DEF SessionInv, Shape
<1> QED
  BY <1>1, <1>2, EndedKeeps

\* A new process: it has no session, and nobody has asked it for one.
LEMMA RestartKeeps ==
  ASSUME Types, Types', Discipline, SessionInv, Restart
  PROVE  SessionInv'
<1>1. /\ worker.at = "exited" /\ worker'.at = "head" /\ born' = fresh
      /\ UNCHANGED <<enclave, fresh, backlog, conn, initiator>>
      /\ Session' = Session /\ (Closing' <=> Closing)
  BY DEF Restart, Discipline, Worker, Session, Closing
<1>2. Pipeline' = <<>>
  BY RestartPipeline
<1>3. enclave' = EmptyEnclave
  BY <1>1 DEF SessionInv, Counted
<1>4. \A i \in Ids : Entry(i)'.status = "absent"
  BY <1>3 DEF EmptyEnclave, Absent, Entry
<1>5. Known(enclave)' = {} /\ Active(enclave)' = {} /\ Known(enclave) = {} /\ Active(enclave) = {}
  BY <1>1, <1>4, Statuses DEF Known, Active
<1>6. /\ fresh \in Nat /\ Session.key \in Nat /\ Session.key < fresh
      /\ \A r \in initiator.answer : r.key \in Nat /\ r.key < fresh
  BY EntryTypes DEF SessionInv, Keys, Types, Initiators, Answers, NoAnswer, Eof, Zeroed, Message
<1>7. Shape'
  BY <1>1 DEF SessionInv, Shape
<1>8. Counted'
  BY <1>1, <1>5 DEF SessionInv, Counted, SlotsMatchSessions
<1>9. Keys'
  <2>1. 0 < born' /\ born' <= fresh'
    BY <1>1, <1>6
  <2> QED
    BY <1>1, <1>5, <1>6, <2>1 DEF Keys
<1>10. Stale'
  BY <1>2, <1>5 DEF Stale, Unused
<1>11. OffersPending'
  <2>1. \A i, k \in Nat : ~InReply(i, k)'
    BY <1>1 DEF InReply
  <2>2. ASSUME NEW i \in Nat, NEW k \in Nat, Offered(i, k)'
        PROVE  k < fresh
    BY <1>1, <1>6, <2>1, <2>2 DEF Offered, InAnswer, InSession
  <2> QED
    BY <1>1, <1>6, <2>1, <2>2 DEF OffersPending
<1>12. Msg2OK' /\ CloseOK'
  BY <1>2 DEF Msg2OK, CloseOK
<1>13. Held' /\ LockStep'
  BY <1>1, <1>6 DEF Held, LockStep, InUse
<1> QED
  BY <1>7, <1>8, <1>9, <1>10, <1>11, <1>12, <1>13 DEF SessionInv, Live

-----------------------------------------------------------------------------
(* The steps of the threads *)

\* A server that accepts, reads or closes moves a live connection, or ends one.
LEMMA ConnectionsKept ==
  ASSUME Types, Shape, Select \/ Accept \/ Push \/ \E f \in Slots : Receive(f) \/ Hangup(f)
  PROVE  /\ \A f \in Slots : conn'[f].live => initiator.waiting
         /\ \A j \in 1 .. Len(backlog') : backlog'[j].live => initiator.waiting
<1>1. /\ \A f \in Slots : conn[f].live => initiator.waiting
      /\ \A j \in 1 .. Len(backlog) : backlog[j].live => initiator.waiting
  BY DEF Shape
<1>2. CASE Select \/ Push
  BY <1>1, <1>2 DEF Select, Push
<1>3. CASE Accept
  <2> DEFINE f == CHOOSE f \in FreeSlots : \A g \in FreeSlots : f <= g
  <2>1. /\ backlog \in Seq(Connections) /\ backlog # <<>> /\ backlog' = Tail(backlog)
        /\ conn' = [conn EXCEPT ![f] = Head(backlog)]
    BY <1>3 DEF Accept, Types, TypeOK
  <2>2. /\ Head(backlog).live => initiator.waiting
        /\ \A j \in 1 .. Len(backlog') : backlog'[j].live => initiator.waiting
    <3>1. /\ Len(backlog) \in Nat \ {0} /\ Head(backlog) = backlog[1]
          /\ Len(Tail(backlog)) = Len(backlog) - 1
          /\ \A j \in 1 .. Len(Tail(backlog)) : Tail(backlog)[j] = backlog[j + 1]
      BY <2>1, HeadTailProperties, EmptySeq
    <3>2. \A j \in 1 .. Len(Tail(backlog)) : j + 1 \in 1 .. Len(backlog)
      BY <3>1
    <3> QED
      BY <1>1, <2>1, <3>1, <3>2
  <2> HIDE DEF f
  <2>3. \A g \in Slots : conn'[g] = conn[g] \/ conn'[g] = Head(backlog)
    BY <2>1 DEF Types, TypeOK
  <2> QED
    BY <1>1, <2>2, <2>3
<1>4. ASSUME NEW f \in Slots, Receive(f) \/ Hangup(f)
      PROVE  /\ \A g \in Slots : conn'[g].live => initiator.waiting
             /\ \A j \in 1 .. Len(backlog') : backlog'[j].live => initiator.waiting
  <2>1. \A g \in Slots : conn'[g].live => conn[g].live
    <3>1. conn \in [Slots -> Connections]
      BY DEF Types, TypeOK
    <3>2. CASE Receive(f)
      BY <3>1, <3>2 DEF Receive, Connections
    <3>3. CASE Hangup(f)
      <4>1. conn' = [conn EXCEPT ![f] = NoConn] /\ ~NoConn.live
        BY <3>3 DEF Hangup, NoConn
      <4> QED
        BY <3>1, <4>1
    <3> QED
      BY <1>4, <3>2, <3>3
  <2> QED
    BY <1>1, <1>4, <2>1 DEF Receive, Hangup
<1> QED
  BY <1>2, <1>3, <1>4

\* The server thread (CPServer::doWork, Queue::push).
LEMMA ServerKeeps ==
  ASSUME Types, Types', Discipline, SessionInv, Server
  PROVE  SessionInv'
<1>1. Shape
  BY DEF SessionInv
<1>2. CASE Refuse
  <2>1. CASE ~Head(backlog).live
    BY <1>2, <2>1, DieKeeps DEF Refuse
  <2>2. CASE Head(backlog).live
    <3>1. /\ UNCHANGED <<enclave, fresh, born, worker, conn>> /\ backlog' = Tail(backlog)
          /\ backlog \in Seq(Connections) /\ backlog # <<>>
          /\ initiator' = IF initiator.answer = NoAnswer
                          THEN [initiator EXCEPT !.answer = {Zeroed("full")}] ELSE initiator
      BY <1>2, <2>2 DEF Refuse, Types, TypeOK
    <3>2. /\ initiator.waiting
          /\ \A j \in 1 .. Len(backlog') : backlog'[j].live => initiator.waiting
      <4>1. Head(backlog) = backlog[1] /\ 1 \in 1 .. Len(backlog)
        BY <3>1
      <4> QED
        BY <1>1, <2>2, <4>1 DEF Shape
    <3>3. CASE worker.at # "exited"
      <4>1. Drops(Pipeline, Pipeline')
        BY <1>2, <2>2, <3>3, RefusePipeline
      <4>2. \A f \in Slots : conn'[f].live => initiator.waiting
        BY <1>1, <3>1 DEF Shape
      <4> QED
        BY <3>1, <3>2, <3>3, <4>1, <4>2, DroppedKeeps
    <3>4. CASE worker.at = "exited"
      <4>1. /\ initiator'.stage = initiator.stage /\ initiator'.waiting = initiator.waiting
            /\ Session' = Session
            /\ \A r \in initiator'.answer : r \in initiator.answer \/ r.key = 0
        BY <3>1 DEF Session, Zeroed, Types, Initiators
      <4>2. enclave' = EmptyEnclave
        BY <3>1, <3>4 DEF SessionInv, Counted
      <4>3. Shape'
        BY <1>1, <3>1, <3>2, <4>1 DEF Shape
      <4> QED
        BY <3>1, <3>4, <4>1, <4>2, <4>3, EndedKeeps
    <3> QED
      BY <3>3, <3>4
  <2> QED
    BY <2>1, <2>2
<1>3. ASSUME Select \/ Accept \/ Push \/ \E f \in Slots : Receive(f) \/ Hangup(f),
             Pipeline' = Pipeline
      PROVE  SessionInv'
  <2>1. UNCHANGED <<enclave, fresh, born, worker, initiator>>
    BY <1>3 DEF Select, Accept, Push, Receive, Hangup
  <2> QED
    BY <1>1, <1>3, <2>1, ConnectionsKept, QuietKeeps
<1>4. CASE Select \/ Accept \/ Push \/ \E f \in Slots : Hangup(f)
  <2>1. Pipeline' = Pipeline
    BY <1>4, SelectForwards, AcceptForwards, PushForwards, HangupForwards
  <2> QED
    BY <1>3, <1>4, <2>1
<1>5. ASSUME NEW f \in Slots, Receive(f)
      PROVE  SessionInv'
  <2>1. UNCHANGED <<enclave, fresh, born, worker, initiator>>
    BY <1>5 DEF Receive
  <2>2. CASE worker.at = "exited"
    <3>1. Pipeline' = Pipeline
      BY <2>1, <2>2 DEF Pipeline
    <3> QED
      BY <1>3, <1>5, <3>1
  <2>3. CASE worker.at # "exited" /\ phase = "serving"
    BY <1>3, <1>5, <2>3, ReceivePipeline
  <2>4. CASE worker.at # "exited" /\ phase # "serving"
    <3>1. Drops(Pipeline, Pipeline')
      BY <1>5, <2>4, ReceivePipeline
    <3> QED
      BY <1>1, <1>5, <2>1, <2>4, <3>1, ConnectionsKept, DroppedKeeps
  <2> QED
    BY <2>2, <2>3, <2>4
<1> QED
  BY <1>2, <1>4, <1>5 DEF Server

\* The worker thread (CPTask::run).
LEMMA WorkerKeeps ==
  ASSUME Types, Types', Discipline, Taken, SessionInv, WorkerStep
  PROVE  SessionInv'
<1>1. /\ \A f \in Slots : conn[f].live => initiator.waiting
      /\ \A j \in 1 .. Len(backlog) : backlog[j].live => initiator.waiting
  BY DEF SessionInv, Shape
<1>2. CASE LoopTest /\ phase = "serving"
  <2>1. /\ UNCHANGED <<enclave, fresh, born, initiator, queue, server, conn, backlog>>
        /\ worker.at = "head" /\ worker'.at = "pop"
    BY <1>2 DEF LoopTest, Worker
  <2>2. Pipeline' = Pipeline
    BY <2>1, PipelineUntouched
  <2> QED
    BY <1>1, <2>1, <2>2, QuietKeeps
<1>3. CASE Pop /\ phase = "serving"
  <2>1. /\ UNCHANGED <<enclave, fresh, born, initiator, conn, backlog>>
        /\ worker.at = "pop" /\ worker'.at = "call"
    BY <1>3 DEF Pop, Worker
  <2>2. Pipeline' = Pipeline
    BY <1>3, PopForwards
  <2> QED
    BY <1>1, <2>1, <2>2, QuietKeeps
<1>4. CASE \/ LoopTest /\ phase # "serving"
           \/ Pop /\ phase # "serving"
           \/ PopClosed
  <2>1. Exited /\ UNCHANGED <<fresh, born, initiator, backlog, conn>>
    BY <1>4 DEF LoopTest, Pop, PopClosed
  <2> QED
    BY <2>1, ExitedKeeps
<1>5. CASE CallSessionRequest \/ CallExchangeReport \/ CallGenerateResponse \/ CallEndSession
  BY <1>5, CallKeeps
<1>6. CASE Send
  <2>1. /\ UNCHANGED <<queue, server, conn, backlog>>
        /\ worker.at = "send" /\ worker'.at = "head"
    BY <1>6 DEF Send, Worker
  <2>2. Pipeline' = Pipeline
    BY <2>1, PipelineUntouched
  <2> QED
    BY <1>6, <2>2, SendKeeps
<1>7. CASE SendDead
  BY <1>7, DieKeeps DEF SendDead
<1> QED
  BY <1>2, <1>3, <1>4, <1>5, <1>6, <1>7 DEF WorkerStep

-----------------------------------------------------------------------------
(* The steps of the initiator *)

\* The initiator goes on to its next request, or gives up, while the responder
\* does nothing (send_request_receive_response, create_session, func2).
LEMMA MoveKeeps ==
  ASSUME Types, Types', SessionInv, Pipeline' = Pipeline,
         UNCHANGED <<enclave, fresh, born, worker>>,
         initiator'.answer = NoAnswer, Shape', Session'.key < fresh, ClaimsKept,
         worker.at # "exited" =>
           /\ Session'.key # 0 /\ Session'.key < born => Unused
           /\ \A id, k \in Nat : InReply(id, k) /\ k # 0 => Session'.key # k
           /\ Held' /\ LockStep'
  PROVE  SessionInv'
<1>1. \A i : Entry(i)' = Entry(i)
  BY SameEntries
<1>2. \A r \in initiator'.answer : FALSE
  BY DEF NoAnswer
<1>3. Counted'
  BY DEF SessionInv, Counted, SlotsMatchSessions, Known, Active
<1>4. Keys'
  BY <1>1, <1>2 DEF SessionInv, Keys, Known
<1>5. SUFFICES ASSUME worker.at # "exited" PROVE Live'
  BY <1>3, <1>4 DEF SessionInv
<1>6. Keeps(Pipeline, Pipeline')
  BY KeepsAll, EntryTypes
<1>7. Stale'
  BY <1>2, <1>5, <1>6, UnusedKept DEF Stale
<1>8. \A id, k \in Nat : (Offered(id, k)' => Offered(id, k)) /\ (InReply(id, k)' <=> InReply(id, k))
  BY DEF ClaimsKept, InReply
<1>9. OffersPending'
  BY <1>2, <1>5, <1>8, SameEntries DEF SessionInv, Live, OffersPending
<1>10. Msg2OK' /\ CloseOK'
  BY <1>5, <1>6, PipeKept DEF SessionInv, Live
<1> QED
  BY <1>5, <1>7, <1>9, <1>10 DEF Live

\* A call of func2 begins, or has ended, in success or not: no session is held.
LEMMA ForgetKeeps ==
  ASSUME Types, Types', SessionInv, Pipeline' = Pipeline,
         UNCHANGED <<enclave, fresh, born, worker>>,
         Session' = NoSession, initiator'.stage \in {"idle", "msg1"},
         ~initiator'.waiting, initiator'.answer = NoAnswer,
         \A f \in Slots : ~conn'[f].live,
         \A j \in 1 .. Len(backlog') : ~backlog'[j].live
  PROVE  SessionInv'
<1>1. Session'.key = 0 /\ Session'.status = "absent" /\ 0 < fresh /\ 0 < born
  BY EntryTypes DEF NoSession, SessionInv, Keys
<1>2. Shape'
  BY DEF Shape
<1>3. ClaimsKept
  <2>1. \A id, k \in Nat : Offered(id, k)' => Offered(id, k)
    BY DEF Offered, InReply, InAnswer, InSession, NoAnswer
  <2> QED
    BY <1>1, <2>1 DEF ClaimsKept
<1>4. Held' /\ LockStep'
  <2>1. ~(born' <= Session'.key)
    BY <1>1, EntryTypes
  <2> QED
    BY <1>1, <2>1 DEF Held, LockStep, InUse
<1> QED
  BY <1>1, <1>2, <1>3, <1>4, MoveKeeps

\* The connections of a requester that has its answer are not live.
LEMMA NoneLive ==
  ASSUME Types, AbandonAll
  PROVE  /\ \A f \in Slots : ~conn'[f].live
         /\ \A j \in 1 .. Len(backlog') : ~backlog'[j].live
<1>1. \A c \in Connections : ~Abandoned(c).live
  BY DEF Abandoned, Connections
<1>2. \A f \in Slots : ~conn'[f].live
  BY <1>1 DEF AbandonAll, Types, TypeOK
<1>3. \A j \in 1 .. Len(backlog') : ~backlog'[j].live
  <2>1. /\ Len(backlog') = Len(backlog)
        /\ \A k \in 1 .. Len(backlog) : backlog'[k] = Abandoned(backlog[k])
    BY AbandonTypes
  <2>2. \A k \in 1 .. Len(backlog) : backlog[k] \in Connections
    BY DEF Types, TypeOK
  <2> QED
    BY <1>1, <2>1, <2>2
<1> QED
  BY <1>2, <1>3

\* They keep what was asked.
LEMMA AbandonPipeline ==
  ASSUME Types, Discipline, AbandonAll, server' = server, worker' = worker, queue' = queue
  PROVE  Pipeline' = Pipeline
<1>1. Reported' = Reported /\ Accepted' = Accepted /\ Pushed' = Pushed /\ Waiting' = Waiting
  BY AbandonKeeps, ServerUntouched DEF ServerStays
<1>2. InHand' = InHand /\ Queued' = Queued
  BY DEF InHand, One, Queued
<1> QED
  BY <1>1, <1>2 DEF Pipeline

\* The answer to msg1 is an offer: the initiator takes it (dh_initiator_proc_msg1).
LEMMA OfferTaken ==
  ASSUME Types, Types', SessionInv, Pipeline' = Pipeline, Shape',
         UNCHANGED <<enclave, fresh, born, worker>>,
         initiator.stage = "msg1", initiator.waiting,
         NEW r \in initiator.answer, r.type = "msg1", r.key # 0, r.key \in Nat, r.id \in Nat,
         initiator'.stage = "msg2", ~initiator'.waiting, initiator'.answer = NoAnswer,
         Session' = [NoSession EXCEPT !.id = r.id, !.key = r.key]
  PROVE  SessionInv'
<1>1. Session'.id = r.id /\ Session'.key = r.key /\ Session'.status = "absent"
  BY DEF NoSession
<1>2. Offered(r.id, r.key) /\ r.key < fresh
  BY DEF Offered, InAnswer, SessionInv, Keys
<1>3. ClaimsKept
  <2>1. ASSUME NEW id \in Nat, NEW k \in Nat, Offered(id, k)'
        PROVE  Offered(id, k)
    <3>1. k # 0 /\ (InReply(id, k)' \/ InAnswer(id, k)' \/ InSession(id, k)')
      BY <2>1 DEF Offered
    <3>2. ~InAnswer(id, k)'
      BY DEF InAnswer
    <3>3. CASE InReply(id, k)'
      BY <3>1, <3>3 DEF Offered, InReply
    <3>4. CASE InSession(id, k)'
      BY <1>1, <1>2, <3>4 DEF InSession
    <3> QED
      BY <3>1, <3>2, <3>3, <3>4
  <2> QED
    BY <1>1, <1>2, <2>1 DEF ClaimsKept
<1>4. SUFFICES ASSUME worker.at # "exited"
               PROVE  /\ Session'.key # 0 /\ Session'.key < born => Unused
                      /\ \A id, k \in Nat : InReply(id, k) /\ k # 0 => Session'.key # k
                      /\ Held' /\ LockStep'
  BY <1>1, <1>2, <1>3, MoveKeeps
<1>5. Stale /\ OffersPending
  BY <1>4 DEF SessionInv, Live
<1>6. r.key < born => Unused
  BY <1>5 DEF Stale
<1>7. \A id, k \in Nat : InReply(id, k) /\ k # 0 => r.key # k
  BY <1>5 DEF OffersPending
<1>8. ASSUME born <= r.key
      PROVE  HeldOnce'
  <2>1. Pending(r.id, r.key)
    BY <1>2, <1>5, <1>8 DEF OffersPending
  <2>2. r.id \in Known(enclave) /\ Entry(r.id).key = r.key
    BY <2>1 DEF Pending, Known, Entry
  <2>3. \A i \in Known(enclave) : Entry(i).key = r.key => i = r.id
    BY <2>2 DEF SessionInv, Keys
  <2> QED
    BY <1>1, <2>3, SameEntries DEF HeldOnce
<1>9. HeldOpen' /\ HeldAnswer' /\ HeldLast'
  BY <1>1 DEF HeldOpen, HeldAnswer, HeldLast, NoAnswer
<1>10. HeldReply'
  BY <1>1, <1>2, <1>5 DEF OffersPending, HeldReply
<1> QED
  BY <1>1, <1>6, <1>7, <1>8, <1>9, <1>10 DEF Held, LockStep, InUse

\* The answer to msg2, or to a secured message: the session is open, and its
\* counter moves when the answer can be verified (send_request_receive_response).
LEMMA ReplyTaken ==
  ASSUME Types, Types', SessionInv, Pipeline' = Pipeline, Shape',
         UNCHANGED <<enclave, fresh, born, worker>>,
         initiator.stage \notin {"idle", "msg1", "close", "closeFailed"}, initiator.waiting,
         NEW r \in initiator.answer,
         initiator.stage = "msg2" => Valid(initiator.stage, Session, r),
         initiator'.stage \notin {"idle", "msg1", "msg2"},
         ~initiator'.waiting, initiator'.answer = NoAnswer,
         Session' = IF Valid(initiator.stage, Session, r)
                    THEN Established(initiator.stage, Session, r) ELSE Session
  PROVE  SessionInv'
<1>1. Session \in Sessions
  BY DEF Types, Initiators, Session
<1>2. /\ Session'.id = Session.id /\ Session'.key = Session.key /\ Session'.status = "active"
      /\ initiator.stage = "msg2" => Session'.counter = Session.counter
      /\ initiator.stage # "msg2" => /\ Session'.counter = Session.counter + Ahead(r)
                                     /\ Session.status = "active"
      /\ ~Closing /\ ~Closing'
  <2>1. CASE initiator.stage = "msg2"
    BY <1>1, <2>1 DEF Established, Sessions, Closing
  <2>2. CASE initiator.stage # "msg2"
    <3>1. Session.status = "active"
      BY <2>2 DEF SessionInv, Shape
    <3>2. CASE Valid(initiator.stage, Session, r)
      <4>1. Session' = [Session EXCEPT !.counter = @ + 1]
        BY <2>2, <3>2 DEF Established
      <4> QED
        BY <1>1, <2>2, <3>1, <3>2, <4>1 DEF Sessions, Closing, Ahead
    <3>3. CASE ~Valid(initiator.stage, Session, r)
      BY <1>1, <2>2, <3>1, <3>3 DEF Sessions, Closing, Ahead
    <3> QED
      BY <3>2, <3>3
  <2> QED
    BY <2>1, <2>2
<1>3. ClaimsKept
  <2>1. \A id, k \in Nat : Offered(id, k)' => Offered(id, k)
    BY DEF Offered, InReply, InAnswer, InSession, NoAnswer
  <2> QED
    BY <1>2, <2>1 DEF ClaimsKept
<1>4. Session.key < fresh
  BY DEF SessionInv, Keys
<1>5. SUFFICES ASSUME worker.at # "exited"
               PROVE  /\ Session'.key # 0 /\ Session'.key < born => Unused
                      /\ \A id, k \in Nat : InReply(id, k) /\ k # 0 => Session'.key # k
                      /\ Held' /\ LockStep'
  BY <1>2, <1>3, <1>4, MoveKeeps
<1>6. Stale /\ OffersPending /\ Held /\ LockStep
  BY <1>5 DEF SessionInv, Live
<1>7. /\ Session'.key # 0 /\ Session'.key < born => Unused
      /\ \A id, k \in Nat : InReply(id, k) /\ k # 0 => Session'.key # k
  BY <1>2, <1>6 DEF Stale, OffersPending
<1>8. SUFFICES ASSUME born <= Session.key
               PROVE  Held' /\ LockStep'
  BY <1>2, <1>7 DEF Held, LockStep, InUse
<1>9. HeldOpen /\ HeldOnce /\ HeldAnswer /\ HeldReply
  BY <1>6, <1>8 DEF Held
<1>10. CASE initiator.stage = "msg2"
  <2>1. r.type = "msg3" /\ r.key = Session.key
    BY <1>10 DEF Valid
  <2>2. /\ Opened(Session.id, Session.key) /\ Entry(Session.id).counter = 0
        /\ Pipeline = <<>> /\ worker.at # "send" /\ Session.counter = 0
    BY <1>9, <1>10, <2>1 DEF HeldAnswer, SessionInv, Shape
  <2>3. Entry(Session.id)' = Entry(Session.id)
    BY <1>2 DEF Entry
  <2>4. Opened(Session.id, Session.key)'
    BY <1>2, <2>2, <2>3, SameEntries DEF Opened
  <2>5. HeldOpen' /\ HeldAnswer' /\ HeldReply' /\ HeldLast'
    BY <2>2, <2>4 DEF HeldOpen, HeldAnswer, HeldReply, HeldLast, NoAnswer
  <2>6. HeldOnce'
    BY <1>2, <1>9, <2>2, SameEntries DEF HeldOnce, Opened
  <2>7. LockStep'
    BY <1>2, <1>10, <2>2, <2>3 DEF LockStep, AtRest
  <2> QED
    BY <2>5, <2>6, <2>7 DEF Held
<1>11. CASE initiator.stage # "msg2"
  <2>1. Opened(Session.id, Session.key)
    BY <1>2, <1>9, <1>11 DEF HeldOpen
  <2>2. Answered(r)
    BY <1>2, <1>6, <1>8, <1>11 DEF LockStep, InUse
  <2>3. Entry(Session.id)' = Entry(Session.id)
    BY <1>2 DEF Entry
  <2>4. Opened(Session.id, Session.key)'
    BY <1>2, <2>1, <2>3, SameEntries DEF Opened
  <2>5. HeldOpen' /\ HeldAnswer' /\ HeldReply' /\ HeldLast'
    BY <1>2, <1>9, <1>11, <2>4 DEF HeldOpen, HeldAnswer, HeldReply, HeldLast, NoAnswer
  <2>6. HeldOnce'
    BY <1>2, <1>9, <2>1, SameEntries DEF HeldOnce, Opened
  <2>7. LockStep'
    BY <1>2, <1>11, <2>2, <2>3 DEF LockStep, AtRest, Answered
  <2> QED
    BY <2>5, <2>6, <2>7 DEF Held
<1> QED
  BY <1>10, <1>11

\* Any answer but the one to a close request.
LEMMA TakeAnswerKeeps ==
  ASSUME Types, Types', Discipline, SessionInv, TakeAnswer
  PROVE  SessionInv'
<1>1. initiator.answer \in Answers /\ initiator.answer # NoAnswer
  BY DEF TakeAnswer, Types, Initiators
<1>2. (CHOOSE r \in initiator.answer : TRUE) \in initiator.answer
  BY <1>1 DEF NoAnswer
<1> PICK r \in initiator.answer : r = CHOOSE x \in initiator.answer : TRUE
  BY <1>2
<1>3. r.key \in Nat /\ r.id \in Nat
  BY <1>1, AnswerFields DEF Message
<1> DEFINE ok == Valid(initiator.stage, Session, r)
           next == NextStage(initiator.stage, ok, initiator.left = 1)
<1>4. /\ initiator'.stage = next /\ ~initiator'.waiting /\ initiator'.answer = NoAnswer
      /\ Session' = IF next = "idle" THEN NoSession
                    ELSE IF ok THEN Established(initiator.stage, Session, r) ELSE Session
      /\ initiator.waiting /\ initiator.stage \in Stages \ {"idle", "close", "closeFailed"}
      /\ AbandonAll /\ UNCHANGED <<enclave, fresh, born, worker, server, queue>>
  BY DEF TakeAnswer, Session, Types, TypeOK
<1>5. /\ Pipeline' = Pipeline
      /\ \A f \in Slots : ~conn'[f].live
      /\ \A j \in 1 .. Len(backlog') : ~backlog'[j].live
  BY <1>4, AbandonPipeline, NoneLive
<1>6. ok \in BOOLEAN /\ (initiator.left = 1) \in BOOLEAN
  BY DEF Valid
<1> HIDE DEF ok
<1>7. /\ initiator.stage \in {"msg1", "msg2"} /\ ~ok => next = "idle"
      /\ initiator.stage = "msg1" /\ ok => next = "msg2"
      /\ initiator.stage = "msg2" /\ ok => next = "exchange"
      /\ initiator.stage \notin {"msg1", "msg2"} => next \in Stages \ {"idle", "msg1", "msg2"}
  BY <1>4, <1>6 DEF NextStage, Stages
<1> HIDE DEF next
<1>8. CASE next = "idle"
  BY <1>4, <1>5, <1>8, ForgetKeeps
<1>9. CASE initiator.stage = "msg1" /\ ok
  <2>1. r.type = "msg1" /\ r.key # 0
    BY <1>9 DEF Valid, ok
  <2>2. Session' = [NoSession EXCEPT !.id = r.id, !.key = r.key] /\ initiator'.stage = "msg2"
    BY <1>4, <1>7, <1>9 DEF Established
  <2>3. Shape'
    <3>1. Session'.key = r.key /\ Session'.status = "absent" /\ Session'.counter = 0
      BY <2>2 DEF NoSession
    <3> QED
      BY <1>4, <1>5, <2>1, <2>2, <3>1 DEF Shape
  <2> QED
    BY <1>3, <1>4, <1>5, <1>9, <2>1, <2>2, <2>3, OfferTaken
<1>10. CASE initiator.stage # "msg1" /\ next # "idle"
  <2>1. /\ next \notin {"idle", "msg1", "msg2"}
        /\ initiator.stage = "msg2" => ok
    BY <1>4, <1>6, <1>7, <1>10
  <2>2. Session' = IF ok THEN Established(initiator.stage, Session, r) ELSE Session
    BY <1>4, <1>10
  <2>3. Shape'
    <3>1. Session'.status = "active" /\ Session'.key = Session.key
      <4>1. Session \in Sessions
        BY DEF Types, Initiators, Session
      <4>2. initiator.stage # "msg2" => Session.status = "active"
        BY <1>4, <1>10 DEF SessionInv, Shape
      <4>3. CASE ok
        BY <1>10, <2>2, <4>1, <4>2, <4>3 DEF Established, Sessions
      <4>4. CASE ~ok
        BY <2>1, <2>2, <4>2, <4>4
      <4> QED
        BY <1>6, <4>3, <4>4
    <3>2. Session.key # 0
      BY <1>4, <1>10 DEF SessionInv, Shape
    <3> QED
      BY <1>4, <1>5, <2>1, <3>1, <3>2 DEF Shape
  <2> QED
    BY <1>4, <1>5, <1>10, <2>1, <2>2, <2>3, ReplyTaken DEF ok
<1> QED
  BY <1>6, <1>7, <1>8, <1>9, <1>10

\* The request m of the initiator goes to the end of the pipeline.
Asks(m) ==
  /\ m = RequestOf(initiator) /\ Pipeline' = Pipeline \o <<m>>
  /\ UNCHANGED <<enclave, fresh, born, worker>> /\ worker.at # "exited"
  /\ initiator.stage # "idle" /\ ~initiator.waiting /\ initiator.answer = NoAnswer
  /\ initiator'.stage = initiator.stage /\ initiator'.waiting /\ initiator'.answer = NoAnswer
  /\ Session' = Session

\* What is asked follows from where the initiator is in func2.
LEMMA AskedFor ==
  ASSUME Types, Shape, NEW m \in R, Asks(m)
  PROVE  /\ m.id = Session.id
         /\ m.type = "msg1" => Session.key = 0
         /\ m.type = "msg2" <=> initiator.stage = "msg2"
         /\ m.type = "msg2" => m.key = Session.key
         /\ m.type = "close" <=> initiator.stage \in {"close", "closeFailed"}
         /\ m.type = "close" => Session.status = "active" /\ Closing'
         /\ Session.key # 0 => m.type # "msg1"
         /\ ~Closing
<1>1. initiator.stage \in Stages \ {"idle"} /\ m = RequestOf(initiator)
  BY DEF Asks, Types, TypeOK
<1>2. /\ RequestType[initiator.stage] = "msg1" <=> initiator.stage = "msg1"
      /\ RequestType[initiator.stage] = "msg2" <=> initiator.stage = "msg2"
      /\ RequestType[initiator.stage] = "close" <=> initiator.stage \in {"close", "closeFailed"}
  BY <1>1 DEF RequestType, Stages
<1>3. /\ m.type = RequestType[initiator.stage] /\ m.id = Session.id
      /\ initiator.stage = "msg2" => m.key = Session.key
  BY <1>1 DEF RequestOf, Session
<1>4. initiator.stage = "msg1" => Session.key = 0
  BY DEF Shape, NoSession
<1> QED
  BY <1>2, <1>3, <1>4 DEF Shape, Asks, Closing

\* An offer that is taken up is for this msg2 alone.
LEMMA AskedMsg2 ==
  ASSUME Types, Shape, Keys, Live, NEW m \in R, Asks(m), m.type = "msg2"
  PROVE  /\ m.key < born => Unused
         /\ born <= m.key =>
              /\ Pending(m.id, m.key) /\ \A id \in Nat : ~InReply(id, m.key)
              /\ \A n \in 1 .. Len(Pipeline), x \in R :
                   Pipeline[n] = x /\ x.type = "msg2" => x.id # m.id /\ x.key # m.key
<1>1. m.id = Session.id /\ m.key = Session.key /\ initiator.stage = "msg2" /\ ~initiator.waiting
  BY AskedFor DEF Asks
<1>2. m.id \in Nat /\ m.key \in Nat /\ m.key # 0
  BY <1>1, EntryTypes DEF Shape
<1>3. Offered(m.id, m.key)
  BY <1>1, <1>2 DEF Offered, InSession
<1>4. m.key < born => Unused
  BY <1>1, <1>2 DEF Live, Stale
<1>5. ASSUME born <= m.key
      PROVE  /\ Pending(m.id, m.key) /\ \A id \in Nat : ~InReply(id, m.key)
             /\ \A n \in 1 .. Len(Pipeline), x \in R :
                  Pipeline[n] = x /\ x.type = "msg2" => x.id # m.id /\ x.key # m.key
  <2>1. Pending(m.id, m.key)
    BY <1>2, <1>3, <1>5 DEF Live, OffersPending
  <2>2. \A id \in Nat : ~InReply(id, m.key)
    BY <1>1, <1>2 DEF Live, OffersPending
  <2>3. ASSUME NEW n \in 1 .. Len(Pipeline), NEW x \in R, Pipeline[n] = x, x.type = "msg2"
        PROVE  x.id # m.id /\ x.key # m.key
    <3>1. (x.id \notin Known(enclave) /\ x.key < born) \/ Msg2Fits(x)
      BY <2>3 DEF Live, Msg2OK
    <3>2. CASE x.id \notin Known(enclave) /\ x.key < born
      <4>1. m.id \in Known(enclave)
        BY <2>1 DEF Pending, Known, Entry
      <4>2. x.key \in Nat /\ born \in Nat
        BY EntryTypes
      <4> QED
        BY <1>2, <1>5, <3>2, <4>1, <4>2
    <3>3. CASE Msg2Fits(x)
      BY <1>2, <1>3, <2>1, <3>3 DEF Msg2Fits, Pending
    <3> QED
      BY <3>1, <3>2, <3>3
  <2> QED
    BY <2>1, <2>2, <2>3
<1> QED
  BY <1>4, <1>5

\* A session that is closed has had no other close request.
LEMMA AskedClose ==
  ASSUME Types, Shape, Keys, Live, NEW m \in R, Asks(m), m.type = "close"
  PROVE  /\ Session.key < born => Unused
         /\ born <= Session.key =>
              /\ m.id \in Active(enclave)
              /\ \A n \in 1 .. Len(Pipeline), x \in R :
                   Pipeline[n] = x /\ x.type = "close" => x.id # m.id
<1>1. /\ m.id = Session.id /\ Session.status = "active" /\ ~Closing /\ Session.key # 0
      /\ initiator.stage \in {"close", "closeFailed"}
  BY AskedFor DEF Shape
<1>2. Session.key < born => Unused
  BY <1>1 DEF Live, Stale
<1>3. ASSUME born <= Session.key
      PROVE  /\ m.id \in Active(enclave)
             /\ \A n \in 1 .. Len(Pipeline), x \in R :
                  Pipeline[n] = x /\ x.type = "close" => x.id # m.id
  <2>1. Opened(m.id, Session.key)
    BY <1>1, <1>3 DEF Live, Held, HeldOpen
  <2>2. m.id \in Active(enclave) /\ m.id \in Known(enclave) /\ Entry(m.id).key = Session.key
    BY <2>1, EntryTypes DEF Opened
  <2>3. ASSUME NEW n \in 1 .. Len(Pipeline), NEW x \in R, Pipeline[n] = x, x.type = "close"
        PROVE  x.id # m.id
    <3>1. x.id \notin Known(enclave) \/ CloseFits(x)
      BY <2>3 DEF Live, CloseOK
    <3> QED
      BY <1>1, <2>2, <3>1 DEF CloseFits
  <2> QED
    BY <2>2, <2>3
<1> QED
  BY <1>2, <1>3

\* A request that joins the others: those before it stay as fit as they were.
LEMMA AskedPipe ==
  ASSUME Types, Shape, Keys, Live, NEW m \in R, Asks(m)
  PROVE  Msg2OK' /\ CloseOK'
<1>1. Before(Pipeline, m, Pipeline')
  BY KeepsBefore, EntryTypes DEF Asks
<1>2. /\ Session' = Session /\ ~Closing /\ born' = born /\ enclave' = enclave
      /\ m.id = Session.id
  BY AskedFor DEF Asks
<1>3. \A id, k \in Nat : (Offered(id, k)' => InReply(id, k)) /\ (Offered(id, k)' => Offered(id, k))
  BY DEF Asks, Offered, InReply, InAnswer, InSession, NoAnswer
<1>4. ASSUME NEW x \in R
      PROVE  /\ Msg2Fits(x) => Msg2Fits(x)'
             /\ CloseFits(x) => CloseFits(x)'
  <2>1. x.id \in Nat /\ x.key \in Nat
    BY EntryTypes
  <2>2. Msg2Fits(x) => Msg2Fits(x)'
    BY <1>2, <1>3, <2>1, SameEntries DEF Msg2Fits
  <2>3. CloseFits(x) => CloseFits(x)'
    BY <1>2, SameEntries DEF CloseFits
  <2> QED
    BY <2>2, <2>3
<1>5. Len(Pipeline) \in Nat /\ \A n \in 1 .. Len(Pipeline') : n \in 1 .. Len(Pipeline) \/ n = Len(Pipeline')
  <2>1. Len(Pipeline) \in Nat /\ Len(Pipeline') = Len(Pipeline) + 1
    BY <1>1, EntryTypes DEF Before
  <2> QED
    BY <2>1
<1>6. Unused => Known(enclave) = {} /\ NoOffer(Pipeline', Len(Pipeline'))
  <2>1. Unused => NoOffer(Pipeline, Len(Pipeline) + 1)
    BY DEF Unused, NoOffer
  <2> QED
    BY <1>1, <2>1 DEF Unused, Before
<1>7. ASSUME NEW n \in 1 .. Len(Pipeline'), NEW x \in R, Pipeline'[n] = x, x.type = "msg2"
      PROVE  \/ x.id \notin Known(enclave)' /\ NoOffer(Pipeline', n) /\ x.key < born'
             \/ Msg2Fits(x)' /\ Alone(Pipeline', n)
  <2>1. CASE n \in 1 .. Len(Pipeline)
    <3>1. /\ Pipeline[n] = x
          /\ NoOffer(Pipeline, n) => NoOffer(Pipeline', n)
          /\ Alone(Pipeline, n) /\ ~(m.type = x.type /\ m.id = x.id) => Alone(Pipeline', n)
      BY <1>1, <1>7, <2>1 DEF Before
    <3>2. CASE x.id \notin Known(enclave) /\ NoOffer(Pipeline, n) /\ x.key < born
      BY <1>2, <3>1, <3>2, SameEntries
    <3>3. CASE Msg2Fits(x) /\ Alone(Pipeline, n)
      <4>1. ~(m.type = x.type /\ m.id = x.id)
        <5> SUFFICES ASSUME m.type = "msg2", m.id = x.id
                     PROVE  FALSE
          BY <1>7
        <5>1. x.id \in Known(enclave)
          BY <3>3 DEF Msg2Fits, Pending, Known, Entry
        <5>2. born <= m.key
          <6>1. ~(m.key < born)
            BY <5>1, AskedMsg2 DEF Unused
          <6> QED
            BY <6>1, EntryTypes
        <5> QED
          BY <1>7, <2>1, <3>1, <5>2, AskedMsg2
      <4> QED
        BY <1>4, <3>1, <3>3, <4>1
    <3> QED
      BY <1>7, <2>1, <3>1, <3>2, <3>3 DEF Live, Msg2OK
  <2>2. CASE n = Len(Pipeline')
    <3>1. x = m
      BY <1>1, <1>7, <2>2 DEF Before
    <3>2. CASE m.key < born
      <4>1. Unused
        BY <1>7, <3>1, <3>2, AskedMsg2
      <4> QED
        BY <1>2, <1>6, <2>2, <3>1, <3>2, <4>1, SameEntries
    <3>3. CASE ~(m.key < born)
      <4>1. born <= m.key /\ m.id \in Nat /\ m.key \in Nat
        BY <3>3, EntryTypes
      <4>2. /\ Pending(m.id, m.key) /\ \A id \in Nat : ~InReply(id, m.key)
            /\ \A k \in 1 .. Len(Pipeline), y \in R :
                 Pipeline[k] = y /\ y.type = "msg2" => y.id # m.id /\ y.key # m.key
        BY <1>7, <3>1, <4>1, AskedMsg2
      <4>3. Msg2Fits(m)'
        BY <1>2, <1>3, <4>1, <4>2, SameEntries DEF Msg2Fits
      <4>4. Alone(Pipeline', n)
        <5>1. \A k \in 1 .. Len(Pipeline) : Pipeline[k] \in R /\ Pipeline'[k] = Pipeline[k]
          BY <1>1, EntryTypes DEF Before
        <5> QED
          BY <1>5, <1>7, <2>2, <3>1, <4>2, <5>1 DEF Alone
      <4> QED
        BY <3>1, <4>3, <4>4
    <3> QED
      BY <3>2, <3>3
  <2> QED
    BY <1>5, <2>1, <2>2
<1>8. ASSUME NEW n \in 1 .. Len(Pipeline'), NEW x \in R, Pipeline'[n] = x, x.type = "close"
      PROVE  \/ x.id \notin Known(enclave)' /\ NoOffer(Pipeline', n)
             \/ CloseFits(x)' /\ Alone(Pipeline', n)
  <2>1. CASE n \in 1 .. Len(Pipeline)
    <3>1. /\ Pipeline[n] = x
          /\ NoOffer(Pipeline, n) => NoOffer(Pipeline', n)
          /\ Alone(Pipeline, n) /\ ~(m.type = x.type /\ m.id = x.id) => Alone(Pipeline', n)
      BY <1>1, <1>8, <2>1 DEF Before
    <3>2. CASE x.id \notin Known(enclave) /\ NoOffer(Pipeline, n)
      BY <1>2, <3>1, <3>2, SameEntries
    <3>3. CASE CloseFits(x) /\ Alone(Pipeline, n)
      <4>1. ~(m.type = x.type /\ m.id = x.id)
        <5> SUFFICES ASSUME m.type = "close", m.id = x.id
                     PROVE  FALSE
          BY <1>8
        <5>1. x.id \in Known(enclave)
          BY <3>3, EntryTypes DEF CloseFits
        <5>2. born <= Session.key
          <6>1. ~(Session.key < born)
            BY <5>1, AskedClose DEF Unused
          <6> QED
            BY <6>1, EntryTypes
        <5> QED
          BY <1>8, <2>1, <3>1, <5>2, AskedClose
      <4> QED
        BY <1>4, <3>1, <3>3, <4>1
    <3> QED
      BY <1>8, <2>1, <3>1, <3>2, <3>3 DEF Live, CloseOK
  <2>2. CASE n = Len(Pipeline')
    <3>1. x = m
      BY <1>1, <1>8, <2>2 DEF Before
    <3>2. CASE Session.key < born
      <4>1. Unused
        BY <1>8, <3>1, <3>2, AskedClose
      <4> QED
        BY <1>2, <1>6, <2>2, <3>1, <4>1, SameEntries
    <3>3. CASE ~(Session.key < born)
      <4>1. born <= Session.key
        BY <3>3, EntryTypes
      <4>2. /\ m.id \in Active(enclave)
            /\ \A k \in 1 .. Len(Pipeline), y \in R :
                 Pipeline[k] = y /\ y.type = "close" => y.id # m.id
        BY <1>8, <3>1, <4>1, AskedClose
      <4>3. CloseFits(m)'
        BY <1>2, <1>8, <3>1, <4>2, AskedFor, SameEntries DEF CloseFits
      <4>4. Alone(Pipeline', n)
        <5>1. \A k \in 1 .. Len(Pipeline) : Pipeline[k] \in R /\ Pipeline'[k] = Pipeline[k]
          BY <1>1, EntryTypes DEF Before
        <5> QED
          BY <1>5, <1>8, <2>2, <3>1, <4>2, <5>1 DEF Alone
      <4> QED
        BY <3>1, <4>3, <4>4
    <3> QED
      BY <3>2, <3>3
  <2> QED
    BY <1>5, <2>1, <2>2
<1>9. Msg2OK'
  BY <1>7 DEF Msg2OK
<1>10. CloseOK'
  BY <1>8 DEF CloseOK
<1> QED
  BY <1>9, <1>10

\* The session that the initiator uses, when it sends its next request.
LEMMA AskedHeld ==
  ASSUME Types, Shape, Keys, Live, NEW m \in R, Asks(m)
  PROVE  Held' /\ LockStep'
<1>1. /\ Session' = Session /\ ~Closing /\ born' = born /\ enclave' = enclave /\ worker' = worker
      /\ initiator'.stage = initiator.stage /\ ~initiator.waiting /\ initiator'.waiting
      /\ \A r \in initiator'.answer : FALSE
  BY AskedFor DEF Asks, NoAnswer
<1>2. \A i : Entry(i)' = Entry(i)
  BY <1>1, SameEntries
<1>3. ASSUME born <= Session.key
      PROVE  HeldOpen' /\ HeldOnce' /\ HeldAnswer' /\ HeldReply' /\ HeldLast'
  <2>1. HeldOpen /\ HeldOnce /\ HeldReply
    BY <1>3 DEF Live, Held
  <2>2. HeldOpen' /\ HeldOnce'
    BY <1>1, <1>2, <2>1, EntryKept DEF HeldOpen, HeldOnce, Known, Active
  <2>3. HeldAnswer' /\ HeldReply'
    BY <1>1, <2>1 DEF HeldAnswer, HeldReply
  <2>4. HeldLast'
    <3> SUFFICES ASSUME initiator.stage = "msg2", NEW j \in 1 .. Len(Pipeline'),
                        Pipeline'[j].type = "msg2", Pipeline'[j].key = Session.key
                 PROVE  j = Len(Pipeline')
      BY <1>1 DEF HeldLast
    <3>1. m.type = "msg2" /\ m.key = Session.key
      BY AskedFor
    <3>2. Before(Pipeline, m, Pipeline')
      BY KeepsBefore, EntryTypes DEF Asks
    <3>3. j \in 1 .. Len(Pipeline) \/ j = Len(Pipeline')
      BY <3>2, EntryTypes DEF Before
    <3>4. j \notin 1 .. Len(Pipeline)
      <4> SUFFICES ASSUME j \in 1 .. Len(Pipeline)
                   PROVE  FALSE
        OBVIOUS
      <4>1. Pipeline[j] \in R /\ Pipeline'[j] = Pipeline[j]
        BY <3>2, EntryTypes DEF Before
      <4> QED
        BY <1>3, <3>1, <4>1, AskedMsg2
    <3> QED
      BY <3>3, <3>4
  <2> QED
    BY <2>2, <2>3, <2>4
<1>4. ASSUME InUse
      PROVE  Asked'
  <2>1. AtRest
    BY <1>1, <1>4 DEF Live, LockStep
  <2>2. Pipeline' = <<m>>
    BY <2>1 DEF AtRest, Asks
  <2>3. RequestOf(initiator)' = m
    BY <1>1 DEF Asks, RequestOf, Session
  <2> QED
    BY <1>1, <1>2, <2>1, <2>2, <2>3 DEF Asked, AtRest
<1>5. InUse' => InUse
  BY <1>1 DEF InUse
<1> QED
  BY <1>1, <1>3, <1>4, <1>5 DEF Held, LockStep

\* The request of the initiator joins the others.
LEMMA AppendKeeps ==
  ASSUME Types, Types', SessionInv, Shape', NEW m \in R, Asks(m)
  PROVE  SessionInv'
<1>1. /\ Session' = Session /\ UNCHANGED <<born, fresh, enclave, worker>>
      /\ \A r \in initiator'.answer : FALSE
  BY DEF Asks, NoAnswer
<1>2. Shape /\ Keys /\ Counted /\ Live /\ worker.at # "exited"
  BY DEF SessionInv, Asks
<1>3. \A i : Entry(i)' = Entry(i)
  BY <1>1, SameEntries
<1>4. Counted'
  BY <1>1, <1>2 DEF Counted, SlotsMatchSessions, Known, Active
<1>5. Keys'
  BY <1>1, <1>2, <1>3 DEF Keys, Known
<1>6. Stale'
  <2> SUFFICES ASSUME Session.key # 0, Session.key < born
               PROVE  Unused'
    BY <1>1 DEF Stale
  <2>1. Unused /\ m.type # "msg1"
    BY <1>2, AskedFor DEF Live, Stale
  <2>2. Before(Pipeline, m, Pipeline')
    BY KeepsBefore, EntryTypes DEF Asks
  <2>3. \A j \in 1 .. Len(Pipeline') : j \in 1 .. Len(Pipeline) \/ j = Len(Pipeline')
    BY <2>2, EntryTypes DEF Before
  <2>4. \A j \in 1 .. Len(Pipeline') : Pipeline'[j].type # "msg1"
    BY <2>1, <2>2, <2>3 DEF Before, Unused
  <2> QED
    BY <1>1, <2>1, <2>4, SameEntries DEF Unused
<1>7. OffersPending'
  <2>1. \A id, k \in Nat : (Offered(id, k)' => Offered(id, k)) /\ (InReply(id, k)' <=> InReply(id, k))
    BY DEF Asks, Offered, InReply, InAnswer, InSession, NoAnswer
  <2> QED
    BY <1>1, <1>2, <2>1, SameEntries DEF Live, OffersPending
<1>8. Msg2OK' /\ CloseOK'
  BY <1>2, AskedPipe
<1>9. Held' /\ LockStep'
  BY <1>2, AskedHeld
<1> QED
  BY <1>4, <1>5, <1>6, <1>7, <1>8, <1>9 DEF SessionInv, Live

\* The initiator sends its next request (client_send_receive).
LEMMA AskKeeps ==
  ASSUME Types, Types', Discipline, SessionInv, Ask
  PROVE  SessionInv'
<1>1. /\ UNCHANGED <<enclave, fresh, born, worker, conn>>
      /\ initiator.stage # "idle" /\ ~initiator.waiting
      /\ initiator'.stage = initiator.stage /\ initiator'.waiting /\ Session' = Session
      /\ initiator'.answer = initiator.answer \/ (initiator'.answer = Eof /\ phase = "down")
  BY DEF Ask, Session, Types, Initiators
<1>2. initiator.answer = NoAnswer
  BY <1>1 DEF SessionInv, Shape
<1>3. Shape'
  BY <1>1 DEF SessionInv, Shape
<1>4. CASE worker.at = "exited"
  <2>1. enclave' = EmptyEnclave
    BY <1>1, <1>4 DEF SessionInv, Counted
  <2>2. \A r \in initiator'.answer : r \in initiator.answer \/ r.key = 0
    BY <1>1 DEF Eof, Zeroed
  <2> QED
    BY <1>1, <1>3, <1>4, <2>1, <2>2, EndedKeeps
<1>5. CASE worker.at # "exited"
  <2>1. RequestOf(initiator) \in R /\ Pipeline' = Pipeline \o <<RequestOf(initiator)>>
    BY <1>5, AskAppends
  <2>2. phase # "down"
    BY <1>5 DEF Discipline
  <2>3. initiator'.answer = NoAnswer
    BY <1>1, <1>2, <2>2
  <2> PICK m \in R : m = RequestOf(initiator)
    BY <2>1
  <2>4. Asks(m)
    BY <1>1, <1>2, <1>5, <2>1, <2>3 DEF Asks
  <2> QED
    BY <1>3, <2>4, AppendKeeps
<1> QED
  BY <1>4, <1>5

\* The initiator takes the answer to its close request, or is started anew, or
\* gets a datagram: it holds no session, and waits for nothing.
LEMMA ForgottenKeeps ==
  ASSUME Types, Types', Discipline, SessionInv, Closed \/ InitiatorCrash \/ Invoke
  PROVE  SessionInv'
<1>1. UNCHANGED <<enclave, fresh, born, worker, server, queue>>
  BY DEF Closed, InitiatorCrash, Invoke
<1>2. /\ Session' = NoSession /\ initiator'.stage \in {"idle", "msg1"}
      /\ ~initiator'.waiting /\ initiator'.answer = NoAnswer
  BY DEF Closed, InitiatorCrash, Invoke, NotAsking, Session
<1>3. CASE AbandonAll
  BY <1>1, <1>2, <1>3, AbandonPipeline, NoneLive, ForgetKeeps
<1>4. CASE Invoke
  <2>1. UNCHANGED <<backlog, conn>> /\ ~initiator.waiting
    BY <1>4 DEF Invoke, NotAsking
  <2>2. /\ \A f \in Slots : ~conn'[f].live
        /\ \A j \in 1 .. Len(backlog') : ~backlog'[j].live
    BY <2>1 DEF SessionInv, Shape
  <2>3. Pipeline' = Pipeline
    BY <1>1, <2>1, PipelineUntouched
  <2> QED
    BY <1>1, <1>2, <2>2, <2>3, ForgetKeeps
<1> QED
  BY <1>3, <1>4 DEF Closed, InitiatorCrash

\* Every step of the two processes.
LEMMA SessionStep ==
  ASSUME Types, Types', Discipline, Taken, SessionInv, [Next]_vars
  PROVE  SessionInv'
<1>1. CASE CloseQueue \/ Signal \/ UNCHANGED vars
  <2>1. /\ UNCHANGED <<enclave, fresh, born, worker, queue, backlog, conn, initiator>>
        /\ ~Signal => server' = server
    BY <1>1 DEF CloseQueue, Signal, vars
  <2>2. Pipeline' = Pipeline
    BY <2>1, PipelineUntouched, SignalPipeline
  <2>3. /\ \A f \in Slots : conn'[f].live => initiator.waiting
        /\ \A j \in 1 .. Len(backlog') : backlog'[j].live => initiator.waiting
    BY <2>1 DEF SessionInv, Shape
  <2> QED
    BY <2>1, <2>2, <2>3, QuietKeeps
<1>2. CASE Exit \/ ResponderCrash
  BY <1>2, DieKeeps DEF Exit, ResponderCrash
<1>3. CASE Ask \/ TakeAnswer
  BY <1>3, AskKeeps, TakeAnswerKeeps
<1>4. CASE Closed \/ InitiatorCrash \/ Invoke
  BY <1>4, ForgottenKeeps
<1>5. CASE Server \/ WorkerStep \/ Restart
  BY <1>5, ServerKeeps, WorkerKeeps, RestartKeeps
<1> QED
  BY <1>1, <1>2, <1>3, <1>4, <1>5 DEF Next, Initiator

-----------------------------------------------------------------------------
(* The theorems *)

LEMMA SessionInit ==
  ASSUME Init
  PROVE  SessionInv
<1>1. /\ enclave = EmptyEnclave /\ fresh = 1 /\ born = 1 /\ worker = Worker("head")
      /\ backlog = <<>> /\ conn = [f \in Slots |-> NoConn] /\ initiator = NotAsking
      /\ Pipeline = <<>>
  BY InitPipeline DEF Init
<1>2. /\ initiator.stage = "idle" /\ ~initiator.waiting /\ initiator.answer = NoAnswer
      /\ Session = NoSession /\ Session.key = 0 /\ Session.status = "absent"
      /\ worker.at = "head" /\ Len(Pipeline) = 0 /\ \A r \in initiator.answer : FALSE
  BY <1>1 DEF NotAsking, NoSession, Session, Worker, NoAnswer
<1>3. Shape
  <2>1. /\ \A f \in Slots : ~conn[f].live
        /\ Len(backlog) = 0
    BY <1>1 DEF NoConn
  <2> QED
    BY <1>2, <2>1 DEF Shape
<1>4. enclave.tracker = {} /\ Known(enclave) = {} /\ Active(enclave) = {} /\ enclave.count = 0
  BY <1>1 DEF EmptyEnclave, Known, Active, Absent
<1>5. Counted
  BY <1>1, <1>4, FS_EmptySet DEF Counted, SlotsMatchSessions
<1>6. Keys
  BY <1>1, <1>2, <1>4 DEF Keys
<1>7. \A id, k \in Nat : ~Offered(id, k) /\ ~InReply(id, k)
  BY <1>2 DEF Offered, InReply, InAnswer, InSession
<1>8. Stale /\ OffersPending
  BY <1>2, <1>7 DEF Stale, OffersPending
<1>9. Msg2OK /\ CloseOK
  BY <1>2 DEF Msg2OK, CloseOK
<1>10. Held /\ LockStep
  BY <1>1, <1>2 DEF Held, LockStep, InUse
<1> QED
  BY <1>3, <1>5, <1>6, <1>8, <1>9, <1>10 DEF SessionInv, Live

\* What ties the two ends of a session together, at every moment.
LEMMA SessionInvCorrect == Spec => []SessionInv
<1>1. Init => Types /\ Discipline /\ Taken /\ SessionInv
  BY InitTypes, DisciplineInit, TakenInit, SessionInit
<1>2. Types /\ Discipline /\ Taken /\ SessionInv /\ [Next]_vars
      => Types' /\ Discipline' /\ Taken' /\ SessionInv'
  BY TypesStep, DisciplineStep, TakenStep, SessionStep
<1> QED
  BY <1>1, <1>2, PTL DEF Spec

\* The tracker of the enclave (session_request, end_session in EnclaveMessageExchange.cpp)
\* holds the slots of the map's sessions, no other, and g_session_count is the number
\* of the open ones: whatever is lost or refused, no slot leaks or is freed twice.
THEOREM SlotsMatchSessionsCorrect == Spec => []SlotsMatchSessions
<1>1. SessionInv => SlotsMatchSessions
  BY DEF SessionInv, Counted
<1> QED
  BY <1>1, SessionInvCorrect, PTL

\* A session that the initiator holds open is open at the responder under the same
\* key, and the counters of the two (send_request_receive_response, generate_response)
\* differ by at most the answer under way: a request that is refused, dropped or
\* answered to another connection does not set them apart.
THEOREM SessionInStepCorrect == Spec => []SessionInStep
<1>1. ASSUME Types, SessionInv
      PROVE  SessionInStep
  <2> SUFFICES ASSUME Session.status = "active", born <= Session.key, worker.at # "exited",
                      initiator.stage \notin {"close", "closeFailed"}
               PROVE  /\ Session.id \in Active(enclave)
                      /\ Entry(Session.id).key = Session.key
                      /\ Entry(Session.id).counter
                           \in Session.counter .. Session.counter + (IF initiator.waiting THEN 1 ELSE 0)
    BY <1>1, EntryTypes DEF SessionInStep, Session, Entry
  <2>1. InUse /\ Held /\ LockStep /\ ~Closing
    BY <1>1 DEF SessionInv, Live, InUse, Closing
  <2>2. Opened(Session.id, Session.key)
    BY <2>1 DEF Held, HeldOpen
  <2>3. Session.counter \in Nat /\ initiator.waiting \in BOOLEAN
    BY <1>1, EntryTypes DEF Types, TypeOK
  <2>4. CASE ~initiator.waiting
    <3>1. Entry(Session.id).counter = Session.counter
      BY <2>1, <2>4 DEF LockStep, AtRest
    <3> QED
      BY <2>2, <2>3, <2>4, <3>1 DEF Opened
  <2>5. CASE initiator.waiting
    <3>1. Entry(Session.id).counter \in {Session.counter, Session.counter + 1}
      <4>1. CASE initiator.answer = NoAnswer
        BY <2>1, <2>3, <2>5, <4>1 DEF LockStep, Asked, Ahead
      <4>2. CASE initiator.answer # NoAnswer
        <5>1. PICK r \in initiator.answer : TRUE
          BY <4>2 DEF NoAnswer
        <5>2. Answered(r)
          BY <2>1, <2>5, <5>1 DEF LockStep
        <5> QED
          BY <2>3, <5>2 DEF Answered, Ahead
      <4> QED
        BY <4>1, <4>2
    <3> QED
      BY <2>2, <2>3, <2>5, <3>1 DEF Opened
  <2> QED
    BY <2>2, <2>3, <2>4, <2>5 DEF Opened
<1> QED
  BY <1>1, TypesCorrect, SessionInvCorrect, PTL

=============================================================================
