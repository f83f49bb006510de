--------------------------- MODULE EnclaveSessions ---------------------------
(***************************************************************************)
(* The responder side of the enclave-to-enclave sessions of                *)
(* demos/Complex_contract (EnclaveExecutor/EnclaveMessageExchange.cpp): the *)
(* globals of one enclave as a record, and each ECALL as an operator that  *)
(* gives the enclave after the call and the reply that CPTask sends.       *)
(*                                                                         *)
(* Cryptography is abstracted to the number of the handshake a message     *)
(* belongs to: msg2, msg3 and a secured message can be opened only with    *)
(* the key of their own handshake, and 0 is the key of a zeroed buffer.    *)
(* CPTask ignores the status an ECALL returns, so that a call which fails  *)
(* is answered too, with a body of zeroes.                                 *)
(***************************************************************************)
EXTENDS Naturals

CONSTANT MaxSessions      \* MAX_SESSION_COUNT

ASSUME MaxSessionsAssumption == MaxSessions \in Nat \ {0}

Ids == 0 .. MaxSessions - 1

\* sizes in bytes: a response carries a header of 9 bytes, and the encrypted
\* package of a state is a multiple of 32 of at least 64 bytes
MaxPayload == 50
ResponseSize == [exchange |-> 13, sync |-> 73]

Requests == {"msg1", "msg2", "exchange", "sync", "close"}
Replies == {"msg1", "msg3", "resp", "ack", "full"}
Message(types) == [type : types, id : Nat, key : Nat, nonce : Nat]

SessionStatuses == {"absent", "inProgress", "active"}
Absent == [status |-> "absent", key |-> 0, counter |-> 0]

\* g_session_id_tracker, g_dest_session_info_map and g_session_count
EnclaveType == [tracker : SUBSET Ids,
                session : [Ids -> [status : SessionStatuses, key : Nat, counter : Nat]],
                count   : Nat]

EmptyEnclave == [tracker |-> {}, session |-> [i \in Ids |-> Absent], count |-> 0]

Known(e) == {i \in Ids : e.session[i].status # "absent"}
Active(e) == {i \in Ids : e.session[i].status = "active"}

Zeroed(type) == [type |-> type, id |-> 0, key |-> 0, nonce |-> 0]

\* generate_session_id: the first slot of the tracker that is NULL
FreeId(e) == CHOOSE i \in Ids \ e.tracker : \A j \in Ids \ e.tracker : i <= j

\* Weakened: the search for a free slot goes one slot too far.
SessionRequestPastEnd(e, key) ==
  LET id == IF Ids \subseteq e.tracker THEN MaxSessions ELSE FreeId(e) IN
  [enclave |-> [tracker |-> e.tracker \cup {id},
                session |-> [e.session EXCEPT ![id] =
                               [status |-> "inProgress", key |-> key, counter |-> 0]],
                count   |-> e.count],
   reply   |-> [type |-> "msg1", id |-> id, key |-> key, nonce |-> 0]]

\* session_request: map.insert does not replace the entry of a known id
SessionRequest(e, key) ==
  IF Ids \subseteq e.tracker
  THEN [enclave |-> e, reply |-> Zeroed("msg1")]
  ELSE LET id == FreeId(e) IN
       [enclave |-> [tracker |-> e.tracker \cup {id},
                     session |-> [e.session EXCEPT ![id] =
                                    IF @.status = "absent"
                                    THEN [status |-> "inProgress", key |-> key, counter |-> 0]
                                    ELSE @],
                     count   |-> e.count],
        reply   |-> [type |-> "msg1", id |-> id, key |-> key, nonce |-> 0]]

\* Weakened: the entry of the map is erased, the slot of the tracker is kept.
EndSessionKeepSlot(e, id) ==
  IF id \notin Known(e) THEN e
  ELSE [e EXCEPT !.session = [e.session EXCEPT ![id] = Absent],
                 !.count   = IF @ > 0 THEN @ - 1 ELSE @]

\* end_session: the slot is freed, and counted, only while some session is open
EndSession(e, id) ==
  IF id \notin Known(e) THEN e
  ELSE LET freed == e.count > 0 /\ id \in e.tracker IN
       [tracker |-> IF freed THEN e.tracker \ {id} ELSE e.tracker,
        session |-> [e.session EXCEPT ![id] = Absent],
        count   |-> IF freed THEN e.count - 1 ELSE e.count]

\* Weakened: the session is counted as open before msg2 is checked.
ExchangeReportCountFirst(e, m) ==
  LET counted == [e EXCEPT !.count = @ + 1] IN
  IF m.id \in Known(e) /\ e.session[m.id].status = "inProgress" /\ e.session[m.id].key = m.key
  THEN [enclave |-> [counted EXCEPT !.session[m.id].status = "active"],
        reply   |-> [type |-> "msg3", id |-> m.id, key |-> m.key, nonce |-> 0]]
  ELSE [enclave |-> EndSession(counted, m.id), reply |-> Zeroed("msg3")]

\* exchange_report: whatever is wrong with msg2, the session it names is ended
ExchangeReport(e, m) ==
  IF m.id \in Known(e) /\ e.session[m.id].status = "inProgress" /\ e.session[m.id].key = m.key
  THEN [enclave |-> [tracker |-> e.tracker,
                     session |-> [e.session EXCEPT ![m.id] =
                                    [status |-> "active", key |-> m.key, counter |-> 0]],
                     count   |-> e.count + 1],
        reply   |-> [type |-> "msg3", id |-> m.id, key |-> m.key, nonce |-> 0]]
  ELSE [enclave |-> EndSession(e, m.id), reply |-> Zeroed("msg3")]

\* the session is ACTIVE, its key opens the message and the nonce is the next one
Opens(e, m) ==
  /\ m.id \in Active(e)
  /\ e.session[m.id].key = m.key
  /\ e.session[m.id].counter = m.nonce

Fits(type) == ResponseSize[type] <= MaxPayload

Advance(e, id) == [e EXCEPT !.session = [e.session EXCEPT ![id].counter = @ + 1]]

\* Weakened: the counter is advanced before the size of the response is checked.
GenerateResponseAdvanceFirst(e, m) ==
  IF Opens(e, m)
  THEN [enclave |-> Advance(e, m.id),
        reply   |-> IF Fits(m.type)
                    THEN [type |-> "resp", id |-> m.id, key |-> m.key, nonce |-> m.nonce + 1]
                    ELSE Zeroed("resp")]
  ELSE [enclave |-> e, reply |-> Zeroed("resp")]

\* generate_response: a response longer than max_payload_size is refused
\* before the counter of the session moves
GenerateResponse(e, m) ==
  IF Opens(e, m) /\ Fits(m.type)
  THEN [enclave |-> Advance(e, m.id),
        reply   |-> [type |-> "resp", id |-> m.id, key |-> m.key, nonce |-> m.nonce + 1]]
  ELSE [enclave |-> e, reply |-> Zeroed("resp")]

\* process_close_req: the acknowledgement is sent whatever end_session returned
CloseRequest(e, m) == [enclave |-> EndSession(e, m.id), reply |-> Zeroed("ack")]

==============================================================================
