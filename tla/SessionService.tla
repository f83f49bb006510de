--------------------------- MODULE SessionService ---------------------------
(***************************************************************************)
(* What a provider of demos/Complex_contract promises to the contracts     *)
(* that call it, without connections, descriptors, threads and signals: an *)
(* enclave that executes the requests one at a time, each at most once and *)
(* in the order in which they were sent. Requests may be lost, and the     *)
(* process may end, which loses them all and empties the enclave.          *)
(***************************************************************************)
EXTENDS EnclaveSessions, Sequences

VARIABLES
  pipe,      \* the requests that are still to be executed, oldest first
  enclave,
  fresh      \* number of the next handshake

vars == <<pipe, enclave, fresh>>

Init == pipe = <<>> /\ enclave = EmptyEnclave /\ fresh = 1

Request ==
  /\ pipe' # <<>> /\ pipe'[Len(pipe')] \in Message(Requests)
  /\ pipe = SubSeq(pipe', 1, Len(pipe') - 1)
  /\ UNCHANGED <<enclave, fresh>>

Without(s, n) == [k \in 1 .. Len(s) - 1 |-> IF k < n THEN s[k] ELSE s[k + 1]]

Lose ==
  /\ \E n \in 1 .. Len(pipe) : pipe' = Without(pipe, n)
  /\ UNCHANGED <<enclave, fresh>>

Result(m) ==
  IF m.type = "msg1" THEN SessionRequest(enclave, fresh)
  ELSE IF m.type = "msg2" THEN ExchangeReport(enclave, m)
  ELSE IF m.type = "close" THEN CloseRequest(enclave, m)
  ELSE GenerateResponse(enclave, m)

Execute ==
  /\ pipe # <<>>
  /\ pipe' = Tail(pipe)
  /\ enclave' = Result(Head(pipe)).enclave
  /\ fresh' = IF Head(pipe).type = "msg1" THEN fresh + 1 ELSE fresh

End == pipe' = <<>> /\ enclave' = EmptyEnclave /\ UNCHANGED fresh

Next == Request \/ Lose \/ Execute \/ End

Spec == Init /\ [][Next]_vars
=============================================================================
