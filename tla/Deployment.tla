------------------------------ MODULE Deployment -------------------------------
(***************************************************************************)
(* The measurements of the repository: a client process of src/Client and  *)
(* the contract programs of src/demos it talks to, over UDP on one host.   *)
(*                                                                         *)
(* A program receives a datagram, loads its state file, computes, and - if *)
(* the call changes the state - truncates the file, writes it and only     *)
(* then answers.  It has one thread; it may die between any two of these   *)
(* steps and be started again by hand.  A client sends from one thread and *)
(* waits in others; when main has what it waits for, the process ends,     *)
(* whatever the sending thread still had to do.                            *)
(*                                                                         *)
(* A scenario says which programs run, in which mode, which client runs    *)
(* how often and with which requests, and how many crashes may happen.     *)
(***************************************************************************)
EXTENDS Programs, Contracts

CONSTANTS
  Scenarios,  \* the experiments: records with the fields used below
  MaxQueue    \* datagrams a socket holds; more are dropped

ASSUME DeploymentAssumption == MaxQueue \in Nat \ {0}

ProgramType ==
  [contract : {"Hello", "Complex", "Token", "Auction", "Vote"}, encrypted : BOOLEAN,
   deploy : BOOLEAN, recv : Nat, send : Nat, says : {"text", "maybe"}]
ClientType ==
  [collects : BOOLEAN, target : Seq(Nat) \ {<< >>}, listen : Seq(Nat),
   endless : BOOLEAN, once : BOOLEAN]

\* A socket can be bound once; a client that sends to the port of a program
\* listens where that program answers, and nowhere else.
PortsAgree(s) ==
  LET shift == IF s.shell THEN 100 ELSE 0
      c == s.client
  IN  /\ \A i, j \in DOMAIN s.programs : s.programs[i].recv = s.programs[j].recv => i = j
      /\ \A j, k \in DOMAIN c.target : c.target[j] = c.target[k] => j = k
      /\ Len(c.listen) = Len(c.target)
      /\ \A i \in DOMAIN s.programs, k \in DOMAIN c.target :
           s.programs[i].recv + shift = c.target[k] <=> s.programs[i].send + shift = c.listen[k]

Calls(s) == UNION {s.script[n] : n \in DOMAIN s.script}
Operations ==
  [Token |-> {"createAc", "getBalance", "transfer"}, Auction |-> {"addItem", "bid"},
   Vote |-> {"nominate", "vote"}]

\* The requests are calls of the contract that the programs run, unless all
\* they do is to be deployed.
CallsSuit(s) ==
  \A r \in Calls(s) :
    /\ r.op = "bid" => r.price \in Seq(0 .. 9)
    /\ r.op = "addItem" => r.tail \in Seq(0 .. 9)
    /\ r.op = "transfer" => r.value \in Nat
    /\ r.op = "nominate" => r.candidates \in Seq(Nat) /\ r.voters \in Seq(Nat) \ {<< >>}
    /\ r.op = "vote" => r.voter \in Nat /\ r.candidate \in Nat
    /\ s.shell \/ \A i \in DOMAIN s.programs :
         s.programs[i].contract \notin {"Hello", "Complex"}
           => r.op \in Operations[s.programs[i].contract] \cup {"other", "empty"}

\* The files that create_account and an earlier addItem left: the coins of
\* all accounts are fewer than a uint can count (KeepsCoins below says which
\* of them an encrypting program can keep).
FilesSuit(s) ==
  /\ s.genesis.is = "token" /\ IsFiniteSet(DOMAIN s.genesis.balance)
  /\ s.genesis.balance \in [DOMAIN s.genesis.balance -> Nat]
  /\ SumFunction(s.genesis.balance) < UintRange
  /\ s.item.is \in {"missing", "auction"} /\ (s.item.is = "auction" => s.item.bid \in Nat)

ASSUME ScenarioAssumption ==
  \A s \in Scenarios :
    /\ s.programs \in Seq(ProgramType) /\ s.client \in ClientType
    /\ ~s.client.collects => Len(s.client.target) = 1
    /\ DOMAIN s.script = 1 .. Len(s.script) /\ Len(s.script) \in Nat
    /\ s.total \in Nat \ {0} /\ s.faults \in Nat /\ s.shell \in BOOLEAN
    /\ PortsAgree(s) /\ CallsSuit(s) /\ FilesSuit(s)

VARIABLES
  scenario,   \* the experiment of this behaviour; never changes
  phase,      \* what each program is doing: "idle", "storing" or "off"
  inbox,      \* the datagrams in its socket, oldest first
  disk,       \* its state file
  pending,    \* the image it has begun to write, and the answer to give then
  tail,       \* what the price field of its receive buffer holds
  client,     \* the client process: its run, request, datagrams sent, answers seen
  mail,       \* the answers waiting in each socket of the client
  answered,   \* the last answer each program gave to a request of this run
  crashes     \* how many programs have died

vars == <<scenario, phase, inbox, disk, pending, tail, client, mail, answered, crashes>>

-------------------------------------------------------------------------------
(* A deployment experiment runs a shell in front of each contract            *)
(* (k_deploy_shell.py); it has the ports of the program plus 100.            *)
Services == DOMAIN scenario.programs
Prog(i) == scenario.programs[i]
PortOf(i) == Prog(i).recv + (IF scenario.shell THEN 100 ELSE 0)
AnswerPort(i) == Prog(i).send + (IF scenario.shell THEN 100 ELSE 0)

Kind == scenario.client
Targets == DOMAIN Kind.target

(* A full socket drops what arrives.                                         *)
Arrive(queue, datagram) == IF Len(queue) < MaxQueue THEN Append(queue, datagram) ELSE queue

(* main of Vote calls initial(): the plain program keeps a file it finds.    *)
Initialises(p, file) == p.contract = "Vote" /\ (p.encrypted \/ file.is = "missing")

(* The file a program starts from: create_account wrote the accounts; an     *)
(* auction has a file if an item was added before.                           *)
FirstFile(p) ==
  CASE p.contract = "Token" -> scenario.genesis
    [] p.contract = "Auction" -> scenario.item
    [] Initialises(p, Missing) -> FirstBallot(scenario.creator)
    [] OTHER -> Missing

NoImage == [image |-> Missing, answer |-> "none", run |-> 0]
Silence == [i \in Services |-> "none"]
NoMail == [k \in Targets |-> << >>]

Init ==
  /\ scenario \in Scenarios
  /\ phase = [i \in Services |-> "idle"]
  /\ inbox = [i \in Services |-> << >>]
  /\ disk = [i \in Services |-> FirstFile(Prog(i))]
  /\ pending = [i \in Services |-> NoImage]
  /\ tail = [i \in Services |-> << >>]
  /\ client = [running |-> FALSE, run |-> 0, request |-> [op |-> "none"], sent |-> 0,
               seen |-> [k \in Targets |-> 0]]
  /\ mail = NoMail
  /\ answered = Silence
  /\ crashes = 0

-------------------------------------------------------------------------------
(* The programs.                                                             *)

(* The outcomes of a datagram: main looks for the name of an operation.      *)
Outcomes(p, file, left, r) ==
  IF p.contract \in {"Hello", "Complex"} THEN {Reply(p.says)}
  ELSE IF r.op = "other" THEN {Reply("none")}
  ELSE IF r.op = "addItem" THEN {AddItem(r.who)}
  ELSE IF file.is = "missing" THEN {Exit}
  ELSE CASE r.op = "createAc" -> CreateAc(file, scenario.mode, p.encrypted, r.name)
         [] r.op = "getBalance" -> {GetBalance(file, r.name)}
         [] r.op = "transfer" -> Transfer(file, p.encrypted, r.from, r.to, r.value)
         [] r.op = "bid" ->
              Bid(file, p.encrypted, p.encrypted = (scenario.mode # "test"), r.who,
                  Price(Overlay(r.price, left)))
         [] r.op = "nominate" ->
              Nominate(file, scenario.mode, p.encrypted, r.caller, r.candidates, r.voters)
         [] r.op = "vote" ->
              Vote(file, scenario.mode, p.encrypted, r.voter, r.candidate)

(* Only Auction leaves its buffer as it is; the end of the beneficiary's     *)
(* name lies where the price of a bid will be.                               *)
LeftBehind(p, left, r) ==
  CASE p.contract = "Auction" /\ r.op = "addItem" -> r.tail
    [] p.contract = "Auction" /\ r.op = "bid" -> Overlay(r.price, left)
    [] p.contract = "Auction" /\ r.op = "other" -> left
    [] OTHER -> << >>

Answers(text) == IF text = "maybe" THEN {"text", "empty"} ELSE {text}

\* Weakened: the answer is sent to the port the request came in by.
AnswerBack(i, text, run) ==
  /\ mail' = [k \in Targets |->
                IF client.running /\ text # "none" /\ Kind.listen[k] = PortOf(i)
                THEN Arrive(mail[k], text) ELSE mail[k]]
  /\ answered' = IF client.running /\ run = client.run /\ text # "none"
                 THEN [answered EXCEPT ![i] = text] ELSE answered

(* An answer goes to a fixed port of the host; it is lost unless a client    *)
(* runs that listens there, and no answer says which request it is for.      *)
Answer(i, text, run) ==
  /\ mail' = [k \in Targets |->
                IF client.running /\ text # "none" /\ Kind.listen[k] = AnswerPort(i)
                THEN Arrive(mail[k], text) ELSE mail[k]]
  /\ answered' = IF client.running /\ run = client.run /\ text # "none"
                 THEN [answered EXCEPT ![i] = text] ELSE answered

(* An empty datagram ends the service loop.                                  *)
Receives(i, d) ==
  /\ phase[i] = "idle" /\ ~scenario.shell /\ inbox[i] # << >>
  /\ d = Head(inbox[i])

EndLoop(i) ==
  /\ \E d \in ToSet(inbox[i]) : Receives(i, d) /\ d.request.op = "empty"
  /\ phase' = [phase EXCEPT ![i] = "off"]
  /\ inbox' = [inbox EXCEPT ![i] = << >>]
  /\ tail' = [tail EXCEPT ![i] = << >>]
  /\ UNCHANGED <<scenario, disk, pending, client, mail, answered, crashes>>

\* Weakened: the answer is sent before the file is written.
BeginFirst(i, o, run) ==
  /\ phase' = [phase EXCEPT ![i] = "storing"]
  /\ disk' = [disk EXCEPT ![i] = Torn]
  /\ pending' = [pending EXCEPT ![i] = [image |-> o.image, answer |-> "none", run |-> run]]
  /\ Answer(i, o.answer, run)

(* updateState opens the file, which truncates it.                           *)
Begin(i, o, run) ==
  /\ phase' = [phase EXCEPT ![i] = "storing"]
  /\ disk' = [disk EXCEPT ![i] = Torn]
  /\ pending' = [pending EXCEPT ![i] = [image |-> o.image, answer |-> o.answer, run |-> run]]
  /\ UNCHANGED <<mail, answered>>

(* One turn of the loop; a call that changes nothing is answered at once.    *)
Serve(i) ==
  /\ \E d \in ToSet(inbox[i]) :
       /\ Receives(i, d) /\ d.request.op # "empty"
       /\ tail' = [tail EXCEPT ![i] = LeftBehind(Prog(i), @, d.request)]
       /\ \E o \in Outcomes(Prog(i), disk[i], tail[i], d.request) :
            \/ o.stores /\ Begin(i, o, d.run) /\ inbox' = [inbox EXCEPT ![i] = Tail(@)]
            \/ /\ ~o.stores /\ o.answer # "exit"
               /\ \E text \in Answers(o.answer) : Answer(i, text, d.run)
               /\ inbox' = [inbox EXCEPT ![i] = Tail(@)]
               /\ UNCHANGED <<phase, disk, pending>>
            \/ /\ o.answer = "exit"
               /\ phase' = [phase EXCEPT ![i] = "off"]
               /\ inbox' = [inbox EXCEPT ![i] = << >>]
               /\ UNCHANGED <<disk, pending, mail, answered>>
  /\ UNCHANGED <<scenario, client, crashes>>

(* The bytes reach the file when it is closed; then the answer goes out.     *)
Store(i) ==
  /\ phase[i] = "storing"
  /\ phase' = [phase EXCEPT ![i] = "idle"]
  /\ disk' = [disk EXCEPT ![i] = pending[i].image]
  /\ pending' = [pending EXCEPT ![i] = NoImage]
  /\ Answer(i, pending[i].answer, pending[i].run)
  /\ UNCHANGED <<scenario, inbox, tail, client, crashes>>

(* The shell takes one datagram, builds the enclave, runs the program, which *)
(* must return on its argument "deploy", answers, and ends.                  *)
Deploy(i) ==
  /\ scenario.shell /\ phase[i] = "idle" /\ inbox[i] # << >> /\ Prog(i).deploy
  /\ phase' = [phase EXCEPT ![i] = "off"]
  /\ inbox' = [inbox EXCEPT ![i] = << >>]
  /\ Answer(i, "text", Head(inbox[i]).run)
  /\ UNCHANGED <<scenario, disk, pending, tail, client, crashes>>

\* Weakened: the datagrams of a dead program wait for the next one.
CrashKeepQueue(i) ==
  /\ phase[i] # "off" /\ crashes < scenario.faults
  /\ crashes' = crashes + 1
  /\ phase' = [phase EXCEPT ![i] = "off"]
  /\ pending' = [pending EXCEPT ![i] = NoImage]
  /\ tail' = [tail EXCEPT ![i] = << >>]
  /\ UNCHANGED <<scenario, inbox, disk, client, mail, answered>>

(* A program dies: its socket and its memory go, the file stays as it is.    *)
Crash(i) ==
  /\ phase[i] # "off" /\ crashes < scenario.faults
  /\ crashes' = crashes + 1
  /\ phase' = [phase EXCEPT ![i] = "off"]
  /\ inbox' = [inbox EXCEPT ![i] = << >>]
  /\ pending' = [pending EXCEPT ![i] = NoImage]
  /\ tail' = [tail EXCEPT ![i] = << >>]
  /\ UNCHANGED <<scenario, disk, client, mail, answered>>

(* main: bind, then, in Vote, initial().                                     *)
Start(i) ==
  /\ phase[i] = "off" /\ ~scenario.shell
  /\ IF Initialises(Prog(i), disk[i])
     THEN Begin(i, Write(FirstBallot(scenario.creator), "none"), 0)
     ELSE /\ phase' = [phase EXCEPT ![i] = "idle"]
          /\ UNCHANGED <<disk, pending, mail, answered>>
  /\ tail' = [tail EXCEPT ![i] = << >>]
  /\ UNCHANGED <<scenario, inbox, client, crashes>>

-------------------------------------------------------------------------------
(* The client.                                                               *)

StartRun ==
  /\ ~client.running /\ client.run < Len(scenario.script)
  /\ \E r \in scenario.script[client.run + 1] :
       client' = [running |-> TRUE, run |-> client.run + 1, request |-> r, sent |-> 0,
                  seen |-> [k \in Targets |-> 0]]
  /\ mail' = NoMail
  /\ answered' = Silence
  /\ UNCHANGED <<scenario, phase, inbox, disk, pending, tail, crashes>>

(* sendReq: the request goes to every target in turn, total times over; a    *)
(* flooding client sends on until main returns.                              *)
MoreToSend ==
  \/ Kind.endless
  \/ client.sent < IF Kind.once THEN 1 ELSE scenario.total * Len(Kind.target)

Send ==
  /\ client.running /\ MoreToSend
  /\ LET to == Kind.target[(client.sent % Len(Kind.target)) + 1]
         d == [request |-> client.request, run |-> client.run]
     IN  inbox' = [i \in Services |->
                     IF PortOf(i) = to /\ phase[i] # "off" THEN Arrive(inbox[i], d) ELSE inbox[i]]
  /\ client' = IF Kind.endless THEN client ELSE [client EXCEPT !.sent = @ + 1]
  /\ UNCHANGED <<scenario, phase, disk, pending, tail, mail, answered, crashes>>

(* The latency clients count every return of recvfrom, the flooding ones     *)
(* only those with a byte; recSig sets the flag of its provider.             *)
Receive(k) ==
  /\ client.running /\ mail[k] # << >>
  /\ mail' = [mail EXCEPT ![k] = Tail(@)]
  /\ LET n == IF Kind.endless /\ Head(mail[k]) = "empty" THEN 0 ELSE 1
     IN  client' = [client EXCEPT !.seen[k] = IF @ + n > scenario.total THEN @ ELSE @ + n]
  /\ UNCHANGED <<scenario, phase, inbox, disk, pending, tail, answered, crashes>>

\* Weakened: main is content with the flag of one provider.
EnoughSeenAny ==
  IF Kind.collects THEN \E k \in Targets : client.seen[k] > 0
  ELSE client.seen[1] = scenario.total

EnoughSeen ==
  IF Kind.collects THEN \A k \in Targets : client.seen[k] > 0
  ELSE client.seen[1] = scenario.total

(* main returns: its sockets and its threads go with it.                     *)
Finish ==
  /\ client.running /\ EnoughSeen
  /\ client' = [client EXCEPT !.running = FALSE]
  /\ mail' = NoMail
  /\ UNCHANGED <<scenario, phase, inbox, disk, pending, tail, answered, crashes>>

Next ==
  \/ \E i \in Services : Serve(i) \/ EndLoop(i) \/ Store(i) \/ Deploy(i)
  \/ \E i \in Services : Crash(i) \/ Start(i)
  \/ StartRun \/ Send \/ Finish
  \/ \E k \in Targets : Receive(k)

(* Every process that can run, runs; nobody has to crash a program, start it *)
(* again or start a client.                                                  *)
Fairness ==
  /\ WF_vars(\E i \in Services : Serve(i) \/ Store(i) \/ Deploy(i))
  /\ WF_vars(Send) /\ WF_vars(Finish)
  /\ WF_vars(\E k \in Targets : Receive(k))

Spec == Init /\ [][Next]_vars /\ Fairness

-------------------------------------------------------------------------------
(* Properties.                                                               *)

Images == {"missing", "torn", "token", "auction", "vote"}
Texts == {"none", "yes", "no", "text", "empty"}

(* Every variable has its type: a program that is not writing holds no       *)
(* image, a dead one no datagram, and the client's sockets exist only while  *)
(* it runs (the loops of the programs' mains and of the clients' mains).     *)
TypeOK ==
  /\ \A i \in Services :
       /\ phase[i] \in {"idle", "storing", "off"}
       /\ phase[i] # "storing" => pending[i] = NoImage
       /\ phase[i] = "storing" => disk[i] = Torn
       /\ phase[i] = "off" => inbox[i] = << >>
       /\ Len(inbox[i]) <= MaxQueue
       /\ disk[i].is \in Images /\ pending[i].answer \in Texts
       /\ answered[i] \in Texts
       /\ tail[i] \in Seq(0..9)
  /\ client.run \in 0..Len(scenario.script)
  /\ client.sent \in 0..(scenario.total * Len(Kind.target))
  /\ \A k \in Targets : client.seen[k] \in 0..scenario.total
  /\ ~client.running => mail = NoMail
  /\ crashes \in 0..scenario.faults

(* The state a program is in or about to be in.                              *)
Latest(i) == IF phase[i] = "storing" THEN pending[i].image ELSE disk[i]

Held(file) ==
  CASE file.is = "token" -> SumFunction(file.balance)
    [] file.is = "vote" ->
         SumFunction(Nominators(file, file.num)) + SumFunction(Voters(file, file.num))
    [] OTHER -> 0

(* The coins a program can keep: an encrypting one must be able to read back *)
(* every name, and all coins together on one account (loadState).            *)
KeepsCoins(p) ==
  p.encrypted => \A name \in DOMAIN scenario.genesis.balance : Fits(name, Held(scenario.genesis))

(* Transfers neither make nor lose coins: whatever file a Token program has  *)
(* or is writing holds what create_account put there, in every order of      *)
(* calls, crashes and restarts (transfer compares the balance first, and the *)
(* unsigned sums then stay below 2^32), unless the file was torn - provided  *)
(* the program can read its records back.                                    *)
TokensConserved ==
  \A i \in Services :
    Latest(i).is = "token" /\ KeepsCoins(Prog(i)) => Held(Latest(i)) = Held(scenario.genesis)

(* Outside test mode only a nominate call brings ballots into the world:     *)
(* votes, torn files, restarts and the reordering of records at a load never *)
(* add one (vote moves a ballot from its voter to a name), as long as what   *)
(* the file says is read back.                                               *)
BallotsNeverGrow ==
  [][\A i \in Services :
       Prog(i).contract = "Vote" /\ scenario.mode # "test"
         /\ (Prog(i).encrypted /\ Latest(i).is = "vote" => Whole(Latest(i)))
         /\ Held(Latest(i))' > Held(Latest(i))
         => inbox[i] # << >> /\ Head(inbox[i]).request.op = "nominate"]_vars

(* Where bids are compared, the price an auction stands at never falls until *)
(* an item is added or the file is torn, whatever the stale digits in the    *)
(* buffer made of a bid (bid, loadState, updateState) - if it is a price     *)
(* that is read back: 165 is not, and comes back as 2.                       *)
HighestBidOnlyRises ==
  [][\A i \in Services :
       Prog(i).encrypted /\ scenario.mode # "test"
         /\ Latest(i).is = "auction" /\ Latest(i)'.is = "auction"
         /\ Latest(i).bid \notin CutNumbers /\ Latest(i)'.bid < Latest(i).bid
         => inbox[i] # << >> /\ Head(inbox[i]).request.op = "addItem"]_vars

(* A client that was told its transfer, item or bid is done finds it in the  *)
(* file even if the program dies right then: the answer follows the write    *)
(* (updateState before sendto in every main).                                *)
AcknowledgedIsStored ==
  scenario.total = 1 /\ ~Kind.endless
    => \A i \in Services :
         client.request.op \in {"transfer", "addItem", "bid"} /\ answered[i] = "yes"
           => disk[i] # Torn

(* When main of a client returns, every provider it was started for has      *)
(* answered a request of this run (the counting loop and the loop over       *)
(* received_sig).  With more than one request a late answer to the run       *)
(* before would be counted, so the claim is about the first run and about    *)
(* runs of one request.                                                      *)
DoneMeansServed ==
  ~client.running /\ client.run > 0
    /\ (client.run = 1 \/ (scenario.total = 1 /\ ~Kind.endless))
    => \A i \in Services :
         PortOf(i) \in ToSet(Kind.target) => answered[i] # "none"

(* If no program dies, every run of a client ends: each program answers     *)
(* every datagram its client sends, on the port that client listens on (the  *)
(* loops, ports and arguments of the mains).                                 *)
ClientFinishes ==
  (scenario.faults = 0 /\ client.running) ~> ~client.running

(* Only the users the creator specified as voters hold a ballot (README of   *)
(* the repository, "specifies a group of users as the voters").              *)
VotersAreSpecified ==
  \A i \in Services :
    disk[i].is = "vote"
      => \A b \in LoadBallot(disk[i], Prog(i).encrypted) :
           \A name \in DOMAIN b.voters : b.voters[name] > 0 => name \in scenario.voters
===============================================================================
