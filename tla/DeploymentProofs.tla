--------------------------- MODULE DeploymentProofs ---------------------------
(***************************************************************************)
(* Theorems about Deployment, for every set of well-formed experiments,    *)
(* whatever the programs, the clients, the requests and the crashes.       *)
(***************************************************************************)
EXTENDS Deployment, SequenceTheorems, TLAPS

Stored == {"token", "auction", "vote"}
Acts == {"transfer", "addItem", "bid"}
Datagrams == [request : Calls(scenario), run : Nat \ {0}]

Clients ==
  [running : BOOLEAN, run : 0 .. Len(scenario.script),
   request : Calls(scenario) \cup {[op |-> "none"]},
   sent : 0 .. (scenario.total * Len(Kind.target)), seen : [Targets -> 0 .. scenario.total]]

ServiceTypes ==
  /\ phase \in [Services -> {"idle", "storing", "off"}]
  /\ inbox \in [Services -> Seq(Datagrams)]
  /\ DOMAIN disk = Services /\ DOMAIN pending = Services
  /\ tail \in [Services -> Seq(0 .. 9)]
  /\ \A i \in Services :
       /\ disk[i].is \in Images
       /\ pending[i].answer \in {"none", "yes"} /\ pending[i].run \in Nat
       /\ phase[i] = "storing" => disk[i] = Torn /\ pending[i].image.is \in Stored
       /\ phase[i] # "storing" => pending[i] = NoImage
       /\ phase[i] = "off" => inbox[i] = << >>
       /\ Len(inbox[i]) <= MaxQueue

ClientTypes ==
  /\ client \in Clients
  /\ client.running => client.run > 0 /\ client.request \in Calls(scenario)
  /\ ~client.running => mail = NoMail
  /\ mail \in [Targets -> Seq(Texts)]
  /\ answered \in [Services -> Texts]
  /\ crashes \in 0 .. scenario.faults

Types == scenario \in Scenarios /\ ServiceTypes /\ ClientTypes

-------------------------------------------------------------------------------
(* What the assumption says of the experiment of a behaviour.                *)
LEMMA WellFormed ==
  ASSUME scenario \in Scenarios
  PROVE  /\ Services = 1 .. Len(scenario.programs) /\ Len(scenario.programs) \in Nat
         /\ \A i \in Services : Prog(i) \in ProgramType
         /\ Kind \in ClientType /\ (~Kind.collects => Len(Kind.target) = 1)
         /\ Targets = 1 .. Len(Kind.target) /\ Len(Kind.target) \in Nat \ {0}
         /\ DOMAIN scenario.script = 1 .. Len(scenario.script) /\ Len(scenario.script) \in Nat
         /\ scenario.total \in Nat \ {0} /\ scenario.faults \in Nat
         /\ scenario.genesis.is = "token" /\ scenario.item.is \in {"missing", "auction"}
<1>1. /\ scenario.programs \in Seq(ProgramType) /\ scenario.client \in ClientType
      /\ ~scenario.client.collects => Len(scenario.client.target) = 1
      /\ DOMAIN scenario.script = 1 .. Len(scenario.script) /\ Len(scenario.script) \in Nat
      /\ scenario.total \in Nat \ {0} /\ scenario.faults \in Nat
      /\ scenario.genesis.is = "token" /\ scenario.item.is \in {"missing", "auction"}
  BY ScenarioAssumption DEF FilesSuit
<1>2. scenario.client.target \in Seq(Nat) /\ scenario.client.target # << >>
  BY <1>1 DEF ClientType
<1>3. Targets = 1 .. Len(Kind.target) /\ Len(Kind.target) \in Nat \ {0}
  BY <1>2 DEF Targets, Kind
<1>4. Services = 1 .. Len(scenario.programs) /\ Len(scenario.programs) \in Nat
  BY <1>1 DEF Services
<1>5. ASSUME NEW i \in Services
      PROVE  Prog(i) \in ProgramType
  BY <1>1, <1>4 DEF Prog
<1> QED
  BY <1>1, <1>3, <1>4, <1>5 DEF Kind

LEMMA Requests ==
  ASSUME scenario \in Scenarios, NEW r \in Calls(scenario)
  PROVE  /\ r.op = "bid" => r.price \in Seq(0 .. 9)
         /\ r.op = "addItem" => r.tail \in Seq(0 .. 9)
         /\ r.op = "transfer" => r.value \in Nat
         /\ r.op = "nominate" => r.candidates \in Seq(Nat) /\ r.voters \in Seq(Nat) \ {<< >>}
         /\ r.op = "vote" => r.voter \in Nat /\ r.candidate \in Nat
         /\ scenario.shell \/ \A i \in Services :
              /\ Prog(i).contract \notin {"Hello", "Complex"}
                   => r.op \in Operations[Prog(i).contract] \cup {"other", "empty"}
              /\ Prog(i).contract = "Vote" => r.op \notin Acts
<1>1. CallsSuit(scenario)
  BY ScenarioAssumption
<1>2. /\ r.op = "bid" => r.price \in Seq(0 .. 9)
      /\ r.op = "addItem" => r.tail \in Seq(0 .. 9)
      /\ r.op = "transfer" => r.value \in Nat
      /\ r.op = "nominate" => r.candidates \in Seq(Nat) /\ r.voters \in Seq(Nat) \ {<< >>}
      /\ r.op = "vote" => r.voter \in Nat /\ r.candidate \in Nat
  BY <1>1 DEF CallsSuit
<1>3. ASSUME NEW i \in Services, ~scenario.shell
      PROVE  /\ Prog(i).contract \notin {"Hello", "Complex"}
                   => r.op \in Operations[Prog(i).contract] \cup {"other", "empty"}
             /\ Prog(i).contract = "Vote" => r.op \notin Acts
  BY <1>1, <1>3 DEF CallsSuit, Services, Prog, Acts, Operations
<1> QED
  BY <1>2, <1>3

(* The port of a program tells it apart, and so does the one it answers to.  *)
LEMMA Ports ==
  ASSUME scenario \in Scenarios, NEW i \in Services
  PROVE  /\ \A j \in Services : PortOf(i) = PortOf(j) => i = j
         /\ \A j, k \in Targets : Kind.target[j] = Kind.target[k] => j = k
         /\ \A k \in Targets : PortOf(i) = Kind.target[k] <=> AnswerPort(i) = Kind.listen[k]
<1>1. PortsAgree(scenario)
  BY ScenarioAssumption
<1>2. \A j \in Services : Prog(j).recv \in Nat
  BY WellFormed DEF ProgramType
<1>3. ASSUME NEW j \in Services, PortOf(i) = PortOf(j)
      PROVE  i = j
  <2>1. Prog(i).recv = Prog(j).recv
    BY <1>2, <1>3 DEF PortOf
  <2> QED
    BY <1>1, <2>1 DEF PortsAgree, Services, Prog
<1>4. \A j, k \in Targets : Kind.target[j] = Kind.target[k] => j = k
  BY <1>1 DEF PortsAgree, Targets, Kind
<1>5. \A k \in Targets : PortOf(i) = Kind.target[k] <=> AnswerPort(i) = Kind.listen[k]
  BY <1>1 DEF PortsAgree, Targets, Kind, Services, PortOf, AnswerPort, Prog
<1> QED
  BY <1>3, <1>4, <1>5

LEMMA Fixed ==
  ASSUME scenario' = scenario
  PROVE  /\ Services' = Services /\ Targets' = Targets /\ Kind' = Kind /\ Clients' = Clients
         /\ Datagrams' = Datagrams /\ NoMail' = NoMail /\ Silence' = Silence
BY DEF Services, Targets, Kind, Clients, Datagrams, NoMail, Silence

LEMMA ArriveType ==
  ASSUME NEW S, NEW q \in Seq(S), NEW d \in S
  PROVE  /\ Arrive(q, d) \in Seq(S)
         /\ Len(q) <= MaxQueue => Len(Arrive(q, d)) <= MaxQueue
<1>1. MaxQueue \in Nat /\ Len(q) \in Nat
  BY DeploymentAssumption
<1>2. Append(q, d) \in Seq(S) /\ Len(Append(q, d)) = Len(q) + 1
  BY AppendProperties
<1> QED
  BY <1>1, <1>2 DEF Arrive

LEMMA TailType ==
  ASSUME NEW S, NEW q \in Seq(S), q # << >>
  PROVE  /\ Head(q) \in S /\ Tail(q) \in Seq(S) /\ Len(Tail(q)) = Len(q) - 1 /\ Len(q) \in Nat
BY HeadTailProperties

(* The digits that stay in a buffer are digits.                              *)
LEMMA OverlayType ==
  ASSUME NEW s \in Seq(0 .. 9), NEW t \in Seq(0 .. 9)
  PROVE  Overlay(s, t) \in Seq(0 .. 9)
<1>1. /\ Len(s) \in Nat /\ Len(t) \in Nat
  OBVIOUS
<1>2. SubSeq(t, Len(s) + 1, Len(t)) \in Seq(0 .. 9)
  <2>1. \A k \in Len(s) + 1 .. Len(t) : t[k] \in 0 .. 9
    BY <1>1
  <2> QED
    BY <1>1, <2>1
<1> QED
  BY <1>2, ConcatProperties DEF Overlay

-------------------------------------------------------------------------------
(* What the calls of a contract give (mode, file and request as they are).   *)
LEMMA OutcomesOfCalls ==
  ASSUME Types, NEW i \in Services, NEW r \in Calls(scenario), ~scenario.shell, r.op # "empty",
         NEW o \in Outcomes(Prog(i), disk[i], tail[i], r)
  PROVE  /\ o.stores \in BOOLEAN
         /\ o.stores => o.image.is \in Stored /\ o.answer = "yes"
         /\ ~o.stores => o.answer \in Texts \cup {"maybe", "exit"}
         /\ ~o.stores /\ r.op \in Acts => o.answer # "yes"
<1> DEFINE Good(x) == /\ x.stores \in BOOLEAN
                      /\ x.stores => x.image.is \in Stored /\ x.answer = "yes"
                      /\ ~x.stores => x.answer \in Texts \cup {"maybe", "exit"}
                      /\ ~x.stores /\ r.op \in Acts => x.answer # "yes"
<1>1. \A t \in {"no", "text", "maybe", "none", "exit"} : Good(Reply(t))
  BY DEF Reply, Texts
<1>2. r.op \notin Acts => Good(Reply("yes"))
  BY DEF Reply, Texts
<1>3. \A b, c, d : Good(Write(Ballot(b, c, d), "yes"))
  BY DEF Write, Ballot, Stored
<1>4. \A b, c : Good(Write(Item(b, c), "yes"))
  BY DEF Write, Item, Stored
<1>5. \A b : Good(Write(Balances(b), "yes"))
  BY DEF Write, Balances, Stored
<1> SUFFICES Good(o)
  OBVIOUS
<1> HIDE DEF Good
<1>6. CASE Prog(i).contract \in {"Hello", "Complex"}
  <2>1. Prog(i).says \in {"text", "maybe"}
    BY WellFormed DEF Types, ProgramType
  <2>2. o = Reply(Prog(i).says)
    BY <1>6 DEF Outcomes
  <2> QED
    BY <1>1, <2>1, <2>2
<1>7. CASE Prog(i).contract \notin {"Hello", "Complex"}
  <2>1. r.op \in {"createAc", "getBalance", "transfer", "addItem", "bid", "nominate", "vote",
                   "other"}
    <3>1. Prog(i).contract \in {"Token", "Auction", "Vote"}
      BY <1>7, WellFormed DEF Types, ProgramType
    <3>2. r.op \in Operations[Prog(i).contract] \cup {"other"}
      BY <1>7, Requests DEF Types
    <3> QED
      BY <3>1, <3>2 DEF Operations
  <2>2. CASE r.op = "other"
    BY <1>1, <1>7, <2>2 DEF Outcomes
  <2>3. CASE r.op = "addItem"
    BY <1>4, <1>7, <2>3 DEF Outcomes, AddItem
  <2>4. CASE r.op \notin {"other", "addItem"} /\ disk[i].is = "missing"
    BY <1>1, <1>7, <2>4 DEF Outcomes, Exit
  <2>5. CASE disk[i].is # "missing" /\ r.op \notin {"other", "addItem"}
    <3>1. CASE r.op = "createAc"
      <4>1. o \in CreateAc(disk[i], scenario.mode, Prog(i).encrypted, r.name)
        BY <1>7, <2>5, <3>1 DEF Outcomes
      <4> QED
        BY <1>1, <1>2, <3>1, <4>1 DEF CreateAc, Failure, Acts
    <3>2. CASE r.op = "getBalance"
      <4>1. o = GetBalance(disk[i], r.name)
        BY <1>7, <2>5, <3>2 DEF Outcomes
      <4> QED
        BY <1>1, <1>2, <3>2, <4>1 DEF GetBalance, Acts
    <3>3. CASE r.op = "transfer"
      <4>1. o \in Transfer(disk[i], Prog(i).encrypted, r.from, r.to, r.value)
        BY <1>7, <2>5, <3>3 DEF Outcomes
      <4> QED
        BY <1>1, <1>5, <4>1 DEF Transfer, Move, Failure
    <3>4. CASE r.op = "bid"
      <4>1. o \in Bid(disk[i], Prog(i).encrypted, Prog(i).encrypted = (scenario.mode # "test"),
                      r.who, Price(Overlay(r.price, tail[i])))
        BY <1>7, <2>5, <3>4 DEF Outcomes
      <4> QED
        BY <1>1, <1>4, <4>1 DEF Bid, Failure
    <3>5. CASE r.op = "nominate"
      <4>1. o \in Nominate(disk[i], scenario.mode, Prog(i).encrypted, r.caller, r.candidates,
                           r.voters)
        BY <1>7, <2>5, <3>5 DEF Outcomes
      <4>2. o = Failure \/ \E b, c, d : o = Write(Ballot(b, c, d), "yes")
        BY <4>1 DEF Nominate
      <4> QED
        BY <1>1, <1>3, <4>2 DEF Failure
    <3>6. CASE r.op = "vote"
      <4>1. o \in Vote(disk[i], scenario.mode, Prog(i).encrypted, r.voter, r.candidate)
        BY <1>7, <2>5, <3>6 DEF Outcomes
      <4>2. o = Failure \/ \E b, c, d : o = Write(Ballot(b, c, d), "yes")
        BY <4>1 DEF Vote, Cast
      <4> QED
        BY <1>1, <1>3, <4>2 DEF Failure
    <3> QED
      BY <2>5, <2>1, <3>1, <3>2, <3>3, <3>4, <3>5, <3>6
  <2> QED
    BY <2>2, <2>3, <2>4, <2>5
<1> QED
  BY <1>6, <1>7

-------------------------------------------------------------------------------
(* What a turn of the service loop comes to: program i takes the datagram d  *)
(* and begins to write, or answers, or ends.                                 *)
Takes(i, d) == phase[i] = "idle" /\ inbox[i] # << >> /\ d = Head(inbox[i])

Writes(i, d) ==
  /\ phase' = [phase EXCEPT ![i] = "storing"] /\ disk' = [disk EXCEPT ![i] = Torn]
  /\ \E new : /\ new.is \in Stored
              /\ pending' = [pending EXCEPT ![i] = [image |-> new, answer |-> "yes", run |-> d.run]]
  /\ inbox' = [inbox EXCEPT ![i] = Tail(@)]
  /\ UNCHANGED <<mail, answered>>

Responds(i, d) ==
  /\ \E text \in Texts :
       (d.request.op \in Acts => text # "yes") /\ Answer(i, text, d.run)
  /\ inbox' = [inbox EXCEPT ![i] = Tail(@)]
  /\ UNCHANGED <<phase, disk, pending>>

Ends(i) ==
  /\ phase' = [phase EXCEPT ![i] = "off"] /\ inbox' = [inbox EXCEPT ![i] = << >>]
  /\ UNCHANGED <<disk, pending, mail, answered>>

LEMMA ServeCases ==
  ASSUME Types, NEW i \in Services, Serve(i)
  PROVE  /\ \E d \in Datagrams : Takes(i, d) /\ (Writes(i, d) \/ Responds(i, d) \/ Ends(i))
         /\ tail' \in [Services -> Seq(0 .. 9)]
         /\ UNCHANGED <<scenario, client, crashes>>
<1>1. PICK d \in ToSet(inbox[i]) :
        /\ Receives(i, d) /\ d.request.op # "empty"
        /\ tail' = [tail EXCEPT ![i] = LeftBehind(Prog(i), @, d.request)]
        /\ \E o \in Outcomes(Prog(i), disk[i], tail[i], d.request) :
             \/ o.stores /\ Begin(i, o, d.run) /\ inbox' = [inbox EXCEPT ![i] = Tail(@)]
             \/ /\ ~o.stores /\ o.answer # "exit"
                /\ \E text \in Answers(o.answer) : Answer(i, text, d.run)
                /\ inbox' = [inbox EXCEPT ![i] = Tail(@)]
                /\ UNCHANGED <<phase, disk, pending>>
             \/ /\ o.answer = "exit"
                /\ phase' = [phase EXCEPT ![i] = "off"]
                /\ inbox' = [inbox EXCEPT ![i] = << >>]
                /\ UNCHANGED <<disk, pending, mail, answered>>
  BY DEF Serve
<1>2. UNCHANGED <<scenario, client, crashes>>
  BY DEF Serve
<1>3. Takes(i, d) /\ ~scenario.shell
  BY <1>1 DEF Receives, Takes
<1>4. d \in Datagrams
  <2>1. inbox[i] \in Seq(Datagrams)
    BY DEF Types, ServiceTypes
  <2> QED
    BY <1>3, <2>1, TailType DEF Takes
<1>5. d.request \in Calls(scenario)
  BY <1>4 DEF Datagrams
<1>6. PICK o \in Outcomes(Prog(i), disk[i], tail[i], d.request) :
             \/ o.stores /\ Begin(i, o, d.run) /\ inbox' = [inbox EXCEPT ![i] = Tail(@)]
             \/ /\ ~o.stores /\ o.answer # "exit"
                /\ \E text \in Answers(o.answer) : Answer(i, text, d.run)
                /\ inbox' = [inbox EXCEPT ![i] = Tail(@)]
                /\ UNCHANGED <<phase, disk, pending>>
             \/ /\ o.answer = "exit"
                /\ phase' = [phase EXCEPT ![i] = "off"]
                /\ inbox' = [inbox EXCEPT ![i] = << >>]
                /\ UNCHANGED <<disk, pending, mail, answered>>
  BY <1>1
<1>7. /\ o.stores \in BOOLEAN
      /\ o.stores => o.image.is \in Stored /\ o.answer = "yes"
      /\ ~o.stores => o.answer \in Texts \cup {"maybe", "exit"}
      /\ ~o.stores /\ d.request.op \in Acts => o.answer # "yes"
  BY <1>1, <1>3, <1>5, <1>6, OutcomesOfCalls
<1>8. Writes(i, d) \/ Responds(i, d) \/ Ends(i)
  <2>1. CASE o.stores /\ Begin(i, o, d.run) /\ inbox' = [inbox EXCEPT ![i] = Tail(@)]
    BY <1>7, <2>1 DEF Begin, Writes
  <2>2. CASE /\ ~o.stores /\ o.answer # "exit"
             /\ \E text \in Answers(o.answer) : Answer(i, text, d.run)
             /\ inbox' = [inbox EXCEPT ![i] = Tail(@)]
             /\ UNCHANGED <<phase, disk, pending>>
    <3>1. PICK text \in Answers(o.answer) : Answer(i, text, d.run)
      BY <2>2
    <3>2. text \in Texts /\ (d.request.op \in Acts => text # "yes")
      BY <1>7, <2>2, <3>1 DEF Answers, Texts
    <3> QED
      BY <2>2, <3>1, <3>2 DEF Responds
  <2>3. CASE /\ o.answer = "exit"
             /\ phase' = [phase EXCEPT ![i] = "off"]
             /\ inbox' = [inbox EXCEPT ![i] = << >>]
             /\ UNCHANGED <<disk, pending, mail, answered>>
    BY <2>3 DEF Ends
  <2> QED
    BY <1>6, <2>1, <2>2, <2>3
<1>9. LeftBehind(Prog(i), tail[i], d.request) \in Seq(0 .. 9)
  <2>1. tail[i] \in Seq(0 .. 9)
    BY DEF Types, ServiceTypes
  <2>2. d.request.op = "bid" => Overlay(d.request.price, tail[i]) \in Seq(0 .. 9)
    BY <1>5, <2>1, Requests, OverlayType DEF Types
  <2>3. d.request.op = "addItem" => d.request.tail \in Seq(0 .. 9)
    BY <1>5, Requests DEF Types
  <2>4. << >> \in Seq(0 .. 9)
    OBVIOUS
  <2>5. \/ LeftBehind(Prog(i), tail[i], d.request) = d.request.tail /\ d.request.op = "addItem"
        \/ /\ LeftBehind(Prog(i), tail[i], d.request) = Overlay(d.request.price, tail[i])
           /\ d.request.op = "bid"
        \/ LeftBehind(Prog(i), tail[i], d.request) = tail[i]
        \/ LeftBehind(Prog(i), tail[i], d.request) = << >>
    BY DEF LeftBehind
  <2> QED
    BY <2>1, <2>2, <2>3, <2>4, <2>5
<1>10. tail' \in [Services -> Seq(0 .. 9)]
  BY <1>1, <1>9 DEF Types, ServiceTypes
<1> QED
  BY <1>2, <1>3, <1>4, <1>8, <1>10

LEMMA AnswerTypes ==
  ASSUME Types, scenario' = scenario, NEW i \in Services, NEW text \in Texts, NEW run,
         Answer(i, text, run)
  PROVE  mail' \in [Targets -> Seq(Texts)] /\ answered' \in [Services -> Texts]
<1>1. \A k \in Targets : mail[k] \in Seq(Texts)
  BY DEF Types, ClientTypes
<1>2. \A k \in Targets : Arrive(mail[k], text) \in Seq(Texts)
  BY <1>1, ArriveType
<1>3. mail' \in [Targets -> Seq(Texts)]
  BY <1>1, <1>2 DEF Answer
<1>4. answered' \in [Services -> Texts]
  BY DEF Answer, Types, ClientTypes
<1> QED
  BY <1>3, <1>4

(* What a step that concerns the services must show of service i alone.      *)
LEMMA ServiceStep ==
  ASSUME Types, NEW i \in Services, scenario' = scenario,
         phase' \in [Services -> {"idle", "storing", "off"}],
         inbox' \in [Services -> Seq(Datagrams)],
         DOMAIN disk' = Services, DOMAIN pending' = Services,
         tail' \in [Services -> Seq(0 .. 9)],
         \A j \in Services \ {i} : /\ phase'[j] = phase[j] /\ inbox'[j] = inbox[j]
                                   /\ disk'[j] = disk[j] /\ pending'[j] = pending[j],
         disk'[i].is \in Images, pending'[i].answer \in {"none", "yes"}, pending'[i].run \in Nat,
         phase'[i] = "storing" => disk'[i] = Torn /\ pending'[i].image.is \in Stored,
         phase'[i] # "storing" => pending'[i] = NoImage,
         phase'[i] = "off" => inbox'[i] = << >>,
         Len(inbox'[i]) <= MaxQueue
  PROVE  ServiceTypes'
<1>1. Services' = Services /\ Datagrams' = Datagrams
  BY Fixed
<1>2. ASSUME NEW j \in Services
      PROVE  /\ disk'[j].is \in Images
             /\ pending'[j].answer \in {"none", "yes"} /\ pending'[j].run \in Nat
             /\ phase'[j] = "storing" => disk'[j] = Torn /\ pending'[j].image.is \in Stored
             /\ phase'[j] # "storing" => pending'[j] = NoImage
             /\ phase'[j] = "off" => inbox'[j] = << >>
             /\ Len(inbox'[j]) <= MaxQueue
  <2>1. CASE j = i
    BY <2>1
  <2>2. CASE j # i
    <3>1. /\ phase'[j] = phase[j] /\ inbox'[j] = inbox[j]
          /\ disk'[j] = disk[j] /\ pending'[j] = pending[j]
      BY <2>2
    <3> QED
      BY <3>1 DEF Types, ServiceTypes
  <2> QED
    BY <2>1, <2>2
<1> QED
  BY <1>1, <1>2 DEF ServiceTypes, Images, NoImage, Torn, Missing, Stored

(* What the client's state is made of stays what it is.                      *)
LEMMA ClientKept ==
  ASSUME Types, scenario' = scenario, client' = client, crashes' \in 0 .. scenario.faults,
         mail' \in [Targets -> Seq(Texts)], answered' \in [Services -> Texts],
         ~client.running => mail' = mail
  PROVE  ClientTypes'
<1>1. /\ Services' = Services /\ Targets' = Targets /\ Kind' = Kind /\ Clients' = Clients
      /\ NoMail' = NoMail
  BY Fixed
<1> QED
  BY <1>1 DEF Types, ClientTypes

LEMMA AnswerAbsent ==
  ASSUME Types, NEW i \in Services, NEW text, NEW run, Answer(i, text, run), ~client.running
  PROVE  mail' = mail /\ answered' = answered
<1>1. mail \in [Targets -> Seq(Texts)]
  BY DEF Types, ClientTypes
<1> QED
  BY <1>1 DEF Answer

(* A program that is not writing, or that dies, leaves its file as it is.    *)
LEMMA EndTypes ==
  ASSUME Types, NEW i \in Services, scenario' = scenario,
         phase' = [phase EXCEPT ![i] = "off"], inbox' = [inbox EXCEPT ![i] = << >>],
         disk' = disk,
         \/ pending' = pending /\ phase[i] # "storing"
         \/ pending' = [pending EXCEPT ![i] = NoImage],
         tail' \in [Services -> Seq(0 .. 9)]
  PROVE  ServiceTypes'
<1>1. /\ phase' \in [Services -> {"idle", "storing", "off"}]
      /\ inbox' \in [Services -> Seq(Datagrams)]
      /\ DOMAIN disk' = Services /\ DOMAIN pending' = Services
      /\ phase'[i] = "off" /\ inbox'[i] = << >> /\ pending'[i] = NoImage
      /\ \A j \in Services \ {i} : /\ phase'[j] = phase[j] /\ inbox'[j] = inbox[j]
                                   /\ disk'[j] = disk[j] /\ pending'[j] = pending[j]
  BY EmptySeq DEF Types, ServiceTypes
<1>2. disk'[i].is \in Images
  BY DEF Types, ServiceTypes
<1>3. NoImage.answer = "none" /\ NoImage.run = 0
  BY DEF NoImage
<1>4. Len(inbox'[i]) <= MaxQueue
  <2>1. Len(inbox'[i]) = 0
    BY <1>1
  <2> QED
    BY <2>1, DeploymentAssumption
<1>5. DOMAIN pending = Services /\ (phase[i] # "storing" => pending[i] = NoImage)
  BY DEF Types, ServiceTypes
<1>6. pending'[i] = NoImage
  BY <1>5
<1>7. /\ pending'[i].answer \in {"none", "yes"} /\ pending'[i].run \in Nat
      /\ phase'[i] # "storing"
  BY <1>1, <1>3, <1>6
<1> QED
  BY <1>1, <1>2, <1>4, <1>6, <1>7, ServiceStep

(* One lemma for each kind of step of a program.                             *)
LEMMA ServeTypes ==
  ASSUME Types, NEW i \in Services, Serve(i)
  PROVE  Types'
<1>1. PICK d \in Datagrams : Takes(i, d) /\ (Writes(i, d) \/ Responds(i, d) \/ Ends(i))
  BY ServeCases
<1>2. tail' \in [Services -> Seq(0 .. 9)] /\ UNCHANGED <<scenario, client, crashes>>
  BY ServeCases
<1>3. /\ inbox[i] \in Seq(Datagrams) /\ Len(inbox[i]) <= MaxQueue /\ phase[i] = "idle"
      /\ inbox[i] # << >> /\ d.run \in Nat
  BY <1>1 DEF Types, ServiceTypes, Takes, Datagrams
<1>4. Tail(inbox[i]) \in Seq(Datagrams) /\ Len(Tail(inbox[i])) <= MaxQueue
  BY <1>3, TailType, DeploymentAssumption
<1>5. crashes \in 0 .. scenario.faults /\ mail \in [Targets -> Seq(Texts)]
      /\ answered \in [Services -> Texts]
  BY DEF Types, ClientTypes
<1>6. CASE Writes(i, d)
  <2>1. ClientTypes'
    BY <1>2, <1>5, <1>6, ClientKept DEF Writes
  <2>2. PICK new : /\ new.is \in Stored
                   /\ pending' = [pending EXCEPT ![i] = [image |-> new, answer |-> "yes",
                                                         run |-> d.run]]
    BY <1>6 DEF Writes
  <2>3. /\ phase' = [phase EXCEPT ![i] = "storing"] /\ disk' = [disk EXCEPT ![i] = Torn]
        /\ inbox' = [inbox EXCEPT ![i] = Tail(@)]
    BY <1>6 DEF Writes
  <2>4. /\ phase' \in [Services -> {"idle", "storing", "off"}]
        /\ inbox' \in [Services -> Seq(Datagrams)]
        /\ DOMAIN disk' = Services /\ DOMAIN pending' = Services
        /\ phase'[i] = "storing" /\ disk'[i] = Torn /\ inbox'[i] = Tail(inbox[i])
        /\ pending'[i] = [image |-> new, answer |-> "yes", run |-> d.run]
        /\ \A j \in Services \ {i} : /\ phase'[j] = phase[j] /\ inbox'[j] = inbox[j]
                                     /\ disk'[j] = disk[j] /\ pending'[j] = pending[j]
    BY <1>4, <2>2, <2>3 DEF Types, ServiceTypes
  <2>5. ServiceTypes'
    <3>1. Torn.is \in Images
      BY DEF Torn, Images
    <3>2. pending'[i].answer = "yes" /\ pending'[i].run = d.run /\ pending'[i].image = new
      BY <2>4
    <3>3. phase'[i] # "off" /\ disk'[i].is \in Images
      BY <2>4, <3>1
    <3> HIDE DEF Stored
    <3> QED
      BY <1>2, <1>3, <1>4, <2>2, <2>4, <3>2, <3>3, ServiceStep
  <2> QED
    BY <1>2, <2>1, <2>5 DEF Types
<1>7. CASE Responds(i, d)
  <2>1. PICK text \in Texts : Answer(i, text, d.run)
    BY <1>7 DEF Responds
  <2>2. mail' \in [Targets -> Seq(Texts)] /\ answered' \in [Services -> Texts]
    BY <1>2, <2>1, AnswerTypes
  <2>3. ~client.running => mail' = mail
    BY <2>1, AnswerAbsent
  <2>4. ClientTypes'
    BY <1>2, <1>5, <2>2, <2>3, ClientKept
  <2>5. inbox' = [inbox EXCEPT ![i] = Tail(@)] /\ phase' = phase /\ disk' = disk /\ pending' = pending
    BY <1>7 DEF Responds
  <2>6. /\ inbox' \in [Services -> Seq(Datagrams)] /\ inbox'[i] = Tail(inbox[i])
        /\ \A j \in Services \ {i} : inbox'[j] = inbox[j]
    BY <1>4, <2>5 DEF Types, ServiceTypes
  <2>7. /\ phase' \in [Services -> {"idle", "storing", "off"}]
        /\ DOMAIN disk' = Services /\ DOMAIN pending' = Services
        /\ disk'[i].is \in Images /\ pending'[i].answer \in {"none", "yes"} /\ pending'[i].run \in Nat
        /\ phase'[i] = "idle" /\ pending'[i] = NoImage
        /\ \A j \in Services \ {i} : /\ phase'[j] = phase[j] /\ disk'[j] = disk[j]
                                     /\ pending'[j] = pending[j]
    BY <1>3, <2>5 DEF Types, ServiceTypes
  <2>8. ServiceTypes'
    BY <1>2, <1>4, <2>6, <2>7, ServiceStep
  <2> QED
    BY <1>2, <2>4, <2>8 DEF Types
<1>8. CASE Ends(i)
  <2>1. ClientTypes'
    BY <1>2, <1>5, <1>8, ClientKept DEF Ends
  <2>2. ServiceTypes'
    BY <1>2, <1>3, <1>8, EndTypes DEF Ends
  <2> QED
    BY <1>2, <2>1, <2>2 DEF Types
<1> QED
  BY <1>1, <1>6, <1>7, <1>8

LEMMA NoDigits ==
  ASSUME Types, NEW i \in Services
  PROVE  [tail EXCEPT ![i] = << >>] \in [Services -> Seq(0 .. 9)]
<1>1. << >> \in Seq(0 .. 9)
  OBVIOUS
<1> QED
  BY <1>1 DEF Types, ServiceTypes

LEMMA EndLoopTypes ==
  ASSUME Types, NEW i \in Services, EndLoop(i)
  PROVE  Types'
<1>1. /\ phase[i] = "idle" /\ phase' = [phase EXCEPT ![i] = "off"]
      /\ inbox' = [inbox EXCEPT ![i] = << >>] /\ tail' = [tail EXCEPT ![i] = << >>]
      /\ UNCHANGED <<scenario, disk, pending, client, mail, answered, crashes>>
  BY DEF EndLoop, Receives
<1>2. ServiceTypes'
  BY <1>1, NoDigits, EndTypes
<1>3. ClientTypes'
  BY <1>1, ClientKept DEF Types, ClientTypes
<1> QED
  BY <1>1, <1>2, <1>3 DEF Types

LEMMA CrashTypes ==
  ASSUME Types, NEW i \in Services, Crash(i)
  PROVE  Types'
<1>1. /\ crashes < scenario.faults /\ crashes' = crashes + 1
      /\ phase' = [phase EXCEPT ![i] = "off"] /\ pending' = [pending EXCEPT ![i] = NoImage]
      /\ inbox' = [inbox EXCEPT ![i] = << >>] /\ tail' = [tail EXCEPT ![i] = << >>]
      /\ UNCHANGED <<scenario, disk, client, mail, answered>>
  BY DEF Crash
<1>2. ServiceTypes'
  BY <1>1, NoDigits, EndTypes
<1>3. crashes' \in 0 .. scenario.faults
  <2>1. crashes \in 0 .. scenario.faults /\ scenario.faults \in Nat
    BY WellFormed DEF Types, ClientTypes
  <2> QED
    BY <1>1, <2>1
<1>4. ClientTypes'
  BY <1>1, <1>3, ClientKept DEF Types, ClientTypes
<1> QED
  BY <1>1, <1>2, <1>4 DEF Types

LEMMA DeployTypes ==
  ASSUME Types, NEW i \in Services, Deploy(i)
  PROVE  Types'
<1>1. /\ phase[i] = "idle" /\ phase' = [phase EXCEPT ![i] = "off"]
      /\ inbox' = [inbox EXCEPT ![i] = << >>] /\ Answer(i, "text", Head(inbox[i]).run)
      /\ UNCHANGED <<scenario, disk, pending, tail, client, crashes>>
  BY DEF Deploy
<1>2. ServiceTypes'
  BY <1>1, EndTypes DEF Types, ServiceTypes
<1>3. mail' \in [Targets -> Seq(Texts)] /\ answered' \in [Services -> Texts]
  BY <1>1, AnswerTypes DEF Texts
<1>4. ~client.running => mail' = mail
  BY <1>1, AnswerAbsent
<1>5. ClientTypes'
  BY <1>1, <1>3, <1>4, ClientKept DEF Types, ClientTypes
<1> QED
  BY <1>1, <1>2, <1>5 DEF Types

LEMMA StoreTypes ==
  ASSUME Types, NEW i \in Services, Store(i)
  PROVE  Types'
<1>1. /\ phase[i] = "storing" /\ phase' = [phase EXCEPT ![i] = "idle"]
      /\ disk' = [disk EXCEPT ![i] = pending[i].image] /\ pending' = [pending EXCEPT ![i] = NoImage]
      /\ Answer(i, pending[i].answer, pending[i].run)
      /\ UNCHANGED <<scenario, inbox, tail, client, crashes>>
  BY DEF Store
<1>2. pending[i].image.is \in Images /\ pending[i].answer \in Texts
  BY <1>1 DEF Types, ServiceTypes, Stored, Images, Texts
<1>3. /\ phase' \in [Services -> {"idle", "storing", "off"}]
      /\ DOMAIN disk' = Services /\ DOMAIN pending' = Services
      /\ phase'[i] = "idle" /\ disk'[i] = pending[i].image /\ pending'[i] = NoImage
      /\ \A j \in Services \ {i} : /\ phase'[j] = phase[j] /\ inbox'[j] = inbox[j]
                                   /\ disk'[j] = disk[j] /\ pending'[j] = pending[j]
  BY <1>1 DEF Types, ServiceTypes
<1>4. inbox' \in [Services -> Seq(Datagrams)] /\ Len(inbox'[i]) <= MaxQueue
      /\ tail' \in [Services -> Seq(0 .. 9)]
  BY <1>1 DEF Types, ServiceTypes
<1>5. NoImage.answer = "none" /\ NoImage.run = 0
  BY DEF NoImage
<1>6. ServiceTypes'
  <2>1. scenario' = scenario /\ disk'[i].is \in Images /\ phase'[i] # "storing" /\ phase'[i] # "off"
    BY <1>1, <1>2, <1>3
  <2>2. pending'[i].answer \in {"none", "yes"} /\ pending'[i].run \in Nat
    BY <1>3, <1>5
  <2>3. disk'[i] = Torn \/ phase'[i] # "storing"
    BY <2>1
  <2> QED
    BY <1>3, <1>4, <2>1, <2>2, <2>3, ServiceStep
<1>7. mail' \in [Targets -> Seq(Texts)] /\ answered' \in [Services -> Texts]
  BY <1>1, <1>2, AnswerTypes
<1>8. ~client.running => mail' = mail
  BY <1>1, AnswerAbsent
<1>9. ClientTypes'
  BY <1>1, <1>7, <1>8, ClientKept DEF Types, ClientTypes
<1> QED
  BY <1>1, <1>6, <1>9 DEF Types

LEMMA StartTypes ==
  ASSUME Types, NEW i \in Services, Start(i)
  PROVE  Types'
<1>1. /\ phase[i] = "off" /\ tail' = [tail EXCEPT ![i] = << >>]
      /\ UNCHANGED <<scenario, inbox, client, crashes, mail, answered>>
  BY DEF Start, Begin
<1>2. ClientTypes'
  BY <1>1, ClientKept DEF Types, ClientTypes
<1>3. tail' \in [Services -> Seq(0 .. 9)]
  BY <1>1, NoDigits
<1>4. inbox' \in [Services -> Seq(Datagrams)] /\ Len(inbox'[i]) <= MaxQueue
  BY <1>1 DEF Types, ServiceTypes
<1>5. CASE Initialises(Prog(i), disk[i])
  <2> DEFINE new == FirstBallot(scenario.creator)
             p == [image |-> new, answer |-> "none", run |-> 0]
  <2>1. /\ phase' = [phase EXCEPT ![i] = "storing"] /\ disk' = [disk EXCEPT ![i] = Torn]
        /\ pending' = [pending EXCEPT ![i] = p]
    BY <1>5 DEF Start, Begin, Write
  <2>2. new.is \in Stored
    BY DEF FirstBallot, Ballot, Stored
  <2>3. p.image.is \in Stored /\ p.answer = "none" /\ p.run = 0
    BY <2>2
  <2> HIDE DEF new, p
  <2>4. /\ phase' \in [Services -> {"idle", "storing", "off"}]
        /\ DOMAIN disk' = Services /\ DOMAIN pending' = Services
        /\ phase'[i] = "storing" /\ disk'[i] = Torn /\ pending'[i] = p
        /\ \A j \in Services \ {i} : /\ phase'[j] = phase[j] /\ inbox'[j] = inbox[j]
                                     /\ disk'[j] = disk[j] /\ pending'[j] = pending[j]
    BY <1>1, <2>1 DEF Types, ServiceTypes
  <2>5. Torn.is \in Images
    BY DEF Torn, Images
  <2>6. ServiceTypes'
    BY <1>1, <1>3, <1>4, <2>3, <2>4, <2>5, ServiceStep
  <2> QED
    BY <1>1, <1>2, <2>6 DEF Types
<1>6. CASE ~Initialises(Prog(i), disk[i])
  <2>1. phase' = [phase EXCEPT ![i] = "idle"] /\ disk' = disk /\ pending' = pending
    BY <1>6 DEF Start
  <2>2. /\ phase' \in [Services -> {"idle", "storing", "off"}]
        /\ DOMAIN disk' = Services /\ DOMAIN pending' = Services
        /\ phase'[i] = "idle" /\ disk'[i].is \in Images /\ pending'[i] = NoImage
        /\ \A j \in Services \ {i} : /\ phase'[j] = phase[j] /\ inbox'[j] = inbox[j]
                                     /\ disk'[j] = disk[j] /\ pending'[j] = pending[j]
    BY <1>1, <2>1 DEF Types, ServiceTypes
  <2>3. NoImage.answer = "none" /\ NoImage.run = 0
    BY DEF NoImage
  <2>4. ServiceTypes'
    BY <1>1, <1>3, <1>4, <2>2, <2>3, ServiceStep
  <2> QED
    BY <1>1, <1>2, <2>4 DEF Types
<1> QED
  BY <1>5, <1>6

(* The steps of the client.                                                  *)
LEMMA ServicesKept ==
  ASSUME Types, UNCHANGED <<scenario, phase, inbox, disk, pending, tail>>
  PROVE  ServiceTypes'
<1>1. Services' = Services /\ Datagrams' = Datagrams
  BY Fixed
<1> QED
  BY <1>1 DEF Types, ServiceTypes, Images, NoImage, Torn, Missing, Stored

LEMMA StartRunTypes ==
  ASSUME Types, StartRun
  PROVE  Types'
<1>1. PICK r \in scenario.script[client.run + 1] :
        client' = [running |-> TRUE, run |-> client.run + 1, request |-> r, sent |-> 0,
                   seen |-> [k \in Targets |-> 0]]
  BY DEF StartRun
<1>2. /\ ~client.running /\ client.run < Len(scenario.script) /\ mail' = NoMail
      /\ answered' = Silence
      /\ UNCHANGED <<scenario, phase, inbox, disk, pending, tail, crashes>>
  BY DEF StartRun
<1>3. /\ client.run \in 0 .. Len(scenario.script) /\ Len(scenario.script) \in Nat
      /\ DOMAIN scenario.script = 1 .. Len(scenario.script)
      /\ scenario.total \in Nat \ {0} /\ Len(Kind.target) \in Nat \ {0}
  BY WellFormed DEF Types, ClientTypes, Clients
<1>4. client.run + 1 \in DOMAIN scenario.script
  BY <1>2, <1>3
<1>5. r \in Calls(scenario)
  BY <1>1, <1>4 DEF Calls
<1>6. scenario.total * Len(Kind.target) \in Nat
  BY <1>3
<1>7. client' \in Clients
  <2>1. client.run + 1 \in 0 .. Len(scenario.script)
    BY <1>2, <1>3
  <2>2. 0 \in 0 .. (scenario.total * Len(Kind.target))
    BY <1>6
  <2>3. [k \in Targets |-> 0] \in [Targets -> 0 .. scenario.total]
    BY <1>3
  <2> QED
    BY <1>1, <1>5, <2>1, <2>2, <2>3 DEF Clients
<1>8. client'.running /\ client'.run > 0 /\ client'.request \in Calls(scenario)
  BY <1>1, <1>3, <1>5
<1>9. NoMail \in [Targets -> Seq(Texts)]
  BY EmptySeq DEF NoMail
<1>10. Silence \in [Services -> Texts]
  BY DEF Silence, Texts
<1>11. ClientTypes'
  <2>1. /\ Services' = Services /\ Targets' = Targets /\ Kind' = Kind /\ Clients' = Clients
        /\ NoMail' = NoMail
    BY <1>2, Fixed
  <2> QED
    BY <1>2, <1>7, <1>8, <1>9, <1>10, <2>1 DEF Types, ClientTypes
<1> QED
  BY <1>2, <1>11, ServicesKept DEF Types

LEMMA SendTypes ==
  ASSUME Types, Send
  PROVE  Types'
<1> DEFINE to == Kind.target[(client.sent % Len(Kind.target)) + 1]
           d == [request |-> client.request, run |-> client.run]
<1>1. /\ client.running /\ MoreToSend
      /\ inbox' = [i \in Services |-> IF PortOf(i) = to /\ phase[i] # "off"
                                      THEN Arrive(inbox[i], d) ELSE inbox[i]]
      /\ client' = IF Kind.endless THEN client ELSE [client EXCEPT !.sent = @ + 1]
      /\ UNCHANGED <<scenario, phase, disk, pending, tail, mail, answered, crashes>>
  BY DEF Send
<1>2. d \in Datagrams
  <2>1. client.run \in Nat /\ client.run > 0 /\ client.request \in Calls(scenario)
    BY <1>1, WellFormed DEF Types, ClientTypes, Clients
  <2> QED
    BY <2>1 DEF Datagrams
<1> HIDE DEF to, d
<1>3. ASSUME NEW i \in Services
      PROVE  /\ inbox'[i] \in Seq(Datagrams) /\ Len(inbox'[i]) <= MaxQueue
             /\ phase[i] = "off" => inbox'[i] = << >>
  <2>1. inbox[i] \in Seq(Datagrams) /\ Len(inbox[i]) <= MaxQueue
        /\ (phase[i] = "off" => inbox[i] = << >>)
    BY DEF Types, ServiceTypes
  <2>2. Arrive(inbox[i], d) \in Seq(Datagrams) /\ Len(Arrive(inbox[i], d)) <= MaxQueue
    BY <1>2, <2>1, ArriveType
  <2>3. inbox'[i] = IF PortOf(i) = to /\ phase[i] # "off" THEN Arrive(inbox[i], d) ELSE inbox[i]
    BY <1>1
  <2> QED
    BY <2>1, <2>2, <2>3
<1>4. inbox' \in [Services -> Seq(Datagrams)]
  BY <1>1, <1>3
<1>5. ServiceTypes'
  <2>1. Services' = Services /\ Datagrams' = Datagrams
    BY <1>1, Fixed
  <2> QED
    BY <1>1, <1>3, <1>4, <2>1 DEF Types, ServiceTypes, Images, NoImage, Torn, Missing, Stored
<1>6. client' \in Clients /\ client'.running = client.running /\ client'.run = client.run
      /\ client'.request = client.request
  <2>1. client \in Clients
    BY DEF Types, ClientTypes
  <2>2. CASE Kind.endless
    BY <1>1, <2>1, <2>2
  <2>3. CASE ~Kind.endless
    <3>1. client.sent + 1 \in 0 .. (scenario.total * Len(Kind.target))
      <4>1. /\ client.sent \in Nat /\ scenario.total \in Nat \ {0}
            /\ Len(Kind.target) \in Nat \ {0}
        BY <2>1, WellFormed DEF Clients, Types
      <4>2. scenario.total * Len(Kind.target) \in Nat
            /\ 1 <= scenario.total * Len(Kind.target)
        BY <4>1
      <4>3. client.sent < IF Kind.once THEN 1 ELSE scenario.total * Len(Kind.target)
        BY <1>1, <2>3 DEF MoreToSend
      <4> HIDE DEF MoreToSend
      <4> QED
        BY <4>1, <4>2, <4>3
    <3>2. client' = [client EXCEPT !.sent = client.sent + 1]
      BY <1>1, <2>3
    <3> QED
      BY <2>1, <3>1, <3>2 DEF Clients
  <2> QED
    BY <2>2, <2>3
<1>7. ClientTypes'
  <2>1. /\ Services' = Services /\ Targets' = Targets /\ Clients' = Clients
    BY <1>1, Fixed
  <2> QED
    BY <1>1, <1>6, <2>1 DEF Types, ClientTypes
<1> QED
  BY <1>1, <1>5, <1>7 DEF Types

LEMMA ReceiveTypes ==
  ASSUME Types, NEW k \in Targets, Receive(k)
  PROVE  Types'
<1> DEFINE n == IF Kind.endless /\ Head(mail[k]) = "empty" THEN 0 ELSE 1
           new == IF client.seen[k] + n > scenario.total THEN client.seen[k]
                  ELSE client.seen[k] + n
           s == [client.seen EXCEPT ![k] = new]
<1>1. /\ client.running /\ mail[k] # << >> /\ mail' = [mail EXCEPT ![k] = Tail(@)]
      /\ client' = [client EXCEPT !.seen = s]
      /\ UNCHANGED <<scenario, phase, inbox, disk, pending, tail, answered, crashes>>
  BY DEF Receive
<1>2. client \in Clients /\ scenario.total \in Nat
  BY WellFormed DEF Types, ClientTypes
<1>3. client.seen[k] \in 0 .. scenario.total /\ n \in {0, 1}
  BY <1>2 DEF Clients
<1>4. new \in 0 .. scenario.total
  BY <1>2, <1>3
<1> HIDE DEF new
<1>5. s \in [Targets -> 0 .. scenario.total]
  BY <1>2, <1>4 DEF Clients
<1> HIDE DEF s
<1>6. client' \in Clients /\ client'.running = client.running /\ client'.run = client.run
      /\ client'.request = client.request
  BY <1>1, <1>2, <1>5 DEF Clients
<1>7. mail' \in [Targets -> Seq(Texts)]
  <2>1. mail \in [Targets -> Seq(Texts)]
    BY DEF Types, ClientTypes
  <2>2. Tail(mail[k]) \in Seq(Texts)
    BY <1>1, <2>1, TailType
  <2> QED
    BY <1>1, <2>1, <2>2
<1>8. ClientTypes'
  <2>1. /\ Services' = Services /\ Targets' = Targets /\ Clients' = Clients
    BY <1>1, Fixed
  <2> QED
    BY <1>1, <1>6, <1>7, <2>1 DEF Types, ClientTypes
<1> QED
  BY <1>1, <1>8, ServicesKept DEF Types

LEMMA FinishTypes ==
  ASSUME Types, Finish
  PROVE  Types'
<1>1. /\ client' = [client EXCEPT !.running = FALSE] /\ mail' = NoMail
      /\ UNCHANGED <<scenario, phase, inbox, disk, pending, tail, answered, crashes>>
  BY DEF Finish
<1>2. client' \in Clients /\ ~client'.running
  BY <1>1 DEF Types, ClientTypes, Clients
<1>3. NoMail \in [Targets -> Seq(Texts)]
  BY EmptySeq DEF NoMail
<1>4. ClientTypes'
  <2>1. /\ Services' = Services /\ Targets' = Targets /\ Clients' = Clients /\ NoMail' = NoMail
    BY <1>1, Fixed
  <2> QED
    BY <1>1, <1>2, <1>3, <2>1 DEF Types, ClientTypes
<1> QED
  BY <1>1, <1>4, ServicesKept DEF Types

LEMMA InitTypes ==
  ASSUME Init
  PROVE  Types
<1>1. /\ scenario \in Scenarios /\ phase = [i \in Services |-> "idle"]
      /\ inbox = [i \in Services |-> << >>] /\ disk = [i \in Services |-> FirstFile(Prog(i))]
      /\ pending = [i \in Services |-> NoImage] /\ tail = [i \in Services |-> << >>]
      /\ client = [running |-> FALSE, run |-> 0, request |-> [op |-> "none"], sent |-> 0,
                   seen |-> [k \in Targets |-> 0]]
      /\ mail = NoMail /\ answered = Silence /\ crashes = 0
  BY DEF Init
<1>2. ASSUME NEW i \in Services
      PROVE  FirstFile(Prog(i)).is \in Images
  BY <1>1, WellFormed DEF FirstFile, FirstBallot, Ballot, Missing, Images
<1>3. << >> \in Seq(Datagrams) /\ << >> \in Seq(0 .. 9) /\ Len(<< >>) = 0 /\ MaxQueue \in Nat
  BY DeploymentAssumption
<1>4. ServiceTypes
  BY <1>1, <1>2, <1>3 DEF ServiceTypes, NoImage
<1>5. /\ scenario.total \in Nat \ {0} /\ Len(Kind.target) \in Nat \ {0}
      /\ Len(scenario.script) \in Nat /\ scenario.faults \in Nat
  BY <1>1, WellFormed
<1>6. scenario.total * Len(Kind.target) \in Nat
  BY <1>5
<1>7. client \in Clients
  BY <1>1, <1>5, <1>6 DEF Clients
<1>8. NoMail \in [Targets -> Seq(Texts)]
  BY EmptySeq DEF NoMail
<1>9. Silence \in [Services -> Texts]
  BY DEF Silence, Texts
<1> QED
  BY <1>1, <1>4, <1>5, <1>7, <1>8, <1>9 DEF Types, ClientTypes

LEMMA TypesStep ==
  ASSUME Types, [Next]_vars
  PROVE  Types'
<1>1. CASE UNCHANGED vars
  <2>1. UNCHANGED <<scenario, phase, inbox, disk, pending, tail, client, mail, answered, crashes>>
    BY <1>1 DEF vars
  <2> QED
    BY <2>1, ServicesKept, ClientKept DEF Types, ClientTypes
<1>2. CASE Next
  BY <1>2, ServeTypes, EndLoopTypes, StoreTypes, DeployTypes, CrashTypes, StartTypes,
     StartRunTypes, SendTypes, FinishTypes, ReceiveTypes DEF Next
<1> QED
  BY <1>1, <1>2

(* The types hold throughout.                                                *)
THEOREM TypesCorrect == Spec => []Types
<1>1. Init => Types
  BY InitTypes
<1>2. Types /\ [Next]_vars => Types'
  BY TypesStep
<1> QED
  BY <1>1, <1>2, PTL DEF Spec

(* TypeOK, which the run of Deployment checks: among others, no image is     *)
(* held but while a file is written, and a dead program has no datagram.     *)
THEOREM TypeCorrect == Spec => []TypeOK
<1>1. Types => TypeOK
  <2> SUFFICES ASSUME Types PROVE TypeOK
    OBVIOUS
  <2>1. /\ client.run \in 0 .. Len(scenario.script)
        /\ client.sent \in 0 .. (scenario.total * Len(Kind.target))
        /\ \A k \in Targets : client.seen[k] \in 0 .. scenario.total
    BY DEF Types, ClientTypes, Clients
  <2> QED
    BY <2>1 DEF Types, ServiceTypes, ClientTypes, TypeOK, Texts
<1> QED
  BY <1>1, TypesCorrect, PTL

-------------------------------------------------------------------------------
(* DoneMeansServed is not inductive: what a client has seen was sent by a    *)
(* program, in answer to a datagram, and this was one of the present run     *)
(* because nothing is under way when a run starts.                           *)
OneShot == scenario.total = 1 /\ ~Kind.endless
FirstOrOnly == client.run <= 1 \/ OneShot
Addressed(i) == \E k \in Targets : Kind.target[k] = PortOf(i) /\ k <= client.sent

Quiet == client.run = 0 => \A i \in Services : inbox[i] = << >> /\ pending[i].run = 0
OfThisRun ==
  FirstOrOnly => \A i \in Services :
    /\ \A n \in 1 .. Len(inbox[i]) :
         inbox[i][n].run = client.run /\ inbox[i][n].request = client.request
    /\ pending[i].run \in {0, client.run}
Unasked == \A i \in Services : pending[i].run = 0 => pending[i].answer = "none"
Witnessed ==
  FirstOrOnly => \A k \in Targets :
    mail[k] # << >> \/ client.seen[k] > 0
      => \E i \in Services : AnswerPort(i) = Kind.listen[k] /\ answered[i] # "none"
OneAtATime ==
  OneShot => \A i \in Services :
    /\ inbox[i] # << >> => /\ Len(inbox[i]) = 1 /\ Addressed(i)
                           /\ answered[i] = "none" /\ pending[i].run = 0
    /\ pending[i].run # 0 => Addressed(i) /\ answered[i] = "none"
    /\ answered[i] # "none" => Addressed(i)

ServedInv ==
  Quiet /\ OfThisRun /\ Unasked /\ Witnessed /\ OneAtATime /\ DoneMeansServed
    /\ AcknowledgedIsStored

-------------------------------------------------------------------------------
(* What any step of a program may do.                                        *)
OnlyAt(i) ==
  /\ UNCHANGED <<scenario, client>>
  /\ \A j \in Services \ {i} : /\ inbox'[j] = inbox[j] /\ pending'[j] = pending[j]
                               /\ disk'[j] = disk[j] /\ answered'[j] = answered[j]

Keeps(i) ==
  /\ UNCHANGED <<mail, answered>>
  /\ inbox'[i] = inbox[i] \/ inbox'[i] = << >>
  /\ pending'[i] = pending[i] \/ (pending'[i].run = 0 /\ pending'[i].answer = "none")
  /\ disk'[i] = disk[i] \/ (Prog(i).contract = "Vote" /\ ~scenario.shell)

Begins(i, d) ==
  /\ UNCHANGED <<mail, answered>>
  /\ inbox'[i] = Tail(inbox[i]) /\ pending'[i].run = d.run /\ pending'[i].answer = "yes"

Replies(i, d) ==
  /\ inbox'[i] = Tail(inbox[i]) \/ inbox'[i] = << >>
  /\ pending'[i] = pending[i] /\ disk'[i] = disk[i]
  /\ \E text \in Texts : (d.request.op \in Acts => text # "yes") /\ Answer(i, text, d.run)

Completes(i) ==
  /\ inbox'[i] = inbox[i] /\ pending'[i] = NoImage /\ disk'[i] # Torn
  /\ Answer(i, pending[i].answer, pending[i].run)

ProgramStep(i) == Serve(i) \/ EndLoop(i) \/ Store(i) \/ Deploy(i) \/ Crash(i) \/ Start(i)

LEMMA AnswerElsewhere ==
  ASSUME Types, NEW i \in Services, NEW text, NEW run, Answer(i, text, run)
  PROVE  \A j \in Services \ {i} : answered'[j] = answered[j]
BY DEF Answer, Types, ClientTypes

LEMMA DropKeeps ==
  ASSUME Types, NEW i \in Services, UNCHANGED <<scenario, client, disk, mail, answered>>,
         inbox' = [inbox EXCEPT ![i] = << >>],
         pending' = pending \/ pending' = [pending EXCEPT ![i] = NoImage]
  PROVE  OnlyAt(i) /\ Keeps(i)
<1>1. /\ inbox'[i] = << >> /\ \A j \in Services \ {i} : inbox'[j] = inbox[j]
      /\ pending'[i] = pending[i] \/ pending'[i] = NoImage
      /\ \A j \in Services \ {i} : pending'[j] = pending[j]
  BY DEF Types, ServiceTypes
<1>2. NoImage.run = 0 /\ NoImage.answer = "none"
  BY DEF NoImage
<1>3. pending'[i] = pending[i] \/ (pending'[i].run = 0 /\ pending'[i].answer = "none")
  BY <1>1, <1>2
<1>4. disk' = disk /\ mail' = mail /\ answered' = answered /\ scenario' = scenario /\ client' = client
  OBVIOUS
<1>5. Keeps(i)
  BY <1>1, <1>3, <1>4 DEF Keeps
<1>6. OnlyAt(i)
  BY <1>1, <1>4 DEF OnlyAt
<1> QED
  BY <1>5, <1>6

LEMMA ProgramCases ==
  ASSUME Types, NEW i \in Services, ProgramStep(i)
  PROVE  /\ OnlyAt(i)
         /\ \/ Keeps(i) \/ Completes(i)
            \/ \E d \in Datagrams : Takes(i, d) /\ (Begins(i, d) \/ Replies(i, d))
<1> USE DEF OnlyAt
<1>1. CASE Serve(i)
  <2>1. PICK d \in Datagrams : Takes(i, d) /\ (Writes(i, d) \/ Responds(i, d) \/ Ends(i))
    BY <1>1, ServeCases
  <2>2. UNCHANGED <<scenario, client>>
    BY <1>1, ServeCases
  <2>3. CASE Writes(i, d)
    <3>1. PICK new : pending' = [pending EXCEPT ![i] = [image |-> new, answer |-> "yes",
                                                        run |-> d.run]]
      BY <2>3 DEF Writes
    <3>2. /\ inbox' = [inbox EXCEPT ![i] = Tail(@)] /\ disk' = [disk EXCEPT ![i] = Torn]
          /\ UNCHANGED <<mail, answered>>
      BY <2>3 DEF Writes
    <3>3. /\ inbox'[i] = Tail(inbox[i]) /\ pending'[i].run = d.run /\ pending'[i].answer = "yes"
          /\ \A j \in Services \ {i} : /\ inbox'[j] = inbox[j] /\ pending'[j] = pending[j]
                                       /\ disk'[j] = disk[j]
      BY <3>1, <3>2 DEF Types, ServiceTypes
    <3> QED
      BY <2>1, <2>2, <3>2, <3>3 DEF Begins
  <2>4. CASE Responds(i, d)
    <3>1. PICK text \in Texts : (d.request.op \in Acts => text # "yes") /\ Answer(i, text, d.run)
      BY <2>4 DEF Responds
    <3>2. \A j \in Services \ {i} : answered'[j] = answered[j]
      BY <3>1, AnswerElsewhere
    <3>3. inbox' = [inbox EXCEPT ![i] = Tail(@)] /\ disk' = disk /\ pending' = pending
      BY <2>4 DEF Responds
    <3>4. inbox'[i] = Tail(inbox[i]) /\ \A j \in Services \ {i} : inbox'[j] = inbox[j]
      BY <3>3 DEF Types, ServiceTypes
    <3>5. OnlyAt(i) /\ Replies(i, d)
      BY <2>2, <3>1, <3>2, <3>3, <3>4 DEF Replies
    <3> QED
      BY <2>1, <3>5
  <2>5. CASE Ends(i)
    BY <2>2, <2>5, DropKeeps DEF Ends
  <2> QED
    BY <2>1, <2>3, <2>4, <2>5
<1>2. CASE EndLoop(i)
  BY <1>2, DropKeeps DEF EndLoop
<1>3. CASE Store(i)
  <2>1. /\ phase[i] = "storing" /\ disk' = [disk EXCEPT ![i] = pending[i].image]
        /\ pending' = [pending EXCEPT ![i] = NoImage] /\ inbox' = inbox
        /\ Answer(i, pending[i].answer, pending[i].run) /\ UNCHANGED <<scenario, client>>
    BY <1>3 DEF Store
  <2>2. \A j \in Services \ {i} : answered'[j] = answered[j]
    BY <2>1, AnswerElsewhere
  <2>3. pending[i].image # Torn
    <3>1. pending[i].image.is \in Stored
      BY <2>1 DEF Types, ServiceTypes
    <3>2. Torn.is = "torn"
      BY DEF Torn
    <3> QED
      BY <3>1, <3>2 DEF Stored
  <2>4. /\ disk'[i] = pending[i].image /\ pending'[i] = NoImage
        /\ \A j \in Services \ {i} : pending'[j] = pending[j] /\ disk'[j] = disk[j]
    BY <2>1 DEF Types, ServiceTypes
  <2>5. Completes(i)
    BY <2>1, <2>3, <2>4 DEF Completes
  <2> QED
    BY <2>1, <2>2, <2>4, <2>5
<1>4. CASE Deploy(i)
  <2> DEFINE d == Head(inbox[i])
  <2>1. /\ phase[i] = "idle" /\ inbox[i] # << >> /\ inbox' = [inbox EXCEPT ![i] = << >>]
        /\ Answer(i, "text", d.run) /\ UNCHANGED <<scenario, disk, pending, client>>
    BY <1>4 DEF Deploy
  <2>2. d \in Datagrams /\ Takes(i, d)
    BY <2>1, TailType DEF Types, ServiceTypes, Takes
  <2> HIDE DEF d
  <2>3. \A j \in Services \ {i} : answered'[j] = answered[j]
    BY <2>1, AnswerElsewhere
  <2>4. inbox'[i] = << >> /\ \A j \in Services \ {i} : inbox'[j] = inbox[j]
    BY <2>1 DEF Types, ServiceTypes
  <2>5. "text" \in Texts
    BY DEF Texts
  <2>6. Replies(i, d)
    BY <2>1, <2>4, <2>5 DEF Replies
  <2> QED
    BY <2>1, <2>2, <2>3, <2>4, <2>6
<1>5. CASE Crash(i)
  BY <1>5, DropKeeps DEF Crash
<1>6. CASE Start(i)
  <2>1. UNCHANGED <<scenario, inbox, client, mail, answered>> /\ ~scenario.shell
    BY <1>6 DEF Start, Begin
  <2>2. CASE Initialises(Prog(i), disk[i])
    <3> DEFINE p == [image |-> FirstBallot(scenario.creator), answer |-> "none", run |-> 0]
    <3>1. pending' = [pending EXCEPT ![i] = p] /\ disk' = [disk EXCEPT ![i] = Torn]
      BY <1>6, <2>2 DEF Start, Begin, Write
    <3>2. p.answer = "none" /\ p.run = 0
      OBVIOUS
    <3> HIDE DEF p
    <3>3. Prog(i).contract = "Vote"
      BY <2>2 DEF Initialises
    <3> QED
      <4>1. /\ pending'[i] = p
            /\ \A j \in Services \ {i} : pending'[j] = pending[j] /\ disk'[j] = disk[j]
        BY <3>1 DEF Types, ServiceTypes
      <4> QED
        BY <2>1, <3>2, <3>3, <4>1 DEF Keeps
  <2>3. CASE ~Initialises(Prog(i), disk[i])
    <3>1. disk' = disk /\ pending' = pending
      BY <1>6, <2>3 DEF Start
    <3> QED
      BY <2>1, <3>1 DEF Keeps
  <2> QED
    BY <2>2, <2>3
<1> QED
  BY <1>1, <1>2, <1>3, <1>4, <1>5, <1>6 DEF ProgramStep

(* What an answer changes.                                                   *)
LEMMA AnswerEffect ==
  ASSUME Types, NEW i \in Services, NEW text, NEW run, Answer(i, text, run)
  PROVE  /\ \/ answered'[i] = answered[i]
            \/ client.running /\ run = client.run /\ text # "none" /\ answered'[i] = text
         /\ \A k \in Targets :
              \/ mail'[k] = mail[k]
              \/ client.running /\ text # "none" /\ Kind.listen[k] = AnswerPort(i)
         /\ client.running /\ run = client.run /\ text # "none" => answered'[i] = text
         /\ \A j \in Services \ {i} : answered'[j] = answered[j]
BY DEF Answer, Types, ClientTypes

LEMMA SameView ==
  ASSUME scenario' = scenario
  PROVE  /\ OneShot' = OneShot
         /\ \A i : AnswerPort(i)' = AnswerPort(i) /\ PortOf(i)' = PortOf(i)
         /\ client'.run = client.run => FirstOrOnly' = FirstOrOnly
         /\ client'.sent = client.sent => \A i : Addressed(i)' = Addressed(i)
<1>1. Services' = Services /\ Targets' = Targets /\ Kind' = Kind
  BY Fixed
<1>2. \A i : AnswerPort(i)' = AnswerPort(i) /\ PortOf(i)' = PortOf(i)
  BY DEF AnswerPort, PortOf, Prog
<1>3. OneShot' = OneShot
  BY <1>1 DEF OneShot
<1> QED
  BY <1>1, <1>2, <1>3 DEF FirstOrOnly, Addressed

(* The head of a socket in the first run, or in an experiment of one request *)
(* per run.                                                                  *)
LEMMA HeadOfThisRun ==
  ASSUME Types, OfThisRun, FirstOrOnly, NEW i \in Services, NEW d, Takes(i, d)
  PROVE  /\ d.run = client.run /\ d.request = client.request
<1>1. inbox[i] \in Seq(Datagrams) /\ inbox[i] # << >> /\ d = Head(inbox[i])
  BY DEF Types, ServiceTypes, Takes
<1>2. d = inbox[i][1] /\ 1 \in 1 .. Len(inbox[i])
  BY <1>1
<1> QED
  BY <1>2 DEF OfThisRun

LEMMA ProgramQuiet ==
  ASSUME Types, Quiet, NEW i \in Services, ProgramStep(i)
  PROVE  Quiet'
<1>1. /\ OnlyAt(i)
      /\ \/ Keeps(i) \/ Completes(i)
         \/ \E d \in Datagrams : Takes(i, d) /\ (Begins(i, d) \/ Replies(i, d))
  BY ProgramCases
<1> SUFFICES ASSUME client'.run = 0, NEW j \in Services'
             PROVE  inbox'[j] = << >> /\ pending'[j].run = 0
  BY DEF Quiet
<1>2. Services' = Services /\ client.run = 0
  BY <1>1, Fixed DEF OnlyAt
<1>3. \A k \in Services : inbox[k] = << >> /\ pending[k].run = 0
  BY <1>2 DEF Quiet
<1>4. CASE j # i
  BY <1>1, <1>2, <1>3, <1>4 DEF OnlyAt
<1>5. CASE j = i
  <2>1. Keeps(i) \/ Completes(i)
    BY <1>1, <1>3 DEF Takes
  <2> QED
    BY <1>3, <1>5, <2>1 DEF Keeps, Completes, NoImage
<1> QED
  BY <1>4, <1>5

LEMMA ProgramUnasked ==
  ASSUME Types, Unasked, NEW i \in Services, ProgramStep(i)
  PROVE  Unasked'
<1>1. /\ OnlyAt(i)
      /\ \/ Keeps(i) \/ Completes(i)
         \/ \E d \in Datagrams : Takes(i, d) /\ (Begins(i, d) \/ Replies(i, d))
  BY ProgramCases
<1>2. \A d \in Datagrams : d.run # 0
  BY DEF Datagrams
<1> SUFFICES ASSUME NEW j \in Services', pending'[j].run = 0
             PROVE  pending'[j].answer = "none"
  BY DEF Unasked
<1>3. Services' = Services
  BY <1>1, Fixed DEF OnlyAt
<1>4. CASE j # i
  BY <1>1, <1>3, <1>4 DEF OnlyAt, Unasked
<1>5. CASE j = i
  BY <1>1, <1>2, <1>3, <1>5 DEF Keeps, Completes, Begins, Replies, NoImage, Unasked
<1> QED
  BY <1>4, <1>5

LEMMA ProgramOfThisRun ==
  ASSUME Types, OfThisRun, NEW i \in Services, ProgramStep(i)
  PROVE  OfThisRun'
<1>1. /\ OnlyAt(i)
      /\ \/ Keeps(i) \/ Completes(i)
         \/ \E d \in Datagrams : Takes(i, d) /\ (Begins(i, d) \/ Replies(i, d))
  BY ProgramCases
<1>2. scenario' = scenario /\ client' = client /\ Services' = Services
  BY <1>1, Fixed DEF OnlyAt
<1> SUFFICES ASSUME FirstOrOnly, NEW j \in Services
             PROVE  /\ \A n \in 1 .. Len(inbox'[j]) :
                         inbox'[j][n].run = client.run /\ inbox'[j][n].request = client.request
                    /\ pending'[j].run \in {0, client.run}
  <2>1. FirstOrOnly' = FirstOrOnly
    BY <1>2, SameView
  <2> QED
    BY <1>2, <2>1 DEF OfThisRun
<1>3. \A k \in Services :
        /\ \A n \in 1 .. Len(inbox[k]) :
             inbox[k][n].run = client.run /\ inbox[k][n].request = client.request
        /\ pending[k].run \in {0, client.run}
  BY DEF OfThisRun
<1>4. CASE j # i
  BY <1>1, <1>3, <1>4 DEF OnlyAt
<1>5. CASE j = i
  <2>1. pending'[i].run \in {0, client.run}
    <3>1. \A d \in Datagrams : Takes(i, d) => d.run = client.run
      BY HeadOfThisRun
    <3> QED
      BY <1>1, <1>3, <3>1 DEF Keeps, Completes, Begins, Replies, NoImage
  <2>2. \/ inbox'[i] = inbox[i] \/ inbox'[i] = << >>
        \/ inbox'[i] = Tail(inbox[i]) /\ inbox[i] # << >>
    BY <1>1 DEF Keeps, Completes, Begins, Replies, Takes
  <2>3. inbox[i] \in Seq(Datagrams)
    BY DEF Types, ServiceTypes
  <2>4. CASE inbox'[i] = Tail(inbox[i]) /\ inbox[i] # << >>
    <3>1. /\ Len(inbox'[i]) = Len(inbox[i]) - 1 /\ Len(inbox[i]) \in Nat
          /\ \A n \in 1 .. Len(inbox'[i]) : inbox'[i][n] = inbox[i][n + 1]
      BY <2>3, <2>4, HeadTailProperties
    <3>2. \A n \in 1 .. Len(inbox'[i]) : n + 1 \in 1 .. Len(inbox[i])
      BY <3>1
    <3> QED
      BY <1>3, <1>5, <2>1, <3>1, <3>2
  <2>5. CASE inbox'[i] = inbox[i]
    BY <1>3, <1>5, <2>1, <2>5
  <2>6. CASE inbox'[i] = << >>
    BY <1>5, <2>1, <2>6
  <2> QED
    BY <2>2, <2>4, <2>5, <2>6
<1> QED
  BY <1>4, <1>5

LEMMA ProgramWitnessed ==
  ASSUME Types, OfThisRun, Unasked, Witnessed, NEW i \in Services, ProgramStep(i)
  PROVE  Witnessed'
<1>1. /\ OnlyAt(i)
      /\ \/ Keeps(i) \/ Completes(i)
         \/ \E d \in Datagrams : Takes(i, d) /\ (Begins(i, d) \/ Replies(i, d))
  BY ProgramCases
<1>2. /\ scenario' = scenario /\ client' = client
      /\ Services' = Services /\ Targets' = Targets /\ Kind' = Kind
  BY <1>1, Fixed DEF OnlyAt
<1> SUFFICES ASSUME FirstOrOnly, NEW k \in Targets, mail'[k] # << >> \/ client.seen[k] > 0
             PROVE  \E j \in Services : AnswerPort(j) = Kind.listen[k] /\ answered'[j] # "none"
  <2>1. FirstOrOnly' = FirstOrOnly /\ \A j : AnswerPort(j)' = AnswerPort(j)
    BY <1>2, SameView
  <2> QED
    BY <1>2, <2>1 DEF Witnessed
<1>3. mail[k] # << >> \/ client.seen[k] > 0
        => \E j \in Services : AnswerPort(j) = Kind.listen[k] /\ answered[j] # "none"
  BY DEF Witnessed
<1>4. CASE Keeps(i)
  BY <1>3, <1>4 DEF Keeps
<1>5. ASSUME NEW text, NEW run, Answer(i, text, run), text # "none" => run = client.run
      PROVE  \E j \in Services : AnswerPort(j) = Kind.listen[k] /\ answered'[j] # "none"
  <2>1. \A j \in Services : answered[j] # "none" => answered'[j] # "none"
    BY <1>5, AnswerEffect
  <2>2. CASE mail'[k] = mail[k]
    BY <1>3, <2>1, <2>2
  <2>3. CASE client.running /\ text # "none" /\ Kind.listen[k] = AnswerPort(i)
    <3>1. answered'[i] = text
      BY <1>5, <2>3, AnswerEffect
    <3> QED
      BY <2>3, <3>1
  <2> QED
    BY <1>5, <2>2, <2>3, AnswerEffect
<1>6. CASE Completes(i)
  <2>1. Answer(i, pending[i].answer, pending[i].run)
    BY <1>6 DEF Completes
  <2>2. pending[i].answer # "none" => pending[i].run = client.run
    BY DEF OfThisRun, Unasked
  <2> QED
    BY <1>5, <2>1, <2>2
<1>7. ASSUME NEW d \in Datagrams, Takes(i, d), Replies(i, d)
      PROVE  \E j \in Services : AnswerPort(j) = Kind.listen[k] /\ answered'[j] # "none"
  <2>1. PICK text \in Texts : Answer(i, text, d.run)
    BY <1>7 DEF Replies
  <2>2. d.run = client.run
    BY <1>7, HeadOfThisRun
  <2> QED
    BY <1>5, <2>1, <2>2
<1>8. ASSUME NEW d \in Datagrams, Begins(i, d)
      PROVE  \E j \in Services : AnswerPort(j) = Kind.listen[k] /\ answered'[j] # "none"
  BY <1>3, <1>8 DEF Begins
<1> QED
  BY <1>1, <1>4, <1>6, <1>7, <1>8

LEMMA ProgramOneAtATime ==
  ASSUME Types, OneAtATime, NEW i \in Services, ProgramStep(i)
  PROVE  OneAtATime'
<1>1. /\ OnlyAt(i)
      /\ \/ Keeps(i) \/ Completes(i)
         \/ \E d \in Datagrams : Takes(i, d) /\ (Begins(i, d) \/ Replies(i, d))
  BY ProgramCases
<1>2. scenario' = scenario /\ client' = client /\ Services' = Services
  BY <1>1, Fixed DEF OnlyAt
<1> SUFFICES ASSUME OneShot, NEW j \in Services
             PROVE  /\ inbox'[j] # << >> => /\ Len(inbox'[j]) = 1 /\ Addressed(j)
                                            /\ answered'[j] = "none" /\ pending'[j].run = 0
                    /\ pending'[j].run # 0 => Addressed(j) /\ answered'[j] = "none"
                    /\ answered'[j] # "none" => Addressed(j)
  <2>1. OneShot' = OneShot /\ \A k : Addressed(k)' = Addressed(k)
    BY <1>2, SameView
  <2> QED
    BY <1>2, <2>1 DEF OneAtATime
<1>3. \A k \in Services :
        /\ inbox[k] # << >> => /\ Len(inbox[k]) = 1 /\ Addressed(k)
                               /\ answered[k] = "none" /\ pending[k].run = 0
        /\ pending[k].run # 0 => Addressed(k) /\ answered[k] = "none"
        /\ answered[k] # "none" => Addressed(k)
  BY DEF OneAtATime
<1>4. CASE j # i
  BY <1>1, <1>3, <1>4 DEF OnlyAt
<1>5. CASE j = i /\ Keeps(i)
  BY <1>3, <1>5 DEF Keeps
<1>6. CASE j = i /\ Completes(i)
  <2>1. /\ inbox'[i] = inbox[i] /\ pending'[i].run = 0
        /\ Answer(i, pending[i].answer, pending[i].run)
    BY <1>6 DEF Completes, NoImage
  <2>2. \/ answered'[i] = answered[i]
        \/ client.running /\ pending[i].run = client.run
    BY <2>1, AnswerEffect
  <2>3. client.running => client.run # 0
    BY DEF Types, ClientTypes
  <2>4. CASE answered'[i] = answered[i]
    BY <1>3, <1>6, <2>1, <2>4
  <2>5. CASE client.running /\ pending[i].run = client.run
    BY <1>3, <1>6, <2>1, <2>3, <2>5
  <2> QED
    BY <2>2, <2>4, <2>5
<1>7. ASSUME NEW d \in Datagrams, Takes(i, d), Begins(i, d) \/ Replies(i, d), j = i
      PROVE  /\ inbox'[j] = << >> /\ Addressed(j)
             /\ pending'[j].run # 0 => answered'[j] = "none"
  <2>1. /\ inbox[i] # << >> /\ Len(inbox[i]) = 1 /\ Addressed(i)
        /\ answered[i] = "none" /\ pending[i].run = 0
    BY <1>3, <1>7 DEF Takes
  <2>2. inbox[i] \in Seq(Datagrams)
    BY DEF Types, ServiceTypes
  <2>3. Tail(inbox[i]) = << >>
    <3>1. Tail(inbox[i]) \in Seq(Datagrams) /\ Len(Tail(inbox[i])) = 0
      BY <2>1, <2>2, TailType
    <3> QED
      BY <3>1, EmptySeq
  <2> QED
    BY <1>7, <2>1, <2>3 DEF Begins, Replies
<1> QED
  BY <1>1, <1>4, <1>5, <1>6, <1>7

LEMMA ProgramDone ==
  ASSUME Types, DoneMeansServed, NEW i \in Services, ProgramStep(i)
  PROVE  DoneMeansServed'
<1>1. /\ OnlyAt(i)
      /\ \/ Keeps(i) \/ Completes(i)
         \/ \E d \in Datagrams : Takes(i, d) /\ (Begins(i, d) \/ Replies(i, d))
  BY ProgramCases
<1>2. scenario' = scenario /\ client' = client /\ Services' = Services /\ Kind' = Kind
  BY <1>1, Fixed DEF OnlyAt
<1>3. ~client.running => answered'[i] = answered[i]
  BY <1>1, AnswerEffect DEF Keeps, Completes, Begins, Replies
<1>4. \A j \in Services : ~client.running => answered'[j] = answered[j]
  BY <1>1, <1>3 DEF OnlyAt
<1>5. \A j : PortOf(j)' = PortOf(j)
  BY <1>2, SameView
<1> QED
  BY <1>2, <1>4, <1>5 DEF DoneMeansServed

LEMMA ProgramAcknowledged ==
  ASSUME Types, OfThisRun, OneAtATime, AcknowledgedIsStored, NEW i \in Services, ProgramStep(i)
  PROVE  AcknowledgedIsStored'
<1>1. /\ OnlyAt(i)
      /\ \/ Keeps(i) \/ Completes(i)
         \/ \E d \in Datagrams : Takes(i, d) /\ (Begins(i, d) \/ Replies(i, d))
  BY ProgramCases
<1>2. /\ scenario' = scenario /\ client' = client /\ Services' = Services /\ Kind' = Kind
  BY <1>1, Fixed DEF OnlyAt
<1> SUFFICES ASSUME OneShot, NEW j \in Services, client.request.op \in Acts, answered'[j] = "yes"
             PROVE  disk'[j] # Torn
  BY <1>2 DEF AcknowledgedIsStored, OneShot, Acts, Torn
<1>3. answered[j] = "yes" => disk[j] # Torn
  BY DEF AcknowledgedIsStored, OneShot, Acts
<1>4. CASE j # i
  BY <1>1, <1>3, <1>4 DEF OnlyAt
<1>5. CASE j = i /\ Keeps(i)
  <2>1. client.request \in Calls(scenario)
    BY DEF Types, ClientTypes, Clients, Acts
  <2>2. ~(Prog(i).contract = "Vote" /\ ~scenario.shell)
    BY <2>1, Requests DEF Types
  <2> QED
    BY <1>3, <1>5, <2>2 DEF Keeps
<1>6. CASE j = i /\ Completes(i)
  BY <1>6 DEF Completes
<1>7. ASSUME NEW d \in Datagrams, Takes(i, d), Begins(i, d), j = i
      PROVE  disk'[j] # Torn
  BY <1>7 DEF Begins, OneAtATime, Takes
<1>8. ASSUME NEW d \in Datagrams, Takes(i, d), Replies(i, d), j = i
      PROVE  disk'[j] # Torn
  <2>1. PICK text \in Texts : (d.request.op \in Acts => text # "yes") /\ Answer(i, text, d.run)
    BY <1>8 DEF Replies
  <2>2. d.request = client.request
    BY <1>8, HeadOfThisRun DEF FirstOrOnly
  <2>3. answered'[i] = answered[i]
    BY <1>8, <2>1, <2>2, AnswerEffect
  <2> QED
    BY <1>3, <1>8, <2>3 DEF Replies
<1> QED
  BY <1>1, <1>4, <1>5, <1>6, <1>7, <1>8

-------------------------------------------------------------------------------
(* The steps of the client.  Nothing is under way when a run starts.         *)
LEMMA NothingUnderWay ==
  ASSUME Types, ServedInv, ~client.running, client.run = 0 \/ OneShot, NEW i \in Services
  PROVE  inbox[i] = << >> /\ pending[i].run = 0
<1>1. CASE client.run = 0
  BY <1>1 DEF ServedInv, Quiet
<1>2. CASE client.run # 0 /\ OneShot
  <2>1. client.run > 0
    BY <1>2, WellFormed DEF Types, ClientTypes, Clients
  <2>2. PortOf(i) \in ToSet(Kind.target) => answered[i] # "none"
    BY <1>2, <2>1 DEF ServedInv, DoneMeansServed, OneShot
  <2>3. Addressed(i) => PortOf(i) \in ToSet(Kind.target)
    BY DEF Addressed, Targets, ToSet
  <2> QED
    BY <1>2, <2>2, <2>3 DEF ServedInv, OneAtATime
<1> QED
  BY <1>1, <1>2

LEMMA StartRunServed ==
  ASSUME Types, ServedInv, StartRun
  PROVE  ServedInv'
<1>1. /\ client'.running /\ client'.run = client.run + 1
      /\ client'.seen = [k \in Targets |-> 0]
  BY DEF StartRun
<1>2. /\ ~client.running /\ mail' = NoMail /\ answered' = Silence
      /\ UNCHANGED <<scenario, inbox, disk, pending>>
  BY DEF StartRun
<1>3. client.run \in Nat
  BY WellFormed DEF Types, ClientTypes, Clients
<1>4. /\ Services' = Services /\ Targets' = Targets /\ Kind' = Kind /\ OneShot' = OneShot
      /\ NoMail' = NoMail
  BY <1>2, Fixed, SameView
<1>5. ASSUME FirstOrOnly', NEW i \in Services
      PROVE  inbox'[i] = << >> /\ pending'[i].run = 0
  <2>1. client.run = 0 \/ OneShot
    BY <1>1, <1>3, <1>4, <1>5 DEF FirstOrOnly
  <2> QED
    BY <1>2, <2>1, NothingUnderWay
<1>6. \A i \in Services : answered'[i] = "none"
  BY <1>2 DEF Silence
<1>7. \A k \in Targets : mail'[k] = << >> /\ client'.seen[k] = 0
  BY <1>1, <1>2 DEF NoMail
<1>8. Quiet'
  BY <1>1, <1>3 DEF Quiet
<1>9. OfThisRun'
  <2>1. Len(<< >>) = 0
    OBVIOUS
  <2> QED
    BY <1>4, <1>5, <2>1 DEF OfThisRun
<1>10. Unasked'
  BY <1>2, <1>4 DEF ServedInv, Unasked
<1>11. Witnessed'
  BY <1>4, <1>7 DEF Witnessed
<1>12. OneAtATime'
  <2>1. OneShot' => FirstOrOnly'
    BY DEF FirstOrOnly
  <2> QED
    BY <1>4, <1>5, <1>6, <2>1 DEF OneAtATime
<1>13. DoneMeansServed'
  BY <1>1 DEF DoneMeansServed
<1>14. AcknowledgedIsStored'
  BY <1>4, <1>6 DEF AcknowledgedIsStored
<1> QED
  BY <1>8, <1>9, <1>10, <1>11, <1>12, <1>13, <1>14 DEF ServedInv

(* A step that touches neither the programs nor the client's run keeps what  *)
(* is said of the programs.                                                  *)
LEMMA ProgramsKept ==
  ASSUME ServedInv, UNCHANGED <<scenario, inbox, disk, pending, answered>>,
         client'.run = client.run, client'.request = client.request,
         client'.sent = client.sent
  PROVE  Quiet' /\ OfThisRun' /\ Unasked' /\ OneAtATime' /\ AcknowledgedIsStored'
<1>1. /\ Services' = Services /\ Kind' = Kind /\ OneShot' = OneShot
      /\ FirstOrOnly' = FirstOrOnly /\ \A i : Addressed(i)' = Addressed(i)
  BY Fixed, SameView
<1>2. Quiet'
  BY <1>1 DEF ServedInv, Quiet
<1>3. OfThisRun'
  BY <1>1 DEF ServedInv, OfThisRun
<1>4. Unasked'
  BY <1>1 DEF ServedInv, Unasked
<1>5. OneAtATime'
  BY <1>1 DEF ServedInv, OneAtATime
<1>6. AcknowledgedIsStored'
  BY <1>1 DEF ServedInv, AcknowledgedIsStored, Torn
<1> QED
  BY <1>2, <1>3, <1>4, <1>5, <1>6

LEMMA ReceiveServed ==
  ASSUME Types, ServedInv, NEW k \in Targets, Receive(k)
  PROVE  ServedInv'
<1>1. /\ client.running /\ mail[k] # << >> /\ mail' = [mail EXCEPT ![k] = Tail(@)]
      /\ UNCHANGED <<scenario, inbox, disk, pending, answered>>
  BY DEF Receive
<1>2. PICK new : client' = [client EXCEPT !.seen[k] = new]
  BY DEF Receive
<1>3. client \in Clients /\ mail \in [Targets -> Seq(Texts)]
  BY DEF Types, ClientTypes
<1>4. /\ client'.run = client.run /\ client'.request = client.request
      /\ client'.sent = client.sent /\ client'.running
      /\ \A j \in Targets \ {k} : client'.seen[j] = client.seen[j]
  BY <1>1, <1>2, <1>3 DEF Clients
<1>5. /\ Services' = Services /\ Targets' = Targets /\ Kind' = Kind
      /\ FirstOrOnly' = FirstOrOnly /\ \A i : AnswerPort(i)' = AnswerPort(i)
  BY <1>1, <1>4, Fixed, SameView
<1>6. \A j \in Targets : mail'[j] # << >> \/ client'.seen[j] > 0
                           => mail[j] # << >> \/ client.seen[j] > 0
  BY <1>1, <1>3, <1>4
<1>7. Witnessed'
  BY <1>1, <1>5, <1>6 DEF ServedInv, Witnessed
<1>8. DoneMeansServed'
  BY <1>4 DEF DoneMeansServed
<1>9. Quiet' /\ OfThisRun' /\ Unasked' /\ OneAtATime' /\ AcknowledgedIsStored'
  BY <1>1, <1>4, ProgramsKept
<1> QED
  BY <1>7, <1>8, <1>9 DEF ServedInv

(* With one request per run, a request goes to a program that had none yet.  *)
LEMMA NextTarget ==
  ASSUME Types, OneShot, Send
  PROVE  /\ client.sent + 1 \in Targets /\ client' = [client EXCEPT !.sent = @ + 1]
         /\ \A i \in Services :
              inbox'[i] = IF PortOf(i) = Kind.target[client.sent + 1] /\ phase[i] # "off"
                          THEN Arrive(inbox[i], [request |-> client.request,
                                                 run |-> client.run])
                          ELSE inbox[i]
<1>1. /\ Targets = 1 .. Len(Kind.target) /\ Len(Kind.target) \in Nat \ {0}
      /\ client.sent \in Nat
  BY WellFormed DEF Types, ClientTypes, Clients
<1>2. scenario.total = 1 /\ ~Kind.endless
  BY DEF OneShot
<1>3. client.sent < IF Kind.once THEN 1 ELSE scenario.total * Len(Kind.target)
  BY <1>2 DEF Send, MoreToSend
<1>4. scenario.total * Len(Kind.target) = Len(Kind.target)
  BY <1>1, <1>2
<1>5. client.sent < Len(Kind.target)
  BY <1>1, <1>3, <1>4
<1>6. client.sent % Len(Kind.target) = client.sent
  BY <1>1, <1>5
<1>7. client.sent + 1 \in Targets
  BY <1>1, <1>5
<1>8. client' = [client EXCEPT !.sent = @ + 1]
  BY <1>2 DEF Send
<1> DEFINE d == [request |-> client.request, run |-> client.run]
<1>9. inbox' = [i \in Services |->
                  IF PortOf(i) = Kind.target[client.sent + 1] /\ phase[i] # "off"
                  THEN Arrive(inbox[i], d) ELSE inbox[i]]
  BY <1>6 DEF Send
<1> HIDE DEF d
<1>10. \A i \in Services :
         inbox'[i] = IF PortOf(i) = Kind.target[client.sent + 1] /\ phase[i] # "off"
                     THEN Arrive(inbox[i], d) ELSE inbox[i]
  BY <1>9
<1> QED
  BY <1>7, <1>8, <1>10 DEF d

LEMMA SendServed ==
  ASSUME Types, ServedInv, Send
  PROVE  ServedInv'
<1> DEFINE to == Kind.target[(client.sent % Len(Kind.target)) + 1]
           d == [request |-> client.request, run |-> client.run]
<1>1. /\ client.running
      /\ inbox' = [i \in Services |-> IF PortOf(i) = to /\ phase[i] # "off"
                                      THEN Arrive(inbox[i], d) ELSE inbox[i]]
      /\ client' = IF Kind.endless THEN client ELSE [client EXCEPT !.sent = @ + 1]
      /\ UNCHANGED <<scenario, disk, pending, mail, answered>>
  BY DEF Send
<1>2. client \in Clients /\ client.run # 0
  BY <1>1, WellFormed DEF Types, ClientTypes
<1>3. /\ client'.run = client.run /\ client'.request = client.request
      /\ client'.seen = client.seen /\ client'.running
  BY <1>1, <1>2 DEF Clients
<1>4. d.request = client.request /\ d.run = client.run
  OBVIOUS
<1> HIDE DEF to, d
<1>5. /\ Services' = Services /\ Targets' = Targets /\ Kind' = Kind
      /\ OneShot' = OneShot /\ FirstOrOnly' = FirstOrOnly
      /\ \A i : AnswerPort(i)' = AnswerPort(i) /\ PortOf(i)' = PortOf(i)
  BY <1>1, <1>3, Fixed, SameView
<1>6. Quiet'
  BY <1>2, <1>3 DEF Quiet
<1>7. OfThisRun'
  <2> SUFFICES ASSUME FirstOrOnly, NEW i \in Services
               PROVE  /\ \A n \in 1 .. Len(inbox'[i]) :
                           /\ inbox'[i][n].run = client.run
                           /\ inbox'[i][n].request = client.request
                      /\ pending'[i].run \in {0, client.run}
    BY <1>3, <1>5 DEF OfThisRun
  <2>1. /\ \A n \in 1 .. Len(inbox[i]) :
             inbox[i][n].run = client.run /\ inbox[i][n].request = client.request
        /\ pending[i].run \in {0, client.run}
    BY DEF ServedInv, OfThisRun
  <2>2. inbox[i] \in Seq(Datagrams) /\ Len(inbox[i]) \in Nat
    BY DEF Types, ServiceTypes
  <2>3. inbox'[i] = inbox[i] \/ inbox'[i] = Append(inbox[i], d)
    BY <1>1 DEF Arrive
  <2>4. CASE inbox'[i] = inbox[i]
    BY <1>1, <2>1, <2>4
  <2>5. CASE inbox'[i] = Append(inbox[i], d)
    <3>1. /\ Len(inbox'[i]) = Len(inbox[i]) + 1 /\ inbox'[i][Len(inbox[i]) + 1] = d
          /\ \A n \in 1 .. Len(inbox[i]) : inbox'[i][n] = inbox[i][n]
      BY <2>2, <2>5
    <3>2. \A n \in 1 .. Len(inbox'[i]) : n \in 1 .. Len(inbox[i]) \/ n = Len(inbox[i]) + 1
      BY <2>2, <3>1
    <3> QED
      BY <1>1, <1>4, <2>1, <3>1, <3>2
  <2> QED
    BY <2>3, <2>4, <2>5
<1>8. Unasked'
  BY <1>1, <1>5 DEF ServedInv, Unasked
<1>9. Witnessed'
  BY <1>1, <1>3, <1>5 DEF ServedInv, Witnessed
<1>10. OneAtATime'
  <2> SUFFICES ASSUME OneShot, NEW i \in Services
               PROVE  /\ inbox'[i] # << >> => /\ Len(inbox'[i]) = 1 /\ Addressed(i)'
                                              /\ answered[i] = "none" /\ pending[i].run = 0
                      /\ pending[i].run # 0 => Addressed(i)' /\ answered[i] = "none"
                      /\ answered[i] # "none" => Addressed(i)'
    BY <1>1, <1>5 DEF OneAtATime
  <2> DEFINE next == client.sent + 1
  <2>1. /\ next \in Targets /\ client'.sent = next
        /\ inbox'[i] = inbox[i]
             \/ (PortOf(i) = Kind.target[next] /\ inbox'[i] = Arrive(inbox[i], d))
    BY <1>2, NextTarget DEF d, Clients
  <2>2. next \in Nat /\ client.sent \in Nat /\ Targets \subseteq Nat
    BY <1>2, WellFormed DEF Clients, Types
  <2>3. Addressed(i)' <=> \E k \in Targets : Kind.target[k] = PortOf(i) /\ k <= next
    BY <1>5, <2>1 DEF Addressed
  <2>4. Addressed(i) => Addressed(i)'
    BY <2>2, <2>3 DEF Addressed
  <2>5. /\ inbox[i] # << >> => /\ Len(inbox[i]) = 1 /\ Addressed(i)
                               /\ answered[i] = "none" /\ pending[i].run = 0
        /\ pending[i].run # 0 => Addressed(i) /\ answered[i] = "none"
        /\ answered[i] # "none" => Addressed(i)
    BY DEF ServedInv, OneAtATime
  <2>6. CASE inbox'[i] = inbox[i]
    BY <2>4, <2>5, <2>6
  <2>7. CASE PortOf(i) = Kind.target[next] /\ inbox'[i] = Arrive(inbox[i], d)
    <3>1. Addressed(i)'
      BY <2>1, <2>2, <2>3, <2>7
    <3>2. ~Addressed(i)
      <4>1. \A k \in Targets : Kind.target[k] = PortOf(i) => k = next
        BY <2>1, <2>7, Ports DEF Types
      <4>2. ~(next <= client.sent)
        BY <2>2
      <4> QED
        BY <4>1, <4>2 DEF Addressed
    <3>3. inbox[i] = << >> /\ answered[i] = "none" /\ pending[i].run = 0
      BY <2>5, <3>2
    <3>4. Len(inbox'[i]) = 1
      BY <2>7, <3>3, DeploymentAssumption DEF Arrive
    <3> QED
      BY <3>1, <3>3, <3>4
  <2> QED
    BY <2>1, <2>6, <2>7
<1>11. DoneMeansServed'
  BY <1>3 DEF DoneMeansServed
<1>12. AcknowledgedIsStored'
  BY <1>1, <1>3, <1>5 DEF ServedInv, AcknowledgedIsStored, Torn
<1> QED
  BY <1>6, <1>7, <1>8, <1>9, <1>10, <1>11, <1>12 DEF ServedInv

(* What main has seen when it returns came from every program it was started *)
(* for.                                                                      *)
LEMMA FinishServed ==
  ASSUME Types, ServedInv, Finish
  PROVE  ServedInv'
<1>1. /\ client.running /\ EnoughSeen /\ client' = [client EXCEPT !.running = FALSE]
      /\ mail' = NoMail /\ UNCHANGED <<scenario, inbox, disk, pending, answered>>
  BY DEF Finish
<1>2. client \in Clients /\ client.run \in Nat
  BY WellFormed DEF Types, ClientTypes, Clients
<1>3. /\ client'.run = client.run /\ client'.request = client.request
      /\ client'.sent = client.sent /\ client'.seen = client.seen
  BY <1>1, <1>2 DEF Clients
<1>4. /\ Services' = Services /\ Targets' = Targets /\ Kind' = Kind
      /\ FirstOrOnly' = FirstOrOnly
      /\ \A i : AnswerPort(i)' = AnswerPort(i) /\ PortOf(i)' = PortOf(i)
  BY <1>1, <1>3, Fixed, SameView
<1>5. Quiet' /\ OfThisRun' /\ Unasked' /\ OneAtATime' /\ AcknowledgedIsStored'
  BY <1>1, <1>3, ProgramsKept
<1>6. Witnessed'
  BY <1>1, <1>3, <1>4 DEF ServedInv, Witnessed, NoMail
<1>7. \A k \in Targets : client.seen[k] > 0
  <2>1. CASE Kind.collects
    BY <1>1, <2>1 DEF EnoughSeen
  <2>2. CASE ~Kind.collects
    <3>1. client.seen[1] = scenario.total /\ scenario.total \in Nat \ {0}
      BY <1>1, <2>2, WellFormed DEF EnoughSeen, Types
    <3>2. Targets = 1 .. 1
      BY <2>2, WellFormed DEF Types
    <3>3. \A k \in Targets : k = 1
      BY <3>2
    <3> QED
      BY <3>1, <3>3
  <2> QED
    BY <2>1, <2>2
<1>8. DoneMeansServed'
  <2> SUFFICES ASSUME FirstOrOnly, NEW i \in Services, NEW k \in Targets,
                      PortOf(i) = Kind.target[k]
               PROVE  answered[i] # "none"
    <3>1. client'.run = 1 \/ (scenario.total = 1 /\ ~Kind.endless) => FirstOrOnly
      BY <1>3 DEF FirstOrOnly, OneShot
    <3>2. \A port : port \in ToSet(Kind.target) => \E k \in Targets : port = Kind.target[k]
      BY DEF ToSet, Targets
    <3> QED
      BY <1>1, <1>4, <3>1, <3>2 DEF DoneMeansServed
  <2>1. PICK j \in Services : AnswerPort(j) = Kind.listen[k] /\ answered[j] # "none"
    BY <1>7 DEF ServedInv, Witnessed
  <2>2. PortOf(j) = Kind.target[k]
    BY <2>1, Ports DEF Types
  <2>3. i = j
    BY <2>1, <2>2, Ports DEF Types
  <2> QED
    BY <2>1, <2>3
<1> QED
  BY <1>5, <1>6, <1>8 DEF ServedInv

LEMMA InitServed ==
  ASSUME Init
  PROVE  ServedInv
<1>1. /\ inbox = [i \in Services |-> << >>] /\ pending = [i \in Services |-> NoImage]
      /\ client = [running |-> FALSE, run |-> 0, request |-> [op |-> "none"], sent |-> 0,
                   seen |-> [k \in Targets |-> 0]]
      /\ mail = NoMail /\ answered = Silence
  BY DEF Init
<1>2. \A i \in Services : /\ inbox[i] = << >> /\ answered[i] = "none"
                          /\ pending[i].run = 0 /\ pending[i].answer = "none"
  BY <1>1 DEF NoImage, Silence
<1>3. \A k \in Targets : mail[k] = << >> /\ client.seen[k] = 0
  BY <1>1 DEF NoMail
<1>4. client.run = 0 /\ Len(<< >>) = 0
  BY <1>1
<1>5. Quiet /\ OfThisRun /\ Unasked
  BY <1>2, <1>4 DEF Quiet, OfThisRun, Unasked
<1>6. Witnessed
  BY <1>3 DEF Witnessed
<1>7. OneAtATime
  BY <1>2 DEF OneAtATime
<1>8. DoneMeansServed /\ AcknowledgedIsStored
  BY <1>2, <1>4 DEF DoneMeansServed, AcknowledgedIsStored
<1> QED
  BY <1>5, <1>6, <1>7, <1>8 DEF ServedInv

LEMMA ServedStep ==
  ASSUME Types, ServedInv, [Next]_vars
  PROVE  ServedInv'
<1>1. CASE UNCHANGED vars
  <2>1. UNCHANGED <<scenario, inbox, disk, pending, client, mail, answered>>
    BY <1>1 DEF vars
  <2>2. Quiet' /\ OfThisRun' /\ Unasked' /\ OneAtATime' /\ AcknowledgedIsStored'
    BY <2>1, ProgramsKept
  <2>3. /\ Services' = Services /\ Targets' = Targets /\ Kind' = Kind
        /\ FirstOrOnly' = FirstOrOnly
        /\ \A i : AnswerPort(i)' = AnswerPort(i) /\ PortOf(i)' = PortOf(i)
    BY <2>1, Fixed, SameView
  <2>4. Witnessed' /\ DoneMeansServed'
    BY <2>1, <2>3 DEF ServedInv, Witnessed, DoneMeansServed
  <2> QED
    BY <2>2, <2>4 DEF ServedInv
<1>2. ASSUME NEW i \in Services, ProgramStep(i)
      PROVE  ServedInv'
  BY <1>2, ProgramQuiet, ProgramUnasked, ProgramOfThisRun, ProgramWitnessed,
     ProgramOneAtATime, ProgramDone, ProgramAcknowledged DEF ServedInv
<1>3. CASE StartRun
  BY <1>3, StartRunServed
<1>4. CASE Send
  BY <1>4, SendServed
<1>5. CASE Finish
  BY <1>5, FinishServed
<1>6. ASSUME NEW k \in Targets, Receive(k)
      PROVE  ServedInv'
  BY <1>6, ReceiveServed
<1> QED
  BY <1>1, <1>2, <1>3, <1>4, <1>5, <1>6 DEF Next, ProgramStep

LEMMA ServedAlways == Spec => []ServedInv
<1>1. Init => ServedInv
  BY InitServed
<1>2. Types /\ ServedInv /\ [Next]_vars => ServedInv'
  BY ServedStep
<1> QED
  BY <1>1, <1>2, TypesCorrect, PTL DEF Spec

(* When main of a client returns, every program it was started for has       *)
(* answered a request of that run, however many programs, requests, runs and *)
(* crashes there are (the counting loops of the clients; the ports of the    *)
(* programs and the clients agree).                                          *)
THEOREM DoneMeansServedCorrect == Spec => []DoneMeansServed
<1>1. ServedInv => DoneMeansServed
  BY DEF ServedInv
<1> QED
  BY <1>1, ServedAlways, PTL

(* A client that was told its transfer, item or bid is done finds it in the  *)
(* file, wherever a program died (updateState comes before sendto, and a     *)
(* second write needs a second request).                                     *)
THEOREM AcknowledgedIsStoredCorrect == Spec => []AcknowledgedIsStored
<1>1. ServedInv => AcknowledgedIsStored
  BY DEF ServedInv
<1> QED
  BY <1>1, ServedAlways, PTL
===============================================================================
