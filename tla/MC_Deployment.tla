----------------------------- MODULE MC_Deployment -----------------------------
(***************************************************************************)
(* Deployment for TLC: the experiments, as small as their cases allow.     *)
(* Accounts 1, 2 exist and 3 does not; user 1 is the only specified voter, *)
(* 2 the only nominated candidate, 3 neither, 9 the creator.  Account and  *)
(* voter 4 and the creator 8 have names that are not read back whole.      *)
(***************************************************************************)
EXTENDS Deployment

(* The programs that are started together.                                   *)
HelloTee ==
  <<HelloTee1, HelloTee2, HelloTee3, HelloTee4,
    HelloTee5, HelloTee6, HelloTee7, HelloTee8>>
HelloShared ==
  <<HelloShared1, HelloShared2, HelloShared3, HelloShared4,
    HelloShared5, HelloShared6, HelloShared7, HelloShared8>>
TokenTee ==
  <<TokenTee1, TokenTee2, TokenTee3, TokenTee4,
    TokenTee5, TokenTee6, TokenTee7, TokenTee8>>
TokenShared ==
  <<TokenShared1, TokenShared2, TokenShared3, TokenShared4,
    TokenShared5, TokenShared6, TokenShared7, TokenShared8>>
AuctionTee ==
  <<AuctionTee1, AuctionTee2, AuctionTee3, AuctionTee4,
    AuctionTee5, AuctionTee6, AuctionTee7, AuctionTee8>>
AuctionShared ==
  <<AuctionShared1, AuctionShared2, AuctionShared3, AuctionShared4,
    AuctionShared5, AuctionShared6, AuctionShared7, AuctionShared8>>
VoteTee ==
  <<VoteTee1, VoteTee2, VoteTee3, VoteTee4,
    VoteTee5, VoteTee6, VoteTee7, VoteTee8>>
VoteShared ==
  <<VoteShared1, VoteShared2, VoteShared3, VoteShared4,
    VoteShared5, VoteShared6, VoteShared7, VoteShared8>>
TeeClients ==
  <<Tee1Client, Tee2Client, Tee3Client, Tee4Client,
    Tee5Client, Tee6Client, Tee7Client, Tee8Client>>
AlonePrograms ==
  {HelloMain, HelloEncrypt, HelloPlain,
   TokenMain, TokenEncrypt, TokenPlain, TokenAccounts,
   AuctionMain, AuctionEncrypt, AuctionPlain,
   VoteMain, VoteEncrypt, VotePlain}

(* Requests.                                                                 *)
Hello == {[op |-> "hello"]}
Creates == {[op |-> "createAc", name |-> n] : n \in {1, 3}}
Balance == [op |-> "getBalance", name |-> 1]
Pay(f, t, v) == [op |-> "transfer", from |-> f, to |-> t, value |-> v]
Item1 == [op |-> "addItem", who |-> 1, tail |-> <<8, 9, 0>>]
Offer(digits) == [op |-> "bid", who |-> 2, price |-> digits]
Nomination(v) == [op |-> "nominate", caller |-> 9, candidates |-> <<2>>, voters |-> v]
Ballot1(v, c) == [op |-> "vote", voter |-> v, candidate |-> c]
Strange == {[op |-> "other"], [op |-> "empty"]}

TokenCalls == Creates \cup {Balance, Pay(1, 2, 60), Pay(2, 1, 70), Pay(2, 2, 100), Pay(1, 3, 1)}
AuctionCalls == {Item1, Offer(<<5>>), Offer(<<1, 6, 5>>)}
VoteCalls ==
  {Nomination(<<1>>), [Nomination(<<1>>) EXCEPT !.caller = 1], Ballot1(1, 2), Ballot1(1, 3)}

(* Scenarios.                                                                *)
Experiment(programs, kind, requests) ==
  [programs |-> programs, client |-> kind, mode |-> "test", script |-> requests, total |-> 1,
   shell |-> FALSE, faults |-> 0, genesis |-> Genesis(1, {2}),
   item |-> Missing, creator |-> 9, voters |-> {1}]

(* One program, any call of its contract in every run, and a crash.          *)
Alone(p, calls, n) ==
  {[Experiment(<<p>>, LatencyClient, [k \in 1..n |-> calls]) EXCEPT !.mode = m, !.faults = 2] :
     m \in {"test", "non-test"}}
AloneAny ==
  UNION {Alone(p, CASE p.contract = "Hello" -> Hello
                    [] p.contract = "Token" -> TokenCalls
                    [] p.contract = "Auction" -> AuctionCalls
                    [] p.contract = "Vote" -> VoteCalls, 4) : p \in AlonePrograms}
Loops == Alone(HelloMain, Hello \cup Strange, 2) \cup Alone(AuctionMain, {Item1} \cup Strange, 2)

(* Names that are not read back whole, and more coins than a record has      *)
(* room for.                                                                 *)
Alone3(p, calls) ==
  [Experiment(<<p>>, LatencyClient, [k \in 1..3 |-> calls]) EXCEPT !.mode = "non-test"]
Cuts ==
  {[Alone3(p, {Pay(1, 4, 60), Pay(4, 1, 50)}) EXCEPT !.genesis = Genesis(1, {4})] :
     p \in {TokenMain, TokenPlain}}
    \cup {[Alone3(TokenMain, {Pay(2, 1, 100), Pay(3, 1, 100), Pay(1, 2, 1)})
             EXCEPT !.genesis = Genesis(1, {2, 3})]}
    \cup {Alone3(VoteMain, {Nomination(<<4>>), Ballot1(4, 2)}),
          [Alone3(VoteMain, {[Nomination(<<1>>) EXCEPT !.caller = 8], Ballot1(1, 2)})
             EXCEPT !.creator = 8]}

(* The providers 1 to n of a contract and the client made for n of them.     *)
Together(programs, calls, n) ==
  Experiment(SubSeq(programs, 1, n), TeeClients[n], <<calls>>)
Reading(n) ==
  {Together(s, Hello, n) : s \in {HelloTee, HelloShared}}
    \cup {Together(HelloTee, Hello, k) : k \in 5..7}
    \cup {[Together(s, {Offer(<<5>>)}, n) EXCEPT !.mode = "non-test", !.item = Item(1, 7)] :
            s \in {AuctionTee, AuctionShared}}
    \cup {Together(s, {Balance}, n) : s \in {TokenTee, TokenShared}}
    \cup {Together(s, {Ballot1(1, 2)}, n) : s \in {VoteTee, VoteShared}}
Writing(n) == {Together(s, {Item1}, n) : s \in {AuctionTee, AuctionShared}}
Rounds ==
  {[Together(s, c, n) EXCEPT !.total = 2, !.script = <<c, c>>] :
     s \in {TokenTee}, c \in {{Pay(1, 2, 60)}}, n \in {1, 2}}

Deployments ==
  {[Experiment(SubSeq(s, 1, 7), DeployAllClient, <<Hello>>) EXCEPT !.shell = TRUE] :
     s \in {HelloShared, TokenShared, AuctionShared, VoteShared}}
    \cup {[Experiment(<<s[1]>>, DeployOneClient, <<Hello>>) EXCEPT !.shell = TRUE] :
            s \in {HelloShared, TokenShared, AuctionShared, VoteShared}}

Counts ==
  {[Experiment(<<p>>, c, <<Hello, Hello>>) EXCEPT !.total = 2] :
     p \in {AppSentence}, c \in {ComplexLatencyClient, ComplexTpsClient}}
    \cup {[Experiment(<<AppValue>>, ComplexLatencyClient, <<Hello, Hello>>) EXCEPT !.total = 2],
          [Experiment(<<HelloMain>>, TpsClient, <<Hello, Hello>>) EXCEPT !.total = 2],
          [Experiment(<<TokenMain>>, LatencyClient, <<{Pay(1, 2, 60)}, {Pay(2, 1, 70)}>>)
             EXCEPT !.total = 2]}

AllScenarios ==
  AloneAny \cup Loops \cup UNION {Reading(n) : n \in {1, 3, 8}} \cup UNION {Writing(n) : n \in {1, 4}}
    \cup Rounds \cup Deployments \cup Counts \cup Cuts

(* Users of the Vote contract call it in earnest.                            *)
VoteScenarios ==
  {[Experiment(<<VoteMain>>, LatencyClient, [k \in 1..4 |-> VoteCalls])
      EXCEPT !.mode = "non-test"]}
===============================================================================
