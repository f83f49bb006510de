-------------------------------- MODULE Programs -------------------------------
(***************************************************************************)
(* The programs of src/demos and src/Client, one definition per source     *)
(* file.  The files of one contract are copies of each other: they run the *)
(* same service loop over the same operations (module Contracts), and what *)
(* tells them apart are the ports, whether the state is encrypted, and     *)
(* whether an argument "deploy" makes main return before it serves.  A     *)
(* definition stands for the main of its file; the loop these parameters   *)
(* drive is Serve, Store and Start in module Deployment.                   *)
(***************************************************************************)
EXTENDS Naturals, Sequences

(* The k-th provider receives on port 100k1 and answers to port 100k2.       *)
Program(contract, k, deploy) ==
  [contract |-> contract, encrypted |-> TRUE, deploy |-> deploy,
   recv |-> 10001 + 10 * k, send |-> 10002 + 10 * k, says |-> "text"]
Plain(contract) == [Program(contract, 1, FALSE) EXCEPT !.encrypted = FALSE]

(* The provider of the complex contract as its clients see it: every         *)
(* datagram runs the contract (module ComplexContract) and is answered.      *)
App(says) ==
  [contract |-> "Complex", encrypted |-> FALSE, deploy |-> FALSE,
   recv |-> 11011, send |-> 11012, says |-> says]

(* A client sends its request to the ports of target and listens on the      *)
(* ports of listen.  It counts answers, or collects one flag per provider.   *)
(* endless: it never stops sending and does not count an empty answer; once: *)
(* it sends one request however many answers it waits for.                   *)
Counting(to, from) ==
  [collects |-> FALSE, target |-> <<to>>, listen |-> <<from>>, endless |-> FALSE, once |-> FALSE]
Flooding(to, from) == [Counting(to, from) EXCEPT !.endless = TRUE]
Collecting(n, base) ==
  [collects |-> TRUE, target |-> [k \in 1..n |-> base + 10 * k + 1],
   listen |-> [k \in 1..n |-> base + 10 * k + 2], endless |-> FALSE, once |-> FALSE]

-------------------------------------------------------------------------------
(* src/demos/helloWorld                                                      *)
HelloMain == Program("Hello", 1, TRUE)
HelloEncrypt == Program("Hello", 1, FALSE)
HelloPlain == Plain("Hello")
HelloTee1 == Program("Hello", 1, TRUE)
HelloTee2 == Program("Hello", 2, TRUE)
HelloTee3 == Program("Hello", 3, TRUE)
HelloTee4 == Program("Hello", 4, TRUE)
HelloTee5 == Program("Hello", 5, TRUE)
HelloTee6 == Program("Hello", 6, TRUE)
HelloTee7 == Program("Hello", 7, TRUE)
HelloTee8 == Program("Hello", 8, TRUE)
HelloShared1 == Program("Hello", 1, TRUE)
HelloShared2 == Program("Hello", 2, TRUE)
HelloShared3 == Program("Hello", 3, TRUE)
HelloShared4 == Program("Hello", 4, TRUE)
HelloShared5 == Program("Hello", 5, TRUE)
HelloShared6 == Program("Hello", 6, TRUE)
HelloShared7 == Program("Hello", 7, TRUE)
HelloShared8 == Program("Hello", 8, TRUE)

(* src/demos/Token                                                           *)
TokenMain == Program("Token", 1, FALSE)
TokenEncrypt == Program("Token", 1, FALSE)
TokenPlain == Plain("Token")
TokenAccounts == Program("Token", 1, FALSE)
TokenTee1 == Program("Token", 1, FALSE)
TokenTee2 == Program("Token", 2, FALSE)
TokenTee3 == Program("Token", 3, FALSE)
TokenTee4 == Program("Token", 4, FALSE)
TokenTee5 == Program("Token", 5, FALSE)
TokenTee6 == Program("Token", 6, FALSE)
TokenTee7 == Program("Token", 7, FALSE)
TokenTee8 == Program("Token", 8, FALSE)
TokenShared1 == Program("Token", 1, TRUE)
TokenShared2 == Program("Token", 2, TRUE)
TokenShared3 == Program("Token", 3, TRUE)
TokenShared4 == Program("Token", 4, TRUE)
TokenShared5 == Program("Token", 5, TRUE)
TokenShared6 == Program("Token", 6, TRUE)
TokenShared7 == Program("Token", 7, TRUE)
TokenShared8 == Program("Token", 8, TRUE)

(* src/demos/Auction                                                         *)
AuctionMain == Program("Auction", 1, FALSE)
AuctionEncrypt == Program("Auction", 1, FALSE)
AuctionPlain == Plain("Auction")
AuctionTee1 == Program("Auction", 1, TRUE)
AuctionTee2 == Program("Auction", 2, FALSE)
AuctionTee3 == Program("Auction", 3, FALSE)
AuctionTee4 == Program("Auction", 4, FALSE)
AuctionTee5 == Program("Auction", 5, FALSE)
AuctionTee6 == Program("Auction", 6, FALSE)
AuctionTee7 == Program("Auction", 7, FALSE)
AuctionTee8 == Program("Auction", 8, FALSE)
AuctionShared1 == Program("Auction", 1, TRUE)
AuctionShared2 == Program("Auction", 2, TRUE)
AuctionShared3 == Program("Auction", 3, TRUE)
AuctionShared4 == Program("Auction", 4, TRUE)
AuctionShared5 == Program("Auction", 5, TRUE)
AuctionShared6 == Program("Auction", 6, TRUE)
AuctionShared7 == Program("Auction", 7, TRUE)
AuctionShared8 == Program("Auction", 8, TRUE)

(* src/demos/Vote                                                            *)
VoteMain == Program("Vote", 1, FALSE)
VoteEncrypt == Program("Vote", 1, FALSE)
VotePlain == Plain("Vote")
VoteTee1 == Program("Vote", 1, FALSE)
VoteTee2 == Program("Vote", 2, FALSE)
VoteTee3 == Program("Vote", 3, FALSE)
VoteTee4 == Program("Vote", 4, FALSE)
VoteTee5 == Program("Vote", 5, FALSE)
VoteTee6 == Program("Vote", 6, FALSE)
VoteTee7 == Program("Vote", 7, FALSE)
VoteTee8 == Program("Vote", 8, FALSE)
VoteShared1 == Program("Vote", 1, TRUE)
VoteShared2 == Program("Vote", 2, TRUE)
VoteShared3 == Program("Vote", 3, TRUE)
VoteShared4 == Program("Vote", 4, TRUE)
VoteShared5 == Program("Vote", 5, TRUE)
VoteShared6 == Program("Vote", 6, TRUE)
VoteShared7 == Program("Vote", 7, TRUE)
VoteShared8 == Program("Vote", 8, TRUE)

(* src/Client                                                                *)
LatencyClient == Counting(10011, 10012)
TpsClient == Flooding(10011, 10012)
ComplexLatencyClient == Counting(11011, 11012)
ComplexTpsClient == Flooding(11011, 11012)
DeployOneClient == [Counting(10111, 10112) EXCEPT !.once = TRUE]
DeployAllClient == Collecting(7, 10100)
Tee1Client == Collecting(1, 10000)
Tee2Client == Collecting(2, 10000)
Tee3Client == Collecting(3, 10000)
Tee4Client == Collecting(4, 10000)
Tee5Client == Collecting(5, 10000)
Tee6Client == Collecting(6, 10000)
Tee7Client == Collecting(7, 10000)
Tee8Client == Collecting(8, 10000)
AppValue == App("maybe")
AppSentence == App("text")
===============================================================================
