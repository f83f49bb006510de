------------------------------- MODULE Contracts -------------------------------
(***************************************************************************)
(* The contracts of the demos, src/demos/{Token,Auction,Vote,helloWorld}.  *)
(* Every program keeps its state in one file: a call loads the whole file, *)
(* works on the copy in memory and, when it changes something, truncates   *)
(* the file and writes it anew.  This module gives the contents of such a  *)
(* file (an image) and, for every call, the set of its outcomes; the       *)
(* service loops, the datagrams and the crashes are in module Deployment.  *)
(*                                                                         *)
(* An account or a user is a number: the 20-character names matter only by *)
(* equality and, in Vote, by their order.  A price is the sequence of the  *)
(* digits the client wrote.                                                *)
(***************************************************************************)
EXTENDS Naturals, Sequences, FiniteSets, SequencesExt

(* The encrypting programs read ciphertext back as C strings: a zero byte in *)
(* it ends it too early, and what is decrypted is another text.  The key is  *)
(* fixed, so which names and numbers this happens to is fixed as well.       *)
CONSTANTS
  UintRange,   \* one more than the largest uint: 2^32 in the code
  FieldRange,  \* one more than the largest number a record has room for: 10^7
  CutNames,    \* the names whose ciphertext has a zero among its first 8 bytes
  CutCreators, \* those whose ciphertext has one anywhere before its last byte
  CutNumbers,  \* the numbers whose ciphertext has one before its last byte
  Garbage      \* the numbers a cut ciphertext or an unset buffer may be read as

ASSUME UintAssumption == UintRange \in Nat \ {0} /\ Garbage \subseteq Nat
ASSUME CutAssumption == CutNames \subseteq CutCreators /\ FieldRange \in Nat

-------------------------------------------------------------------------------
(* What a state file holds: nothing at all, no byte (truncated and not yet   *)
(* written, or the writer died), or the state of a contract.                 *)
Missing == [is |-> "missing"]
Torn == [is |-> "torn"]
Balances(f) == [is |-> "token", balance |-> f]
Item(who, price) == [is |-> "auction", bidder |-> who, bid |-> price]
Ballot(creator, count, list) ==
  [is |-> "vote", manager |-> creator, num |-> count, records |-> list]

(* What a call does: the answer it sends ("none": no datagram) and, when     *)
(* stores holds, the image it writes first.  "exit" ends the process.        *)
Reply(text) == [stores |-> FALSE, image |-> Missing, answer |-> text]
Write(new, text) == [stores |-> TRUE, image |-> new, answer |-> text]
Failure == Reply("no")
Exit == Reply("exit")

-------------------------------------------------------------------------------
(* Reading back what was written.                                            *)

(* A number that is not read whole is read as anything.                      *)
ReadAs(n, whole) == IF whole THEN {n} ELSE Garbage \cup {n}

(* A record of the encrypting programs has 24 bytes for a name and 8 for a   *)
(* number.  A load takes the name from the 24, but so many bytes of the      *)
(* number as strlen counts in the record, and more digits than 7 have no end *)
(* in their 8 bytes or lie beyond them.                                      *)
Fits(name, n) == name \notin CutNames /\ n < FieldRange
ReadBack(map, encrypted) ==
  {f \in [DOMAIN map -> Garbage \cup Range(map)] :
     \A name \in DOMAIN map : f[name] \in ReadAs(map[name], encrypted => Fits(name, map[name]))}

-------------------------------------------------------------------------------
(* Token.                                                                    *)

(* create_account.cpp: one account holds 1000 coins, the others 100 each.    *)
Genesis(rich, others) ==
  Balances([a \in {rich} \cup others |-> IF a = rich THEN 1000 ELSE 100])

LoadBalances(disk, encrypted) ==
  IF disk.is = "token" THEN ReadBack(disk.balance, encrypted) ELSE {<< >>}

(* The account only enters the copy in memory, which the next call clears.   *)
CreateAc(disk, mode, encrypted, name) ==
  {IF mode = "test" \/ name \notin DOMAIN balance THEN Reply("yes") ELSE Failure :
     balance \in LoadBalances(disk, encrypted)}

GetBalance(disk, name) == Reply("yes")

Move(balance, from, to, value) ==
  LET paid == [balance EXCEPT ![from] = (@ + UintRange - value) % UintRange]
  IN  Balances([paid EXCEPT ![to] = (@ + value) % UintRange])

\* Weakened: the balance of the payer is not compared with the value.
TransferUnchecked(disk, encrypted, from, to, value) ==
  {IF {from, to} \subseteq DOMAIN balance
   THEN Write(Move(balance, from, to, value), "yes") ELSE Failure :
     balance \in LoadBalances(disk, encrypted)}

Transfer(disk, encrypted, from, to, value) ==
  {IF {from, to} \subseteq DOMAIN balance /\ value <= balance[from]
   THEN Write(Move(balance, from, to, value), "yes") ELSE Failure :
     balance \in LoadBalances(disk, encrypted)}

-------------------------------------------------------------------------------
(* Auction.                                                                  *)

Price(digits) == FoldLeft(LAMBDA v, d : 10 * v + d, 0, digits)

(* The service loop does not clear its buffer: the digits of an earlier,     *)
(* longer datagram stay behind a shorter price, and atoi reads them too.     *)
Overlay(digits, tail) == digits \o SubSeq(tail, Len(digits) + 1, Len(tail))

(* The plain-text program writes the bid as four bytes and reads it back as  *)
(* text: a low byte that is the code of a digit gives this digit, unless     *)
(* further text comes behind it or behind a blank.                           *)
Digits == 48..57
Blanks == 9..13 \cup {32, 43, 45}  \* white space and signs
BytesAsText(n) ==
  LET low == n % 256
      next == (n \div 256) % 256
  IN  IF low \in Digits /\ next \notin Digits THEN {low - 48}
      ELSE IF {low, next} \subseteq Digits \cup Blanks THEN Garbage
      ELSE {0}

LoadBid(disk, encrypted) ==
  IF disk.is = "torn" THEN Garbage
  ELSE IF encrypted THEN ReadAs(disk.bid, disk.bid \notin CutNumbers)
  ELSE BytesAsText(disk.bid)

AddItem(beneficiary) == Write(Item(beneficiary, 0), "yes")

\* Weakened: a bid that is not higher than the highest one is taken as well.
BidUnchecked(disk, encrypted, checked, bidder, price) ==
  {Write(Item(bidder, price), "yes") : highest \in LoadBid(disk, encrypted)}

(* Bids are compared unless the mode says otherwise: "test" skips the        *)
(* comparison in the encrypting programs, anything else in the plain one.    *)
Bid(disk, encrypted, checked, bidder, price) ==
  {IF checked => highest < price THEN Write(Item(bidder, price), "yes") ELSE Failure :
     highest \in LoadBid(disk, encrypted)}

-------------------------------------------------------------------------------
(* Vote.  The file holds the manager, the number of candidates and one       *)
(* record per key of the two maps, candidates first, each map in descending  *)
(* order of its keys.  A name of the nominate call is copied with the space  *)
(* behind it and without an end: it is a key of its own, after the name it   *)
(* extends, until the next load cuts both to 20 characters.                  *)

(* The map that loading a list of records builds: a later record wins.       *)
LoadMap(list) ==
  [name \in {list[k].name : k \in DOMAIN list} |->
     list[CHOOSE k \in DOMAIN list :
            list[k].name = name /\ \A j \in DOMAIN list : list[j].name = name => j <= k].count]

(* The first num records are the candidates.                                 *)
Nominators(disk, num) ==
  LoadMap(SubSeq(disk.records, 1, IF num <= Len(disk.records) THEN num ELSE Len(disk.records)))
Voters(disk, num) == LoadMap(SubSeq(disk.records, num + 1, Len(disk.records)))

(* loadState: num and both maps, each as it comes back.                      *)
LoadBallot(disk, encrypted) ==
  UNION {[num : {num}, nominators : ReadBack(Nominators(disk, num), encrypted),
          voters : ReadBack(Voters(disk, num), encrypted)] :
            num \in ReadAs(disk.num, encrypted => disk.num \notin CutNumbers)}

(* A ballot that comes back as it was written.                               *)
Whole(disk) ==
  /\ disk.num \notin CutNumbers
  /\ \A r \in ToSet(disk.records) : Fits(r.name, r.count)

(* The records of a map: the names it was loaded with and the fresh keys,    *)
(* whose count reads back as the given number.                               *)
Record(name, fresh, count) == [name |-> name, fresh |-> fresh, count |-> count]
After(a, b) == a.name > b.name \/ (a.name = b.name /\ a.fresh /\ ~b.fresh)
InOrder(list) == \A j, k \in DOMAIN list : j < k => After(list[j], list[k])
Records(map, fresh, count) ==
  LET set == {Record(n, FALSE, map[n]) : n \in DOMAIN map}
               \cup {Record(n, TRUE, count) : n \in fresh}
  IN  CHOOSE list \in [1 .. Cardinality(set) -> set] : InOrder(list)

Give(map, name, count) == [n \in DOMAIN map \cup {name} |-> IF n = name THEN count ELSE map[n]]
Ballots(map, name) == IF name \in DOMAIN map THEN map[name] ELSE 0

(* initial(): the creator is the manager and there is nobody to vote for.    *)
FirstBallot(creator) == Ballot(creator, 0, << >>)

(* A creator whose name is cut is nobody's name when it is read back, nor    *)
(* when a vote has written it again.                                         *)
KnowsManager(disk, encrypted) == encrypted => disk.manager \notin CutCreators

(* An unterminated key runs into what lies behind it on the stack.  In the   *)
(* encrypting programs it may then push the count out of its record (count   *)
(* reads 0); the key of the last voter, which no space follows, may also end *)
(* where it should (exact).                                                  *)
Nominate(disk, mode, encrypted, caller, candidates, voters) ==
  IF disk.is = "torn" \/ caller # disk.manager \/ ~KnowsManager(disk, encrypted) THEN {Failure}
  ELSE LET old(map) == IF mode = "test" THEN << >> ELSE map
           last == voters[Len(voters)]
           voterRecords(map, exact, count) ==
             IF exact THEN Records(Give(map, last, 1), ToSet(Front(voters)), count)
             ELSE Records(map, ToSet(voters), count)
       IN  {Write(Ballot(disk.manager, Len(candidates),
                         Records(old(b.nominators), ToSet(candidates), count)
                           \o voterRecords(old(b.voters), exact, count)), "yes") :
              b \in LoadBallot(disk, encrypted), exact \in BOOLEAN,
              count \in IF encrypted THEN {0, 1} ELSE {1}}

(* A ballot goes to any name, listed or not; num stays what it was.          *)
Cast(disk, b, candidate, voters) ==
  LET votes == Ballots(b.nominators, candidate) + 1
  IN  Write(Ballot(disk.manager, b.num,
                   Records(Give(b.nominators, candidate, votes), {}, 0)
                     \o Records(voters, {}, 0)), "yes")

\* Weakened: the ballot is not taken from the voter.
VoteKeepBallot(disk, mode, encrypted, voter, candidate) ==
  IF disk.is # "vote" THEN {Failure}
  ELSE {IF Ballots(b.voters, voter) > 0 THEN Cast(disk, b, candidate, b.voters) ELSE Failure :
          b \in LoadBallot(disk, encrypted)}

Vote(disk, mode, encrypted, voter, candidate) ==
  IF disk.is # "vote" THEN {Failure}
  ELSE LET left(v) == IF mode = "test" THEN v[voter] ELSE v[voter] - 1
       IN  {IF Ballots(b.voters, voter) > 0
            THEN Cast(disk, b, candidate, Give(b.voters, voter, left(b.voters))) ELSE Failure :
              b \in LoadBallot(disk, encrypted)}
===============================================================================
