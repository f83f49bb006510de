--------------------------- MODULE StateFileProofs ----------------------------
(***************************************************************************)
(* Theorems about what the state files of Deployment hold: the coins of    *)
(* Token, the highest bid of Auction and the ballots of Vote, through      *)
(* every order of calls, crashes and restarts.                             *)
(***************************************************************************)
EXTENDS DeploymentProofs, FoldLemmas

-------------------------------------------------------------------------------
(* The image new is what a call of the program gives: the datagram at the    *)
(* head of its queue, computed on the file as it is now.                     *)
Calculates(i, new) ==
  /\ ~scenario.shell /\ phase[i] = "idle" /\ inbox[i] # << >>
  /\ \E r \in Calls(scenario) :
       /\ r = Head(inbox[i]).request /\ r.op # "empty"
       /\ \E o \in Outcomes(Prog(i), disk[i], tail[i], r) : o.stores /\ new = o.image

Moved(i) ==
  \/ Latest(i)' \in {Latest(i), Torn}
  \/ Prog(i).contract = "Vote" /\ Latest(i)' = FirstBallot(scenario.creator)
  \/ Calculates(i, Latest(i)')

LEMMA LatestKept ==
  ASSUME NEW i, phase'[i] = phase[i], disk'[i] = disk[i], pending'[i] = pending[i]
  PROVE  Moved(i)
BY DEF Moved, Latest

LEMMA LatestServe ==
  ASSUME Types, NEW i \in Services, Serve(i)
  PROVE  Moved(i)
<1>1. PICK d \in ToSet(inbox[i]) :
        /\ Receives(i, d) /\ d.request.op # "empty"
        /\ \E o \in Outcomes(Prog(i), disk[i], tail[i], d.request) :
             \/ o.stores /\ Begin(i, o, d.run)
             \/ UNCHANGED <<phase, disk, pending>>
             \/ /\ phase' = [phase EXCEPT ![i] = "off"]
                /\ UNCHANGED <<disk, pending>>
  BY DEF Serve
<1>2. PICK o \in Outcomes(Prog(i), disk[i], tail[i], d.request) :
        \/ o.stores /\ Begin(i, o, d.run)
        \/ UNCHANGED <<phase, disk, pending>>
        \/ /\ phase' = [phase EXCEPT ![i] = "off"]
           /\ UNCHANGED <<disk, pending>>
  BY <1>1
<1>3. /\ phase[i] = "idle" /\ ~scenario.shell /\ inbox[i] # << >> /\ d = Head(inbox[i])
  BY <1>1 DEF Receives
<1>4. /\ phase \in [Services -> {"idle", "storing", "off"}] /\ DOMAIN pending = Services
      /\ inbox[i] \in Seq(Datagrams)
  BY DEF Types, ServiceTypes
<1>5. CASE o.stores /\ Begin(i, o, d.run)
  <2>1. phase'[i] = "storing" /\ pending'[i].image = o.image
    BY <1>4, <1>5 DEF Begin
  <2>2. Latest(i)' = o.image
    BY <2>1 DEF Latest
  <2>3. Head(inbox[i]) \in Datagrams
    BY <1>3, <1>4, TailType
  <2>4. d.request \in Calls(scenario)
    BY <1>3, <2>3 DEF Datagrams
  <2> QED
    BY <1>1, <1>3, <1>5, <2>2, <2>4 DEF Moved, Calculates
<1>6. CASE UNCHANGED <<phase, disk, pending>>
  BY <1>6, LatestKept
<1>7. CASE phase' = [phase EXCEPT ![i] = "off"] /\ UNCHANGED <<disk, pending>>
  BY <1>3, <1>4, <1>7 DEF Moved, Latest
<1> QED
  BY <1>2, <1>5, <1>6, <1>7

LEMMA LatestStep ==
  ASSUME Types, [Next]_vars, NEW i \in Services
  PROVE  scenario' = scenario /\ Moved(i)
<1>1. /\ phase \in [Services -> {"idle", "storing", "off"}] /\ DOMAIN disk = Services
      /\ DOMAIN pending = Services
      /\ phase[i] = "storing" => disk[i] = Torn
  BY DEF Types, ServiceTypes
<1>2. CASE UNCHANGED <<scenario, phase, disk, pending>>
  BY <1>2, LatestKept
<1>3. ASSUME NEW j \in Services, Serve(j)
      PROVE  scenario' = scenario /\ Moved(i)
  <2>1. scenario' = scenario
    BY <1>3 DEF Serve
  <2>2. CASE i = j
    BY <1>3, <2>1, <2>2, LatestServe
  <2>3. CASE i # j
    <3>1. phase'[i] = phase[i] /\ disk'[i] = disk[i] /\ pending'[i] = pending[i]
      BY <1>1, <1>3, <2>3 DEF Serve, Begin
    <3> QED
      BY <2>1, <3>1, LatestKept
  <2> QED
    BY <2>2, <2>3
<1>4. ASSUME NEW j \in Services, EndLoop(j) \/ Deploy(j)
      PROVE  scenario' = scenario /\ Moved(i)
  <2>1. /\ scenario' = scenario /\ disk' = disk /\ pending' = pending /\ phase[j] = "idle"
        /\ phase' = [phase EXCEPT ![j] = "off"]
    BY <1>4 DEF EndLoop, Deploy, Receives
  <2> QED
    BY <1>1, <2>1 DEF Moved, Latest
<1>5. ASSUME NEW j \in Services, Store(j)
      PROVE  scenario' = scenario /\ Moved(i)
  BY <1>1, <1>5 DEF Store, Moved, Latest
<1>6. ASSUME NEW j \in Services, Crash(j)
      PROVE  scenario' = scenario /\ Moved(i)
  BY <1>1, <1>6 DEF Crash, Moved, Latest
<1>7. ASSUME NEW j \in Services, Start(j)
      PROVE  scenario' = scenario /\ Moved(i)
  <2>1. scenario' = scenario /\ phase[j] = "off"
    BY <1>7 DEF Start
  <2>2. CASE Initialises(Prog(j), disk[j])
    <3>1. Begin(j, Write(FirstBallot(scenario.creator), "none"), 0)
      BY <1>7, <2>2 DEF Start
    <3>2. Write(FirstBallot(scenario.creator), "none").image = FirstBallot(scenario.creator)
      BY DEF Write
    <3> QED
      BY <1>1, <2>1, <2>2, <3>1, <3>2 DEF Begin, Moved, Latest, Initialises
  <2>3. CASE ~Initialises(Prog(j), disk[j])
    <3>1. disk' = disk /\ pending' = pending /\ phase' = [phase EXCEPT ![j] = "idle"]
      BY <1>7, <2>3 DEF Start
    <3> QED
      BY <1>1, <2>1, <3>1 DEF Moved, Latest
  <2> QED
    BY <2>2, <2>3
<1>8. ASSUME StartRun \/ Send \/ Finish \/ \E k \in Targets : Receive(k)
      PROVE  scenario' = scenario /\ Moved(i)
  <2>1. UNCHANGED <<scenario, phase, disk, pending>>
    BY <1>8 DEF StartRun, Send, Finish, Receive
  <2> QED
    BY <1>2, <2>1
<1>9. CASE UNCHANGED vars
  BY <1>2, <1>9 DEF vars
<1> QED
  BY <1>3, <1>4, <1>5, <1>6, <1>7, <1>8, <1>9 DEF Next

-------------------------------------------------------------------------------
(* Token: the unsigned arithmetic of transfer loses nothing while all coins  *)
(* together are fewer than a uint can count.                                 *)
LEMMA Wraps ==
  ASSUME NEW u \in Nat \ {0}, NEW x \in 0 .. u - 1
  PROVE  x % u = x /\ (x + u) % u = x
OBVIOUS

LEMMA MoveType ==
  ASSUME NEW S, NEW f \in [S -> Nat], NEW a \in S, NEW b \in S, NEW n \in Nat, n <= f[a]
  PROVE  Move(f, a, b, n).balance \in [S -> Nat]
<1> DEFINE paid == [f EXCEPT ![a] = (f[a] + UintRange - n) % UintRange]
<1>1. UintRange \in Nat \ {0} /\ \A x \in Nat : x % UintRange \in Nat
  BY UintAssumption
<1>2. f[a] + UintRange - n \in Nat
  BY <1>1
<1>3. paid \in [S -> Nat]
  BY <1>1, <1>2
<1> HIDE DEF paid
<1>4. (paid[b] + n) % UintRange \in Nat
  BY <1>1, <1>3
<1>5. Move(f, a, b, n).balance = [paid EXCEPT ![b] = (paid[b] + n) % UintRange]
  BY DEF Move, Balances, paid
<1> QED
  BY <1>3, <1>4, <1>5

LEMMA MoveKeeps ==
  ASSUME NEW S, IsFiniteSet(S), NEW f \in [S -> Nat], SumFunctionOnSet(f, S) < UintRange,
         NEW a \in S, NEW b \in S, NEW n \in Nat, n <= f[a]
  PROVE  /\ Move(f, a, b, n).balance \in [S -> Nat]
         /\ SumFunctionOnSet(Move(f, a, b, n).balance, S) = SumFunctionOnSet(f, S)
<1> DEFINE paid == [f EXCEPT ![a] = (f[a] + UintRange - n) % UintRange]
           after == [paid EXCEPT ![b] = (paid[b] + n) % UintRange]
           sum == SumFunctionOnSet(f, S)
<1>1. Move(f, a, b, n).balance = after
  BY DEF Move, Balances
<1>2. UintRange \in Nat \ {0} /\ f[a] \in Nat /\ f[b] \in Nat /\ sum \in Nat
  BY UintAssumption, SumType
<1>3. f[a] <= sum
  <2>1. \A x \in S : f[x] \in Nat
    OBVIOUS
  <2>2. sum = f[a] + SumFunctionOnSet(f, S \ {a})
    BY <2>1, SumRemove
  <2>3. SumFunctionOnSet(f, S \ {a}) \in Nat
    BY <2>1, FS_RemoveElement, SumType
  <2> HIDE DEF sum
  <2> QED
    BY <1>2, <2>2, <2>3
<1> HIDE DEF sum
<1>4. (f[a] + UintRange - n) % UintRange = f[a] - n
  <2>1. f[a] - n \in 0 .. UintRange - 1 /\ f[a] + UintRange - n = (f[a] - n) + UintRange
    BY <1>2, <1>3 DEF sum
  <2> QED
    BY <1>2, <2>1, Wraps
<1>5. paid = [f EXCEPT ![a] = f[a] - n]
  BY <1>4
<1>6. CASE a = b
  <2>1. paid[b] + n = f[a]
    BY <1>2, <1>5, <1>6
  <2>2. f[a] % UintRange = f[a]
    <3>1. f[a] \in 0 .. UintRange - 1
      BY <1>2, <1>3 DEF sum
    <3> QED
      BY <1>2, <3>1, Wraps
  <2>3. after = f
    BY <1>5, <1>6, <2>1, <2>2
  <2> QED
    BY <1>1, <2>3 DEF sum
<1>7. CASE a # b
  <2> DEFINE g == [f EXCEPT ![a] = f[a] - n, ![b] = f[b] + n]
  <2>1. /\ g \in [S -> Nat] /\ SumFunctionOnSet(g, S) = sum /\ f[a] + f[b] <= sum
    BY <1>7, SumMove DEF sum
  <2>2. paid[b] + n = f[b] + n /\ f[b] + n \in 0 .. UintRange - 1
    BY <1>2, <1>5, <1>7, <2>1 DEF sum
  <2>3. (f[b] + n) % UintRange = f[b] + n
    BY <1>2, <2>2, Wraps
  <2>4. after = g
    BY <1>5, <1>7, <2>2, <2>3
  <2> QED
    BY <1>1, <2>1, <2>4 DEF sum
<1> QED
  BY <1>6, <1>7

-------------------------------------------------------------------------------
(* Auction: the digits of a bid make a number, whatever the buffer held.     *)
LEMMA PriceType ==
  ASSUME NEW digits \in Seq(0 .. 9)
  PROVE  Price(digits) \in Nat
<1> DEFINE D == DOMAIN digits
           last(s) == Max(s)
           Reads(g) ==
             g = [s \in SUBSET D |->
                    IF s = {} THEN 0 ELSE 10 * g[s \ {last(s)}] + digits[last(s)]]
           read == CHOOSE g : Reads(g)
<1>1. Price(digits) = read[D]
  BY Zenon DEF Price, FoldLeft, MapThenFoldSet
<1>2. D \in SUBSET Nat /\ IsFiniteSet(D) /\ \A k \in D : digits[k] \in Nat
  <2>1. D = 1 .. Len(digits) /\ Len(digits) \in Nat /\ \A k \in D : digits[k] \in 0 .. 9
    OBVIOUS
  <2>2. IsFiniteSet(D)
    BY <2>1, FS_Interval
  <2>3. D \in SUBSET Nat /\ \A k \in D : digits[k] \in Nat
    BY <2>1
  <2> QED
    BY <2>2, <2>3
<1>3. ASSUME NEW s \in SUBSET D, s # {}
      PROVE  last(s) \in s
  <2>1. \E x \in s : \A y \in s : x >= y
    <3>1. IsFiniteSet(s) /\ s \in SUBSET Nat
      BY <1>2, FS_Subset
    <3>2. PICK x \in s : \A y \in s : y <= x
      BY <1>3, <3>1, Largest
    <3> QED
      BY <3>1, <3>2
  <2> QED
    BY <2>1 DEF Max
<1> HIDE DEF last
<1> DEFINE pick == [s \in SUBSET D |-> last(s)]
           step == [k \in D |-> [v \in Nat |-> 10 * v + digits[k]]]
<1>4. Picks(pick, D)
  BY <1>3 DEF Picks
<1>5. PICK h : Iterates(h, D, pick, 0, step)
  <2> HIDE DEF pick, step
  <2> QED
    BY <1>2, <1>4, IterateExists
<1>6. \A s \in SUBSET D : h[s] \in Nat
  <2>1. \A k \in D : \A v \in Nat : step[k][v] \in Nat
    BY <1>2
  <2> HIDE DEF pick, step
  <2> QED
    BY <1>2, <1>4, <1>5, <2>1, IterateType
<1>7. ASSUME NEW s \in SUBSET D, s # {}
      PROVE  h[s] = 10 * h[s \ {last(s)}] + digits[last(s)]
  <2>1. pick[s] = last(s) /\ last(s) \in D /\ h[s \ {last(s)}] \in Nat
    BY <1>3, <1>6, <1>7
  <2>2. h[s] = step[last(s)][h[s \ {last(s)}]]
    <3> HIDE DEF step
    <3> QED
      BY <1>5, <1>7, <2>1 DEF Iterates
  <2> QED
    BY <2>1, <2>2
<1>8. Reads([s \in SUBSET D |-> h[s]])
  <2>1. h[{}] = 0
    BY <1>5 DEF Iterates
  <2>2. \A s \in SUBSET D : s \ {last(s)} \in SUBSET D
    OBVIOUS
  <2> QED
    BY <1>7, <2>1, <2>2
<1>9. Reads(read)
  <2> HIDE DEF Reads
  <2> QED
    BY <1>8
<1> HIDE DEF read
<1>10. \A s \in SUBSET D : read[s] = h[s]
  <2> DEFINE T == {s \in SUBSET D : read[s] # h[s]}
  <2> SUFFICES ASSUME T # {} PROVE FALSE
    OBVIOUS
  <2>1. PICK s \in T : \A r \in T : r \subseteq s => r = s
    <3>1. T \in SUBSET (SUBSET D)
      OBVIOUS
    <3> HIDE DEF T
    <3> QED
      BY <1>2, <3>1, Smallest
  <2>2. s # {}
    BY <1>5, <1>9, <2>1 DEF Iterates
  <2>3. read[s \ {last(s)}] = h[s \ {last(s)}]
    BY <1>3, <2>1, <2>2
  <2>4. read[s] = 10 * read[s \ {last(s)}] + digits[last(s)]
    BY <1>9, <2>2
  <2> QED
    BY <1>7, <2>1, <2>2, <2>3, <2>4
<1> QED
  BY <1>1, <1>6, <1>10

-------------------------------------------------------------------------------
(* Vote: the lists of records in the file.                                   *)
VoteRecord == [name : Nat, fresh : BOOLEAN, count : Nat]
Counts(list) == [k \in DOMAIN list |-> list[k].count]
Counted(list) == SumFunctionOnSet(Counts(list), DOMAIN list)

LEMMA CountsType ==
  ASSUME NEW list \in Seq(VoteRecord)
  PROVE  /\ DOMAIN list = 1 .. Len(list) /\ Len(list) \in Nat /\ IsFiniteSet(DOMAIN list)
         /\ \A k \in DOMAIN list : Counts(list)[k] = list[k].count /\ Counts(list)[k] \in Nat
         /\ Counted(list) \in Nat
<1>1. DOMAIN list = 1 .. Len(list) /\ Len(list) \in Nat
  OBVIOUS
<1>2. IsFiniteSet(DOMAIN list)
  BY <1>1, FS_Interval
<1>3. \A k \in DOMAIN list : Counts(list)[k] = list[k].count /\ Counts(list)[k] \in Nat
  <2>1. \A k \in DOMAIN list : list[k] \in VoteRecord
    BY <1>1
  <2> QED
    BY <2>1 DEF Counts, VoteRecord
<1> QED
  BY <1>1, <1>2, <1>3, SumType DEF Counted

(* The counts of two lists add up to those of one behind the other.          *)
LEMMA CountedConcat ==
  ASSUME NEW s \in Seq(VoteRecord), NEW t \in Seq(VoteRecord)
  PROVE  s \o t \in Seq(VoteRecord) /\ Counted(s \o t) = Counted(s) + Counted(t)
<1> DEFINE u == s \o t
           D == DOMAIN u
           m == Len(s)
           low == 1 .. m
           high == D \ low
           shift == [k \in DOMAIN t |-> k + m]
<1>1. /\ u \in Seq(VoteRecord) /\ D = 1 .. m + Len(t) /\ m \in Nat /\ Len(t) \in Nat
      /\ DOMAIN s = low /\ DOMAIN t = 1 .. Len(t)
      /\ \A k \in low : u[k] = s[k]
      /\ \A k \in DOMAIN t : u[k + m] = t[k]
  OBVIOUS
<1> HIDE DEF u
<1>2. IsFiniteSet(D) /\ \A k \in D : Counts(u)[k] = u[k].count /\ Counts(u)[k] \in Nat
  BY <1>1, CountsType
<1>3. low \in SUBSET D
  BY <1>1
<1>4. Counted(u) = SumFunctionOnSet(Counts(u), low) + SumFunctionOnSet(Counts(u), high)
  <2> HIDE DEF low
  <2> QED
    BY <1>2, <1>3, SumSplit DEF Counted
<1>5. SumFunctionOnSet(Counts(u), low) = Counted(s)
  <2>1. \A k \in low : Counts(s)[k] \in Nat /\ Counts(u)[k] = Counts(s)[k]
    <3>1. \A k \in low : u[k] = s[k] /\ k \in D /\ k \in DOMAIN s
      BY <1>1, <1>3
    <3>2. \A k \in DOMAIN s : Counts(s)[k] = s[k].count /\ Counts(s)[k] \in Nat
      BY CountsType
    <3> HIDE DEF low, D
    <3> QED
      BY <1>2, <3>1, <3>2
  <2>2. IsFiniteSet(low)
    BY <1>1, CountsType
  <2> HIDE DEF low
  <2> QED
    BY <1>1, <2>1, <2>2, SumSame DEF Counted
<1>6. Counted(t) = SumFunctionOnSet(Counts(u), high)
  <2>1. shift \in [DOMAIN t -> D] /\ \A x, y \in DOMAIN t : shift[x] = shift[y] => x = y
    BY <1>1
  <2>2. high = {shift[k] : k \in DOMAIN t}
    <3>1. \A k \in high : k - m \in DOMAIN t /\ shift[k - m] = k
      BY <1>1
    <3>2. \A k \in DOMAIN t : shift[k] \in high
      BY <1>1
    <3> HIDE DEF shift, high
    <3> QED
      BY <3>1, <3>2
  <2>3. \A k \in DOMAIN t : Counts(t)[k] = Counts(u)[shift[k]]
    <3>1. \A k \in DOMAIN t : shift[k] \in D /\ u[shift[k]] = t[k]
      BY <1>1
    <3>2. \A k \in DOMAIN t : Counts(t)[k] = t[k].count
      BY CountsType
    <3> HIDE DEF shift, D
    <3> QED
      BY <1>2, <3>1, <3>2
  <2>4. IsFiniteSet(DOMAIN t)
    BY CountsType
  <2> HIDE DEF shift, high
  <2>5. \A k \in D : Counts(u)[k] \in Nat
    BY <1>2
  <2> DEFINE f == Counts(u)
             g == Counts(t)
             S == DOMAIN t
  <2>6. SumFunctionOnSet(g, S) = SumFunctionOnSet(f, {shift[k] : k \in S})
    <3>1. IsFiniteSet(S) /\ IsFiniteSet(D) /\ shift \in [S -> D]
      BY <1>2, <2>1, <2>4
    <3>2. \A x, y \in S : shift[x] = shift[y] => x = y
      BY <2>1
    <3>3. \A x \in D : f[x] \in Nat
      BY <2>5
    <3>4. \A x \in S : g[x] = f[shift[x]]
      BY <2>3
    <3> HIDE DEF f, g, S, D, shift
    <3> QED
      BY <3>1, <3>2, <3>3, <3>4, SumImage, SMTT(30)
  <2> QED
    BY <2>2, <2>6 DEF Counted
<1> QED
  BY <1>1, <1>4, <1>5, <1>6 DEF u

(* A load counts no record twice; a name that two records have is counted    *)
(* once, with the later one.                                                 *)
LEMMA LoadMapBound ==
  ASSUME NEW list \in Seq(VoteRecord)
  PROVE  LET map == LoadMap(list)
         IN  /\ DOMAIN map \in SUBSET Nat /\ IsFiniteSet(DOMAIN map) /\ map \in [DOMAIN map -> Nat]
             /\ SumFunctionOnSet(map, DOMAIN map) <= Counted(list)
             /\ \A n \in DOMAIN map : \E k \in DOMAIN list : list[k] = Record(n, list[k].fresh, map[n])
<1> DEFINE map == LoadMap(list)
           D == DOMAIN list
           names == {list[k].name : k \in D}
           of(n) == CHOOSE k \in D : list[k].name = n /\ \A j \in D : list[j].name = n => j <= k
           last == [n \in names |-> of(n)]
<1>1. /\ D = 1 .. Len(list) /\ IsFiniteSet(D) /\ D \in SUBSET Nat
      /\ \A k \in D : Counts(list)[k] = list[k].count /\ Counts(list)[k] \in Nat
  BY CountsType
<1>2. \A k \in D : list[k] \in VoteRecord
  OBVIOUS
<1>3. names \in SUBSET Nat /\ IsFiniteSet(names)
  <2>1. names \in SUBSET Nat
    BY <1>2 DEF VoteRecord
  <2>2. [k \in D |-> list[k].name] \in Surjection(D, names)
    BY DEF Surjection
  <2> QED
    BY <1>1, <2>1, <2>2, FS_Surjection
<1>4. ASSUME NEW n \in names
      PROVE  of(n) \in D /\ list[of(n)].name = n
  <2> DEFINE places == {k \in D : list[k].name = n}
  <2>1. places \in SUBSET Nat /\ IsFiniteSet(places) /\ places # {}
    BY <1>1, <1>4, FS_Subset
  <2>2. \E k \in places : \A j \in places : j <= k
    <3> HIDE DEF places
    <3> QED
      BY <2>1, Largest
  <2>3. \E k \in D : list[k].name = n /\ \A j \in D : list[j].name = n => j <= k
    BY <2>2
  <2> QED
    BY <2>3
<1>5. map = [n \in names |-> list[of(n)].count]
  BY DEF LoadMap
<1> HIDE DEF of, map
<1>6. /\ DOMAIN map = names /\ \A n \in names : map[n] = Counts(list)[last[n]]
      /\ last \in [names -> D] /\ \A m, n \in names : last[m] = last[n] => m = n
  BY <1>1, <1>4, <1>5
<1>7. map \in [names -> Nat]
  BY <1>1, <1>5, <1>6
<1>8. \A n \in names : of(n) \in D /\ list[of(n)] = Record(n, list[of(n)].fresh, map[n])
  <2> SUFFICES ASSUME NEW n \in names
               PROVE  of(n) \in D /\ list[of(n)] = Record(n, list[of(n)].fresh, map[n])
    OBVIOUS
  <2>1. of(n) \in D /\ list[of(n)].name = n /\ map[n] = list[of(n)].count
    BY <1>4, <1>5
  <2>2. list[of(n)] \in VoteRecord
    BY <1>2, <2>1
  <2> QED
    BY <2>1, <2>2 DEF Record, VoteRecord
<1> HIDE DEF last, names
<1> DEFINE used == {last[n] : n \in names}
<1>9. SumFunctionOnSet(map, names) = SumFunctionOnSet(Counts(list), used)
  <2> DEFINE f == Counts(list)
  <2>1. IsFiniteSet(names) /\ IsFiniteSet(D) /\ last \in [names -> D]
    BY <1>1, <1>3, <1>6
  <2>2. \A x, y \in names : last[x] = last[y] => x = y
    BY <1>6
  <2>3. (\A x \in D : f[x] \in Nat) /\ (\A x \in names : map[x] = f[last[x]])
    BY <1>1, <1>6
  <2> HIDE DEF f, D
  <2> QED
    BY <2>1, <2>2, <2>3, SumImage DEF f
<1>10. used \in SUBSET D
  BY <1>6
<1>11. Counted(list) = SumFunctionOnSet(Counts(list), used)
                         + SumFunctionOnSet(Counts(list), D \ used)
  <2> HIDE DEF used
  <2> QED
    BY <1>1, <1>10, SumSplit DEF Counted
<1>12. /\ SumFunctionOnSet(Counts(list), used) \in Nat
       /\ SumFunctionOnSet(Counts(list), D \ used) \in Nat
  <2>1. ASSUME NEW V \in SUBSET D
        PROVE  SumFunctionOnSet(Counts(list), V) \in Nat
    <3>1. IsFiniteSet(V) /\ \A k \in V : Counts(list)[k] \in Nat
      BY <1>1, FS_Subset
    <3> QED
      BY <3>1, SumType
  <2> QED
    BY <1>10, <2>1
<1> QED
  BY <1>3, <1>6, <1>7, <1>9, <1>11, <1>12, <1>8 DEF map

BallotFile(f) == f.is = "vote" /\ f.num \in Nat /\ f.records \in Seq(VoteRecord)

BallotMap(map) ==
  DOMAIN map \in SUBSET Nat /\ IsFiniteSet(DOMAIN map) /\ map \in [DOMAIN map -> Nat]
BallotSum(map) == SumFunctionOnSet(map, DOMAIN map)

(* The list a program loads is cut in two, wherever num says.                *)
LEMMA CutList ==
  ASSUME NEW f, BallotFile(f), NEW num \in Nat
  PROVE  /\ BallotSum(Nominators(f, num)) + BallotSum(Voters(f, num)) \in Nat
         /\ BallotSum(Nominators(f, num)) + BallotSum(Voters(f, num)) <= Counted(f.records)
         /\ \A map \in {Nominators(f, num), Voters(f, num)} :
              /\ BallotMap(map)
              /\ \A name \in DOMAIN map :
                   \E r \in ToSet(f.records) : r = Record(name, r.fresh, map[name])
<1> DEFINE list == f.records
           n == Len(list)
           m == IF num <= n THEN num ELSE n
           s == SubSeq(list, 1, m)
           t == SubSeq(list, num + 1, n)
<1>1. list \in Seq(VoteRecord) /\ n \in Nat
  BY DEF BallotFile
<1>2. s \in Seq(VoteRecord) /\ t \in Seq(VoteRecord) /\ list = s \o t
  <2>1. (\A k \in 1 .. m : list[k] \in VoteRecord)
          /\ (\A k \in num + 1 .. n : list[k] \in VoteRecord)
    <3>1. \A k \in 1 .. n : list[k] \in VoteRecord
      BY <1>1, ElementOfSeq
    <3> HIDE DEF list, n
    <3> QED
      BY <1>1, <3>1
  <2>2. s \in Seq(VoteRecord) /\ t \in Seq(VoteRecord)
    <3>1. m \in Int /\ n \in Int /\ num + 1 \in Int
      BY <1>1
    <3> HIDE DEF m, n, list
    <3> QED
      BY <2>1, <3>1, SubSeqProperties
  <2>3. CASE num <= n
    <3>1. 1 \in 1 .. n + 1 /\ num \in 1 - 1 .. n /\ n \in num .. n
      BY <1>1, <2>3
    <3> HIDE DEF list
    <3>2. SubSeq(list, 1, num) \o SubSeq(list, num + 1, n) = SubSeq(list, 1, n)
      BY <1>1, <3>1, ConcatAdjacentSubSeq
    <3>3. SubSeq(list, 1, n) = list
      BY <1>1, SubSeqFull
    <3> QED
      BY <2>2, <2>3, <3>2, <3>3
  <2>4. CASE ~(num <= n)
    <3> HIDE DEF list
    <3>1. t = << >>
      BY <1>1, <2>4, SubSeqEmpty
    <3>2. s = list
      BY <1>1, <2>4, SubSeqFull
    <3>3. list \o << >> = list
      BY <1>1, ConcatEmptySeq
    <3> QED
      BY <2>2, <3>1, <3>2, <3>3
  <2> QED
    BY <2>3, <2>4
<1>3. Counted(list) = Counted(s) + Counted(t)
  <2> HIDE DEF list, s, t
  <2> QED
    BY <1>2, CountedConcat
<1>4. Nominators(f, num) = LoadMap(s) /\ Voters(f, num) = LoadMap(t)
  BY DEF Nominators, Voters
<1>5. ASSUME NEW k, k \in DOMAIN s \/ k \in DOMAIN t
      PROVE  /\ k \in DOMAIN s => s[k] \in ToSet(list)
             /\ k \in DOMAIN t => t[k] \in ToSet(list)
  <2>1. m \in 0 .. n /\ num + 1 \in Nat
    BY <1>1
  <2>2. \A j \in 1 .. n : list[j] \in ToSet(list)
    BY <1>1 DEF ToSet
  <2>3. ASSUME k \in DOMAIN s
        PROVE  s[k] \in ToSet(list)
    <3>1. DOMAIN s = 1 .. m /\ s[k] = list[k]
      BY <1>1, <2>1, <2>3
    <3>2. k \in 1 .. n
      BY <1>1, <2>1, <2>3, <3>1
    <3> QED
      BY <2>2, <3>1, <3>2
  <2>4. ASSUME k \in DOMAIN t
        PROVE  t[k] \in ToSet(list)
    <3>1. num < n /\ k \in 1 .. n - num /\ t[k] = list[num + k]
      BY <1>1, <2>1, <2>4
    <3>2. num + k \in 1 .. n
      BY <1>1, <3>1
    <3> QED
      BY <2>2, <3>1, <3>2
  <2> QED
    BY <2>3, <2>4
<1> HIDE DEF s, t, list
<1>6. ASSUME NEW u \in {s, t}
      PROVE  /\ BallotMap(LoadMap(u)) /\ BallotSum(LoadMap(u)) <= Counted(u)
             /\ BallotSum(LoadMap(u)) \in Nat /\ Counted(u) \in Nat
             /\ \A name \in DOMAIN LoadMap(u) :
                  \E k \in DOMAIN u : u[k] = Record(name, u[k].fresh, LoadMap(u)[name])
  <2>1. u \in Seq(VoteRecord)
    BY <1>2
  <2>2. /\ BallotMap(LoadMap(u)) /\ BallotSum(LoadMap(u)) <= Counted(u)
        /\ \A name \in DOMAIN LoadMap(u) :
             \E k \in DOMAIN u : u[k] = Record(name, u[k].fresh, LoadMap(u)[name])
    BY <2>1, LoadMapBound DEF BallotMap, BallotSum
  <2>3. \A x \in DOMAIN LoadMap(u) : LoadMap(u)[x] \in Nat
    BY <2>2 DEF BallotMap
  <2>4. BallotSum(LoadMap(u)) \in Nat
    BY <2>2, <2>3, SumType DEF BallotMap, BallotSum
  <2> QED
    BY <2>1, <2>2, <2>4, CountsType
<1>7. /\ BallotSum(LoadMap(s)) <= Counted(s) /\ BallotSum(LoadMap(s)) \in Nat /\ Counted(s) \in Nat
      /\ BallotSum(LoadMap(t)) <= Counted(t) /\ BallotSum(LoadMap(t)) \in Nat /\ Counted(t) \in Nat
  BY <1>6
<1>8. /\ BallotSum(LoadMap(s)) + BallotSum(LoadMap(t)) \in Nat
      /\ BallotSum(LoadMap(s)) + BallotSum(LoadMap(t)) <= Counted(list)
  BY <1>3, <1>7
<1>9. ASSUME NEW u \in {s, t}, NEW name \in DOMAIN LoadMap(u)
      PROVE  \E r \in ToSet(list) : r = Record(name, r.fresh, LoadMap(u)[name])
  <2>1. PICK k \in DOMAIN u : u[k] = Record(name, u[k].fresh, LoadMap(u)[name])
    BY <1>6
  <2>2. u[k] \in ToSet(list)
    BY <1>5, <2>1
  <2> QED
    BY <2>1, <2>2
<1> QED
  BY <1>4, <1>6, <1>8, <1>9 DEF list

LEMMA HeldBound ==
  ASSUME NEW f, BallotFile(f)
  PROVE  /\ Held(f) \in Nat /\ Held(f) <= Counted(f.records)
         /\ Held(f) = BallotSum(Nominators(f, f.num)) + BallotSum(Voters(f, f.num))
<1>1. f.num \in Nat /\ f.is = "vote"
  BY DEF BallotFile
<1>2. Held(f) = BallotSum(Nominators(f, f.num)) + BallotSum(Voters(f, f.num))
  BY <1>1 DEF Held, SumFunction, BallotSum
<1> QED
  BY <1>1, <1>2, CutList

(* What is read back is a number for every name, and the number that was     *)
(* written where it fits its record or is written in plain text.             *)
LEMMA ReadBackType ==
  ASSUME NEW map, map \in [DOMAIN map -> Nat], NEW encrypted, NEW back \in ReadBack(map, encrypted)
  PROVE  /\ DOMAIN back = DOMAIN map /\ back \in [DOMAIN map -> Nat]
         /\ (encrypted => \A n \in DOMAIN map : Fits(n, map[n])) => back = map
<1>1. /\ back \in [DOMAIN map -> Garbage \cup Range(map)]
      /\ \A n \in DOMAIN map : back[n] \in ReadAs(map[n], encrypted => Fits(n, map[n]))
  BY DEF ReadBack
<1>2. Garbage \cup Range(map) \in SUBSET Nat
  BY UintAssumption DEF Range
<1>3. ASSUME encrypted => \A n \in DOMAIN map : Fits(n, map[n])
      PROVE  back = map
  <2>1. \A n \in DOMAIN map : back[n] = map[n]
    BY <1>1, <1>3 DEF ReadAs
  <2> QED
    BY <1>1, <2>1
<1> QED
  BY <1>1, <1>2, <1>3

LEMMA LoadBallotType ==
  ASSUME NEW f, BallotFile(f), NEW encrypted, NEW b \in LoadBallot(f, encrypted)
  PROVE  /\ b.num \in Nat /\ BallotMap(b.nominators) /\ BallotMap(b.voters)
         /\ (encrypted => Whole(f))
              => b.num = f.num /\ b.nominators = Nominators(f, f.num) /\ b.voters = Voters(f, f.num)
<1>1. PICK num \in ReadAs(f.num, encrypted => f.num \notin CutNumbers) :
        /\ b.num = num
        /\ b.nominators \in ReadBack(Nominators(f, num), encrypted)
        /\ b.voters \in ReadBack(Voters(f, num), encrypted)
  BY DEF LoadBallot
<1>2. f.num \in Nat /\ num \in Nat
  BY UintAssumption DEF BallotFile, ReadAs
<1>3. ASSUME NEW map \in {Nominators(f, num), Voters(f, num)}, NEW back \in ReadBack(map, encrypted)
      PROVE  BallotMap(back) /\ ((encrypted => Whole(f)) => back = map)
  <2>1. /\ BallotMap(map)
        /\ \A name \in DOMAIN map :
             \E r \in ToSet(f.records) : r = Record(name, r.fresh, map[name])
    BY <1>2, CutList
  <2>2. /\ DOMAIN back = DOMAIN map /\ back \in [DOMAIN map -> Nat]
        /\ (encrypted => \A n \in DOMAIN map : Fits(n, map[n])) => back = map
    BY <2>1, ReadBackType DEF BallotMap
  <2>3. ASSUME Whole(f), NEW n \in DOMAIN map
        PROVE  Fits(n, map[n])
    <3>1. PICK r \in ToSet(f.records) : r = Record(n, r.fresh, map[n])
      BY <2>1
    <3>2. r.name = n /\ r.count = map[n]
      BY <3>1 DEF Record
    <3> QED
      BY <2>3, <3>2 DEF Whole
  <2> QED
    BY <2>1, <2>2, <2>3 DEF BallotMap
<1>4. (encrypted => Whole(f)) => num = f.num
  BY <1>1 DEF Whole, ReadAs
<1> QED
  BY <1>1, <1>2, <1>3, <1>4

(* The records of one map are told apart by name and freshness; the order of *)
(* std::map puts any set of them into one list.                              *)
Apart(set) == \A r, s \in set : r.name = s.name /\ r.fresh = s.fresh => r = s

LEMMA LastRecord ==
  ASSUME NEW set \in SUBSET VoteRecord, IsFiniteSet(set), Apart(set), set # {}
  PROVE  \E m \in set : \A x \in set \ {m} : After(x, m)
<1> DEFINE T == {U \in SUBSET set : U # {} /\ ~ \E m \in U : \A x \in U \ {m} : After(x, m)}
<1> SUFFICES ASSUME T # {} PROVE FALSE
  OBVIOUS
<1>1. PICK U \in T : \A V \in T : V \subseteq U => V = U
  <2>1. T \in SUBSET (SUBSET set)
    OBVIOUS
  <2> HIDE DEF T
  <2> QED
    BY <2>1, Smallest
<1>2. PICK a \in U : TRUE
  OBVIOUS
<1>3. U \ {a} # {}
  <2> SUFFICES ASSUME U \ {a} = {} PROVE FALSE
    OBVIOUS
  <2>1. \A x \in U \ {a} : After(x, a)
    OBVIOUS
  <2> QED
    BY <1>1, <1>2, <2>1
<1>4. PICK m \in U \ {a} : \A x \in (U \ {a}) \ {m} : After(x, m)
  <2> DEFINE V == U \ {a}
  <2>1. V \in SUBSET set /\ V \subseteq U /\ V # U /\ V # {}
    BY <1>1, <1>2, <1>3
  <2>2. V \notin T
    BY <1>1, <2>1
  <2> QED
    BY <2>1, <2>2
<1>5. \A x \in set : x.name \in Nat /\ x.fresh \in BOOLEAN
  BY DEF VoteRecord
<1>6. a \in set /\ m \in set /\ a # m /\ U \in SUBSET set
  BY <1>1, <1>2, <1>4
<1>7. After(a, m) \/ After(m, a)
  <2>1. a.name = m.name => a.fresh # m.fresh
    BY <1>6 DEF Apart
  <2>2. a.name \in Nat /\ m.name \in Nat /\ a.fresh \in BOOLEAN /\ m.fresh \in BOOLEAN
    BY <1>5, <1>6
  <2>3. CASE a.name = m.name
    <3>1. (a.fresh /\ ~m.fresh) \/ (m.fresh /\ ~a.fresh)
      BY <2>1, <2>2, <2>3, Zenon
    <3> QED
      BY <2>3, <3>1 DEF After
  <2>4. CASE a.name # m.name
    <3>1. a.name > m.name \/ m.name > a.name
      BY <2>2, <2>4
    <3> QED
      BY <3>1 DEF After
  <2> QED
    BY <2>3, <2>4
<1>8. CASE After(a, m)
  <2>1. \A x \in U \ {m} : After(x, m)
    BY <1>4, <1>8
  <2> QED
    BY <1>1, <1>4, <2>1
<1>9. CASE After(m, a)
  <2>1. ASSUME NEW x \in U \ {a}
        PROVE  After(x, a)
    <3>1. x = m \/ After(x, m)
      BY <1>4
    <3>2. x \in set
      BY <1>6
    <3> QED
      BY <1>5, <1>6, <1>9, <3>1, <3>2 DEF After
  <2> QED
    BY <1>1, <2>1
<1> QED
  BY <1>7, <1>8, <1>9

LEMMA Sortable ==
  ASSUME NEW set \in SUBSET VoteRecord, IsFiniteSet(set), Apart(set)
  PROVE  \E list \in [1 .. Cardinality(set) -> set] : InOrder(list)
<1> DEFINE T == {U \in SUBSET set : ~ \E list \in [1 .. Cardinality(U) -> U] : InOrder(list)}
<1> SUFFICES ASSUME T # {} PROVE FALSE
  OBVIOUS
<1>1. PICK U \in T : \A V \in T : V \subseteq U => V = U
  <2>1. T \in SUBSET (SUBSET set)
    OBVIOUS
  <2> HIDE DEF T
  <2> QED
    BY <2>1, Smallest
<1>2. U \in SUBSET set /\ IsFiniteSet(U) /\ Apart(U)
  BY <1>1, FS_Subset DEF Apart
<1>3. U # {}
  <2> SUFFICES ASSUME U = {} PROVE FALSE
    OBVIOUS
  <2>1. Cardinality(U) = 0
    BY FS_EmptySet
  <2>2. [k \in 1 .. 0 |-> 0] \in [1 .. Cardinality(U) -> U] /\ InOrder([k \in 1 .. 0 |-> 0])
    BY <2>1 DEF InOrder
  <2> QED
    BY <1>1, <2>2
<1>4. PICK m \in U : \A x \in U \ {m} : After(x, m)
  BY <1>2, <1>3, LastRecord
<1> DEFINE rest == U \ {m}
           n == Cardinality(U)
<1>5. Cardinality(rest) = n - 1 /\ n \in Nat
  BY <1>2, <1>4, FS_RemoveElement, FS_CardinalityType
<1>6. PICK list \in [1 .. n - 1 -> rest] : InOrder(list)
  <2>1. rest \in SUBSET set /\ rest # U /\ rest \in SUBSET U
    BY <1>2, <1>4
  <2>2. \E list \in [1 .. Cardinality(rest) -> rest] : InOrder(list)
    <3> HIDE DEF rest
    <3> QED
      BY <1>1, <2>1
  <2> QED
    BY <1>5, <2>2
<1> DEFINE more == [k \in 1 .. n |-> IF k = n THEN m ELSE list[k]]
<1>7. more \in [1 .. n -> U]
  <2>1. \A k \in 1 .. n : k # n => list[k] \in U
    BY <1>5, <1>6
  <2> QED
    BY <1>4, <2>1
<1>8. InOrder(more)
  <2>1. ASSUME NEW j \in 1 .. n, NEW k \in 1 .. n, j < k
        PROVE  After(more[j], more[k])
    <3>1. j \in 1 .. n - 1 /\ list[j] \in rest /\ more[j] = list[j]
      BY <1>5, <1>6, <2>1
    <3>2. CASE k = n
      BY <1>4, <3>1, <3>2
    <3>3. CASE k # n
      <4>1. k \in DOMAIN list /\ j \in DOMAIN list /\ more[k] = list[k]
        BY <1>5, <1>6, <3>1, <3>3
      <4> QED
        BY <1>6, <2>1, <3>1, <4>1 DEF InOrder
    <3> QED
      BY <3>2, <3>3
  <2>2. DOMAIN more = 1 .. n
    OBVIOUS
  <2> HIDE DEF more
  <2> QED
    BY <2>1, <2>2 DEF InOrder
<1> QED
  BY <1>1, <1>7, <1>8

(* A list without repetitions counts what the set of its records does, and   *)
(* the records of a map what the map does.                                   *)
LEMMA CountedOnce ==
  ASSUME NEW set, IsFiniteSet(set), NEW list, list \in [DOMAIN list -> set],
         IsFiniteSet(DOMAIN list),
         \A j, k \in DOMAIN list : list[j] = list[k] => j = k,
         set = {list[k] : k \in DOMAIN list},
         \A r \in set : [s \in set |-> s.count][r] \in Nat
  PROVE  Counted(list) = SumFunctionOnSet([r \in set |-> r.count], set)
<1> DEFINE value == [r \in set |-> r.count]
<1>1. \A k \in DOMAIN list : Counts(list)[k] = value[list[k]]
  BY DEF Counts
<1> HIDE DEF value
<1>2. SumFunctionOnSet(Counts(list), DOMAIN list)
        = SumFunctionOnSet(value, {list[k] : k \in DOMAIN list})
  <2>1. \A r \in set : value[r] \in Nat
    <3>1. \A r \in set : value[r] = r.count
      BY DEF value
    <3> QED
      BY <3>1
  <2> QED
    BY <1>1, <2>1, SumImage
<1> QED
  BY <1>2 DEF Counted, value

LEMMA RecordSum ==
  ASSUME NEW D, IsFiniteSet(D), NEW map, \A n \in D : map[n] \in Nat,
         IsFiniteSet({Record(n, FALSE, map[n]) : n \in D})
  PROVE  LET set == {Record(n, FALSE, map[n]) : n \in D}
         IN  SumFunctionOnSet([r \in set |-> r.count], set) = SumFunctionOnSet(map, D)
<1> DEFINE record == [n \in D |-> Record(n, FALSE, map[n])]
           set == {Record(n, FALSE, map[n]) : n \in D}
           value == [r \in set |-> r.count]
<1>1. set = {record[n] : n \in D}
  OBVIOUS
<1>2. record \in [D -> set] /\ \A m, n \in D : record[m] = record[n] => m = n
  BY DEF Record
<1>3. \A n \in D : map[n] = value[record[n]]
  BY <1>2 DEF Record
<1>4. ASSUME NEW r \in set
      PROVE  value[r] \in Nat
  <2>1. PICK n \in D : r = record[n]
    BY <1>1
  <2> HIDE DEF record, value, set
  <2> QED
    BY <1>3, <2>1
<1>5. SumFunctionOnSet(map, D) = SumFunctionOnSet(value, {record[n] : n \in D})
  <2> HIDE DEF set, value, record
  <2>1. IsFiniteSet(set)
    BY DEF set
  <2> QED
    BY <1>2, <1>3, <1>4, <2>1, SumImage
<1> QED
  BY <1>1, <1>5

(* updateState writes every record of a map once.                            *)
LEMMA RecordsOfMap ==
  ASSUME NEW D \in SUBSET Nat, IsFiniteSet(D), NEW map \in [D -> Nat],
         NEW fresh \in SUBSET Nat, IsFiniteSet(fresh), NEW count \in Nat
  PROVE  /\ Records(map, fresh, count) \in Seq(VoteRecord)
         /\ fresh = {} => Counted(Records(map, fresh, count)) = SumFunctionOnSet(map, D)
<1> DEFINE old == {Record(n, FALSE, map[n]) : n \in D}
           new == {Record(n, TRUE, count) : n \in fresh}
           set == old \cup new
           list == Records(map, fresh, count)
           size == Cardinality(set)
<1>1. /\ old \in SUBSET VoteRecord /\ new \in SUBSET VoteRecord
      /\ \A r \in old : r.fresh = FALSE /\ r.count = map[r.name]
      /\ \A r \in new : r.fresh = TRUE /\ r.count = count
  <2>1. ASSUME NEW r \in old
        PROVE  r \in VoteRecord /\ r.fresh = FALSE /\ r.count = map[r.name]
    <3>1. PICK n \in D : r = Record(n, FALSE, map[n])
      BY <2>1
    <3>2. n \in Nat /\ map[n] \in Nat
      OBVIOUS
    <3> QED
      BY <3>1, <3>2 DEF Record, VoteRecord
  <2>2. ASSUME NEW r \in new
        PROVE  r \in VoteRecord /\ r.fresh = TRUE /\ r.count = count
    <3>1. PICK n \in fresh : r = Record(n, TRUE, count)
      BY <2>2
    <3>2. n \in Nat
      OBVIOUS
    <3> QED
      BY <3>1, <3>2 DEF Record, VoteRecord
  <2> QED
    BY <2>1, <2>2
<1>2. Apart(set)
  <2> SUFFICES ASSUME NEW r \in set, NEW s \in set, r.name = s.name, r.fresh = s.fresh
               PROVE  r = s
    BY DEF Apart
  <2>1. r \in VoteRecord /\ s \in VoteRecord /\ r.count = s.count
    BY <1>1
  <2> QED
    BY <2>1 DEF VoteRecord
<1>3. IsFiniteSet(old) /\ IsFiniteSet(new) /\ IsFiniteSet(set)
  <2>1. [n \in D |-> Record(n, FALSE, map[n])] \in Surjection(D, old)
    BY DEF Surjection
  <2>2. [n \in fresh |-> Record(n, TRUE, count)] \in Surjection(fresh, new)
    BY DEF Surjection
  <2>3. IsFiniteSet(old) /\ IsFiniteSet(new)
    BY <2>1, <2>2, FS_Surjection
  <2> QED
    BY <2>3, FS_Union
<1>4. list \in [1 .. size -> set] /\ InOrder(list)
  <2>1. set \in SUBSET VoteRecord
    BY <1>1
  <2>2. \E l \in [1 .. size -> set] : InOrder(l)
    <3> HIDE DEF set
    <3> QED
      BY <1>2, <1>3, <2>1, Sortable
  <2>3. DOMAIN map = D
    OBVIOUS
  <2>4. list = CHOOSE l \in [1 .. size -> set] : InOrder(l)
    BY <2>3, Zenon DEF Records
  <2> HIDE DEF list, size, set
  <2> QED
    BY <2>2, <2>4
<1>5. size \in Nat
  BY <1>3, FS_CardinalityType
<1>6. list \in Seq(VoteRecord)
  <2>1. \A k \in 1 .. size : list[k] \in VoteRecord
    BY <1>1, <1>4
  <2> HIDE DEF list, size
  <2> QED
    BY <1>4, <1>5, <2>1
<1>7. ASSUME fresh = {}
      PROVE  Counted(list) = SumFunctionOnSet(map, D)
  <2>1. \A j, k \in 1 .. size : list[j] = list[k] => j = k
    <3>1. ASSUME NEW j \in 1 .. size, NEW k \in 1 .. size, j < k, list[j] = list[k]
          PROVE  FALSE
      <4>1. After(list[j], list[k]) /\ list[j] \in VoteRecord
        BY <1>1, <1>4, <3>1 DEF InOrder
      <4> HIDE DEF list
      <4>2. After(list[j], list[j])
        BY <3>1, <4>1
      <4>3. list[j].name \in Nat /\ list[j].fresh \in BOOLEAN
        BY <4>1 DEF VoteRecord
      <4>4. ~(list[j].name > list[j].name)
        BY <4>3
      <4> QED
        BY <4>2, <4>4, Zenon DEF After
    <3> HIDE DEF list, size
    <3> QED
      BY <1>5, <3>1
  <2>2. list \in Injection(1 .. size, set)
    <3> HIDE DEF list, set, size
    <3> QED
      BY <1>4, <2>1 DEF Injection, IsInjective
  <2>3. Cardinality(1 .. size) = size
    BY <1>5, FS_Interval
  <2>4. list \in Surjection(1 .. size, set)
    <3> HIDE DEF list, set
    <3> QED
      BY <1>3, <2>2, <2>3, FS_Injection
  <2>5. set = {list[k] : k \in 1 .. size}
    <3> HIDE DEF list, set, size
    <3> QED
      BY <1>4, <2>4 DEF Surjection
  <2> DEFINE value == [r \in set |-> r.count]
  <2>6. \A r \in set : value[r] \in Nat
    BY <1>1 DEF VoteRecord
  <2>7. Counted(list) = SumFunctionOnSet(value, set)
    <3>1. DOMAIN list = 1 .. size /\ IsFiniteSet(1 .. size)
      BY <1>4, <1>5, FS_Interval
    <3> HIDE DEF list, size, set, value
    <3>2. /\ list \in [DOMAIN list -> set] /\ set = {list[k] : k \in DOMAIN list}
          /\ \A j, k \in DOMAIN list : list[j] = list[k] => j = k
      BY <1>4, <2>1, <2>5, <3>1
    <3> QED
      BY <1>3, <2>6, <3>1, <3>2, CountedOnce DEF value
  <2>8. SumFunctionOnSet(map, D) = SumFunctionOnSet(value, set)
    <3>1. set = old
      BY <1>7
    <3>2. \A n \in D : map[n] \in Nat
      OBVIOUS
    <3> QED
      BY <1>3, <3>1, <3>2, RecordSum
  <2> QED
    BY <2>7, <2>8
<1> QED
  BY <1>6, <1>7

(* Setting the count of one name changes the sum by the difference.          *)
LEMMA SumUpdate ==
  ASSUME NEW D, IsFiniteSet(D), NEW f, \A x \in D : f[x] \in Nat, NEW a, NEW g,
         \A x \in D \cup {a} : g[x] \in Nat, \A x \in D \ {a} : g[x] = f[x],
         NEW old, old \in Nat, a \in D => old = f[a], a \notin D => old = 0
  PROVE  SumFunctionOnSet(g, D \cup {a}) + old = SumFunctionOnSet(f, D) + g[a]
<1> DEFINE all == D \cup {a}
           rest == D \ {a}
<1>1. IsFiniteSet(all) /\ IsFiniteSet(rest)
  BY FS_AddElement, FS_RemoveElement
<1>2. SumFunctionOnSet(g, all) = g[a] + SumFunctionOnSet(g, rest)
  <2>1. all \ {a} = rest /\ a \in all /\ \A x \in all : g[x] \in Nat
    OBVIOUS
  <2> HIDE DEF all, rest
  <2> QED
    BY <1>1, <2>1, SumRemove
<1>3. /\ SumFunctionOnSet(g, rest) = SumFunctionOnSet(f, rest)
      /\ SumFunctionOnSet(f, rest) \in Nat
  <2>1. \A x \in rest : f[x] \in Nat /\ g[x] = f[x]
    OBVIOUS
  <2> HIDE DEF rest
  <2> QED
    BY <1>1, <2>1, SumSame, SumType
<1>4. SumFunctionOnSet(f, D) = old + SumFunctionOnSet(f, rest)
  <2>1. CASE a \in D
    BY <2>1, SumRemove
  <2>2. CASE a \notin D
    <3>1. rest = D /\ old = 0
      BY <2>2
    <3> QED
      BY <1>3, <3>1
  <2> QED
    BY <2>1, <2>2
<1>5. g[a] \in Nat
  OBVIOUS
<1> HIDE DEF all, rest
<1>6. SumFunctionOnSet(g, all) + old = SumFunctionOnSet(f, D) + g[a]
  BY <1>2, <1>3, <1>4, <1>5
<1> QED
  BY <1>6 DEF all

(* The ballot of a vote leaves its voter and goes to the candidate: the file *)
(* written holds no more than the one read, wherever its list is cut.        *)
LEMMA VoteKeeps ==
  ASSUME NEW f, BallotFile(f), NEW mode, NEW encrypted,
         NEW voter, NEW candidate, {voter, candidate} \subseteq Nat,
         NEW o \in Vote(f, mode, encrypted, voter, candidate), o.stores
  PROVE  /\ BallotFile(o.image)
         /\ mode # "test" /\ (encrypted => Whole(f)) => Held(o.image) <= Held(f)
<1>0. PICK b \in LoadBallot(f, encrypted) :
        o = IF Ballots(b.voters, voter) > 0
            THEN Cast(f, b, candidate,
                      Give(b.voters, voter,
                           IF mode = "test" THEN b.voters[voter] ELSE b.voters[voter] - 1))
            ELSE Failure
  BY Zenon DEF Vote, BallotFile
<1> DEFINE n == b.nominators
           v == b.voters
           left == IF mode = "test" THEN v[voter] ELSE v[voter] - 1
           s == Records(Give(n, candidate, Ballots(n, candidate) + 1), {}, 0)
           t == Records(Give(v, voter, left), {}, 0)
           new == Ballot(f.manager, b.num, s \o t)
<1>1. o = Write(new, "yes") /\ Ballots(v, voter) > 0
  <2>1. CASE Ballots(v, voter) > 0
    BY <1>0, <2>1 DEF Cast
  <2>2. CASE ~(Ballots(v, voter) > 0)
    BY <1>0, <2>2 DEF Failure, Reply
  <2> QED
    BY <2>1, <2>2
<1>2. /\ b.num \in Nat /\ BallotMap(n) /\ BallotMap(v)
      /\ (encrypted => Whole(f))
           => Held(f) = SumFunctionOnSet(n, DOMAIN n) + SumFunctionOnSet(v, DOMAIN v)
  BY LoadBallotType, HeldBound DEF BallotSum
<1>3. /\ DOMAIN n \in SUBSET Nat /\ IsFiniteSet(DOMAIN n) /\ \A x \in DOMAIN n : n[x] \in Nat
      /\ DOMAIN v \in SUBSET Nat /\ IsFiniteSet(DOMAIN v) /\ \A x \in DOMAIN v : v[x] \in Nat
  BY <1>2 DEF BallotMap
<1>4. /\ SumFunctionOnSet(n, DOMAIN n) \in Nat /\ SumFunctionOnSet(v, DOMAIN v) \in Nat
  <2> HIDE DEF n, v
  <2> QED
    BY <1>3, SumType
<1>5. voter \in DOMAIN v /\ Ballots(v, voter) = v[voter] /\ v[voter] > 0 /\ v[voter] \in Nat
      /\ left \in Nat
  BY <1>1, <1>3 DEF Ballots
<1> DEFINE given == Give(n, candidate, Ballots(n, candidate) + 1)
           taken == Give(v, voter, left)
           A == DOMAIN n \cup {candidate}
           B == DOMAIN v \cup {voter}
<1>6. Ballots(n, candidate) \in Nat
  BY <1>3 DEF Ballots
<1>7. /\ IsFiniteSet(A) /\ given \in [A -> Nat]
      /\ SumFunctionOnSet(given, A) = SumFunctionOnSet(n, DOMAIN n) + 1
  <2>1. /\ given \in [A -> Nat] /\ given[candidate] = Ballots(n, candidate) + 1
        /\ \A x \in DOMAIN n \ {candidate} : given[x] = n[x]
    BY <1>3, <1>6 DEF Give
  <2>2. \A x \in DOMAIN n \cup {candidate} : given[x] \in Nat
    BY <2>1
  <2>3. /\ candidate \in DOMAIN n => Ballots(n, candidate) = n[candidate]
        /\ candidate \notin DOMAIN n => Ballots(n, candidate) = 0
    BY DEF Ballots
  <2> HIDE DEF n, given
  <2>4. SumFunctionOnSet(given, A) + Ballots(n, candidate)
          = SumFunctionOnSet(n, DOMAIN n) + given[candidate]
    BY <1>3, <1>6, <2>1, <2>2, <2>3, SumUpdate
  <2>5. SumFunctionOnSet(given, A) \in Nat /\ IsFiniteSet(A)
    BY <1>3, <2>2, SumType, FS_AddElement
  <2> QED
    BY <1>4, <1>6, <2>1, <2>4, <2>5
<1>8. /\ IsFiniteSet(B) /\ taken \in [B -> Nat] /\ SumFunctionOnSet(taken, B) \in Nat
      /\ SumFunctionOnSet(v, DOMAIN v) = SumFunctionOnSet(taken, B) + v[voter] - left
  <2>1. /\ taken \in [B -> Nat] /\ taken[voter] = left
        /\ \A x \in DOMAIN v \ {voter} : taken[x] = v[x]
    BY <1>3, <1>5 DEF Give
  <2>2. \A x \in DOMAIN v \cup {voter} : taken[x] \in Nat
    BY <2>1
  <2> HIDE DEF v, taken, left
  <2>3. SumFunctionOnSet(taken, B) + v[voter] = SumFunctionOnSet(v, DOMAIN v) + taken[voter]
    BY <1>3, <1>5, <2>1, <2>2, SumUpdate
  <2>4. SumFunctionOnSet(taken, B) \in Nat /\ IsFiniteSet(B)
    BY <1>3, <2>2, SumType, FS_AddElement
  <2> QED
    BY <1>4, <1>5, <2>1, <2>3, <2>4
<1>9. IsFiniteSet({}) /\ {} \in SUBSET Nat /\ A \in SUBSET Nat /\ B \in SUBSET Nat
  BY <1>3, FS_EmptySet
<1> HIDE DEF given, taken, A, B
<1>10. s \in Seq(VoteRecord) /\ Counted(s) = SumFunctionOnSet(given, A)
  <2>1. s = Records(given, {}, 0)
    BY DEF given
  <2> HIDE DEF s
  <2> QED
    BY <1>7, <1>9, <2>1, RecordsOfMap
<1>11. t \in Seq(VoteRecord) /\ Counted(t) = SumFunctionOnSet(taken, B)
  <2>1. t = Records(taken, {}, 0)
    BY DEF taken
  <2> HIDE DEF t
  <2> QED
    BY <1>8, <1>9, <2>1, RecordsOfMap
<1> HIDE DEF s, t
<1>12. s \o t \in Seq(VoteRecord) /\ Counted(s \o t) = Counted(s) + Counted(t)
  BY <1>10, <1>11, CountedConcat
<1>13. BallotFile(new)
  BY <1>2, <1>12 DEF BallotFile, Ballot
<1>14. ASSUME mode # "test", encrypted => Whole(f)
       PROVE  Held(new) <= Held(f)
  <2>1. Held(new) \in Nat /\ Held(new) <= Counted(s \o t)
    <3>1. new.records = s \o t
      BY DEF Ballot
    <3> HIDE DEF new
    <3> QED
      BY <1>13, <3>1, HeldBound
  <2>2. left = v[voter] - 1
    BY <1>14
  <2>3. Counted(s) \in Nat /\ Counted(t) \in Nat
    BY <1>10, <1>11, CountsType
  <2>4. SumFunctionOnSet(v, DOMAIN v) = SumFunctionOnSet(taken, B) + 1
    <3> HIDE DEF v, left
    <3> QED
      BY <1>5, <1>8, <2>2
  <2>5. Held(f) = SumFunctionOnSet(n, DOMAIN n) + SumFunctionOnSet(v, DOMAIN v)
    BY <1>2, <1>14
  <2> HIDE DEF n, v, new
  <2> QED
    BY <1>4, <1>7, <1>10, <1>11, <1>12, <2>1, <2>3, <2>4, <2>5
<1> QED
  BY <1>1, <1>13, <1>14 DEF Write

(* nominate writes names and counts behind the ones it kept.                 *)
LEMMA NamesOf ==
  ASSUME NEW list \in Seq(Nat)
  PROVE  ToSet(list) \in SUBSET Nat /\ IsFiniteSet(ToSet(list))
<1>1. DOMAIN list = 1 .. Len(list) /\ Len(list) \in Nat
  OBVIOUS
<1>2. list \in Surjection(DOMAIN list, ToSet(list))
  BY <1>1 DEF Surjection, ToSet
<1>3. IsFiniteSet(DOMAIN list)
  BY <1>1, FS_Interval
<1>4. \A k \in 1 .. Len(list) : list[k] \in Nat
  OBVIOUS
<1>5. ToSet(list) \in SUBSET Nat
  BY <1>1, <1>4 DEF ToSet
<1> QED
  BY <1>2, <1>3, <1>5, FS_Surjection

LEMMA NominateKeeps ==
  ASSUME NEW f, f.is = "torn" \/ BallotFile(f), NEW mode, NEW encrypted, NEW caller,
         NEW candidates \in Seq(Nat), NEW voters \in Seq(Nat) \ {<< >>},
         NEW o \in Nominate(f, mode, encrypted, caller, candidates, voters), o.stores
  PROVE  BallotFile(o.image)
<1>1. f.is # "torn" /\ BallotFile(f)
  BY DEF Nominate, Failure, Reply
<1> DEFINE old(map) == IF mode = "test" THEN << >> ELSE map
           last == voters[Len(voters)]
           voterRecords(map, exact, count) ==
             IF exact THEN Records(Give(map, last, 1), ToSet(Front(voters)), count)
             ELSE Records(map, ToSet(voters), count)
<1>2. PICK b \in LoadBallot(f, encrypted), exact \in BOOLEAN,
           count \in IF encrypted THEN {0, 1} ELSE {1} :
        o = Write(Ballot(f.manager, Len(candidates),
                         Records(old(b.nominators), ToSet(candidates), count)
                           \o voterRecords(old(b.voters), exact, count)), "yes")
  <2>1. ~(f.is = "torn" \/ caller # f.manager \/ ~KnowsManager(f, encrypted))
    BY DEF Nominate, Failure, Reply
  <2> QED
    BY <2>1 DEF Nominate
<1> DEFINE n == old(b.nominators)
           v == old(b.voters)
           given == Give(v, last, 1)
           front == Front(voters)
           part == IF exact THEN Records(given, ToSet(front), count)
                            ELSE Records(v, ToSet(voters), count)
           first == Records(n, ToSet(candidates), count)
<1>3. \A map \in {n, v} :
        DOMAIN map \in SUBSET Nat /\ IsFiniteSet(DOMAIN map) /\ map \in [DOMAIN map -> Nat]
  <2>1. /\ DOMAIN << >> = {} /\ << >> \in [{} -> Nat] /\ IsFiniteSet({})
    BY FS_EmptySet
  <2>2. \A map \in {b.nominators, b.voters} :
          DOMAIN map \in SUBSET Nat /\ IsFiniteSet(DOMAIN map) /\ map \in [DOMAIN map -> Nat]
    BY <1>1, LoadBallotType DEF BallotMap
  <2> QED
    BY <2>1, <2>2
<1>4. /\ ToSet(candidates) \in SUBSET Nat /\ IsFiniteSet(ToSet(candidates))
      /\ ToSet(voters) \in SUBSET Nat /\ IsFiniteSet(ToSet(voters))
      /\ ToSet(front) \in SUBSET Nat /\ IsFiniteSet(ToSet(front)) /\ last \in Nat
  <2>1. Len(voters) \in Nat \ {0} /\ \A k \in 1 .. Len(voters) : voters[k] \in Nat
    OBVIOUS
  <2>2. front \in Seq(Nat)
    <3>1. \A k \in 1 .. Len(voters) - 1 : voters[k] \in Nat
      BY <2>1
    <3> QED
      BY <2>1, <3>1, SubSeqProperties DEF Front
  <2>3. last \in Nat
    BY <2>1
  <2> QED
    BY <2>2, <2>3, NamesOf
<1>5. count \in Nat /\ first \in Seq(VoteRecord)
  <2> HIDE DEF n
  <2>1. DOMAIN n \in SUBSET Nat /\ IsFiniteSet(DOMAIN n) /\ n \in [DOMAIN n -> Nat]
    BY <1>3
  <2>2. count \in Nat
    OBVIOUS
  <2>3. Records(n, ToSet(candidates), count) \in Seq(VoteRecord)
    BY <1>4, <2>1, <2>2, RecordsOfMap
  <2> QED
    BY <2>2, <2>3
<1>6. part \in Seq(VoteRecord)
  <2> HIDE DEF v, last, front
  <2>1. DOMAIN v \in SUBSET Nat /\ IsFiniteSet(DOMAIN v) /\ v \in [DOMAIN v -> Nat]
    BY <1>3
  <2>2. Records(v, ToSet(voters), count) \in Seq(VoteRecord)
    BY <1>4, <1>5, <2>1, RecordsOfMap
  <2>3. /\ DOMAIN v \cup {last} \in SUBSET Nat /\ IsFiniteSet(DOMAIN v \cup {last})
        /\ given \in [DOMAIN v \cup {last} -> Nat]
    BY <1>4, <2>1, FS_AddElement DEF Give
  <2> HIDE DEF given
  <2>4. Records(given, ToSet(front), count) \in Seq(VoteRecord)
    BY <1>4, <1>5, <2>3, RecordsOfMap
  <2> QED
    BY <2>2, <2>4
<1>7. o = Write(Ballot(f.manager, Len(candidates), first \o part), "yes")
  BY <1>2
<1> HIDE DEF first, part
<1>8. first \o part \in Seq(VoteRecord)
  BY <1>5, <1>6
<1>9. Len(candidates) \in Nat
  OBVIOUS
<1> QED
  BY <1>7, <1>8, <1>9 DEF BallotFile, Ballot, Write

-------------------------------------------------------------------------------
(* What each program keeps in its file: Token the accounts it began with     *)
(* and, if it can, all their coins, Auction a number, Vote a ballot, the     *)
(* others nothing.                                                           *)
Coins(f) == SumFunctionOnSet(f, DOMAIN f)

TokenFile(p, f) ==
  /\ f.is = "token" /\ f.balance \in [DOMAIN scenario.genesis.balance -> Nat]
  /\ KeepsCoins(p) => Coins(f.balance) = Coins(scenario.genesis.balance)

AuctionFile(f) == f.is = "missing" \/ (f.is = "auction" /\ f.bid \in Nat)

FileOK(i, f) ==
  f.is # "torn" =>
    /\ Prog(i).contract = "Token" => TokenFile(Prog(i), f)
    /\ Prog(i).contract = "Auction" => AuctionFile(f)
    /\ Prog(i).contract = "Vote" => BallotFile(f)
    /\ Prog(i).contract \notin {"Token", "Auction", "Vote"} => f.is = "missing"

FilesInv == \A i \in Services : FileOK(i, Latest(i))

LEMMA FirstFiles ==
  ASSUME scenario \in Scenarios
  PROVE  /\ IsFiniteSet(DOMAIN scenario.genesis.balance)
         /\ \A p : TokenFile(p, scenario.genesis)
         /\ Coins(scenario.genesis.balance) < UintRange
         /\ AuctionFile(scenario.item) /\ BallotFile(FirstBallot(scenario.creator))
<1>1. FilesSuit(scenario)
  BY ScenarioAssumption
<1>2. BallotFile(FirstBallot(scenario.creator))
  BY DEF BallotFile, FirstBallot, Ballot
<1> QED
  BY <1>1, <1>2 DEF FilesSuit, TokenFile, AuctionFile, Coins, SumFunction

(* transfer.                                                                 *)
LEMMA TransferKeeps ==
  ASSUME scenario \in Scenarios, NEW p, NEW f, f.is = "torn" \/ TokenFile(p, f),
         NEW from, NEW to, NEW value \in Nat,
         NEW o \in Transfer(f, p.encrypted, from, to, value), o.stores
  PROVE  TokenFile(p, o.image)
<1> DEFINE S == DOMAIN scenario.genesis.balance
<1>1. PICK balance \in LoadBalances(f, p.encrypted) :
        o = IF {from, to} \subseteq DOMAIN balance /\ value <= balance[from]
            THEN Write(Move(balance, from, to, value), "yes") ELSE Failure
  BY DEF Transfer
<1> DEFINE moved == Move(balance, from, to, value)
<1>2. /\ from \in DOMAIN balance /\ to \in DOMAIN balance /\ value <= balance[from]
      /\ o = Write(moved, "yes")
  BY <1>1 DEF Failure, Reply
<1>3. f.is = "token" /\ TokenFile(p, f) /\ balance \in ReadBack(f.balance, p.encrypted)
  BY <1>1, <1>2 DEF LoadBalances
<1>4. f.balance \in [S -> Nat] /\ DOMAIN f.balance = S /\ IsFiniteSet(S)
  BY <1>3, FirstFiles DEF TokenFile
<1>5. /\ DOMAIN balance = S /\ balance \in [S -> Nat]
      /\ (p.encrypted => \A n \in S : Fits(n, f.balance[n])) => balance = f.balance
  <2> HIDE DEF S
  <2> QED
    BY <1>3, <1>4, ReadBackType
<1>6. moved.is = "token" /\ moved.balance \in [S -> Nat] /\ DOMAIN moved.balance = S
  <2>1. moved.balance \in [S -> Nat]
    <3> HIDE DEF S, moved
    <3> QED
      BY <1>2, <1>5, MoveType DEF moved
  <2> QED
    BY <2>1 DEF Move, Balances
<1>7. ASSUME KeepsCoins(p)
      PROVE  Coins(moved.balance) = Coins(scenario.genesis.balance)
  <2>1. SumFunctionOnSet(f.balance, S) = Coins(scenario.genesis.balance)
    BY <1>3, <1>4, <1>7 DEF TokenFile, Coins
  <2>2. Coins(scenario.genesis.balance) < UintRange
    BY FirstFiles
  <2>3. balance = f.balance
    <3>1. Held(scenario.genesis) = Coins(scenario.genesis.balance)
      <4>1. scenario.genesis.is = "token"
        BY FirstFiles DEF TokenFile
      <4> QED
        BY <4>1 DEF Held, Coins, SumFunction
    <3>2. ASSUME NEW n \in S
          PROVE  f.balance[n] <= Coins(scenario.genesis.balance)
                   /\ f.balance[n] \in Nat /\ Coins(scenario.genesis.balance) \in Nat
      <4> HIDE DEF S
      <4>1. \A x \in S : f.balance[x] \in Nat
        BY <1>4
      <4>2. SumFunctionOnSet(f.balance, S) = f.balance[n] + SumFunctionOnSet(f.balance, S \ {n})
        BY <1>4, <4>1, SumRemove
      <4>3. SumFunctionOnSet(f.balance, S \ {n}) \in Nat
        BY <1>4, <4>1, FS_RemoveElement, SumType
      <4> QED
        BY <2>1, <4>1, <4>2, <4>3
    <3>3. p.encrypted => \A n \in S : Fits(n, Coins(scenario.genesis.balance))
      BY <1>7, <3>1 DEF KeepsCoins
    <3>4. p.encrypted => \A n \in S : Fits(n, f.balance[n])
      BY <3>2, <3>3, CutAssumption DEF Fits
    <3> QED
      BY <1>5, <3>4
  <2>4. SumFunctionOnSet(moved.balance, S) = SumFunctionOnSet(f.balance, S)
    <3> HIDE DEF S, moved
    <3> QED
      BY <1>2, <1>4, <1>5, <2>1, <2>2, <2>3, MoveKeeps DEF moved
  <2> HIDE DEF moved
  <2> QED
    BY <1>6, <2>1, <2>4 DEF Coins
<1> HIDE DEF moved
<1>8. TokenFile(p, moved)
  BY <1>6, <1>7 DEF TokenFile
<1> QED
  BY <1>2, <1>8 DEF Write

(* bid: where bids are compared, the one that is taken is higher.            *)
LEMMA BidKeeps ==
  ASSUME NEW f, NEW encrypted, NEW checked, NEW bidder, NEW price \in Nat,
         NEW o \in Bid(f, encrypted, checked, bidder, price), o.stores
  PROVE  /\ o.image.is = "auction" /\ o.image.bid = price
         /\ encrypted /\ checked /\ f.is = "auction" /\ f.bid \notin CutNumbers => f.bid < price
<1>1. PICK highest \in LoadBid(f, encrypted) :
        o = IF checked => highest < price THEN Write(Item(bidder, price), "yes") ELSE Failure
  BY DEF Bid
<1>2. (checked => highest < price) /\ o = Write(Item(bidder, price), "yes")
  BY <1>1 DEF Failure, Reply
<1>3. encrypted /\ f.is = "auction" /\ f.bid \notin CutNumbers => highest = f.bid
  BY <1>1 DEF LoadBid, ReadAs
<1> QED
  BY <1>2, <1>3 DEF Write, Item

(* A call of a program leaves its file of the program's kind.                *)
LEMMA CalculatesKeeps ==
  ASSUME Types, NEW i \in Services, FileOK(i, disk[i]), NEW new, Calculates(i, new)
  PROVE  FileOK(i, new)
<1> PICK r \in Calls(scenario) :
      /\ ~scenario.shell /\ r.op # "empty"
      /\ \E o \in Outcomes(Prog(i), disk[i], tail[i], r) : o.stores /\ new = o.image
  BY DEF Calculates
<1>1. PICK o \in Outcomes(Prog(i), disk[i], tail[i], r) :
        ~scenario.shell /\ r.op # "empty" /\ o.stores /\ new = o.image
  OBVIOUS
<1>2. scenario \in Scenarios /\ tail[i] \in Seq(0 .. 9)
  BY DEF Types, ServiceTypes
<1>3. CASE Prog(i).contract = "Token"
  <2>1. r.op \in {"createAc", "getBalance", "transfer", "other"}
    <3>1. r.op \in Operations["Token"] \cup {"other", "empty"}
      BY <1>1, <1>2, <1>3, Requests
    <3> QED
      BY <1>1, <3>1 DEF Operations
  <2>2. disk[i].is # "missing" /\ r.op # "other"
    BY <1>1, <1>3, <2>1 DEF Outcomes, Exit, Reply
  <2>3. r.op = "transfer"
    BY <1>1, <1>3, <2>1, <2>2 DEF Outcomes, CreateAc, GetBalance, Failure, Reply
  <2>4. o \in Transfer(disk[i], Prog(i).encrypted, r.from, r.to, r.value)
    BY <1>3, <2>2, <2>3 DEF Outcomes
  <2>5. r.value \in Nat
    BY <1>2, <2>3, Requests
  <2>6. TokenFile(Prog(i), new)
    BY <1>1, <1>2, <1>3, <2>4, <2>5, TransferKeeps DEF FileOK
  <2> QED
    BY <1>3, <2>6 DEF FileOK
<1>4. CASE Prog(i).contract = "Auction"
  <2>1. r.op \in {"addItem", "bid", "other"}
    BY <1>1, <1>2, <1>4, Requests DEF Operations
  <2>2. CASE r.op = "addItem"
    BY <1>1, <1>4, <2>2 DEF Outcomes, AddItem, Write, Item, FileOK, AuctionFile
  <2>3. CASE r.op # "addItem"
    <3>1. r.op = "bid" /\ disk[i].is # "missing"
      BY <1>1, <1>4, <2>1, <2>3 DEF Outcomes, Exit, Reply
    <3>2. o \in Bid(disk[i], Prog(i).encrypted, Prog(i).encrypted = (scenario.mode # "test"), r.who,
                    Price(Overlay(r.price, tail[i])))
      BY <1>4, <3>1 DEF Outcomes
    <3>3. Price(Overlay(r.price, tail[i])) \in Nat
      BY <1>2, <3>1, Requests, OverlayType, PriceType
    <3>4. new.is = "auction" /\ new.bid \in Nat
      BY <1>1, <3>2, <3>3, BidKeeps
    <3> QED
      BY <1>4, <3>4 DEF FileOK, AuctionFile
  <2> QED
    BY <2>2, <2>3
<1>5. CASE Prog(i).contract = "Vote"
  <2>1. r.op \in {"nominate", "vote", "other"}
    BY <1>1, <1>2, <1>5, Requests DEF Operations
  <2>2. disk[i].is # "missing" /\ r.op # "other"
    BY <1>1, <1>5, <2>1 DEF Outcomes, Exit, Reply
  <2>3. disk[i].is = "torn" \/ BallotFile(disk[i])
    BY <1>5 DEF FileOK
  <2>4. CASE r.op = "nominate"
    <3>1. o \in Nominate(disk[i], scenario.mode, Prog(i).encrypted, r.caller, r.candidates, r.voters)
      BY <1>5, <2>2, <2>4 DEF Outcomes
    <3>2. r.candidates \in Seq(Nat) /\ r.voters \in Seq(Nat) \ {<< >>}
      BY <1>2, <2>4, Requests
    <3>3. BallotFile(new)
      BY <1>1, <2>3, <3>1, <3>2, NominateKeeps
    <3> QED
      BY <1>5, <3>3 DEF FileOK
  <2>5. CASE r.op = "vote"
    <3>1. o \in Vote(disk[i], scenario.mode, Prog(i).encrypted, r.voter, r.candidate)
      BY <1>5, <2>2, <2>5 DEF Outcomes
    <3>2. {r.voter, r.candidate} \subseteq Nat
      BY <1>2, <2>5, Requests
    <3>3. disk[i].is # "torn"
      BY <1>1, <3>1 DEF Vote, Failure, Reply
    <3>4. BallotFile(new)
      BY <1>1, <2>3, <3>1, <3>2, <3>3, VoteKeeps
    <3> QED
      BY <1>5, <3>4 DEF FileOK
  <2> QED
    BY <2>1, <2>2, <2>4, <2>5
<1>6. CASE Prog(i).contract \notin {"Token", "Auction", "Vote"}
  <2>1. Prog(i).contract \in {"Hello", "Complex"}
    BY <1>2, <1>6, WellFormed DEF ProgramType
  <2> QED
    BY <1>1, <2>1 DEF Outcomes, Reply
<1> QED
  BY <1>3, <1>4, <1>5, <1>6

LEMMA InitFiles == Init => FilesInv
<1> SUFFICES ASSUME Init PROVE FilesInv
  OBVIOUS
<1>1. scenario \in Scenarios /\ \A i \in Services : Latest(i) = FirstFile(Prog(i))
  BY DEF Init, Latest
<1> SUFFICES ASSUME NEW i \in Services PROVE FileOK(i, FirstFile(Prog(i)))
  BY <1>1 DEF FilesInv
<1>2. CASE Prog(i).contract = "Token"
  <2>1. FirstFile(Prog(i)) = scenario.genesis
    BY <1>2 DEF FirstFile, Initialises
  <2> QED
    BY <1>1, <1>2, <2>1, FirstFiles DEF FileOK
<1>3. CASE Prog(i).contract = "Auction"
  <2>1. FirstFile(Prog(i)) = scenario.item
    BY <1>3 DEF FirstFile, Initialises
  <2> QED
    BY <1>1, <1>3, <2>1, FirstFiles DEF FileOK
<1>4. CASE Prog(i).contract = "Vote"
  <2>1. Initialises(Prog(i), Missing)
    BY <1>4 DEF Initialises, Missing
  <2>2. FirstFile(Prog(i)) = FirstBallot(scenario.creator)
    BY <1>4, <2>1 DEF FirstFile
  <2> QED
    BY <1>1, <1>4, <2>2, FirstFiles DEF FileOK
<1>5. CASE Prog(i).contract \notin {"Token", "Auction", "Vote"}
  <2>1. FirstFile(Prog(i)) = Missing
    BY <1>5 DEF FirstFile, Initialises
  <2> QED
    BY <1>5, <2>1 DEF FileOK, Missing
<1> QED
  BY <1>2, <1>3, <1>4, <1>5

LEMMA FilesStep ==
  ASSUME Types, FilesInv, [Next]_vars
  PROVE  FilesInv'
<1>1. scenario' = scenario
  <2>1. CASE Services = {}
    BY <2>1, LatestStep DEF Next, vars, StartRun, Send, Finish, Receive
  <2>2. CASE Services # {}
    BY <2>2, LatestStep
  <2> QED
    BY <2>1, <2>2
<1>2. Services' = Services /\ \A i \in Services : Prog(i)' = Prog(i)
  BY <1>1 DEF Services, Prog
<1> SUFFICES ASSUME NEW i \in Services
             PROVE  FileOK(i, Latest(i)')
  BY <1>1, <1>2 DEF FilesInv, FileOK, TokenFile, KeepsCoins
<1>3. Moved(i)
  BY LatestStep
<1>4. CASE Latest(i)' \in {Latest(i), Torn}
  BY <1>4 DEF FilesInv, FileOK, Torn
<1>5. CASE Prog(i).contract = "Vote" /\ Latest(i)' = FirstBallot(scenario.creator)
  BY <1>5, FirstFiles DEF FileOK, Types
<1>6. CASE Calculates(i, Latest(i)')
  <2>1. Latest(i) = disk[i]
    BY <1>6 DEF Calculates, Latest
  <2> QED
    BY <1>6, <2>1, CalculatesKeeps DEF FilesInv
<1> QED
  BY <1>3, <1>4, <1>5, <1>6 DEF Moved

LEMMA FilesAlways == Spec => []FilesInv
<1>1. Types /\ FilesInv /\ [Next]_vars => FilesInv'
  BY FilesStep
<1> QED
  BY <1>1, InitFiles, TypesCorrect, PTL DEF Spec

(* However transfers, crashes and restarts interleave, a Token program that  *)
(* has not torn its file has or is writing as many coins as create_account   *)
(* made (transfer, updateState) - in the encrypting programs if no name is   *)
(* cut and all coins together can be read back from one account (loadState). *)
THEOREM TokensConservedCorrect == Spec => []TokensConserved
<1>1. Types /\ FilesInv => TokensConserved
  <2> SUFFICES ASSUME Types, FilesInv, NEW i \in Services, Latest(i).is = "token",
                      KeepsCoins(Prog(i))
               PROVE  Held(Latest(i)) = Held(scenario.genesis)
    BY DEF TokensConserved
  <2> DEFINE f == Latest(i)
  <2>1. TokenFile(Prog(i), f)
    <3>1. FileOK(i, f)
      BY DEF FilesInv
    <3> HIDE DEF f
    <3> QED
      BY <3>1 DEF f, FileOK, AuctionFile, BallotFile
  <2>2. scenario.genesis.is = "token"
    BY FirstFiles DEF Types, TokenFile
  <2> QED
    BY <2>1, <2>2 DEF TokenFile, Held, Coins, SumFunction
<1> QED
  BY <1>1, FilesAlways, TypesCorrect, PTL

(* What a step can do to the file of a program: leave it, tear it, begin a   *)
(* new ballot, or what a call makes of the file as it is.                    *)
LEMMA StepOfFile ==
  ASSUME Types, FilesInv, [Next]_vars, NEW i \in Services,
         Latest(i)' # Latest(i), Latest(i)'.is # "torn",
         ~(Prog(i).contract = "Vote" /\ Latest(i)' = FirstBallot(scenario.creator))
  PROVE  /\ inbox[i] # << >> /\ ~scenario.shell
         /\ Latest(i) = disk[i] /\ FileOK(i, disk[i]) /\ FileOK(i, Latest(i)')
         /\ \E r \in Calls(scenario) :
              /\ r = Head(inbox[i]).request /\ r.op # "empty"
              /\ \E o \in Outcomes(Prog(i), disk[i], tail[i], r) :
                   o.stores /\ Latest(i)' = o.image
<1>1. Moved(i)
  BY LatestStep
<1>2. Latest(i)' # Torn
  BY DEF Torn
<1>3. Calculates(i, Latest(i)')
  BY <1>1, <1>2 DEF Moved
<1>4. Latest(i) = disk[i]
  BY <1>3 DEF Calculates, Latest
<1>5. FileOK(i, disk[i])
  BY <1>4 DEF FilesInv
<1>6. FileOK(i, Latest(i)')
  BY <1>3, <1>5, CalculatesKeeps
<1> QED
  BY <1>3, <1>4, <1>5, <1>6 DEF Calculates

(* Where bids are compared, only addItem lowers the price an auction stands  *)
(* at, while it is one that is read back whole: bid computes on the file     *)
(* that is replaced, and takes a higher price only (bid, loadState,          *)
(* updateState).                                                             *)
THEOREM HighestBidOnlyRisesCorrect == Spec => HighestBidOnlyRises
<1>1. ASSUME Types, FilesInv, [Next]_vars, NEW i \in Services,
             Prog(i).encrypted /\ scenario.mode # "test",
             Latest(i).is = "auction", Latest(i)'.is = "auction",
             Latest(i).bid \notin CutNumbers, Latest(i)'.bid < Latest(i).bid
      PROVE  inbox[i] # << >> /\ Head(inbox[i]).request.op = "addItem"
  <2> DEFINE before == Latest(i)
             after == Latest(i)'
  <2>1. FileOK(i, before) /\ before.is = "auction"
    BY <1>1 DEF FilesInv
  <2>2. Prog(i).contract = "Auction" /\ before.bid \in Nat
    <3>1. Prog(i).contract \in {"Token", "Auction", "Vote"}
      <4> HIDE DEF before
      <4> QED
        BY <2>1 DEF FileOK
    <3> HIDE DEF before
    <3> QED
      BY <2>1, <3>1 DEF FileOK, TokenFile, AuctionFile, BallotFile
  <2>3. after # before /\ after.is # "torn"
    BY <1>1, <2>2
  <2>4. /\ inbox[i] # << >> /\ ~scenario.shell /\ before = disk[i]
        /\ \E r \in Calls(scenario) :
             /\ r = Head(inbox[i]).request /\ r.op # "empty"
             /\ \E o \in Outcomes(Prog(i), disk[i], tail[i], r) : o.stores /\ after = o.image
    BY <1>1, <2>2, <2>3, StepOfFile
  <2> PICK r \in Calls(scenario) :
        /\ r = Head(inbox[i]).request /\ r.op # "empty"
        /\ \E o \in Outcomes(Prog(i), disk[i], tail[i], r) : o.stores /\ after = o.image
    BY <2>4
  <2> PICK o \in Outcomes(Prog(i), disk[i], tail[i], r) : o.stores /\ after = o.image
    OBVIOUS
  <2>5. scenario \in Scenarios /\ tail[i] \in Seq(0 .. 9)
    BY <1>1 DEF Types, ServiceTypes
  <2> SUFFICES ASSUME r.op # "addItem" PROVE FALSE
    BY <2>4
  <2>6. r.op \in {"bid", "other", "empty"}
    BY <2>2, <2>4, <2>5, Requests DEF Operations
  <2>7. disk[i].is = "auction" /\ disk[i].bid = before.bid
    BY <2>1, <2>4
  <2>8. r.op = "bid"
    <3>1. ~Reply("none").stores
      BY DEF Reply
    <3>2. r.op # "other"
      BY <2>2, <3>1 DEF Outcomes
    <3> QED
      BY <2>6, <3>2
  <2>9. o \in Bid(disk[i], Prog(i).encrypted, Prog(i).encrypted = (scenario.mode # "test"), r.who,
                  Price(Overlay(r.price, tail[i])))
    BY <2>2, <2>7, <2>8 DEF Outcomes
  <2>10. Price(Overlay(r.price, tail[i])) \in Nat
    BY <2>5, <2>8, Requests, OverlayType, PriceType
  <2>11. Prog(i).encrypted = (scenario.mode # "test")
    BY <1>1, <2>5, WellFormed DEF ProgramType
  <2>12. after.bid = Price(Overlay(r.price, tail[i])) /\ before.bid < after.bid
    <3> DEFINE price == Price(Overlay(r.price, tail[i]))
               checked == Prog(i).encrypted = (scenario.mode # "test")
    <3>1. checked /\ Prog(i).encrypted
      BY <1>1, <2>11
    <3>2. price \in Nat /\ o \in Bid(disk[i], Prog(i).encrypted, checked, r.who, price)
      BY <2>9, <2>10
    <3> HIDE DEF price, checked
    <3>3. /\ o.image.bid = price
          /\ Prog(i).encrypted /\ checked /\ disk[i].is = "auction"
               /\ disk[i].bid \notin CutNumbers => disk[i].bid < price
      BY <3>2, BidKeeps
    <3>4. disk[i].bid < price
      BY <1>1, <2>7, <3>1, <3>3
    <3> QED
      BY <2>7, <3>3, <3>4 DEF price
  <2> QED
    BY <1>1, <2>2, <2>10, <2>12
<1>2. Types /\ FilesInv /\ [Next]_vars
        => [\A i \in Services :
              Prog(i).encrypted /\ scenario.mode # "test"
                /\ Latest(i).is = "auction" /\ Latest(i)'.is = "auction"
                /\ Latest(i).bid \notin CutNumbers /\ Latest(i)'.bid < Latest(i).bid
                => inbox[i] # << >> /\ Head(inbox[i]).request.op = "addItem"]_vars
  BY <1>1
<1> QED
  BY <1>2, FilesAlways, TypesCorrect, PTL DEF Spec, HighestBidOnlyRises

(* Outside test mode only nominate brings ballots into the world: a vote     *)
(* moves one, a torn file and a new ballot hold none, and the list that is   *)
(* read back, cut by num and with the later of two records of a name, holds  *)
(* no more than the one written (vote, updateState, loadState) - in the      *)
(* encrypting program if its numbers are read back whole.                    *)
THEOREM BallotsNeverGrowCorrect == Spec => BallotsNeverGrow
<1>1. ASSUME Types, FilesInv, [Next]_vars, NEW i \in Services,
             Prog(i).contract = "Vote", scenario.mode # "test",
             Prog(i).encrypted /\ Latest(i).is = "vote" => Whole(Latest(i)),
             Held(Latest(i)') > Held(Latest(i))
      PROVE  inbox[i] # << >> /\ Head(inbox[i]).request.op = "nominate"
  <2> DEFINE before == Latest(i)
             after == Latest(i)'
  <2>1. Held(before) \in Nat
    <3>1. before.is = "torn" \/ BallotFile(before)
      <4>1. FileOK(i, before)
        BY <1>1 DEF FilesInv
      <4> HIDE DEF before
      <4> QED
        BY <1>1, <4>1 DEF FileOK
    <3> HIDE DEF before
    <3>2. CASE before.is = "torn"
      BY <3>2 DEF Held
    <3> QED
      BY <3>1, <3>2, HeldBound
  <2>2. after # before
    BY <1>1, <2>1
  <2>3. after.is # "torn"
    <3> HIDE DEF before, after
    <3>1. CASE after.is = "torn"
      <4>1. Held(after) = 0
        BY <3>1 DEF Held
      <4> QED
        BY <1>1, <2>1, <4>1 DEF before, after
    <3> QED
      BY <3>1
  <2>4. after # FirstBallot(scenario.creator)
    <3> SUFFICES ASSUME after = FirstBallot(scenario.creator) PROVE FALSE
      OBVIOUS
    <3> DEFINE ballot == FirstBallot(scenario.creator)
    <3>1. BallotFile(ballot) /\ ballot.records = << >>
      BY DEF BallotFile, FirstBallot, Ballot
    <3>2. Counted(<< >>) = 0
      <4>1. DOMAIN << >> = {}
        OBVIOUS
      <4> QED
        BY <4>1, SumEmpty DEF Counted
    <3>3. Held(ballot) \in Nat /\ Held(ballot) <= 0
      <4> HIDE DEF ballot
      <4>1. Held(ballot) \in Nat /\ Held(ballot) <= Counted(ballot.records)
        BY <3>1, HeldBound
      <4> QED
        BY <3>1, <3>2, <4>1
    <3> QED
      BY <1>1, <2>1, <3>3
  <2>5. /\ inbox[i] # << >> /\ ~scenario.shell /\ before = disk[i] /\ FileOK(i, disk[i])
        /\ \E r \in Calls(scenario) :
             /\ r = Head(inbox[i]).request /\ r.op # "empty"
             /\ \E o \in Outcomes(Prog(i), disk[i], tail[i], r) : o.stores /\ after = o.image
    BY <1>1, <2>2, <2>3, <2>4, StepOfFile
  <2> PICK r \in Calls(scenario) :
        /\ r = Head(inbox[i]).request /\ r.op # "empty"
        /\ \E o \in Outcomes(Prog(i), disk[i], tail[i], r) : o.stores /\ after = o.image
    BY <2>5
  <2> PICK o \in Outcomes(Prog(i), disk[i], tail[i], r) : o.stores /\ after = o.image
    OBVIOUS
  <2> SUFFICES ASSUME r.op # "nominate" PROVE FALSE
    BY <2>5
  <2>6. scenario \in Scenarios
    BY <1>1 DEF Types
  <2>7. r.op = "vote" /\ disk[i].is # "missing"
    <3>1. r.op \in Operations["Vote"] \cup {"other", "empty"}
      BY <1>1, <2>5, <2>6, Requests
    <3>2. r.op \in {"vote", "other"}
      BY <2>5, <3>1 DEF Operations
    <3>3. ~Exit.stores /\ ~Reply("none").stores
      BY DEF Exit, Reply
    <3>4. r.op # "other"
      BY <1>1, <3>3 DEF Outcomes
    <3> QED
      BY <1>1, <3>2, <3>3, <3>4 DEF Outcomes
  <2>8. o \in Vote(disk[i], scenario.mode, Prog(i).encrypted, r.voter, r.candidate)
    BY <1>1, <2>7 DEF Outcomes
  <2>9. BallotFile(disk[i])
    <3>1. disk[i].is # "torn"
      BY <2>8 DEF Vote, Failure, Reply
    <3> QED
      BY <1>1, <2>5, <3>1 DEF FileOK
  <2>10. {r.voter, r.candidate} \subseteq Nat
    BY <2>6, <2>7, Requests
  <2>11. Held(o.image) <= Held(disk[i])
    <3>1. Prog(i).encrypted => Whole(disk[i])
      BY <1>1, <2>5, <2>9 DEF BallotFile
    <3> QED
      BY <1>1, <2>8, <2>9, <2>10, <3>1, VoteKeeps
  <2>12. Held(o.image) \in Nat
    <3>1. BallotFile(o.image)
      BY <2>8, <2>9, <2>10, VoteKeeps
    <3> QED
      BY <3>1, HeldBound
  <2>13. Held(after) = Held(o.image) /\ Held(before) = Held(disk[i])
    BY <2>5
  <2> QED
    BY <1>1, <2>1, <2>11, <2>12, <2>13
<1>2. Types /\ FilesInv /\ [Next]_vars
        => [\A i \in Services :
              Prog(i).contract = "Vote" /\ scenario.mode # "test"
                /\ (Prog(i).encrypted /\ Latest(i).is = "vote" => Whole(Latest(i)))
                /\ Held(Latest(i))' > Held(Latest(i))
                => inbox[i] # << >> /\ Head(inbox[i]).request.op = "nominate"]_vars
  BY <1>1
<1> QED
  BY <1>2, FilesAlways, TypesCorrect, PTL DEF Spec, BallotsNeverGrow

===============================================================================
