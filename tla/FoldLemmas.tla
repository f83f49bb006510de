------------------------------ MODULE FoldLemmas -------------------------------
(***************************************************************************)
(* What the folds of the community modules compute: the sums with which    *)
(* Deployment counts coins, and its prices.  A fold over a finite set is   *)
(* a recursive function on the subsets; every fact about it comes from a   *)
(* smallest subset on which it would fail.                                 *)
(***************************************************************************)
EXTENDS Integers, FiniteSets, Functions, FiniteSetTheorems, TLAPS

(* A non-empty family of subsets of a finite set has a smallest member.      *)
LEMMA Smallest ==
  ASSUME NEW S, IsFiniteSet(S), NEW T \in SUBSET (SUBSET S), T # {}
  PROVE  \E x \in T : \A y \in T : y \subseteq x => y = x
<1>1. IsWellFoundedOn(StrictSubsetOrdering(S), FiniteSubsetsOf(S))
  BY FS_StrictSubsetOrderingWellFounded
<1>2. T \subseteq FiniteSubsetsOf(S)
  BY FS_FiniteSubsetsOfFinite
<1>3. \E x \in T : \A y \in T : ~ (<<y, x>> \in StrictSubsetOrdering(S))
  BY <1>1, <1>2, WFMin
<1> QED
  BY <1>3 DEF StrictSubsetOrdering

-------------------------------------------------------------------------------
(* Recursion on the subsets of a set: an element is picked from a subset,    *)
(* and the step of that element is applied to the value of the rest.         *)
Picks(pick, S) == \A s \in SUBSET S : s # {} => pick[s] \in s

Iterates(h, S, pick, base, step) ==
  /\ h[{}] = base
  /\ \A s \in SUBSET S : s # {} => h[s] = step[pick[s]][h[s \ {pick[s]}]]

(* Two such functions agree where both are defined.                          *)
LEMMA IterateAgree ==
  ASSUME NEW S, IsFiniteSet(S), NEW U \in SUBSET S, NEW pick, Picks(pick, S),
         NEW base, NEW step, NEW g, NEW h,
         Iterates(g, S, pick, base, step), Iterates(h, U, pick, base, step)
  PROVE  \A s \in SUBSET U : g[s] = h[s]
<1> DEFINE T == {s \in SUBSET U : g[s] # h[s]}
<1> SUFFICES ASSUME T # {} PROVE FALSE
  OBVIOUS
<1>1. T \in SUBSET (SUBSET S)
  OBVIOUS
<1>2. PICK s \in T : \A r \in T : r \subseteq s => r = s
  <2> HIDE DEF T
  <2> QED
    BY <1>1, Smallest
<1>3. s # {}
  BY <1>2 DEF Iterates
<1>4. pick[s] \in s
  BY <1>1, <1>3 DEF Picks
<1>5. g[s \ {pick[s]}] = h[s \ {pick[s]}]
  BY <1>2, <1>4
<1> QED
  BY <1>1, <1>3, <1>5 DEF Iterates

(* There is such a function for every finite set.                            *)
LEMMA IterateExists ==
  ASSUME NEW S, IsFiniteSet(S), NEW pick, Picks(pick, S), NEW base, NEW step
  PROVE  \E h : Iterates(h, S, pick, base, step)
<1> DEFINE T == {U \in SUBSET S : ~ \E h : Iterates(h, U, pick, base, step)}
<1> SUFFICES ASSUME T # {} PROVE FALSE
  OBVIOUS
<1>1. PICK U \in T : \A V \in T : V \subseteq U => V = U
  <2>1. T \in SUBSET (SUBSET S)
    OBVIOUS
  <2> HIDE DEF T
  <2> QED
    BY <2>1, Smallest
<1> DEFINE of(V) == CHOOSE h : Iterates(h, V, pick, base, step)
           value(V) == of(V)[V]
           next(s) == IF s = {} THEN base ELSE step[pick[s]][value(s \ {pick[s]})]
           all == [s \in SUBSET U |-> next(s)]
<1>2. ASSUME NEW V \in SUBSET U, V # U
      PROVE  Iterates(of(V), V, pick, base, step)
  BY <1>1, <1>2
<1>3. ASSUME NEW V \in SUBSET U, V # U
      PROVE  value(V) = next(V)
  <2>1. Iterates(of(V), V, pick, base, step)
    BY <1>2, <1>3
  <2>2. CASE V = {}
    BY <2>1, <2>2 DEF Iterates
  <2>3. CASE V # {}
    <3> DEFINE W == V \ {pick[V]}
    <3>1. pick[V] \in V
      BY <2>3 DEF Picks
    <3>2. W \in SUBSET V /\ W # U /\ W \in SUBSET U
      BY <3>1
    <3>3. Iterates(of(W), W, pick, base, step)
      BY <1>2, <3>2
    <3>4. IsFiniteSet(V) /\ Picks(pick, V)
      BY FS_Subset DEF Picks
    <3>5. \A s \in SUBSET W : of(V)[s] = of(W)[s]
      <4> HIDE DEF W, of
      <4> QED
        BY <2>1, <3>2, <3>3, <3>4, IterateAgree
    <3>6. of(V)[V] = step[pick[V]][of(V)[W]]
      BY <2>1, <2>3 DEF Iterates
    <3>7. of(V)[W] = of(W)[W]
      BY <3>5
    <3> HIDE DEF of
    <3> QED
      BY <2>3, <3>6, <3>7
  <2> QED
    BY <2>2, <2>3
<1>4. \A s \in SUBSET U : all[s] = next(s)
  OBVIOUS
<1>5. ASSUME NEW s \in SUBSET U, s # {}
      PROVE  all[s] = step[pick[s]][all[s \ {pick[s]}]]
  <2>1. s \ {pick[s]} \in SUBSET U /\ s \ {pick[s]} # U
    BY <1>5 DEF Picks
  <2>2. all[s \ {pick[s]}] = value(s \ {pick[s]})
    <3> HIDE DEF value, next, all
    <3> QED
      BY <1>3, <1>4, <2>1
  <2> QED
    BY <1>4, <1>5, <2>2
<1>6. Iterates(all, U, pick, base, step)
  <2>1. all[{}] = base
    BY <1>4
  <2> HIDE DEF all
  <2> QED
    BY <1>5, <2>1 DEF Iterates
<1> QED
  BY <1>6

(* Its values are in V when the base is and every step stays there.          *)
LEMMA IterateType ==
  ASSUME NEW S, IsFiniteSet(S), NEW pick, Picks(pick, S), NEW V,
         NEW base \in V, NEW step, \A x \in S : \A v \in V : step[x][v] \in V,
         NEW h, Iterates(h, S, pick, base, step)
  PROVE  \A s \in SUBSET S : h[s] \in V
<1> DEFINE T == {s \in SUBSET S : h[s] \notin V}
<1> SUFFICES ASSUME T # {} PROVE FALSE
  OBVIOUS
<1>1. PICK s \in T : \A r \in T : r \subseteq s => r = s
  <2>1. T \in SUBSET (SUBSET S)
    OBVIOUS
  <2> HIDE DEF T
  <2> QED
    BY <2>1, Smallest
<1>2. s # {}
  BY <1>1 DEF Iterates
<1>3. pick[s] \in s
  BY <1>2 DEF Picks
<1>4. h[s \ {pick[s]}] \in V
  BY <1>1, <1>3
<1>5. h[s] = step[pick[s]][h[s \ {pick[s]}]]
  BY <1>1, <1>2 DEF Iterates
<1>6. pick[s] \in S /\ h[s] \notin V
  BY <1>1, <1>3
<1> QED
  BY <1>4, <1>5, <1>6

-------------------------------------------------------------------------------
(* Sums.                                                                     *)
AnyOf(S) == [s \in SUBSET S |-> CHOOSE x \in s : TRUE]
Adding(fun, S) == [x \in S |-> [v \in Nat |-> fun[x] + v]]

(* The sum of a function over the subsets of a set is that recursion.        *)
LEMMA SumIterates ==
  ASSUME NEW S, IsFiniteSet(S), NEW fun, \A x \in S : fun[x] \in Nat
  PROVE  \E h : /\ Iterates(h, S, AnyOf(S), 0, Adding(fun, S))
                /\ \A U \in SUBSET S : h[U] \in Nat /\ SumFunctionOnSet(fun, U) = h[U]
<1>1. Picks(AnyOf(S), S)
  BY DEF Picks, AnyOf
<1>2. PICK h : Iterates(h, S, AnyOf(S), 0, Adding(fun, S))
  BY <1>1, IterateExists
<1>3. \A s \in SUBSET S : h[s] \in Nat
  <2>1. \A x \in S : \A v \in Nat : Adding(fun, S)[x][v] \in Nat
    BY DEF Adding
  <2> QED
    BY <1>1, <1>2, <2>1, IterateType
<1> DEFINE c(s) == CHOOSE x \in s : TRUE
<1>4. ASSUME NEW s \in SUBSET S, s # {}
      PROVE  c(s) \in s /\ h[s] = fun[c(s)] + h[s \ {c(s)}]
  <2>1. AnyOf(S)[s] = c(s) /\ c(s) \in s
    BY <1>4 DEF AnyOf
  <2>2. h[s] = Adding(fun, S)[c(s)][h[s \ {c(s)}]]
    BY <1>2, <1>4, <2>1 DEF Iterates
  <2> HIDE DEF c
  <2>3. h[s \ {c(s)}] \in Nat /\ c(s) \in S
    BY <1>3, <2>1
  <2> QED
    BY <2>1, <2>2, <2>3 DEF Adding
<1>5. ASSUME NEW U \in SUBSET S
      PROVE  SumFunctionOnSet(fun, U) = h[U]
  <2> DEFINE Sums(g) == g = [s \in SUBSET U |-> IF s = {} THEN 0 ELSE fun[c(s)] + g[s \ {c(s)}]]
             iter == CHOOSE g : Sums(g)
  <2>1. SumFunctionOnSet(fun, U) = iter[U]
    BY Zenon DEF SumFunctionOnSet, FoldFunctionOnSet, MapThenFoldSet
  <2> HIDE DEF c
  <2>2. Sums([s \in SUBSET U |-> h[s]])
    <3>1. \A s \in SUBSET U : h[s] = IF s = {} THEN 0 ELSE fun[c(s)] + h[s \ {c(s)}]
      BY <1>2, <1>4 DEF Iterates
    <3> QED
      BY <1>4, <3>1
  <2>3. Sums(iter)
    <3> HIDE DEF Sums
    <3> QED
      BY <2>2
  <2> HIDE DEF iter
  <2> DEFINE T == {s \in SUBSET U : iter[s] # h[s]}
  <2>4. ASSUME T # {}
        PROVE  FALSE
    <3>1. PICK s \in T : \A r \in T : r \subseteq s => r = s
      <4>1. T \in SUBSET (SUBSET S)
        OBVIOUS
      <4> HIDE DEF T
      <4> QED
        BY <2>4, <4>1, Smallest
    <3>2. s # {}
      BY <1>2, <2>3, <3>1 DEF Iterates
    <3>3. iter[s \ {c(s)}] = h[s \ {c(s)}]
      BY <1>4, <3>1, <3>2
    <3>4. iter[s] = fun[c(s)] + iter[s \ {c(s)}]
      BY <2>3, <3>2
    <3> QED
      BY <1>4, <3>1, <3>2, <3>3, <3>4
  <2> QED
    BY <2>1, <2>4
<1> QED
  BY <1>2, <1>3, <1>5

LEMMA SumType ==
  ASSUME NEW S, IsFiniteSet(S), NEW fun, \A x \in S : fun[x] \in Nat
  PROVE  SumFunctionOnSet(fun, S) \in Nat
BY SumIterates

(* Any element of the set can be added last.                                 *)
LEMMA SumRemove ==
  ASSUME NEW S, IsFiniteSet(S), NEW fun, \A x \in S : fun[x] \in Nat, NEW a \in S
  PROVE  SumFunctionOnSet(fun, S) = fun[a] + SumFunctionOnSet(fun, S \ {a})
<1>1. PICK h : /\ Iterates(h, S, AnyOf(S), 0, Adding(fun, S))
               /\ \A U \in SUBSET S : h[U] \in Nat /\ SumFunctionOnSet(fun, U) = h[U]
  BY SumIterates
<1>2. ASSUME NEW U \in SUBSET S, U # {}
      PROVE  \E x \in U : h[U] = fun[x] + h[U \ {x}]
  <2> DEFINE c == AnyOf(S)[U]
  <2>1. c \in U
    BY <1>2 DEF AnyOf
  <2>2. h[U] = Adding(fun, S)[c][h[U \ {c}]]
    BY <1>1, <1>2 DEF Iterates
  <2> HIDE DEF c
  <2>3. c \in S /\ h[U \ {c}] \in Nat
    BY <1>1, <2>1
  <2> QED
    BY <2>1, <2>2, <2>3 DEF Adding
<1> DEFINE T == {U \in SUBSET S : \E x \in U : h[U] # fun[x] + h[U \ {x}]}
<1>3. ASSUME T # {}
      PROVE  FALSE
  <2>1. PICK U \in T : \A V \in T : V \subseteq U => V = U
    <3>1. T \in SUBSET (SUBSET S)
      OBVIOUS
    <3> HIDE DEF T
    <3> QED
      BY <1>3, <3>1, Smallest
  <2>2. PICK x \in U : h[U] # fun[x] + h[U \ {x}]
    BY <2>1
  <2>3. PICK c \in U : h[U] = fun[c] + h[U \ {c}]
    BY <1>2, <2>1, <2>2
  <2>4. c # x
    BY <2>2, <2>3
  <2>5. ASSUME NEW V \in SUBSET U, V # U, NEW y \in V
        PROVE  h[V] = fun[y] + h[V \ {y}]
    BY <2>1, <2>5
  <2>6. h[U \ {c}] = fun[x] + h[(U \ {c}) \ {x}]
    BY <2>4, <2>5
  <2>7. h[U \ {x}] = fun[c] + h[(U \ {x}) \ {c}]
    BY <2>4, <2>5
  <2>8. (U \ {c}) \ {x} = (U \ {x}) \ {c}
    OBVIOUS
  <2>9. /\ h[U \ {c}] \in Nat /\ h[U \ {x}] \in Nat /\ h[(U \ {x}) \ {c}] \in Nat
        /\ fun[x] \in Nat /\ fun[c] \in Nat
    <3>1. U \in SUBSET S
      BY <2>1
    <3>2. \A V \in SUBSET U : h[V] \in Nat
      BY <1>1, <3>1
    <3> QED
      BY <3>1, <3>2
  <2> HIDE DEF T
  <2> QED
    BY <2>2, <2>3, <2>6, <2>7, <2>8, <2>9
<1>4. h[S] = fun[a] + h[S \ {a}]
  BY <1>3
<1> QED
  BY <1>1, <1>4

(* A sum depends on the values at the elements of the set only.              *)
LEMMA SumSame ==
  ASSUME NEW S, IsFiniteSet(S), NEW f, NEW g, \A x \in S : f[x] \in Nat /\ g[x] = f[x]
  PROVE  SumFunctionOnSet(g, S) = SumFunctionOnSet(f, S)
<1>1. Adding(f, S) = Adding(g, S)
  BY DEF Adding
<1>2. PICK h : /\ Iterates(h, S, AnyOf(S), 0, Adding(f, S))
               /\ \A U \in SUBSET S : SumFunctionOnSet(f, U) = h[U]
  BY SumIterates
<1>3. PICK k : /\ Iterates(k, S, AnyOf(S), 0, Adding(f, S))
               /\ \A U \in SUBSET S : SumFunctionOnSet(g, U) = k[U]
  <2>1. \A x \in S : g[x] \in Nat
    OBVIOUS
  <2> QED
    BY <1>1, <2>1, SumIterates
<1>4. Picks(AnyOf(S), S)
  BY DEF Picks, AnyOf
<1>5. \A s \in SUBSET S : h[s] = k[s]
  BY <1>2, <1>3, <1>4, IterateAgree
<1> QED
  BY <1>2, <1>3, <1>5

(* Moving an amount from one element to another keeps the sum, and no value  *)
(* exceeds it.                                                               *)
LEMMA SumMove ==
  ASSUME NEW S, IsFiniteSet(S), NEW f \in [S -> Nat], NEW a \in S, NEW b \in S, NEW n \in Nat,
         n <= f[a], a # b
  PROVE  LET g == [f EXCEPT ![a] = f[a] - n, ![b] = f[b] + n]
         IN /\ g \in [S -> Nat] /\ SumFunctionOnSet(g, S) = SumFunctionOnSet(f, S)
            /\ f[a] + f[b] <= SumFunctionOnSet(f, S)
<1> DEFINE g == [f EXCEPT ![a] = f[a] - n, ![b] = f[b] + n]
           R == (S \ {a}) \ {b}
<1>1. /\ g \in [S -> Nat] /\ g[a] = f[a] - n /\ g[b] = f[b] + n
      /\ \A x \in R : g[x] = f[x]
  OBVIOUS
<1>2. IsFiniteSet(S \ {a}) /\ IsFiniteSet(R) /\ b \in S \ {a}
  BY FS_RemoveElement
<1>3. ASSUME NEW k \in [S -> Nat]
      PROVE  SumFunctionOnSet(k, S) = k[a] + (k[b] + SumFunctionOnSet(k, R))
  <2>1. \A x \in S : k[x] \in Nat
    OBVIOUS
  <2>2. \A x \in S \ {a} : k[x] \in Nat
    OBVIOUS
  <2>3. SumFunctionOnSet(k, S) = k[a] + SumFunctionOnSet(k, S \ {a})
    BY <2>1, SumRemove
  <2>4. SumFunctionOnSet(k, S \ {a}) = k[b] + SumFunctionOnSet(k, R)
    BY <1>2, <2>2, SumRemove
  <2> QED
    BY <2>3, <2>4
<1>4. SumFunctionOnSet(g, R) = SumFunctionOnSet(f, R) /\ SumFunctionOnSet(f, R) \in Nat
  <2>1. \A x \in R : f[x] \in Nat
    OBVIOUS
  <2> HIDE DEF g
  <2> QED
    BY <1>1, <1>2, <2>1, SumSame, SumType
<1> HIDE DEF g, R
<1>5. /\ SumFunctionOnSet(g, S) = SumFunctionOnSet(f, S)
      /\ f[a] + f[b] <= SumFunctionOnSet(f, S)
  BY <1>1, <1>3, <1>4
<1> QED
  BY <1>1, <1>5 DEF g

-------------------------------------------------------------------------------
(* Every non-empty finite set of numbers has a largest one.                  *)
LEMMA Largest ==
  ASSUME NEW S, IsFiniteSet(S)
  PROVE  S \subseteq Nat /\ S # {} => \E x \in S : \A y \in S : y <= x
<1> DEFINE T == {U \in SUBSET S : U \subseteq Nat /\ U # {} /\ ~ \E x \in U : \A y \in U : y <= x}
<1> SUFFICES ASSUME T # {} PROVE FALSE
  OBVIOUS
<1>1. PICK U \in T : \A V \in T : V \subseteq U => V = U
  <2>1. T \in SUBSET (SUBSET S)
    OBVIOUS
  <2> HIDE DEF T
  <2> QED
    BY <2>1, Smallest
<1>2. PICK a \in U : TRUE
  OBVIOUS
<1>3. PICK m \in U \ {a} : \A y \in U \ {a} : y <= m
  <2> DEFINE V == U \ {a}
  <2>1. V \in SUBSET S /\ V \subseteq U /\ V # U /\ V # {}
    <3>1. V # {}
      <4> SUFFICES ASSUME V = {} PROVE FALSE
        OBVIOUS
      <4>1. U = {a} /\ a \in Nat
        BY <1>1, <1>2
      <4>2. \A y \in U : y <= a
        BY <4>1
      <4> QED
        BY <1>1, <1>2, <4>2
    <3> QED
      BY <1>1, <1>2, <3>1
  <2>2. V \notin T
    BY <1>1, <2>1
  <2> QED
    BY <2>1, <2>2
<1>4. a \in Nat /\ \A y \in U : y \in Nat
  BY <1>1
<1>5. \A y \in U : y <= IF a <= m THEN m ELSE a
  BY <1>3, <1>4
<1> QED
  BY <1>1, <1>5

-------------------------------------------------------------------------------
(* Sums over parts of a set and over its images.                             *)
LEMMA SumEmpty ==
  ASSUME NEW fun
  PROVE  SumFunctionOnSet(fun, {}) = 0
<1>1. IsFiniteSet({}) /\ {} \in SUBSET {}
  BY FS_EmptySet
<1>2. PICK h : /\ Iterates(h, {}, AnyOf({}), 0, Adding(fun, {}))
               /\ \A U \in SUBSET {} : SumFunctionOnSet(fun, U) = h[U]
  BY <1>1, SumIterates
<1> QED
  BY <1>1, <1>2 DEF Iterates

LEMMA SumSplit ==
  ASSUME NEW S, IsFiniteSet(S), NEW fun, \A x \in S : fun[x] \in Nat, NEW U \in SUBSET S
  PROVE  SumFunctionOnSet(fun, S) = SumFunctionOnSet(fun, U) + SumFunctionOnSet(fun, S \ U)
<1> DEFINE sum(V) == SumFunctionOnSet(fun, V)
           T == {V \in SUBSET S : sum(S) # sum(V) + sum(S \ V)}
<1> SUFFICES ASSUME T # {} PROVE FALSE
  OBVIOUS
<1>1. PICK V \in T : \A W \in T : W \subseteq V => W = V
  <2>1. T \in SUBSET (SUBSET S)
    OBVIOUS
  <2> HIDE DEF T
  <2> QED
    BY <2>1, Smallest
<1>2. ASSUME NEW W \in SUBSET S
      PROVE  sum(W) \in Nat /\ \A x \in W : sum(W) = fun[x] + sum(W \ {x})
  <2>1. IsFiniteSet(W) /\ \A x \in W : fun[x] \in Nat
    BY FS_Subset
  <2> QED
    BY <2>1, SumType, SumRemove
<1>3. sum({}) = 0 /\ S \ {} = S
  BY SumEmpty
<1> HIDE DEF sum
<1>4. V # {}
  <2>1. sum(S) \in Nat
    BY <1>2
  <2>2. sum(S) = sum({}) + sum(S \ {})
    BY <1>3, <2>1
  <2> QED
    BY <1>1, <2>2
<1>5. PICK a \in V : TRUE
  BY <1>4
<1>6. sum(S) = sum(V \ {a}) + sum(S \ (V \ {a}))
  BY <1>1, <1>5
<1>7. (S \ (V \ {a})) \ {a} = S \ V /\ a \in S \ (V \ {a})
  BY <1>1, <1>5
<1>8. sum(V) = fun[a] + sum(V \ {a}) /\ sum(S \ (V \ {a})) = fun[a] + sum(S \ V)
  BY <1>1, <1>2, <1>5, <1>7
<1>9. fun[a] \in Nat /\ sum(V \ {a}) \in Nat /\ sum(S \ V) \in Nat
  BY <1>1, <1>2, <1>5
<1>10. sum(S) = sum(V) + sum(S \ V)
  BY <1>6, <1>8, <1>9
<1> QED
  BY <1>1, <1>10

LEMMA SumImage ==
  ASSUME NEW S, IsFiniteSet(S), NEW T, IsFiniteSet(T), NEW b \in [S -> T],
         \A x, y \in S : b[x] = b[y] => x = y,
         NEW f, \A x \in T : f[x] \in Nat, NEW g, \A x \in S : g[x] = f[b[x]]
  PROVE  SumFunctionOnSet(g, S) = SumFunctionOnSet(f, {b[x] : x \in S})
<1> DEFINE image(U) == {b[x] : x \in U}
           differ == {U \in SUBSET S : SumFunctionOnSet(g, U) # SumFunctionOnSet(f, image(U))}
<1> SUFFICES ASSUME differ # {} PROVE FALSE
  OBVIOUS
<1>1. PICK U \in differ : \A V \in differ : V \subseteq U => V = U
  <2>1. differ \in SUBSET (SUBSET S)
    OBVIOUS
  <2> HIDE DEF differ
  <2> QED
    BY <2>1, Smallest
<1>2. U # {}
  <2>1. image({}) = {}
    OBVIOUS
  <2> QED
    BY <1>1, <2>1, SumEmpty
<1>3. PICK a \in U : TRUE
  BY <1>2
<1>4. SumFunctionOnSet(g, U \ {a}) = SumFunctionOnSet(f, image(U \ {a}))
  BY <1>1, <1>3
<1>5. image(U) \ {b[a]} = image(U \ {a}) /\ b[a] \in image(U) /\ image(U) \in SUBSET T
  BY <1>1, <1>3
<1>6. IsFiniteSet(U) /\ IsFiniteSet(image(U))
  BY <1>1, <1>5, FS_Subset
<1>7. SumFunctionOnSet(g, U) = g[a] + SumFunctionOnSet(g, U \ {a})
  <2>1. \A x \in U : g[x] \in Nat
    BY <1>1
  <2> QED
    BY <1>3, <1>6, <2>1, SumRemove
<1>8. SumFunctionOnSet(f, image(U)) = f[b[a]] + SumFunctionOnSet(f, image(U) \ {b[a]})
  <2>1. \A x \in image(U) : f[x] \in Nat
    BY <1>5
  <2> HIDE DEF image
  <2> QED
    BY <1>5, <1>6, <2>1, SumRemove
<1> QED
  BY <1>1, <1>3, <1>4, <1>5, <1>7, <1>8

===============================================================================
