-------------------------------- MODULE Sums --------------------------------
(***************************************************************************)
(* Facts about the sum of a function over a finite set, as TokenIssuance   *)
(* and Grants form it with MapThenSumSet: it changes by what one entry     *)
(* changes, and it is a natural number if the entries are.                 *)
(*                                                                         *)
(* MapThenSumSet takes its summands one by one off the set, by a function  *)
(* defined recursively on the subsets. That there is such a function is    *)
(* shown first, by induction on the size of the subsets, then what it      *)
(* computes, by induction on the subsets themselves. Both inductions are   *)
(* stated with sets: the set of what satisfies the claim is everything.    *)
(***************************************************************************)
EXTENDS Integers, FiniteSetsExt, FiniteSetTheorems, TLAPS

Sum(f, S) == MapThenSumSet(LAMBDA x : f[x], S)

\* The element that is taken off a set first.
First(s) == CHOOSE x \in s : TRUE

\* One step of the recursion, with the sums g of the smaller subsets.
SumStep(g, f, s) == IF s = {} THEN 0 ELSE f[First(s)] + g[s \ {First(s)}]

IsSum(g, f, S) == g = [s \in SUBSET S |-> SumStep(g, f, s)]

LEMMA SumForm ==
  ASSUME NEW f, NEW S
  PROVE  Sum(f, S) = (CHOOSE g : IsSum(g, f, S))[S]
BY DEF Sum, MapThenSumSet, MapThenFoldSet, IsSum, SumStep, First

----------------------------------------------------------------------------
(* Inductions.                                                             *)

\* A set of naturals with 0 and all successors is Nat.
LEMMA AllNaturals ==
  ASSUME NEW N \in SUBSET Nat, 0 \in N, \A n \in N : n + 1 \in N
  PROVE  N = Nat
<1> SUFFICES ASSUME Nat \ N # {} PROVE FALSE
  OBVIOUS
<1>1. PICK n \in Nat \ N : \A m \in Nat \ N : ~(<<m, n>> \in OpToRel(<, Nat))
  BY NatLessThanWellFounded, WFMin
<1>2. n \in Nat /\ n # 0 /\ n - 1 \in Nat
  OBVIOUS
<1>3. <<n - 1, n>> \in OpToRel(<, Nat)
  BY <1>1, <1>2 DEF OpToRel
<1>4. n - 1 \in N
  BY <1>1, <1>2, <1>3
<1>5. (n - 1) + 1 = n
  BY <1>2
<1> QED
  BY <1>4, <1>5

LEMMA FirstIsMember ==
  ASSUME NEW s, s # {}
  PROVE  First(s) \in s
BY DEF First

\* A set of subsets of S that has the empty set, and every s from which its
\* first element may be taken, has them all.
LEMMA AllSubsets ==
  ASSUME NEW S, IsFiniteSet(S), NEW G \in SUBSET SUBSET S, {} \in G,
         \A s \in SUBSET S : s # {} /\ s \ {First(s)} \in G => s \in G
  PROVE  G = SUBSET S
<1> DEFINE Rest == (SUBSET S) \ G
<1> SUFFICES ASSUME Rest # {} PROVE FALSE
  OBVIOUS
<1>1. IsWellFoundedOn(StrictSubsetOrdering(S), SUBSET S)
  <2>1. FiniteSubsetsOf(S) = SUBSET S
    BY FS_FiniteSubsetsOfFinite
  <2>2. IsWellFoundedOn(StrictSubsetOrdering(S), FiniteSubsetsOf(S))
    BY FS_StrictSubsetOrderingWellFounded
  <2> QED
    BY <2>1, <2>2
<1>2. PICK s \in Rest : \A t \in Rest : ~(<<t, s>> \in StrictSubsetOrdering(S))
  <2>1. Rest \subseteq SUBSET S
    OBVIOUS
  <2> HIDE DEF Rest
  <2> QED
    BY <1>1, <2>1, WFMin
<1>3. s \in SUBSET S /\ s \notin G /\ s # {}
  <2>1. s \in (SUBSET S) \ G
    BY <1>2
  <2> QED
    BY <2>1
<1>4. First(s) \in s
  BY <1>3, FirstIsMember
<1>5. <<s \ {First(s)}, s>> \in StrictSubsetOrdering(S)
  BY <1>3, <1>4 DEF StrictSubsetOrdering
<1>6. s \ {First(s)} \in G
  BY <1>2, <1>3, <1>5
<1> QED
  BY <1>3, <1>6

----------------------------------------------------------------------------
(* The recursion is well founded.                                          *)

\* There are sums for all subsets of a finite set.
LEMMA SumsExist ==
  ASSUME NEW S, IsFiniteSet(S), NEW f \in [S -> Int]
  PROVE  \E g : IsSum(g, f, S)
<1> DEFINE Upto(n) == {s \in SUBSET S : Cardinality(s) <= n}
           Good(g, n) == \A s \in Upto(n) : g[s] = SumStep(g, f, s)
           N == {n \in Nat : \E g \in [SUBSET S -> Int] : Good(g, n)}
<1>1. \A s \in SUBSET S : IsFiniteSet(s) /\ Cardinality(s) \in Nat
  BY FS_Subset, FS_CardinalityType
<1>2. \A s \in SUBSET S : s # {} =>
        /\ First(s) \in S /\ s \ {First(s)} \in SUBSET S
        /\ Cardinality(s \ {First(s)}) = Cardinality(s) - 1
  BY <1>1, FirstIsMember, FS_RemoveElement
<1>3. 0 \in N
  <2> DEFINE g == [s \in SUBSET S |-> 0]
  <2>1. g \in [SUBSET S -> Int]
    OBVIOUS
  <2>2. ASSUME NEW s \in Upto(0) PROVE g[s] = SumStep(g, f, s)
    <3>1. Cardinality(s) = 0
      BY <1>1, <2>2
    <3>2. s = {}
      BY <1>1, <3>1, FS_EmptySet
    <3> QED
      BY <3>2 DEF SumStep
  <2> HIDE DEF g
  <2> QED
    BY <2>1, <2>2
<1>4. ASSUME NEW n \in N PROVE n + 1 \in N
  <2>1. PICK g \in [SUBSET S -> Int] : Good(g, n)
    BY <1>4
  <2> DEFINE k == [s \in SUBSET S |-> IF Cardinality(s) = n + 1 THEN SumStep(g, f, s)
                                                              ELSE g[s]]
  <2>2. ASSUME NEW s \in SUBSET S PROVE SumStep(g, f, s) \in Int
    <3>1. CASE s = {}
      BY <3>1 DEF SumStep
    <3>2. CASE s # {}
      <4>1. f[First(s)] \in Int /\ g[s \ {First(s)}] \in Int
        BY <1>2, <2>1, <3>2
      <4> QED
        BY <3>2, <4>1 DEF SumStep
    <3> QED
      BY <3>1, <3>2
  <2>3. k \in [SUBSET S -> Int]
    BY <2>1, <2>2
  <2>4. ASSUME NEW s \in Upto(n + 1) PROVE k[s] = SumStep(k, f, s)
    <3>1. ASSUME s # {} PROVE k[s \ {First(s)}] = g[s \ {First(s)}]
      <4>1. Cardinality(s \ {First(s)}) # n + 1 /\ s \ {First(s)} \in SUBSET S
        BY <1>1, <1>2, <1>4, <2>4, <3>1
      <4> QED
        BY <4>1
    <3>2. SumStep(k, f, s) = SumStep(g, f, s)
      <4> HIDE DEF k
      <4> QED
        BY <3>1 DEF SumStep
    <3>3. CASE Cardinality(s) = n + 1
      BY <3>2, <3>3
    <3>4. CASE Cardinality(s) # n + 1
      <4>1. s \in Upto(n)
        BY <1>1, <1>4, <2>4, <3>4
      <4> QED
        BY <2>1, <3>2, <3>4, <4>1
    <3> QED
      BY <3>3, <3>4
  <2> HIDE DEF k
  <2> QED
    BY <1>4, <2>3, <2>4
<1> HIDE DEF N
<1>5. N = Nat
  <2>1. N \in SUBSET Nat
    BY DEF N
  <2> QED
    BY <1>3, <1>4, <2>1, AllNaturals
<1>6. Cardinality(S) \in N
  BY <1>1, <1>5
<1>7. PICK g \in [SUBSET S -> Int] : Good(g, Cardinality(S))
  BY <1>6 DEF N
<1>8. \A s \in SUBSET S : g[s] = SumStep(g, f, s)
  <2>1. \A s \in SUBSET S : Cardinality(s) <= Cardinality(S)
    BY FS_Subset
  <2> QED
    BY <1>7, <2>1
<1>9. IsSum(g, f, S)
  BY <1>7, <1>8 DEF IsSum
<1> QED
  BY <1>9

\* g holds the sums of the subsets of S, the last of which is that of S.
SumsUp(g, f, S) ==
  /\ g \in [SUBSET S -> Int]
  /\ Sum(f, S) = g[S]
  /\ g[{}] = 0
  /\ \A s \in (SUBSET S) \ {{}} : g[s] = f[First(s)] + g[s \ {First(s)}]

LEMMA SumsOf ==
  ASSUME NEW S, IsFiniteSet(S), NEW f \in [S -> Int]
  PROVE  \E g : SumsUp(g, f, S)
<1>1. PICK g : g = (CHOOSE k : IsSum(k, f, S))
  OBVIOUS
<1>2. IsSum(g, f, S)
  BY <1>1, SumsExist
<1>3. DOMAIN g = SUBSET S /\ \A s \in SUBSET S : g[s] = SumStep(g, f, s)
  BY <1>2 DEF IsSum
<1> DEFINE G == {s \in SUBSET S : g[s] \in Int}
<1>4. g[{}] = 0
  <2>1. SumStep(g, f, {}) = 0
    BY DEF SumStep
  <2> QED
    BY <1>3, <2>1
<1>5. ASSUME NEW s \in SUBSET S, s # {} PROVE g[s] = f[First(s)] + g[s \ {First(s)}]
  <2>1. SumStep(g, f, s) = f[First(s)] + g[s \ {First(s)}]
    BY <1>5 DEF SumStep
  <2> QED
    BY <1>3, <2>1
<1>6. {} \in G
  BY <1>4
<1>7. ASSUME NEW s \in SUBSET S, s # {}, s \ {First(s)} \in G PROVE s \in G
  <2>1. g[s] = f[First(s)] + g[s \ {First(s)}]
    BY <1>7, <1>5
  <2>2. f[First(s)] \in Int
    BY <1>7, FirstIsMember
  <2> QED
    BY <1>7, <2>1, <2>2
<1>8. G = SUBSET S
  <2> HIDE DEF G
  <2>1. G \in SUBSET SUBSET S
    BY DEF G
  <2> QED
    BY <1>6, <1>7, <2>1, AllSubsets
<1>9. g \in [SUBSET S -> Int]
  BY <1>2, <1>8 DEF IsSum
<1>10. g[{}] = 0 /\ \A s \in (SUBSET S) \ {{}} : g[s] = f[First(s)] + g[s \ {First(s)}]
  BY <1>4, <1>5
<1>11. Sum(f, S) = g[S]
  BY <1>1, SumForm
<1> QED
  BY <1>9, <1>10, <1>11 DEF SumsUp

----------------------------------------------------------------------------
(* What the sum is.                                                        *)

\* A sum of integers is an integer.
LEMMA SumIsInteger ==
  ASSUME NEW S, IsFiniteSet(S), NEW f \in [S -> Int]
  PROVE  Sum(f, S) \in Int
<1>1. PICK g : SumsUp(g, f, S)
  BY SumsOf
<1>2. S \in SUBSET S
  OBVIOUS
<1> QED
  BY <1>1, <1>2 DEF SumsUp

\* A sum of naturals is a natural.
LEMMA SumIsNatural ==
  ASSUME NEW S, IsFiniteSet(S), NEW f \in [S -> Nat]
  PROVE  Sum(f, S) \in Nat
<1>1. PICK g : SumsUp(g, f, S)
  BY SumsOf
<1> DEFINE G == {s \in SUBSET S : g[s] \in Nat}
<1>2. {} \in G
  BY <1>1 DEF SumsUp
<1>3. ASSUME NEW s \in SUBSET S, s # {}, s \ {First(s)} \in G PROVE s \in G
  <2>1. g[s] = f[First(s)] + g[s \ {First(s)}]
    BY <1>1, <1>3 DEF SumsUp
  <2>2. f[First(s)] \in Nat
    BY <1>3, FirstIsMember
  <2> QED
    BY <1>3, <2>1, <2>2
<1>4. G = SUBSET S
  <2> HIDE DEF G
  <2>1. G \in SUBSET SUBSET S
    BY DEF G
  <2> QED
    BY <1>2, <1>3, <2>1, AllSubsets
<1> QED
  BY <1>1, <1>4 DEF SumsUp

\* The sum of zeros is zero.
LEMMA SumOfZeros ==
  ASSUME NEW S, IsFiniteSet(S)
  PROVE  Sum([x \in S |-> 0], S) = 0
<1> DEFINE f == [x \in S |-> 0]
<1>1. f \in [S -> Int] /\ \A x \in S : f[x] = 0
  OBVIOUS
<1> HIDE DEF f
<1>2. PICK g : SumsUp(g, f, S)
  BY <1>1, SumsOf
<1> DEFINE G == {s \in SUBSET S : g[s] = 0}
<1>3. {} \in G
  BY <1>2 DEF SumsUp
<1>4. ASSUME NEW s \in SUBSET S, s # {}, s \ {First(s)} \in G PROVE s \in G
  <2>1. g[s] = f[First(s)] + g[s \ {First(s)}]
    BY <1>2, <1>4 DEF SumsUp
  <2>2. f[First(s)] = 0
    BY <1>1, <1>4, FirstIsMember
  <2> QED
    BY <1>4, <2>1, <2>2
<1>5. G = SUBSET S
  <2> HIDE DEF G
  <2>1. G \in SUBSET SUBSET S
    BY DEF G
  <2> QED
    BY <1>3, <1>4, <2>1, AllSubsets
<1> QED
  BY <1>2, <1>5 DEF f, SumsUp

\* The sum changes by what one entry changes.
LEMMA SumChanges ==
  ASSUME NEW S, IsFiniteSet(S), NEW f \in [S -> Int], NEW h \in [S -> Int],
         NEW a \in S, \A x \in S \ {a} : h[x] = f[x]
  PROVE  Sum(h, S) = Sum(f, S) + (h[a] - f[a])
<1>1. PICK g : SumsUp(g, f, S)
  BY SumsOf
<1>2. PICK k : SumsUp(k, h, S)
  BY SumsOf
<1> DEFINE Gain(s) == IF a \in s THEN h[a] - f[a] ELSE 0
           G == {s \in SUBSET S : k[s] = g[s] + Gain(s)}
<1>3. {} \in G
  BY <1>1, <1>2 DEF SumsUp
<1>4. ASSUME NEW s \in SUBSET S, s # {}, s \ {First(s)} \in G PROVE s \in G
  <2> DEFINE x == First(s)
             t == s \ {x}
  <2>1. x \in s /\ x \in S /\ t \in SUBSET S
    BY <1>4, FirstIsMember
  <2>2. g[s] = f[x] + g[t] /\ k[s] = h[x] + k[t]
    BY <1>1, <1>2, <1>4 DEF SumsUp
  <2>3. k[t] = g[t] + Gain(t)
    BY <1>4
  <2> HIDE DEF x
  <2>4. g[t] \in Int /\ k[t] \in Int /\ f[x] \in Int /\ h[x] \in Int
        /\ f[a] \in Int /\ h[a] \in Int
    BY <1>1, <1>2, <2>1 DEF SumsUp
  <2>5. CASE x = a
    BY <2>1, <2>2, <2>3, <2>4, <2>5
  <2>6. CASE x # a
    BY <2>1, <2>2, <2>3, <2>4, <2>6
  <2> QED
    BY <2>5, <2>6
<1>5. G = SUBSET S
  <2> HIDE DEF G
  <2>1. G \in SUBSET SUBSET S
    BY DEF G
  <2> QED
    BY <1>3, <1>4, <2>1, AllSubsets
<1> QED
  BY <1>1, <1>2, <1>5 DEF SumsUp

\* A summand is no more than the sum of naturals.
LEMMA SumCovers ==
  ASSUME NEW S, IsFiniteSet(S), NEW f \in [S -> Nat], NEW a \in S
  PROVE  f[a] <= Sum(f, S)
<1> DEFINE h == [f EXCEPT ![a] = 0]
<1>1. h \in [S -> Nat] /\ h[a] = 0 /\ \A x \in S \ {a} : h[x] = f[x]
  OBVIOUS
<1> HIDE DEF h
<1>2. f \in [S -> Int] /\ h \in [S -> Int]
  BY <1>1
<1>3. Sum(h, S) = Sum(f, S) + (h[a] - f[a])
  BY <1>1, <1>2, SumChanges
<1>4. Sum(h, S) \in Nat /\ Sum(f, S) \in Nat /\ f[a] \in Nat
  BY <1>1, SumIsNatural
<1> QED
  BY <1>1, <1>3, <1>4

\* What one entry gains and another loses leaves the sum as it was.
LEMMA SumKept ==
  ASSUME NEW S, IsFiniteSet(S), NEW f \in [S -> Int], NEW h \in [S -> Int],
         NEW a \in S, NEW b \in S, a # b, h[a] + h[b] = f[a] + f[b],
         \A x \in S \ {a, b} : h[x] = f[x]
  PROVE  Sum(h, S) = Sum(f, S)
<1> DEFINE k == [f EXCEPT ![a] = h[a]]
<1>1. k \in [S -> Int] /\ k[a] = h[a] /\ k[b] = f[b] /\ \A x \in S \ {a} : k[x] = f[x]
  OBVIOUS
<1>2. \A x \in S \ {b} : h[x] = k[x]
  OBVIOUS
<1> HIDE DEF k
<1>3. Sum(k, S) = Sum(f, S) + (k[a] - f[a])
  BY <1>1, SumChanges
<1>4. Sum(h, S) = Sum(k, S) + (h[b] - k[b])
  BY <1>1, <1>2, SumChanges
<1>5. /\ Sum(f, S) \in Int /\ f[a] \in Int /\ f[b] \in Int
      /\ h[a] \in Int /\ h[b] \in Int
  BY SumIsInteger
<1> QED
  BY <1>1, <1>3, <1>4, <1>5
=============================================================================
