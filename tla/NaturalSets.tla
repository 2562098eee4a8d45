---------------------------- MODULE NaturalSets -----------------------------
(***************************************************************************)
(* Least elements, induction over the natural numbers with a set in the    *)
(* place of a predicate, and the functions that loops define.              *)
(***************************************************************************)
EXTENDS Integers, FiniteSetTheorems, WellFoundedInduction, TLAPS

\* A nonempty set of naturals has a least element.
LEMMA LeastNat ==
    ASSUME NEW S, S \subseteq Nat, S # {}
    PROVE  \E n \in S : \A m \in S : n <= m
<1> DEFINE Upto == {0..k : k \in S}
           R == StrictSubsetOrdering(Nat)
<1>1. Upto \subseteq FiniteSubsetsOf(Nat)
  <2> SUFFICES ASSUME NEW k \in S
               PROVE  0..k \in FiniteSubsetsOf(Nat)
    OBVIOUS
  <2>1. IsFiniteSet(0..k)
    BY FS_Interval
  <2> QED BY <2>1 DEF FiniteSubsetsOf
<1>2. Upto # {}
  OBVIOUS
<1>3. PICK x \in Upto : \A y \in Upto : ~(<<y, x>> \in R)
  <2> HIDE DEF Upto, R
  <2>1. IsWellFoundedOn(R, FiniteSubsetsOf(Nat))
    BY FS_StrictSubsetOrderingWellFounded DEF R
  <2> QED BY <1>1, <1>2, <2>1, WFMin
<1>4. PICK n \in S : x = 0..n
  BY <1>3
<1>5. ASSUME NEW m \in S, ~(n <= m)
      PROVE  FALSE
  <2>1. 0..m \in Upto
    OBVIOUS
  <2>2. 0..m \subseteq 0..n /\ n \in 0..n /\ n \notin 0..m
    BY <1>5
  <2>3. <<0..m, 0..n>> \in R
    <3>1. 0..m \in SUBSET Nat /\ 0..n \in SUBSET Nat /\ 0..m # 0..n
      BY <2>2
    <3> QED BY <2>2, <3>1 DEF StrictSubsetOrdering
  <2> QED BY <1>3, <1>4, <2>1, <2>3
<1> QED BY <1>5

\* A set that has 0 and, with each number, the next has them all.
LEMMA SetInduction ==
    ASSUME NEW S, 0 \in S, \A n \in Nat : n \in S => n + 1 \in S
    PROVE  Nat \subseteq S
<1> SUFFICES ASSUME Nat \ S # {} PROVE FALSE
  OBVIOUS
<1>1. PICK n \in Nat \ S : \A m \in Nat \ S : n <= m
  BY LeastNat
<1>2. n - 1 \in Nat /\ n - 1 \in S
  BY <1>1
<1> QED BY <1>1, <1>2

\* A loop: there is a function defined from its own value one step before.
LEMMA LoopExists ==
    ASSUME NEW A, NEW a \in A, NEW N \in Nat, NEW step \in [1..N -> [A -> A]]
    PROVE  \E f \in [0..N -> A] : f[0] = a /\ \A k \in 1..N : f[k] = step[k][f[k - 1]]
<1> DEFINE Solves(f, n) == /\ f \in [0..n -> A] /\ f[0] = a
                           /\ \A k \in 1..n : f[k] = step[k][f[k - 1]]
           S == {n \in Nat : n <= N => \E f : Solves(f, n)}
<1>1. 0 \in S
  <2>1. Solves([k \in 0..0 |-> a], 0)
    OBVIOUS
  <2> QED BY <2>1
<1>2. ASSUME NEW n \in Nat, n \in S
      PROVE  n + 1 \in S
  <2> SUFFICES ASSUME n + 1 <= N
               PROVE  \E f : Solves(f, n + 1)
    OBVIOUS
  <2>1. PICK f : Solves(f, n)
    BY <1>2
  <2> DEFINE g == [k \in 0..(n + 1) |-> IF k <= n THEN f[k] ELSE step[n + 1][f[n]]]
  <2>2. step[n + 1] \in [A -> A] /\ f[n] \in A
    BY <2>1
  <2>3. g \in [0..(n + 1) -> A]
    <3>1. step[n + 1][f[n]] \in A
      BY <2>2
    <3>2. \A k \in 0..(n + 1) : k <= n => f[k] \in A
      BY <2>1
    <3> QED BY <3>1, <3>2
  <2>4. g[0] = a
    BY <2>1
  <2>5. ASSUME NEW k \in 1..(n + 1)
        PROVE  g[k] = step[k][g[k - 1]]
    <3>1. k - 1 \in 0..n /\ g[k - 1] = f[k - 1]
      OBVIOUS
    <3>2. CASE k <= n
      <4>1. k \in 1..n /\ g[k] = f[k]
        BY <3>2
      <4>2. f[k] = step[k][f[k - 1]]
        BY <2>1, <4>1
      <4> QED BY <3>1, <4>1, <4>2
    <3>3. CASE k = n + 1
      <4>1. g[k] = step[n + 1][f[n]] /\ k - 1 = n
        BY <3>3
      <4> QED BY <3>1, <3>3, <4>1
    <3> QED BY <3>2, <3>3
  <2>6. Solves(g, n + 1)
    BY <2>3, <2>4, <2>5
  <2> HIDE DEF g, Solves
  <2> QED BY <2>6
<1>3. N \in S
  <2> HIDE DEF S
  <2> QED BY <1>1, <1>2, SetInduction
<1>4. PICK f : Solves(f, N)
  BY <1>3
<1> QED BY <1>4

\* f walks over the members of X in some order, from a: it is a function of the
\* subsets of X, defined from its own value on all but their last member.
WalksOver(f, X, A, a, last, step) ==
    /\ f \in [SUBSET X -> A] /\ f[{}] = a
    /\ \A S \in (SUBSET X) \ {{}} : f[S] = step[last[S]][f[S \ {last[S]}]]

\* Over a finite set there is such a function.
LEMMA WalkExists ==
    ASSUME NEW A, NEW a \in A, NEW X, IsFiniteSet(X),
           NEW last, \A S \in (SUBSET X) \ {{}} : last[S] \in S,
           NEW step \in [X -> [A -> A]]
    PROVE  \E f : WalksOver(f, X, A, a, last, step)
<1> DEFINE Some == (SUBSET X) \ {{}}
           rest(S) == S \ {last[S]}
           Solves(f, n) == /\ f \in [SUBSET X -> A] /\ f[{}] = a
                           /\ \A S \in Some : Cardinality(S) <= n => f[S] = step[last[S]][f[rest(S)]]
           N == {n \in Nat : \E f : Solves(f, n)}
<1>1. ASSUME NEW S \in Some
      PROVE  /\ rest(S) \in SUBSET X /\ last[S] \in X
             /\ Cardinality(S) \in Nat \ {0} /\ Cardinality(rest(S)) = Cardinality(S) - 1
  <2>1. IsFiniteSet(S) /\ last[S] \in S
    BY FS_Subset
  <2>2. Cardinality(S) \in Nat /\ Cardinality(S) # 0
    BY <2>1, FS_CardinalityType, FS_EmptySet
  <2>3. \A x \in S : Cardinality(S \ {x}) = Cardinality(S) - 1
    BY <2>1, FS_RemoveElement
  <2> QED BY <2>1, <2>2, <2>3
<1>2. 0 \in N
  <2>1. ASSUME NEW S \in Some
        PROVE  ~(Cardinality(S) <= 0)
    <3>1. Cardinality(S) \in Nat \ {0}
      BY <1>1
    <3> QED BY <3>1
  <2>2. Solves([S \in SUBSET X |-> a], 0)
    BY <2>1
  <2> HIDE DEF Solves
  <2> QED BY <2>2
<1>3. ASSUME NEW n \in Nat, n \in N
      PROVE  n + 1 \in N
  <2>1. PICK f : Solves(f, n)
    BY <1>3
  <2> DEFINE g == [S \in SUBSET X |-> IF S = {} \/ Cardinality(S) <= n THEN f[S]
                                      ELSE step[last[S]][f[rest(S)]]]
  <2>2. g \in [SUBSET X -> A]
    <3>1. \A S \in Some : step[last[S]][f[rest(S)]] \in A
      BY <1>1, <2>1
    <3>2. \A S \in SUBSET X : f[S] \in A
      BY <2>1
    <3> QED BY <3>1, <3>2
  <2>3. g[{}] = a
    BY <2>1
  <2>4. ASSUME NEW S \in Some, Cardinality(S) <= n + 1
        PROVE  g[S] = step[last[S]][g[rest(S)]]
    <3>1. g[rest(S)] = f[rest(S)]
      <4>1. rest(S) \in SUBSET X /\ Cardinality(rest(S)) <= n
        BY <1>1, <2>4
      <4> HIDE DEF rest
      <4> QED BY <4>1
    <3>2. CASE Cardinality(S) <= n
      <4>1. g[S] = f[S]
        BY <3>2
      <4>2. f[S] = step[last[S]][f[rest(S)]]
        BY <2>1, <3>2
      <4> QED BY <3>1, <4>1, <4>2
    <3>3. CASE ~(Cardinality(S) <= n)
      <4>1. g[S] = step[last[S]][f[rest(S)]]
        BY <3>3
      <4> QED BY <3>1, <4>1
    <3> QED BY <3>2, <3>3
  <2>5. Solves(g, n + 1)
    BY <2>2, <2>3, <2>4
  <2> HIDE DEF g, Solves
  <2> QED BY <2>5
<1>4. Cardinality(X) \in Nat
  BY FS_CardinalityType
<1>5. PICK f : Solves(f, Cardinality(X))
  <2>1. Nat \subseteq N
    <3> HIDE DEF N
    <3> QED BY <1>2, <1>3, SetInduction
  <2> QED BY <1>4, <2>1
<1>6. ASSUME NEW S \in Some
      PROVE  f[S] = step[last[S]][f[rest(S)]]
  <2>1. Cardinality(S) <= Cardinality(X)
    BY FS_Subset
  <2> QED BY <1>5, <2>1
<1> QED BY <1>5, <1>6 DEF WalksOver
=============================================================================
