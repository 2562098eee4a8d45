-------------------------- MODULE ReDfaCacheProofs --------------------------
(***************************************************************************)
(* Theorems about ReDfaCache, for every automaton, text, cache size and    *)
(* number of threads.                                                      *)
(*                                                                         *)
(* Most of the inductive invariant is about one search at a time and does  *)
(* not look at the cache: Fine.  What ties searches to the cache they      *)
(* share is LockInv, NoDangling, KeptInv and CacheSound.                   *)
(***************************************************************************)
EXTENDS ReDfaCache, SequenceTheorems, FiniteSetTheorems, NaturalSets, TLAPS

(* The inductive invariant.                                                *)

Holders == readers \cup writer

\* One search holds the lock for writing and none for reading, or the other way.
LockInv ==
    /\ \A t, u \in writer : t = u
    /\ writer # {} => readers = {}
    /\ \A t \in Threads :
        /\ At(t, "idle") => t \notin Holders
        /\ At(t, "lock") => t \notin readers
        /\ srch[t].pc \notin {"idle", "lock"} => t \in Holders

\* lm is where the last match ends that shows in the first i bytes of query q.
LastSeen(q, i, lm) ==
    \/ lm = -1 /\ \A j \in 0..i : Run(q)[j] \notin Matching
    \/ \E k \in 0..i : /\ Run(q)[k] \in Matching /\ lm = EndOf(k)
                       /\ \A j \in 0..i : Run(q)[j] \in Matching => j <= k

\* Only fb leaves the state, if fb is a byte.
Leaves(st, fb) == fb \in Bytes => \A b \in Bytes : b # fb => Delta[<<st, b>>] = st

\* The search has read i bytes of its text.
Reached(r, i) ==
    /\ r.q \in Queries
    /\ r.s.st \in States /\ r.start.st \in States /\ r.start.st = StartOf[r.q.start]
    /\ ~r.partial =>
        /\ Leaves(r.start.st, r.firstbyte)
        /\ r.s.st = Run(r.q)[i] /\ LastSeen(r.q, i, r.lastmatch)
        /\ r.q.earliest => r.lastmatch = -1

\* It has read one byte more, but is still in the state before it.
Reading(r) ==
    \/ /\ r.todo = "byte" /\ r.p > 0 /\ r.c = r.q.text[r.p]
       /\ Reached(r, r.p - 1)
    \/ /\ r.todo = "last" /\ r.p = Len(r.q.text) /\ r.c = r.q.last
       /\ Reached(r, r.p)

\* It has nothing yet.
Starting(r) ==
    /\ r.q \in Queries /\ r.s = Nowhere /\ r.start = Nowhere
    /\ r.todo \in {"none", "analyze"} /\ r.p = 0 /\ r.lastmatch = -1

Right(r) ==
    /\ r.answer.failed => r.answer.why = "slow"
    /\ ~r.answer.failed /\ ~r.partial => r.answer = Reference(r.q)

Bounded(r) == r.p <= Len(r.q.text) /\ r.resetp <= Len(r.q.text) /\ r.lastmatch <= Len(r.q.text)

Fine(r) ==
    /\ r \in SearchParams /\ Bounded(r)
    /\ r.pc \in {"quick", "analyze", "take"} => Starting(r) /\ (r.pc = "quick" => r.todo = "none")
    /\ r.pc = "byte" => r.todo # "last" /\ Reached(r, r.p)
    /\ r.pc = "run" => Reading(r)
    /\ r.pc \in {"reset", "lock"} => IF r.todo = "analyze" THEN Starting(r) ELSE Reading(r)
    /\ r.pc = "end" => Right(r)

\* What a search has seen of the cache and counts on.
KeptInv ==
    \A t \in Threads :
        /\ At(t, "take") => start_[srch[t].q.start].firstbyte # Unknown
        /\ At(t, "analyze") /\ srch[t].todo = "analyze" => t \in writer /\ cache = Cleared /\ start_ = NoStart

StartInv ==
    \A k \in DOMAIN StartOf :
        /\ start_[k].firstbyte # Unknown => start_[k].start # Null
        /\ start_[k].start \in States /\ ~start_[k].partial => Leaves(start_[k].start, start_[k].firstbyte)

IInv == TypeOK /\ LockInv /\ NoDangling /\ CacheSound /\ StartInv /\ KeptInv /\ (\A t \in Threads : Fine(srch[t]))

-----------------------------------------------------------------------------
(* The run of the automaton.                                               *)

\* f is what the automaton does from state x on the first n bytes of in.
IsRun(f, in, x, n) == f = [i \in 0..n |-> IF i = 0 THEN x ELSE Follow(f[i - 1], in[i])]

\* There is such a function, although it is defined from its own values.
LEMMA RunExists ==
    ASSUME NEW in, NEW x, NEW N \in Nat
    PROVE  \E f : IsRun(f, in, x, N)
<1> DEFINE Solves(f, n) == IsRun(f, in, x, n)
           S == {n \in Nat : \E f : Solves(f, n)}
<1> USE DEF IsRun
<1>1. 0 \in S
  <2>1. Solves([i \in 0..0 |-> x], 0)
    OBVIOUS
  <2> QED BY <2>1
<1>2. ASSUME NEW n \in Nat, n \in S
      PROVE  n + 1 \in S
  <2>1. PICK f : Solves(f, n)
    BY <1>2
  <2> DEFINE g == [i \in 0..(n + 1) |-> IF i <= n THEN f[i] ELSE Follow(f[n], in[n + 1])]
  <2>2. ASSUME NEW i \in 0..(n + 1)
        PROVE  g[i] = IF i = 0 THEN x ELSE Follow(g[i - 1], in[i])
    <3>1. CASE i = 0
      BY <2>1, <3>1
    <3>2. CASE i \in 1..n
      <4>1. g[i] = f[i] /\ g[i - 1] = f[i - 1]
        BY <3>2
      <4>2. f[i] = Follow(f[i - 1], in[i])
        BY <2>1, <3>2
      <4> QED BY <3>2, <4>1, <4>2
    <3>3. CASE i = n + 1
      BY <3>3
    <3> QED BY <3>1, <3>2, <3>3
  <2>3. Solves(g, n + 1)
    BY <2>2
  <2> HIDE DEF g, Solves
  <2> QED BY <2>3
<1>3. N \in S
  <2> HIDE DEF S
  <2> QED BY <1>1, <1>2, SetInduction
<1> QED BY <1>3

\* What Run is, step by step.
LEMMA RunUnfolds ==
    ASSUME NEW q \in Queries
    PROVE  /\ Run(q)[0] = StartOf[q.start]
           /\ \A i \in 0..(Len(q.text) - 1) : Run(q)[i + 1] = Follow(Run(q)[i], q.text[i + 1])
           /\ Run(q)[Len(q.text) + 1] = Follow(Run(q)[Len(q.text)], q.last)
<1> DEFINE in == Append(q.text, q.last)
           n  == Len(q.text)
<1>1. n \in Nat /\ q.text \in Seq(Bytes)
  BY CacheAssumption
<1>2. Len(in) = n + 1 /\ in[n + 1] = q.last /\ \A i \in 1..n : in[i] = q.text[i]
  BY <1>1
<1>3. IsRun(Run(q), in, StartOf[q.start], n + 1)
  <2>1. \E f : IsRun(f, in, StartOf[q.start], n + 1)
    <3> HIDE DEF in
    <3>1. n + 1 \in Nat
      BY <1>1
    <3> QED BY <3>1, RunExists
  <2>2. Run(q) = CHOOSE f : IsRun(f, in, StartOf[q.start], n + 1)
    BY <1>2 DEF Run, IsRun
  <2> HIDE DEF in, n
  <2> QED BY <2>1, <2>2
<1> HIDE DEF in
<1>4. Run(q) = [i \in 0..(n + 1) |-> IF i = 0 THEN StartOf[q.start] ELSE Follow(Run(q)[i - 1], in[i])]
  BY <1>3 DEF IsRun
<1>5. Run(q)[0] = StartOf[q.start]
  BY <1>1, <1>4
<1>6. ASSUME NEW i \in 0..n
      PROVE  Run(q)[i + 1] = Follow(Run(q)[i], in[i + 1])
  BY <1>1, <1>4
<1>7. ASSUME NEW i \in 0..(n - 1)
      PROVE  Run(q)[i + 1] = Follow(Run(q)[i], q.text[i + 1])
  <2>1. i \in 0..n /\ i + 1 \in 1..n
    BY <1>1
  <2> QED BY <1>2, <1>6, <2>1
<1>8. Run(q)[n + 1] = Follow(Run(q)[n], q.last)
  <2>1. n \in 0..n
    BY <1>1
  <2> QED BY <1>2, <1>6, <2>1
<1> QED BY <1>5, <1>7, <1>8

LEMMA RunTyped ==
    ASSUME NEW q \in Queries, NEW i \in 0..(Len(q.text) + 1)
    PROVE  Run(q)[i] \in States \cup Special
<1> DEFINE n == Len(q.text)
           S == {k \in Nat : k <= n + 1 => Run(q)[k] \in States \cup Special}
<1>1. n \in Nat /\ q.text \in Seq(Bytes) /\ q.last \in Bytes \cup {EndText} /\ q.start \in DOMAIN StartOf
  BY CacheAssumption
<1>2. \A s \in States \cup Special, c \in Bytes \cup {EndText} : Follow(s, c) \in States \cup Special
  BY CacheAssumption DEF Follow
<1>3. 0 \in S
  BY <1>1, RunUnfolds, CacheAssumption
<1>4. ASSUME NEW k \in Nat, k \in S
      PROVE  k + 1 \in S
  <2> SUFFICES ASSUME k + 1 <= n + 1
               PROVE  Run(q)[k + 1] \in States \cup Special
    OBVIOUS
  <2>1. Run(q)[k] \in States \cup Special
    BY <1>1, <1>4
  <2>2. CASE k < n
    <3>1. q.text[k + 1] \in Bytes
      BY <1>1, <2>2
    <3>2. Run(q)[k + 1] = Follow(Run(q)[k], q.text[k + 1])
      <4>1. k \in 0..(Len(q.text) - 1)
        BY <1>1, <2>2
      <4> QED BY <4>1, RunUnfolds
    <3> QED BY <1>2, <2>1, <3>1, <3>2
  <2>3. CASE k = n
    BY <1>1, <1>2, <2>1, <2>3, RunUnfolds
  <2> QED BY <1>1, <2>2, <2>3
<1>5. i \in S
  <2> HIDE DEF S
  <2> QED BY <1>1, <1>3, <1>4, SetInduction
<1> QED BY <1>1, <1>5

\* A run that is in a special state stays there.
LEMMA RunStays ==
    ASSUME NEW q \in Queries, NEW i \in 0..(Len(q.text) + 1), Run(q)[i] \in Special,
           NEW j \in i..(Len(q.text) + 1)
    PROVE  Run(q)[j] = Run(q)[i]
<1> DEFINE n == Len(q.text)
           S == {k \in Nat : i + k <= n + 1 => Run(q)[i + k] = Run(q)[i]}
<1>1. n \in Nat
  BY CacheAssumption
<1>2. 0 \in S
  OBVIOUS
<1>3. ASSUME NEW k \in Nat, k \in S
      PROVE  k + 1 \in S
  <2> SUFFICES ASSUME i + k + 1 <= n + 1
               PROVE  Run(q)[i + k + 1] = Run(q)[i]
    BY <1>1
  <2>1. Run(q)[i + k] = Run(q)[i]
    BY <1>1, <1>3
  <2>2. CASE i + k < n
    <3>1. i + k \in 0..(Len(q.text) - 1)
      BY <1>1, <2>2
    <3>2. Run(q)[i + k + 1] = Follow(Run(q)[i + k], q.text[i + k + 1])
      BY <3>1, RunUnfolds
    <3> QED BY <2>1, <3>2 DEF Follow
  <2>3. CASE i + k = n
    BY <1>1, <2>1, <2>3, RunUnfolds DEF Follow
  <2> QED BY <1>1, <2>2, <2>3
<1>4. j - i \in S
  <2>1. j - i \in Nat
    BY <1>1
  <2> HIDE DEF S
  <2>2. Nat \subseteq S
    BY <1>2, <1>3, SetInduction
  <2> QED BY <2>1, <2>2
<1> QED BY <1>1, <1>4

\* A run stays in a state that only fb leaves as long as fb is not read.
LEMMA RunWaits ==
    ASSUME NEW q \in Queries, NEW fb \in Bytes, NEW i \in 0..Len(q.text), NEW k \in i..Len(q.text),
           Run(q)[i] \in States, Leaves(Run(q)[i], fb),
           \A j \in i..(k - 1) : q.text[j + 1] # fb,
           NEW j \in i..k
    PROVE  Run(q)[j] = Run(q)[i]
<1> DEFINE S == {m \in Nat : i + m <= k => Run(q)[i + m] = Run(q)[i]}
<1>1. Len(q.text) \in Nat /\ q.text \in Seq(Bytes)
  BY CacheAssumption
<1>2. 0 \in S
  OBVIOUS
<1>3. ASSUME NEW m \in Nat, m \in S
      PROVE  m + 1 \in S
  <2> SUFFICES ASSUME i + m + 1 <= k
               PROVE  Run(q)[i + m + 1] = Run(q)[i]
    BY <1>1
  <2>1. Run(q)[i + m] = Run(q)[i]
    BY <1>1, <1>3
  <2>2. i + m \in 0..(Len(q.text) - 1) /\ i + m \in i..(k - 1) /\ i + m + 1 \in 1..Len(q.text)
    BY <1>1
  <2>3. Run(q)[i + m + 1] = Follow(Run(q)[i + m], q.text[i + m + 1])
    BY <2>2, RunUnfolds
  <2>4. q.text[i + m + 1] \in Bytes \ {fb}
    BY <1>1, <2>2
  <2>5. Run(q)[i] \notin Special
    BY CacheAssumption
  <2> QED BY <2>1, <2>3, <2>4, <2>5 DEF Follow, Leaves
<1>4. j - i \in S
  <2> HIDE DEF S
  <2> QED BY <1>1, <1>2, <1>3, SetInduction
<1> QED BY <1>1, <1>4

-----------------------------------------------------------------------------
(* The answer, from a run that is known up to some byte.                   *)

Seen(q) == {i \in 0..(Len(q.text) + 1) : Run(q)[i] \in Matching}

First(q) == IF Seen(q) = {} THEN Len(q.text) + 1 ELSE Smallest(Seen(q))

LEMMA ReferenceIs ==
    ASSUME NEW q
    PROVE  Reference(q) =
             IF q.earliest /\ Run(q)[0] = Full THEN Answer(TRUE, 0)
             ELSE IF q.earliest /\ First(q) < Len(q.text) + 1 THEN Answer(TRUE, EndOf(First(q)))
             ELSE IF Run(q)[Len(q.text) + 1] = Full THEN Answer(TRUE, Len(q.text))
             ELSE IF Seen(q) = {} THEN Answer(FALSE, -1)
             ELSE Answer(TRUE, EndOf(Largest(Seen(q))))
  BY DEF Reference, First, Seen

LEMMA SmallestIs ==
    ASSUME NEW S, S \subseteq Nat, NEW x \in S, \A y \in S : x <= y
    PROVE  Smallest(S) = x
<1>1. Smallest(S) \in S /\ \A y \in S : Smallest(S) <= y
  BY DEF Smallest
<1>2. Smallest(S) \in Nat /\ x \in Nat
  BY <1>1
<1>3. x <= Smallest(S) /\ Smallest(S) <= x
  BY <1>1
<1> QED BY <1>2, <1>3

LEMMA LargestIs ==
    ASSUME NEW S, S \subseteq Nat, NEW x \in S, \A y \in S : y <= x
    PROVE  Largest(S) = x
<1>1. Largest(S) \in S /\ \A y \in S : y <= Largest(S)
  BY DEF Largest
<1>2. Largest(S) \in Nat /\ x \in Nat
  BY <1>1
<1>3. x <= Largest(S) /\ Largest(S) <= x
  BY <1>1
<1> QED BY <1>2, <1>3

LEMMA QueryTyped ==
    ASSUME NEW q \in Queries
    PROVE  /\ q.text \in Seq(Bytes) /\ Len(q.text) \in Nat /\ q.last \in Bytes \cup {EndText}
           /\ q.start \in DOMAIN StartOf /\ q.earliest \in BOOLEAN
           /\ Seen(q) \subseteq Nat /\ Matching \subseteq States /\ States \cap Special = {}
           /\ Dead # Full /\ Dead \in Special /\ Full \in Special
  BY CacheAssumption DEF Seen, Special, Dead, Full

\* A search that starts in a special state ends at once.
LEMMA SpecialStart ==
    ASSUME NEW q \in Queries
    PROVE  /\ StartOf[q.start] = Dead => Reference(q) = Answer(FALSE, -1)
           /\ StartOf[q.start] = Full => Reference(q) = Answer(TRUE, IF q.earliest THEN 0 ELSE Len(q.text))
<1> DEFINE n == Len(q.text)
<1> USE QueryTyped
<1>1. ASSUME StartOf[q.start] \in Special
      PROVE  Run(q)[0] = StartOf[q.start] /\ Run(q)[n + 1] = StartOf[q.start] /\ Seen(q) = {}
  <2>1. Run(q)[0] = StartOf[q.start]
    BY RunUnfolds
  <2>2. \A j \in 0..(n + 1) : Run(q)[j] = StartOf[q.start]
    BY <1>1, <2>1, RunStays
  <2> QED BY <1>1, <2>1, <2>2 DEF Seen
<1>2. CASE StartOf[q.start] = Dead
  <2>1. First(q) = n + 1 /\ ~(First(q) < n + 1)
    BY <1>1, <1>2 DEF First
  <2>2. Run(q)[0] # Full /\ Run(q)[n + 1] # Full /\ Seen(q) = {}
    BY <1>1, <1>2
  <2>3. Reference(q) = Answer(FALSE, -1)
    BY <2>1, <2>2, ReferenceIs
  <2> QED BY <1>2, <2>3
<1>3. CASE StartOf[q.start] = Full
  BY <1>1, <1>3, ReferenceIs DEF First
<1> QED BY <1>2, <1>3, QueryTyped

\* The state of a run that goes on was never special.
LEMMA NeverSpecial ==
    ASSUME NEW q \in Queries, NEW i \in 0..(Len(q.text) + 1), Run(q)[i] \in States
    PROVE  \A j \in 0..i : Run(q)[j] \in States
<1> SUFFICES ASSUME NEW j \in 0..i, Run(q)[j] \notin States
             PROVE  FALSE
  OBVIOUS
<1>1. j \in 0..(Len(q.text) + 1) /\ i \in j..(Len(q.text) + 1)
  BY QueryTyped
<1>2. Run(q)[j] \in Special
  BY <1>1, RunTyped
<1>3. Run(q)[i] = Run(q)[j]
  BY <1>1, <1>2, RunStays
<1> QED BY <1>2, <1>3, QueryTyped

\* The earliest match that shows before the last byte.
LEMMA EarliestMatch ==
    ASSUME NEW q \in Queries, q.earliest, NEW i \in 0..Len(q.text), Run(q)[i] \in Matching,
           \A j \in 0..(i - 1) : Run(q)[j] \notin Matching
    PROVE  Reference(q) = Answer(TRUE, EndOf(i))
<1> DEFINE n == Len(q.text)
<1> USE QueryTyped
<1>1. Run(q)[0] # Full
  <2>1. Run(q)[0] \in States
    BY NeverSpecial
  <2> QED BY <2>1
<1>2. i \in Seen(q) /\ \A y \in Seen(q) : i <= y
  BY DEF Seen
<1>3. First(q) = i
  BY <1>2, SmallestIs DEF First
<1>4. First(q) < n + 1
  BY <1>3
<1> QED BY <1>1, <1>3, <1>4, ReferenceIs, Zenon

\* Nothing has been seen early that would have ended a search for the earliest.
NotEarly(q, i) == q.earliest => \A j \in 0..i : Run(q)[j] \notin Matching

\* The search reaches FullMatchState.
LEMMA FullMatch ==
    ASSUME NEW q \in Queries, NEW i \in 0..Len(q.text), Run(q)[i] \in States, Run(q)[i + 1] = Full,
           NotEarly(q, i)
    PROVE  Reference(q) = Answer(TRUE, Len(q.text))
<1> DEFINE n == Len(q.text)
<1> USE QueryTyped
<1>1. Run(q)[0] # Full
  <2>1. Run(q)[0] \in States
    BY NeverSpecial
  <2> QED BY <2>1
<1>2. \A j \in (i + 1)..(n + 1) : Run(q)[j] = Full
  BY RunStays
<1>3. q.earliest => Seen(q) = {}
  BY <1>2 DEF Seen, NotEarly
<1>4. Run(q)[n + 1] = Full
  BY <1>2
<1>5. q.earliest => ~(First(q) < n + 1)
  BY <1>3 DEF First
<1> QED BY <1>1, <1>4, <1>5, ReferenceIs

\* The last byte triggers a match.
LEMMA MatchAtEnd ==
    ASSUME NEW q \in Queries, Run(q)[Len(q.text) + 1] \in Matching, NotEarly(q, Len(q.text))
    PROVE  Reference(q) = Answer(TRUE, Len(q.text))
<1> DEFINE n == Len(q.text)
<1> USE QueryTyped
<1>1. Run(q)[0] # Full
  <2>1. Run(q)[0] \in States
    BY NeverSpecial
  <2> QED BY <2>1
<1>2. n + 1 \in Seen(q) /\ \A y \in Seen(q) : y <= n + 1
  BY DEF Seen
<1>3. Largest(Seen(q)) = n + 1 /\ EndOf(n + 1) = n
  BY <1>2, LargestIs DEF EndOf
<1>4. q.earliest => First(q) = n + 1
  <2> SUFFICES ASSUME q.earliest PROVE First(q) = n + 1
    OBVIOUS
  <2>1. \A y \in Seen(q) : n + 1 <= y
    BY DEF Seen, NotEarly
  <2> QED BY <1>2, <2>1, SmallestIs DEF First
<1>5. Run(q)[n + 1] # Full
  OBVIOUS
<1> QED BY <1>1, <1>2, <1>3, <1>4, <1>5, ReferenceIs

\* Nothing is found after the last match the search has seen.
LEMMA NoMoreMatch ==
    ASSUME NEW q \in Queries, NEW i \in 0..Len(q.text), Run(q)[i] \in States, NEW lm, LastSeen(q, i, lm),
           q.earliest => lm = -1,
           \A j \in (i + 1)..(Len(q.text) + 1) : Run(q)[j] \notin Matching,
           Run(q)[Len(q.text) + 1] # Full
    PROVE  Reference(q) = Answer(lm >= 0, lm)
<1> DEFINE n == Len(q.text)
<1> USE QueryTyped
<1>1. Run(q)[0] # Full
  <2>1. Run(q)[0] \in States
    BY NeverSpecial
  <2> QED BY <2>1
<1>2. CASE lm = -1 /\ \A j \in 0..i : Run(q)[j] \notin Matching
  <2>1. Seen(q) = {}
    BY <1>2 DEF Seen
  <2>2. ~(First(q) < n + 1)
    BY <2>1 DEF First
  <2>3. Reference(q) = Answer(FALSE, -1)
    BY <1>1, <2>1, <2>2, ReferenceIs
  <2>4. (lm >= 0) = FALSE
    BY <1>2
  <2>5. Answer(lm >= 0, lm) = Answer(FALSE, -1)
    BY <1>2, <2>4, Zenon
  <2> QED BY <2>3, <2>5
<1>3. ASSUME NEW k \in 0..i, Run(q)[k] \in Matching, lm = EndOf(k),
             \A j \in 0..i : Run(q)[j] \in Matching => j <= k
      PROVE  Reference(q) = Answer(lm >= 0, lm)
  <2>1. k \in Seen(q) /\ \A y \in Seen(q) : y <= k
    BY <1>3 DEF Seen
  <2>2. Largest(Seen(q)) = k
    BY <2>1, LargestIs
  <2>3. lm >= 0 /\ ~q.earliest
    BY <1>3 DEF EndOf
  <2> QED BY <1>1, <1>3, <2>1, <2>2, <2>3, ReferenceIs
<1> QED BY <1>2, <1>3 DEF LastSeen

\* LastSeen, when one byte more has been read.
LEMMA LastSeenNext ==
    ASSUME NEW q \in Queries, NEW i \in 0..(Len(q.text) - 1), NEW lm, LastSeen(q, i, lm)
    PROVE  /\ Run(q)[i + 1] \notin Matching => LastSeen(q, i + 1, lm)
           /\ Run(q)[i + 1] \in Matching => LastSeen(q, i + 1, i)
<1>1. i \in Nat /\ \A j \in 0..(i + 1) : j \in 0..i \/ j = i + 1
  BY QueryTyped
<1>2. ASSUME Run(q)[i + 1] \notin Matching
      PROVE  LastSeen(q, i + 1, lm)
  <2>1. CASE lm = -1 /\ \A j \in 0..i : Run(q)[j] \notin Matching
    BY <1>1, <1>2, <2>1 DEF LastSeen
  <2>2. ASSUME NEW k \in 0..i, Run(q)[k] \in Matching, lm = EndOf(k),
               \A j \in 0..i : Run(q)[j] \in Matching => j <= k
        PROVE  LastSeen(q, i + 1, lm)
    <3>1. k \in 0..(i + 1)
      BY <1>1
    <3> QED BY <1>1, <1>2, <2>2, <3>1 DEF LastSeen
  <2> QED BY <2>1, <2>2 DEF LastSeen
<1>3. ASSUME Run(q)[i + 1] \in Matching
      PROVE  LastSeen(q, i + 1, i)
  <2>1. i = EndOf(i + 1) /\ i + 1 \in 0..(i + 1) /\ \A j \in 0..(i + 1) : j <= i + 1
    BY <1>1 DEF EndOf
  <2> QED BY <1>3, <2>1 DEF LastSeen
<1> QED BY <1>2, <1>3

-----------------------------------------------------------------------------
(* What a step makes of the search it is a step of.                        *)

\* e is r but for its place, state, last match and answer.
SameSearch(e, r) ==
    /\ e \in SearchParams
    /\ e.q = r.q /\ e.start = r.start /\ e.firstbyte = r.firstbyte /\ e.partial = r.partial
    /\ e.p = r.p /\ e.resetp = r.resetp /\ e.c = r.c /\ e.todo = r.todo

LEMMA AnswerTyped ==
    ASSUME NEW ret \in BOOLEAN, NEW ep \in Nat \cup {-1}
    PROVE  Answer(ret, ep) \in [failed : BOOLEAN, ret : BOOLEAN, ep : Nat \cup {-1}, why : Reasons]
  BY DEF Answer, Reasons

LEMMA EndedIs ==
    ASSUME NEW r \in SearchParams, NEW ret \in BOOLEAN, NEW ep \in Nat \cup {-1}
    PROVE  /\ SameSearch(Ended(r, ret, ep), r)
           /\ Ended(r, ret, ep).s = r.s /\ Ended(r, ret, ep).lastmatch = r.lastmatch
           /\ Ended(r, ret, ep).pc = "end" /\ Ended(r, ret, ep).answer = Answer(ret, ep)
<1> DEFINE a == Answer(ret, ep)
<1>1. a \in [failed : BOOLEAN, ret : BOOLEAN, ep : Nat \cup {-1}, why : Reasons]
  BY AnswerTyped
<1>2. Ended(r, ret, ep) = [r EXCEPT !.pc = "end", !.answer = a]
  BY DEF Ended
<1> HIDE DEF a
<1>3. [r EXCEPT !.pc = "end", !.answer = a] \in SearchParams
  BY <1>1 DEF SearchParams
<1>4. SameSearch([r EXCEPT !.pc = "end", !.answer = a], r)
  BY <1>1, <1>3 DEF SearchParams, SameSearch
<1>5. /\ [r EXCEPT !.pc = "end", !.answer = a].s = r.s
      /\ [r EXCEPT !.pc = "end", !.answer = a].lastmatch = r.lastmatch
      /\ [r EXCEPT !.pc = "end", !.answer = a].pc = "end"
      /\ [r EXCEPT !.pc = "end", !.answer = a].answer = a
  BY <1>1 DEF SearchParams
<1> QED BY <1>2, <1>4, <1>5 DEF a

LEMMA GaveUpIs ==
    ASSUME NEW r \in SearchParams, NEW why \in Reasons
    PROVE  /\ SameSearch(GaveUp(r, why), r)
           /\ GaveUp(r, why).s = r.s /\ GaveUp(r, why).lastmatch = r.lastmatch
           /\ GaveUp(r, why).pc = "end" /\ GaveUp(r, why).answer.failed /\ GaveUp(r, why).answer.why = why
<1> DEFINE a == [failed |-> TRUE, ret |-> FALSE, ep |-> -1, why |-> why]
<1>1. a \in [failed : BOOLEAN, ret : BOOLEAN, ep : Nat \cup {-1}, why : Reasons] /\ a.failed /\ a.why = why
  OBVIOUS
<1>2. GaveUp(r, why) = [r EXCEPT !.pc = "end", !.answer = a]
  BY DEF GaveUp
<1> HIDE DEF a
<1>3. [r EXCEPT !.pc = "end", !.answer = a] \in SearchParams
  BY <1>1 DEF SearchParams
<1>4. SameSearch([r EXCEPT !.pc = "end", !.answer = a], r)
  BY <1>1, <1>3 DEF SearchParams, SameSearch
<1>5. /\ [r EXCEPT !.pc = "end", !.answer = a].s = r.s
      /\ [r EXCEPT !.pc = "end", !.answer = a].lastmatch = r.lastmatch
      /\ [r EXCEPT !.pc = "end", !.answer = a].pc = "end"
      /\ [r EXCEPT !.pc = "end", !.answer = a].answer = a
  BY <1>1 DEF SearchParams
<1> QED BY <1>1, <1>2, <1>4, <1>5

\* The state it enters counts as a match or not.
EntersAs(e, r, s, lm) ==
    /\ SameSearch(e, r) /\ e.s = Ptr(s)
    /\ s \notin Matching => e.pc = "byte" /\ e.lastmatch = r.lastmatch
    /\ s \in Matching => /\ e.lastmatch = lm
                         /\ IF r.q.earliest THEN e.pc = "end" /\ e.answer = Answer(TRUE, lm) ELSE e.pc = "byte"

LEMMA EnteredIs ==
    ASSUME NEW r \in SearchParams, NEW s \in States, NEW lm \in Nat
    PROVE  EntersAs(Entered(r, s, lm), r, s, lm)
<1> DEFINE n == [r EXCEPT !.s = Ptr(s), !.pc = "byte"]
           m == [n EXCEPT !.lastmatch = lm]
<1>1. Ptr(s) \in Pointer
  BY DEF Ptr, Pointer
<1>2. n \in SearchParams
  BY <1>1 DEF SearchParams
<1>3. SameSearch(n, r) /\ n.s = Ptr(s) /\ n.pc = "byte" /\ n.lastmatch = r.lastmatch
  BY <1>1, <1>2 DEF SearchParams, SameSearch
<1> HIDE DEF n
<1>4. m \in SearchParams
  BY <1>2 DEF SearchParams
<1>5. SameSearch(m, n) /\ m.s = n.s /\ m.pc = n.pc /\ m.lastmatch = lm
  BY <1>2, <1>4 DEF SearchParams, SameSearch
<1> HIDE DEF m
<1>6. SameSearch(m, r) /\ m.s = Ptr(s) /\ m.pc = "byte"
  BY <1>3, <1>5 DEF SameSearch
<1>7. CASE s \notin Matching
  BY <1>3, <1>7 DEF Entered, EntersAs, n
<1>8. CASE s \in Matching /\ ~r.q.earliest
  <2>1. Entered(r, s, lm) = m
    BY <1>8 DEF Entered, n, m
  <2> QED BY <1>5, <1>6, <1>8, <2>1 DEF EntersAs
<1>9. CASE s \in Matching /\ r.q.earliest
  <2>1. Entered(r, s, lm) = Ended(m, TRUE, lm)
    BY <1>9 DEF Entered, n, m
  <2>2. SameSearch(Ended(m, TRUE, lm), m) /\ Ended(m, TRUE, lm).s = m.s /\ Ended(m, TRUE, lm).lastmatch = m.lastmatch
        /\ Ended(m, TRUE, lm).pc = "end" /\ Ended(m, TRUE, lm).answer = Answer(TRUE, lm)
    BY <1>4, EndedIs
  <2>3. SameSearch(Ended(m, TRUE, lm), r)
    BY <1>6, <2>2 DEF SameSearch
  <2> QED BY <1>5, <1>6, <1>9, <2>1, <2>2, <2>3 DEF EntersAs
<1> QED BY <1>7, <1>8, <1>9

\* The search r is about to leave the state it is in after i bytes.
ReadsAfter(r, i) ==
    /\ r \in SearchParams /\ Bounded(r) /\ r.q \in Queries /\ Reached(r, i)
    /\ \/ r.todo = "byte" /\ i < Len(r.q.text) /\ r.p = i + 1 /\ r.c = r.q.text[i + 1]
       \/ r.todo = "last" /\ i = Len(r.q.text) /\ r.p = i /\ r.c = r.q.last

LEMMA ReadingIs ==
    ASSUME NEW r \in SearchParams, Bounded(r), Reading(r)
    PROVE  \E i \in Nat : ReadsAfter(r, i)
<1>1. r.q \in Queries /\ r.p \in Nat /\ Len(r.q.text) \in Nat
  <2>1. r.q \in Queries /\ r.p \in Nat
    BY DEF Reading, Reached, SearchParams
  <2> QED BY <2>1, QueryTyped
<1>2. CASE r.todo = "byte"
  <2>1. r.p - 1 \in Nat /\ r.p - 1 < Len(r.q.text) /\ r.p = (r.p - 1) + 1
    BY <1>1, <1>2 DEF Reading, Bounded
  <2>2. r.c = r.q.text[(r.p - 1) + 1]
    BY <1>2, <2>1 DEF Reading
  <2>3. ReadsAfter(r, r.p - 1)
    BY <1>1, <1>2, <2>1, <2>2 DEF Reading, ReadsAfter
  <2> QED BY <2>1, <2>3
<1>3. CASE r.todo = "last"
  <2>1. ReadsAfter(r, r.p)
    BY <1>1, <1>3 DEF Reading, ReadsAfter
  <2> QED BY <1>1, <2>1
<1> QED BY <1>2, <1>3 DEF Reading

LEMMA ReadsTyped ==
    ASSUME NEW r, NEW i \in Nat, ReadsAfter(r, i)
    PROVE  /\ r.s.st \in States /\ r.c \in Bytes \cup {EndText} /\ Delta[<<r.s.st, r.c>>] \in States \cup Special
           /\ r.lastmatch \in Nat \cup {-1} /\ r.partial \in BOOLEAN /\ r.q.earliest \in BOOLEAN
           /\ i \in 0..Len(r.q.text) /\ r.p \in 0..Len(r.q.text)
<1>1. r.q \in Queries /\ Len(r.q.text) \in Nat /\ r.q.earliest \in BOOLEAN
  BY QueryTyped DEF ReadsAfter
<1>2. r.s.st \in States /\ r.c \in Bytes \cup {EndText} /\ r.lastmatch \in Nat \cup {-1} /\ r.partial \in BOOLEAN
  BY DEF ReadsAfter, Reached, SearchParams
<1>3. Delta[<<r.s.st, r.c>>] \in States \cup Special
  BY <1>2, CacheAssumption
<1>4. i \in 0..Len(r.q.text) /\ r.p \in 0..Len(r.q.text)
  BY <1>1 DEF ReadsAfter
<1> QED BY <1>1, <1>2, <1>3, <1>4

\* Where it is on the run, and what comes next.
LEMMA ReadsOnRun ==
    ASSUME NEW r, NEW i \in Nat, ReadsAfter(r, i), ~r.partial
    PROVE  /\ Run(r.q)[i] = r.s.st /\ Run(r.q)[i] \in States /\ Run(r.q)[i + 1] = Delta[<<r.s.st, r.c>>]
           /\ LastSeen(r.q, i, r.lastmatch) /\ (r.q.earliest => r.lastmatch = -1) /\ NotEarly(r.q, i)
<1>1. /\ r.q \in Queries /\ Run(r.q)[i] = r.s.st /\ r.s.st \in States
      /\ LastSeen(r.q, i, r.lastmatch) /\ (r.q.earliest => r.lastmatch = -1)
  BY DEF ReadsAfter, Reached
<1>2. Len(r.q.text) \in Nat /\ r.s.st \notin Special
  BY <1>1, QueryTyped
<1>3. Run(r.q)[i + 1] = Follow(Run(r.q)[i], r.c)
  <2>1. CASE i < Len(r.q.text) /\ r.c = r.q.text[i + 1]
    <3>1. i \in 0..(Len(r.q.text) - 1)
      BY <1>2, <2>1
    <3> QED BY <1>1, <2>1, <3>1, RunUnfolds
  <2>2. CASE i = Len(r.q.text) /\ r.c = r.q.last
    BY <1>1, <2>2, RunUnfolds
  <2> QED BY <2>1, <2>2 DEF ReadsAfter
<1>4. Follow(Run(r.q)[i], r.c) = Delta[<<r.s.st, r.c>>]
  BY <1>1, <1>2 DEF Follow
<1>5. NotEarly(r.q, i)
  <2> SUFFICES ASSUME r.q.earliest
               PROVE  \A j \in 0..i : Run(r.q)[j] \notin Matching
    BY DEF NotEarly
  <2>1. r.lastmatch = -1
    BY <1>1
  <2>2. \A k \in 0..i : EndOf(k) # -1
    BY DEF EndOf
  <2> QED BY <1>1, <2>1, <2>2 DEF LastSeen
<1> QED BY <1>1, <1>3, <1>4, <1>5

\* A search that ends with the right answer is fine.
LEMMA EndsFine ==
    ASSUME NEW r \in SearchParams, Bounded(r), NEW ret \in BOOLEAN, NEW ep \in Nat \cup {-1},
           ~r.partial => Reference(r.q) = Answer(ret, ep)
    PROVE  Fine(Ended(r, ret, ep))
<1> DEFINE e == Ended(r, ret, ep)
<1>1. SameSearch(e, r) /\ e.s = r.s /\ e.lastmatch = r.lastmatch /\ e.pc = "end" /\ e.answer = Answer(ret, ep)
  BY EndedIs
<1> HIDE DEF e
<1>2. ~e.answer.failed
  BY <1>1 DEF Answer
<1>3. Right(e)
  BY <1>1, <1>2 DEF Right, SameSearch
<1>4. Bounded(e)
  BY <1>1 DEF Bounded, SameSearch
<1>5. Fine(e)
  BY <1>1, <1>3, <1>4 DEF Fine, SameSearch
<1> QED BY <1>5 DEF e

LEMMA GivesUpFine ==
    ASSUME NEW r \in SearchParams, Bounded(r)
    PROVE  Fine(GaveUp(r, "slow"))
<1> DEFINE e == GaveUp(r, "slow")
<1>1. SameSearch(e, r) /\ e.lastmatch = r.lastmatch /\ e.pc = "end" /\ e.answer.failed /\ e.answer.why = "slow"
  <2>1. "slow" \in Reasons
    BY DEF Reasons
  <2> QED BY <2>1, GaveUpIs
<1> HIDE DEF e
<1>2. Fine(e)
  BY <1>1 DEF Fine, SameSearch, Right, Bounded
<1> QED BY <1>2 DEF e

\* It ends with the last match seen, and there is none to come.
LEMMA LastMatchFine ==
    ASSUME NEW r, NEW i \in Nat, ReadsAfter(r, i),
           ~r.partial => /\ \A j \in (i + 1)..(Len(r.q.text) + 1) : Run(r.q)[j] \notin Matching
                         /\ Run(r.q)[Len(r.q.text) + 1] # Full
    PROVE  Fine(LastMatch(r))
<1>1. ~r.partial => Reference(r.q) = Answer(r.lastmatch >= 0, r.lastmatch)
  <2>1. r.q \in Queries /\ i \in 0..Len(r.q.text)
    BY ReadsTyped DEF ReadsAfter
  <2> QED BY <2>1, ReadsOnRun, NoMoreMatch
<1>2. r \in SearchParams /\ Bounded(r) /\ r.lastmatch \in Nat \cup {-1}
  BY ReadsTyped DEF ReadsAfter
<1>3. (r.lastmatch >= 0) \in BOOLEAN
  OBVIOUS
<1> DEFINE ret == r.lastmatch >= 0
<1> HIDE DEF ret
<1>4. Fine(Ended(r, ret, r.lastmatch))
  BY <1>1, <1>2, <1>3, EndsFine DEF ret
<1> QED BY <1>4 DEF LastMatch, ret

\* What follows keeps of the search, and the state it is in.
StaysOrEnters(e, r, ns) ==
    /\ SameSearch(e, r) /\ e.pc \in {"byte", "end"}
    /\ e.s = r.s \/ (ns \in States /\ e.s = Ptr(ns))

\* A byte leads on to ns: what is found is right.
LEMMA FollowedFine ==
    ASSUME NEW r, NEW i \in Nat, ReadsAfter(r, i)
    PROVE  Fine(Followed(r, Delta[<<r.s.st, r.c>>])) /\ StaysOrEnters(Followed(r, Delta[<<r.s.st, r.c>>]), r, Delta[<<r.s.st, r.c>>])
<1> DEFINE n  == Len(r.q.text)
           ns == Delta[<<r.s.st, r.c>>]
<1>1. /\ r \in SearchParams /\ Bounded(r) /\ r.q \in Queries /\ n \in Nat /\ i <= n /\ ns \in States \cup Special
      /\ r.p \in 0..n /\ r.todo \in {"byte", "last"} /\ r.partial \in BOOLEAN
  <2>1. r \in SearchParams /\ Bounded(r) /\ r.q \in Queries /\ r.todo \in {"byte", "last"}
    BY DEF ReadsAfter
  <2>2. ns \in States \cup Special /\ r.partial \in BOOLEAN /\ i \in 0..n /\ r.p \in 0..n
    BY ReadsTyped
  <2>3. n \in Nat
    BY <2>1, QueryTyped
  <2> HIDE DEF ns, n
  <2> QED BY <2>1, <2>2, <2>3
<1>2. ~r.partial => /\ Run(r.q)[i] = r.s.st /\ Run(r.q)[i] \in States /\ Run(r.q)[i + 1] = ns
                    /\ LastSeen(r.q, i, r.lastmatch) /\ (r.q.earliest => r.lastmatch = -1) /\ NotEarly(r.q, i)
  BY ReadsOnRun
<1>3. ns \in States => ns # Full /\ ns # Dead
  BY <1>1, QueryTyped
<1>4. Full # Dead /\ Dead \notin Matching /\ Full \notin Matching
  BY <1>1, QueryTyped
<1> HIDE DEF ns
<1>5. ASSUME NEW ret \in BOOLEAN, NEW ep \in Nat \cup {-1}, Followed(r, ns) = Ended(r, ret, ep)
      PROVE  StaysOrEnters(Followed(r, ns), r, ns)
  BY <1>1, <1>5, EndedIs DEF StaysOrEnters
<1>6. ASSUME Followed(r, ns) = LastMatch(r)
      PROVE  StaysOrEnters(Followed(r, ns), r, ns)
  <2>1. r.lastmatch \in Nat \cup {-1}
    BY ReadsTyped
  <2>2. (r.lastmatch >= 0) \in BOOLEAN
    OBVIOUS
  <2> QED BY <1>5, <1>6, <2>1, <2>2 DEF LastMatch
<1>7. CASE ns = Full
  <2>1. Followed(r, ns) = Ended(r, TRUE, n)
    BY <1>1, <1>4, <1>7 DEF Followed
  <2>2. ~r.partial => Reference(r.q) = Answer(TRUE, n)
    <3>1. i \in 0..n
      BY <1>1
    <3> QED BY <1>1, <1>2, <1>7, <3>1, FullMatch
  <2> QED BY <1>1, <1>5, <2>1, <2>2, EndsFine DEF ns
<1>8. CASE ns = Dead
  <2>1. Followed(r, ns) = LastMatch(r)
    BY <1>1, <1>4, <1>8 DEF Followed
  <2>2. ~r.partial => \A j \in (i + 1)..(n + 1) : Run(r.q)[j] = Dead
    <3>1. i + 1 \in 0..(n + 1) /\ Dead \in Special
      BY <1>1, QueryTyped
    <3> QED BY <1>1, <1>2, <1>8, <3>1, RunStays
  <2>3. ~r.partial => /\ \A j \in (i + 1)..(n + 1) : Run(r.q)[j] \notin Matching
                      /\ Run(r.q)[n + 1] # Full
    <3>1. Dead \notin Matching /\ n + 1 \in (i + 1)..(n + 1)
      BY <1>1, QueryTyped
    <3> QED BY <1>4, <2>2, <3>1
  <2>4. Fine(LastMatch(r))
    BY <2>3, LastMatchFine
  <2> QED BY <1>6, <2>1, <2>4 DEF ns
<1>9. CASE ns \in States /\ r.todo = "last"
  <2>1. i = n /\ r.p = n
    BY <1>9 DEF ReadsAfter
  <2>2. CASE ns \in Matching
    <3>1. Followed(r, ns) = Ended(r, TRUE, n)
      BY <1>3, <1>9, <2>1, <2>2 DEF Followed
    <3>2. ~r.partial => Reference(r.q) = Answer(TRUE, n)
      BY <1>1, <1>2, <2>1, <2>2, MatchAtEnd
    <3> QED BY <1>1, <1>5, <3>1, <3>2, EndsFine DEF ns
  <2>3. CASE ns \notin Matching
    <3>1. Followed(r, ns) = LastMatch(r)
      BY <1>3, <1>9, <2>3 DEF Followed
    <3>2. ~r.partial => /\ \A j \in (i + 1)..(n + 1) : Run(r.q)[j] \notin Matching
                        /\ Run(r.q)[n + 1] # Full
      BY <1>1, <1>2, <1>3, <1>9, <2>1, <2>3
    <3>3. Fine(LastMatch(r))
      BY <3>2, LastMatchFine
    <3> QED BY <1>6, <3>1, <3>3 DEF ns
  <2> QED BY <2>2, <2>3
<1>10. CASE ns \in States /\ r.todo = "byte"
  <2>1. i < n /\ r.p = i + 1 /\ r.p - 1 = i /\ Reached(r, i)
    BY <1>10 DEF ReadsAfter
  <2> DEFINE e == Followed(r, ns)
  <2>2. EntersAs(e, r, ns, i)
    <3>1. e = Entered(r, ns, i)
      BY <1>3, <1>10, <2>1 DEF Followed
    <3> QED BY <1>1, <1>10, <3>1, EnteredIs
  <2> HIDE DEF e
  <2>3. /\ SameSearch(e, r) /\ e.s = Ptr(ns) /\ e.s.st = ns /\ e.pc \in {"byte", "end"}
        /\ Bounded(e) /\ e \in SearchParams /\ e.todo = "byte" /\ e.q = r.q
    <3>1. SameSearch(e, r) /\ e.s = Ptr(ns) /\ e.pc \in {"byte", "end"}
      BY <2>2 DEF EntersAs
    <3>2. e.lastmatch \in {r.lastmatch, i}
      BY <2>2 DEF EntersAs
    <3> QED BY <1>1, <1>10, <2>1, <3>1, <3>2 DEF SameSearch, Bounded, Ptr
  <2>4. CASE e.pc = "byte"
    <3>1. ~r.partial => LastSeen(r.q, i + 1, e.lastmatch) /\ (r.q.earliest => e.lastmatch = -1)
      <4>1. i \in 0..(n - 1)
        BY <1>1, <2>1
      <4>2. ~r.partial => /\ ns \notin Matching => LastSeen(r.q, i + 1, r.lastmatch)
                          /\ ns \in Matching => LastSeen(r.q, i + 1, i)
        BY <1>1, <1>2, <4>1, LastSeenNext
      <4> QED BY <1>2, <2>2, <2>4, <4>2 DEF EntersAs
    <3>2. Reached(e, e.p)
      <4>1. e.q \in Queries /\ e.s.st \in States /\ e.start.st \in States /\ e.start.st = StartOf[e.q.start]
        BY <1>1, <1>10, <2>1, <2>3 DEF Reached, SameSearch
      <4>2. ~e.partial => Leaves(e.start.st, e.firstbyte)
        BY <2>1, <2>3 DEF Reached, SameSearch
      <4>3. e.p = i + 1 /\ e.partial = r.partial
        BY <2>1, <2>3 DEF SameSearch
      <4> QED BY <1>2, <2>3, <3>1, <4>1, <4>2, <4>3 DEF Reached
    <3>3. Fine(e)
      BY <2>3, <2>4, <3>2 DEF Fine
    <3> QED BY <1>10, <2>3, <3>3 DEF e, ns, StaysOrEnters
  <2>5. CASE e.pc = "end"
    <3>1. ns \in Matching /\ r.q.earliest /\ e.answer = Answer(TRUE, i)
      BY <1>10, <2>2, <2>5 DEF EntersAs
    <3>2. EndOf(i + 1) = i
      BY DEF EndOf
    <3>3. ~r.partial => Reference(r.q) = Answer(TRUE, i)
      <4>1. i + 1 \in 0..n
        BY <1>1, <2>1
      <4>2. ~r.partial => \A j \in 0..((i + 1) - 1) : Run(r.q)[j] \notin Matching
        BY <1>2, <3>1 DEF NotEarly
      <4> QED BY <1>1, <1>2, <3>1, <3>2, <4>1, <4>2, EarliestMatch
    <3>4. ~e.answer.failed
      BY <3>1 DEF Answer
    <3>5. Right(e)
      BY <2>3, <3>1, <3>3, <3>4 DEF Right, SameSearch
    <3>6. Fine(e)
      BY <2>3, <2>5, <3>5 DEF Fine
    <3> QED BY <1>10, <2>3, <3>6 DEF e, ns, StaysOrEnters
  <2> QED BY <2>3, <2>4, <2>5
<1> QED BY <1>1, <1>7, <1>8, <1>9, <1>10 DEF Special, ns

-----------------------------------------------------------------------------
(* What is done to the cache.                                              *)

\* The arrows from the states there are lead where the automaton goes, to such states.
Closed(m) ==
    \A s \in States, c \in Bytes \cup {EndText} :
        m.next[<<s, c>>] # Null =>
            s \in m.states /\ m.next[<<s, c>>] = Delta[<<s, c>>] /\ Delta[<<s, c>>] \in m.states \cup Special

Sound(m) == m \in Cache /\ Closed(m) /\ m.budget \in {-1, Capacity - Cardinality(m.states)}

LEMMA ConstantsTyped ==
    /\ Capacity \in Nat /\ Capacity >= 3 /\ MaxByte \in Nat /\ IsFiniteSet(States)
    /\ Null \notin States /\ Null \notin Special /\ Matching \subseteq States
    /\ \A s \in States : s \notin Special
  BY CacheAssumption DEF Null, Special, Dead, Full

LEMMA DeltaTyped == ASSUME NEW s \in States, NEW c \in Bytes \cup {EndText} PROVE Delta[<<s, c>>] \in States \cup Special
  BY CacheAssumption

LEMMA StartTyped ==
    ASSUME NEW k \in DOMAIN StartOf
    PROVE  StartOf[k] \in States \cup Special /\ StartOf[k] \notin Matching
  BY CacheAssumption

LEMMA ClearedIs == Sound(Cleared) /\ Cleared.budget = Capacity
<1>1. Cleared \in Cache
  BY ConstantsTyped DEF Cleared, Cache
<1>2. \A s \in States, c \in Bytes \cup {EndText} : Cleared.next[<<s, c>>] = Null
  BY DEF Cleared
<1>3. Cleared.states = {} /\ Cleared.budget = Capacity /\ Cardinality({}) = 0
  BY FS_EmptySet DEF Cleared
<1>4. Cleared.budget = Capacity - Cardinality(Cleared.states)
  BY <1>3, ConstantsTyped
<1>5. Closed(Cleared)
  BY <1>2 DEF Closed
<1> QED BY <1>1, <1>3, <1>4, <1>5 DEF Sound

\* A state is found or made, or there is no memory for it.
LEMMA CachedStateIs ==
    ASSUME NEW m, Sound(m), NEW s \in States \cup Special
    PROVE  LET r == CachedState(m, s) IN
           /\ Sound(r.m) /\ m.states \subseteq r.m.states
           /\ r.m.next = m.next
           /\ r.st = Null \/ (r.st = s /\ s \in r.m.states \cup Special)
           /\ m.budget >= 1 => r.st = s /\ r.m.budget >= m.budget - 1
<1>1. m \in Cache /\ m.states \subseteq States /\ m.budget \in -1..Capacity /\ IsFiniteSet(m.states)
      /\ m.budget \in {-1, Capacity - Cardinality(m.states)} /\ Cardinality(m.states) \in Nat
  <2>1. m \in Cache /\ m.states \subseteq States /\ m.budget \in -1..Capacity
        /\ m.budget \in {-1, Capacity - Cardinality(m.states)}
    BY DEF Sound, Cache
  <2> QED BY <2>1, ConstantsTyped, FS_Subset, FS_CardinalityType
<1>2. CASE s \in Special \/ s \in m.states
  <2>1. CachedState(m, s) = [m |-> m, st |-> s]
    BY <1>2 DEF CachedState
  <2> QED BY <1>1, <1>2, <2>1
<1>3. CASE ~(s \in Special \/ s \in m.states) /\ m.budget < 1
  <2> DEFINE e == [m EXCEPT !.budget = -1]
  <2>1. CachedState(m, s) = [m |-> e, st |-> Null]
    BY <1>3 DEF CachedState
  <2>2. e \in Cache /\ e.states = m.states /\ e.next = m.next /\ e.budget = -1
    BY <1>1, ConstantsTyped DEF Cache
  <2> HIDE DEF e
  <2>3. Sound(e)
    BY <2>2 DEF Sound, Closed
  <2> QED BY <1>1, <1>3, <2>1, <2>2, <2>3
<1>4. CASE ~(s \in Special \/ s \in m.states) /\ ~(m.budget < 1)
  <2> DEFINE e == [m EXCEPT !.states = @ \cup {s}, !.budget = @ - 1]
  <2>1. CachedState(m, s) = [m |-> e, st |-> s]
    BY <1>4 DEF CachedState
  <2>2. e \in Cache /\ e.states = m.states \cup {s} /\ e.next = m.next /\ e.budget = m.budget - 1
    <3>1. m.states \cup {s} \in SUBSET States /\ m.budget - 1 \in -1..Capacity
      BY <1>1, <1>4, ConstantsTyped
    <3> QED BY <1>1, <3>1 DEF Cache
  <2> HIDE DEF e
  <2>3. Cardinality(e.states) = Cardinality(m.states) + 1
    <3>1. IsFiniteSet(m.states) /\ s \notin m.states
      BY <1>1, <1>4
    <3>2. Cardinality(m.states \cup {s}) = Cardinality(m.states) + 1
      BY <3>1, FS_AddElement
    <3> QED BY <2>2, <3>2
  <2>4. e.budget = Capacity - Cardinality(e.states)
    BY <1>1, <1>4, <2>2, <2>3, ConstantsTyped
  <2>5. Closed(e)
    BY <2>2 DEF Sound, Closed
  <2>6. Sound(e)
    BY <2>2, <2>4, <2>5 DEF Sound
  <2> QED BY <1>1, <1>4, <2>1, <2>2, <2>6
<1> QED BY <1>2, <1>3, <1>4

LEMMA ArrowAdded ==
    ASSUME NEW f, NEW A, NEW B, NEW T, f \in [A \X B -> T], NEW s \in A, NEW c \in B, NEW v
    PROVE  \A x \in A, d \in B : [f EXCEPT ![<<s, c>>] = v][<<x, d>>] = IF x = s /\ d = c THEN v ELSE f[<<x, d>>]
<1> SUFFICES ASSUME NEW x \in A, NEW d \in B
             PROVE  [f EXCEPT ![<<s, c>>] = v][<<x, d>>] = IF x = s /\ d = c THEN v ELSE f[<<x, d>>]
  OBVIOUS
<1>1. <<x, d>> \in DOMAIN f
  OBVIOUS
<1>2. <<x, d>> = <<s, c>> <=> x = s /\ d = c
  OBVIOUS
<1> QED BY <1>1, <1>2

\* An arrow is found or made, or there is no memory for where it leads.
LEMMA RunIs ==
    ASSUME NEW m, Sound(m), NEW s \in m.states, NEW c \in Bytes \cup {EndText}
    PROVE  LET r == RunStateOnByte(m, s, c) IN
           /\ Sound(r.m) /\ m.states \subseteq r.m.states
           /\ r.st = Null \/ (r.st = Delta[<<s, c>>] /\ Delta[<<s, c>>] \in r.m.states \cup Special)
           /\ m.budget >= 1 => r.st = Delta[<<s, c>>]
<1>1. m \in Cache /\ s \in States /\ Delta[<<s, c>>] \in States \cup Special
  BY DeltaTyped DEF Sound, Cache
<1>2. CASE m.next[<<s, c>>] # Null
  <2>1. RunStateOnByte(m, s, c) = [m |-> m, st |-> m.next[<<s, c>>]]
    BY <1>2 DEF RunStateOnByte
  <2>2. m.next[<<s, c>>] = Delta[<<s, c>>] /\ Delta[<<s, c>>] \in m.states \cup Special
    BY <1>1, <1>2 DEF Sound, Closed
  <2>3. RunStateOnByte(m, s, c).m = m /\ RunStateOnByte(m, s, c).st = Delta[<<s, c>>]
    <3> DEFINE ns == m.next[<<s, c>>]
    <3>1. RunStateOnByte(m, s, c) = [m |-> m, st |-> ns] /\ ns = Delta[<<s, c>>]
      BY <2>1, <2>2
    <3> HIDE DEF ns
    <3> QED BY <3>1
  <2> QED BY <2>2, <2>3
<1>3. CASE m.next[<<s, c>>] = Null
  <2> DEFINE r == CachedState(m, Delta[<<s, c>>])
             e == [r.m EXCEPT !.next[<<s, c>>] = r.st]
  <2>1. RunStateOnByte(m, s, c) = [m |-> e, st |-> r.st]
    BY <1>3 DEF RunStateOnByte
  <2>2. /\ Sound(r.m) /\ m.states \subseteq r.m.states
        /\ r.st = Null \/ (r.st = Delta[<<s, c>>] /\ Delta[<<s, c>>] \in r.m.states \cup Special)
        /\ m.budget >= 1 => r.st = Delta[<<s, c>>]
    BY <1>1, CachedStateIs
  <2> HIDE DEF r
  <2>3. r.m \in Cache /\ r.st \in States \cup Special \cup {Null}
    BY <1>1, <2>2 DEF Sound
  <2>4. /\ e \in Cache /\ e.states = r.m.states /\ e.budget = r.m.budget
        /\ e.next = [r.m.next EXCEPT ![<<s, c>>] = r.st]
    BY <1>1, <2>3 DEF Cache
  <2>5. r.m.next \in [States \X (Bytes \cup {EndText}) -> States \cup Special \cup {Null}]
    BY <2>3 DEF Cache
  <2>6. \A x \in States, d \in Bytes \cup {EndText} :
            e.next[<<x, d>>] = IF x = s /\ d = c THEN r.st ELSE r.m.next[<<x, d>>]
    <3> DEFINE f == r.m.next
               B == Bytes \cup {EndText}
               v == r.st
    <3>1. f \in [States \X B -> States \cup Special \cup {Null}] /\ c \in B /\ s \in States
      BY <1>1, <2>5
    <3>2. e.next = [f EXCEPT ![<<s, c>>] = v]
      BY <2>4
    <3> HIDE DEF f, B, v
    <3>3. \A x \in States, d \in B : [f EXCEPT ![<<s, c>>] = v][<<x, d>>] = IF x = s /\ d = c THEN v ELSE f[<<x, d>>]
      BY <3>1, ArrowAdded
    <3>4. \A x \in States, d \in B : e.next[<<x, d>>] = IF x = s /\ d = c THEN v ELSE f[<<x, d>>]
      BY <3>2, <3>3
    <3> QED BY <3>4 DEF f, B, v
  <2> HIDE DEF e
  <2>7. Closed(e)
    BY <1>1, <2>2, <2>4, <2>6 DEF Sound, Closed
  <2>8. Sound(e)
    BY <2>2, <2>4, <2>7 DEF Sound
  <2> QED BY <2>1, <2>2, <2>4, <2>8
<1> QED BY <1>2, <1>3

\* After a reset there is room for the two states that are saved and one more.
LEMMA RerunIs ==
    ASSUME NEW r, r.start.st \in States, r.s.st \in States, r.c \in Bytes \cup {EndText}
    PROVE  LET x == Rerun(r) IN
           /\ Sound(x.m) /\ x.s = r.s.st /\ x.s \in x.m.states
           /\ x.ns = Delta[<<r.s.st, r.c>>] /\ x.ns \in x.m.states \cup Special
           /\ r.todo # "last" => x.start = r.start.st /\ x.start \in x.m.states
<1> DEFINE a == IF r.todo = "last" THEN [m |-> Cleared, st |-> Null] ELSE CachedState(Cleared, r.start.st)
           b == CachedState(a.m, r.s.st)
           n == RunStateOnByte(b.m, r.s.st, r.c)
<1>1. Sound(a.m) /\ a.m.budget >= 2 /\ (r.todo # "last" => a.st = r.start.st /\ a.st \in a.m.states)
  <2>1. CASE r.todo = "last"
    BY <2>1, ClearedIs, ConstantsTyped
  <2>2. CASE r.todo # "last"
    <3>1. a = CachedState(Cleared, r.start.st)
      BY <2>2
    <3> HIDE DEF a
    <3>2. Cleared.budget >= 3 /\ Cleared.budget >= 1 /\ Sound(Cleared) /\ r.start.st \in States \cup Special
      BY ClearedIs, ConstantsTyped
    <3>3. /\ Sound(a.m) /\ a.st = r.start.st /\ a.m.budget >= Cleared.budget - 1
          /\ a.st = Null \/ a.st \in a.m.states \cup Special
      BY <3>1, <3>2, CachedStateIs
    <3>4. a.m.budget \in Int /\ Cleared.budget \in Int
      BY <3>2, <3>3 DEF Sound, Cache
    <3> QED BY <3>2, <3>3, <3>4, ConstantsTyped
  <2> QED BY <2>1, <2>2
<1> HIDE DEF a
<1>2. /\ Sound(b.m) /\ b.st = r.s.st /\ b.st \in b.m.states /\ a.m.states \subseteq b.m.states
      /\ b.m.budget >= 1
  <2>1. /\ Sound(b.m) /\ a.m.states \subseteq b.m.states
        /\ b.st = Null \/ (b.st = r.s.st /\ r.s.st \in b.m.states \cup Special)
        /\ a.m.budget >= 1 => b.st = r.s.st /\ b.m.budget >= a.m.budget - 1
    BY <1>1, CachedStateIs
  <2> HIDE DEF b
  <2>2. a.m.budget \in Int /\ b.m.budget \in Int
    BY <1>1, <2>1 DEF Sound, Cache
  <2> QED BY <1>1, <2>1, <2>2, ConstantsTyped
<1> HIDE DEF b
<1>3. /\ Sound(n.m) /\ b.m.states \subseteq n.m.states
      /\ n.st = Delta[<<r.s.st, r.c>>] /\ n.st \in n.m.states \cup Special
  <2>1. r.s.st \in b.m.states
    BY <1>2
  <2>2. /\ Sound(n.m) /\ b.m.states \subseteq n.m.states
        /\ n.st = Null \/ (n.st = Delta[<<r.s.st, r.c>>] /\ Delta[<<r.s.st, r.c>>] \in n.m.states \cup Special)
        /\ b.m.budget >= 1 => n.st = Delta[<<r.s.st, r.c>>]
    BY <1>2, <2>1, RunIs
  <2> HIDE DEF n
  <2>3. n.st = Delta[<<r.s.st, r.c>>]
    BY <1>2, <2>2
  <2>4. Delta[<<r.s.st, r.c>>] # Null
    BY DeltaTyped, ConstantsTyped
  <2> QED BY <2>2, <2>3, <2>4
<1> HIDE DEF n
<1>4. Rerun(r) = [m |-> n.m, start |-> a.st, s |-> b.st, ns |-> n.st]
  BY DEF Rerun, a, b, n
<1> QED BY <1>1, <1>2, <1>3, <1>4
-----------------------------------------------------------------------------
(* AnalyzeSearchHelper: the start state is run on each byte.               *)

LEMMA LeavingIs ==
    ASSUME NEW s \in States, NEW c \in Nat
    PROVE  /\ IsFiniteSet(Leaving(s, c)) /\ Cardinality(Leaving(s, c)) \in Nat
           /\ c = 0 => Cardinality(Leaving(s, c)) <= 1
           /\ c > 0 => Cardinality(Leaving(s, c)) <= Cardinality(Leaving(s, c - 1)) + 1
<1>1. ASSUME NEW d \in Nat
      PROVE  IsFiniteSet(Leaving(s, d)) /\ Cardinality(Leaving(s, d)) \in Nat
  <2>1. Leaving(s, d) \in SUBSET (0..d)
    BY DEF Leaving
  <2>2. IsFiniteSet(0..d)
    BY FS_Interval
  <2>3. IsFiniteSet(Leaving(s, d))
    BY <2>1, <2>2, FS_Subset
  <2> QED BY <2>3, FS_CardinalityType
<1>2. ASSUME c = 0 PROVE Cardinality(Leaving(s, c)) <= 1
  <2>1. Leaving(s, c) \in SUBSET {0}
    BY <1>2 DEF Leaving
  <2>2. IsFiniteSet({0}) /\ Cardinality({0}) = 1
    BY FS_Singleton
  <2> QED BY <2>1, <2>2, FS_Subset
<1>3. ASSUME c > 0 PROVE Cardinality(Leaving(s, c)) <= Cardinality(Leaving(s, c - 1)) + 1
  <2> DEFINE L == Leaving(s, c - 1)
  <2>1. c - 1 \in Nat
    BY <1>3
  <2>2. IsFiniteSet(L) /\ Cardinality(L) \in Nat
    BY <1>1, <2>1
  <2>3. Leaving(s, c) \in SUBSET (L \cup {c})
    BY <1>3 DEF Leaving
  <2> HIDE DEF L
  <2>4. IsFiniteSet(L \cup {c}) /\ Cardinality(L \cup {c}) <= Cardinality(L) + 1
    <3>1. IsFiniteSet(L \cup {c})
      BY <2>2, FS_AddElement
    <3>2. Cardinality(L \cup {c}) = IF c \in L THEN Cardinality(L) ELSE Cardinality(L) + 1
      BY <2>2, FS_AddElement
    <3> QED BY <2>2, <3>1, <3>2
  <2>5. Cardinality(Leaving(s, c)) <= Cardinality(L \cup {c})
    BY <2>3, <2>4, FS_Subset
  <2>6. Cardinality(L \cup {c}) \in Nat
    BY <2>4, FS_CardinalityType
  <2> QED BY <1>1, <2>2, <2>4, <2>5, <2>6 DEF L
<1> QED BY <1>1, <1>2, <1>3

LEMMA LeavingAtMost ==
    ASSUME NEW s \in States, NEW c \in Nat, c > 0 => Cardinality(Leaving(s, c - 1)) < 2
    PROVE  Cardinality(Leaving(s, c)) \in Nat /\ Cardinality(Leaving(s, c)) <= 2
<1>1. CASE c = 0
  <2>1. Cardinality(Leaving(s, c)) \in Nat /\ Cardinality(Leaving(s, c)) <= 1
    BY <1>1, LeavingIs
  <2> QED BY <2>1
<1>2. CASE c > 0
  <2>1. c - 1 \in Nat
    BY <1>2
  <2>2. Cardinality(Leaving(s, c - 1)) \in Nat /\ Cardinality(Leaving(s, c)) \in Nat
    BY <2>1, LeavingIs
  <2>3. Cardinality(Leaving(s, c)) <= Cardinality(Leaving(s, c - 1)) + 1
    BY <1>2, LeavingIs
  <2> QED BY <1>2, <2>2, <2>3
<1> QED BY <1>1, <1>2

\* The loop over all bytes ends somewhere.
LEMMA LastByteIs ==
    ASSUME NEW m, NEW s \in States
    PROVE  LET c == LastByte(m, s) IN
           /\ c \in Bytes
           /\ c = MaxByte \/ ~Fits(m, s, c) \/ Cardinality(Leaving(s, c)) = 2
           /\ c > 0 => Fits(m, s, c - 1) /\ Cardinality(Leaving(s, c - 1)) < 2
           /\ Cardinality(Leaving(s, c)) <= 2
<1> DEFINE Goes(c) == /\ c = MaxByte \/ ~Fits(m, s, c) \/ Cardinality(Leaving(s, c)) = 2
                      /\ c > 0 => Fits(m, s, c - 1) /\ Cardinality(Leaving(s, c - 1)) < 2
           Stops(c) == c = MaxByte \/ ~Fits(m, s, c) \/ Cardinality(Leaving(s, c)) >= 2
           S == {c \in Bytes : Stops(c)}
<1>1. MaxByte \in S /\ S \subseteq Nat /\ Bytes \subseteq Nat /\ MaxByte \in Nat
  BY ConstantsTyped DEF Bytes
<1>2. PICK n \in S : \A k \in S : n <= k
  <2> HIDE DEF S
  <2> QED BY <1>1, LeastNat
<1>3. n \in Bytes /\ n \in Nat /\ Stops(n) /\ n <= MaxByte
  BY <1>1, <1>2 DEF Bytes
<1>4. ASSUME n > 0 PROVE Fits(m, s, n - 1) /\ Cardinality(Leaving(s, n - 1)) < 2
  <2>1. n - 1 \in Bytes /\ n - 1 \in Nat /\ ~(n <= n - 1)
    BY <1>1, <1>3, <1>4 DEF Bytes
  <2>2. n - 1 \notin S
    BY <1>2, <2>1
  <2>3. ~Stops(n - 1)
    BY <2>1, <2>2
  <2>4. Cardinality(Leaving(s, n - 1)) \in Nat
    BY <2>1, LeavingIs
  <2> QED BY <2>3, <2>4
<1>5. Cardinality(Leaving(s, n)) \in Nat /\ Cardinality(Leaving(s, n)) <= 2
  BY <1>3, <1>4, LeavingAtMost
<1>6. Goes(n)
  BY <1>3, <1>4, <1>5
<1>7. LastByte(m, s) = CHOOSE c \in Bytes : Goes(c)
  BY DEF LastByte
<1> HIDE DEF Goes
<1>8. LastByte(m, s) \in Bytes /\ Goes(LastByte(m, s))
  BY <1>3, <1>6, <1>7
<1>9. Cardinality(Leaving(s, LastByte(m, s))) <= 2
  <2> DEFINE c == LastByte(m, s)
  <2>1. c \in Bytes /\ c \in Nat /\ (c > 0 => Cardinality(Leaving(s, c - 1)) < 2)
    BY <1>1, <1>8 DEF Goes
  <2> HIDE DEF c
  <2> QED BY <2>1, LeavingAtMost DEF c
<1> QED BY <1>8, <1>9 DEF Goes

\* What the loop leaves of a sound cache is sound.
LEMMA ExploredIs ==
    ASSUME NEW m, Sound(m), NEW s \in m.states, NEW c \in -1..MaxByte, NEW ok \in BOOLEAN, ok => Fits(m, s, c)
    PROVE  LET e == Explored(m, s, c, ok) IN Sound(e) /\ m.states \subseteq e.states
<1> DEFINE M == Missing(m, s, c)
           e == Explored(m, s, c, ok)
<1>1. /\ m \in Cache /\ m.states \subseteq States /\ m.budget \in -1..Capacity
      /\ m.budget \in {-1, Capacity - Cardinality(m.states)}
      /\ m.next \in [States \X (Bytes \cup {EndText}) -> States \cup Special \cup {Null}]
  BY DEF Sound, Cache
<1>2. 0..c \subseteq Bytes
  BY ConstantsTyped DEF Bytes
<1>3. \A b \in 0..c : Delta[<<s, b>>] \in States \cup Special
  BY <1>1, <1>2, DeltaTyped
<1>4. M \in SUBSET States /\ M \cap m.states = {}
  BY <1>3 DEF Missing
<1>5. \A b \in 0..c : Delta[<<s, b>>] \in m.states \cup M \cup Special
  BY DEF Missing
<1>6. /\ IsFiniteSet(M) /\ IsFiniteSet(m.states) /\ Cardinality(M) \in Nat /\ Cardinality(m.states) \in Nat
      /\ Cardinality(m.states \cup M) = Cardinality(m.states) + Cardinality(M)
  <2> HIDE DEF M
  <2>1. IsFiniteSet(M) /\ IsFiniteSet(m.states)
    BY <1>1, <1>4, ConstantsTyped, FS_Subset
  <2>2. Cardinality(m.states \cap M) = 0
    <3>1. m.states \cap M = {}
      BY <1>4
    <3> QED BY <3>1, FS_EmptySet
  <2>3. Cardinality(m.states \cup M) = Cardinality(m.states) + Cardinality(M) - Cardinality(m.states \cap M)
    BY <2>1, FS_Union
  <2>4. Cardinality(M) \in Nat /\ Cardinality(m.states) \in Nat
    BY <2>1, FS_CardinalityType
  <2> DEFINE x == Cardinality(m.states)
             y == Cardinality(M)
             u == Cardinality(m.states \cup M)
  <2>5. x \in Nat /\ y \in Nat /\ u = x + y - 0
    BY <2>2, <2>3, <2>4
  <2> HIDE DEF x, y, u
  <2>6. u = x + y
    BY <2>5
  <2> QED BY <2>1, <2>4, <2>6 DEF x, y, u
<1>7. ok => M = {} \/ Cardinality(M) <= m.budget
  BY DEF Fits
<1>8. M = {} => Cardinality(M) = 0
  BY FS_EmptySet
<1> HIDE DEF M
<1> DEFINE budget == IF ok THEN m.budget - Cardinality(M) ELSE -1
           next == [x \in DOMAIN m.next |-> IF x[1] = s /\ x[2] \in 0..c THEN Delta[x] ELSE m.next[x]]
<1>9. e = [states |-> m.states \cup M, budget |-> budget, next |-> next]
  BY DEF Explored, M
<1>10. budget \in -1..Capacity /\ budget \in {-1, Capacity - Cardinality(m.states \cup M)}
  BY <1>1, <1>6, <1>7, <1>8, ConstantsTyped
<1> HIDE DEF budget
<1>11. \A t \in States, b \in Bytes \cup {EndText} :
          next[<<t, b>>] = IF t = s /\ b \in 0..c THEN Delta[<<t, b>>] ELSE m.next[<<t, b>>]
  BY <1>1
<1>12. next \in [States \X (Bytes \cup {EndText}) -> States \cup Special \cup {Null}]
  <2>1. \A x \in States \X (Bytes \cup {EndText}) : Delta[x] \in States \cup Special
    BY CacheAssumption
  <2> QED BY <1>1, <2>1
<1> HIDE DEF next
<1>13. e \in Cache /\ e.states = m.states \cup M /\ e.budget = budget /\ e.next = next
  BY <1>1, <1>4, <1>9, <1>10, <1>12 DEF Cache
<1> HIDE DEF e
<1>14. Closed(e)
  <2> SUFFICES ASSUME NEW t \in States, NEW b \in Bytes \cup {EndText}, next[<<t, b>>] # Null
               PROVE  /\ t \in m.states \cup M /\ next[<<t, b>>] = Delta[<<t, b>>]
                      /\ Delta[<<t, b>>] \in m.states \cup M \cup Special
    BY <1>13 DEF Closed
  <2>1. CASE t = s /\ b \in 0..c
    BY <1>5, <1>11, <2>1
  <2>2. CASE ~(t = s /\ b \in 0..c)
    <3>1. next[<<t, b>>] = m.next[<<t, b>>]
      BY <1>11, <2>2
    <3> QED BY <3>1 DEF Sound, Closed
  <2> QED BY <2>1, <2>2
<1>15. Sound(e)
  BY <1>10, <1>13, <1>14 DEF Sound
<1> QED BY <1>13, <1>15 DEF e

\* Room for two states is room for what the loop finds.
LEMMA AnalyzeFits ==
    ASSUME NEW m, NEW s \in States, s \in m.states, m.budget \in Int, m.budget >= 2
    PROVE  Fits(m, s, LastByte(m, s))
<1> DEFINE c == LastByte(m, s)
           L == Leaving(s, c)
           M == Missing(m, s, c)
<1>1. c \in Nat /\ Cardinality(L) <= 2
  BY LastByteIs, ConstantsTyped DEF Bytes
<1> HIDE DEF c
<1>2. IsFiniteSet(L) /\ Cardinality(L) \in Nat /\ Cardinality(L) <= 2
  BY <1>1, LeavingIs
<1>3. M \subseteq {Delta[<<s, b>>] : b \in L}
  BY DEF Missing, Leaving
<1> DEFINE T == {b \in L : Delta[<<s, b>>] \in M}
           f == [b \in T |-> Delta[<<s, b>>]]
<1>4. T \in SUBSET L /\ f \in Surjection(T, M)
  BY <1>3 DEF Surjection
<1> HIDE DEF T, f, L
<1>5. IsFiniteSet(T) /\ Cardinality(T) <= Cardinality(L)
  BY <1>2, <1>4, FS_Subset
<1> HIDE DEF M
<1>6. IsFiniteSet(M) /\ Cardinality(M) <= Cardinality(T)
  BY <1>4, <1>5, FS_Surjection
<1>7. Cardinality(M) \in Nat /\ Cardinality(T) \in Nat
  BY <1>5, <1>6, FS_CardinalityType
<1> QED BY <1>2, <1>5, <1>6, <1>7 DEF Fits, M, c

\* What is stored as firstbyte, whether or not the loop was complete.
LEMMA FirstByteTyped ==
    ASSUME NEW s \in States, NEW c \in -1..MaxByte
    PROVE  FirstByte(Leaving(s, c)) \in Bytes \cup {NoneLeave, Many} /\ FirstByte(Leaving(s, c)) # Unknown
<1>1. FirstByte(Leaving(s, c)) \in Leaving(s, c) \cup {NoneLeave, Many}
  BY DEF FirstByte
<1>2. Leaving(s, c) \subseteq Bytes
  BY ConstantsTyped DEF Leaving, Bytes
<1>3. Unknown \notin Bytes /\ Unknown # NoneLeave /\ Unknown # Many
  BY DEF Unknown, NoneLeave, Many, Bytes
<1> QED BY <1>1, <1>2, <1>3

\* If it was complete and only one byte leaves the start state, it is that one.
LEMMA FirstByteLeaves ==
    ASSUME NEW m, NEW s \in States, Fits(m, s, LastByte(m, s))
    PROVE  Leaves(s, FirstByte(Leaving(s, LastByte(m, s))))
<1> DEFINE c == LastByte(m, s)
           L == Leaving(s, c)
<1>1. c \in Bytes /\ (c = MaxByte \/ Cardinality(L) = 2) /\ c \in Nat /\ Cardinality(L) <= 2
  BY LastByteIs, ConstantsTyped DEF Bytes
<1> HIDE DEF c
<1>2. IsFiniteSet(L) /\ Cardinality(L) \in Nat
  BY <1>1, LeavingIs
<1>3. ASSUME FirstByte(L) \in Bytes, NEW b \in Bytes, b # FirstByte(L), Delta[<<s, b>>] # s
      PROVE  FALSE
  <2>1. L # {} /\ Cardinality(L) # 2 /\ FirstByte(L) \in L
    BY <1>3 DEF FirstByte, NoneLeave, Many, Bytes
  <2>2. Cardinality(L) # 0
    BY <1>2, <2>1, FS_EmptySet
  <2>3. Cardinality(L) = 1
    BY <1>1, <1>2, <2>1, <2>2
  <2>4. PICK x : L = {x}
    BY <1>2, <2>3, FS_Singleton
  <2>5. b \in L
    BY <1>1, <1>3, <2>1 DEF Leaving, Bytes
  <2> QED BY <1>3, <2>1, <2>4, <2>5
<1> QED BY <1>3 DEF Leaves, c
-----------------------------------------------------------------------------
(* memchr.                                                                 *)

\* What is skipped leaves the automaton where it is, and no match shows in it.
LEMMA SkippedIs ==
    ASSUME NEW r \in SearchParams, Bounded(r), Reached(r, r.p)
    PROVE  Skipped(r) \in r.p..Len(r.q.text) /\ Reached(r, Skipped(r))
<1> DEFINE n == Len(r.q.text)
           i == r.p
           k == Skipped(r)
           fb == r.firstbyte
<1>1. r.q \in Queries /\ n \in Nat /\ i \in 0..n /\ r.q.text \in Seq(Bytes) /\ fb \in Bytes \cup FbMarks
  <2>1. r.q \in Queries /\ i \in Nat /\ i <= n /\ fb \in Bytes \cup FbMarks
    BY DEF Reached, Bounded, SearchParams
  <2> QED BY <2>1, QueryTyped
<1>2. CASE fb < 0 \/ r.s.st # r.start.st
  BY <1>1, <1>2 DEF Skipped
<1>3. CASE ~(fb < 0 \/ r.s.st # r.start.st)
  <2> DEFINE found == {j \in i..(n - 1) : r.q.text[j + 1] = fb}
  <2>1. fb \in Bytes
    BY <1>1, <1>3 DEF FbMarks, Unknown, Many, NoneLeave
  <2>2. k = IF found = {} THEN n ELSE CHOOSE j \in found : \A x \in found : j <= x
    BY <1>3 DEF Skipped
  <2>3. found \subseteq Nat
    BY <1>1
  <2>4. k \in i..n /\ \A j \in i..(k - 1) : j \notin found
    <3>1. CASE found = {}
      BY <1>1, <2>2, <3>1
    <3>2. CASE found # {}
      <4>1. \E j \in found : \A x \in found : j <= x
        <5> HIDE DEF found
        <5> QED BY <2>3, <3>2, LeastNat
      <4>2. k \in found /\ \A x \in found : k <= x
        <5> HIDE DEF found, k
        <5> QED BY <2>2, <3>2, <4>1
      <4>3. k \in i..(n - 1)
        BY <4>2
      <4> HIDE DEF found, k
      <4>4. ASSUME NEW j \in i..(k - 1), j \in found
            PROVE  FALSE
        <5>1. k <= j
          BY <4>2, <4>4
        <5> QED BY <1>1, <4>3, <4>4, <5>1
      <4> QED BY <1>1, <4>3, <4>4
    <3> QED BY <3>1, <3>2
  <2> HIDE DEF k
  <2>5. \A j \in i..(k - 1) : r.q.text[j + 1] # fb
    BY <1>1, <2>4
  <2> HIDE DEF found
  <2>6. CASE r.partial
    BY <2>4, <2>6 DEF Reached, k
  <2>7. CASE ~r.partial
    <3>1. /\ Leaves(Run(r.q)[i], fb) /\ Run(r.q)[i] \in States /\ Run(r.q)[i] = StartOf[r.q.start]
          /\ LastSeen(r.q, i, r.lastmatch)
      BY <1>3, <2>7 DEF Reached
    <3>2. \A j \in i..k : Run(r.q)[j] = Run(r.q)[i]
      BY <1>1, <2>1, <2>4, <2>5, <3>1, RunWaits
    <3>3. \A j \in i..k : Run(r.q)[j] \notin Matching
      BY <1>1, <3>1, <3>2, QueryTyped, StartTyped
    <3>4. LastSeen(r.q, k, r.lastmatch)
      <4>1. \A j \in 0..k : j \in 0..i \/ j \in i..k
        BY <1>1, <2>4
      <4>2. CASE r.lastmatch = -1 /\ \A j \in 0..i : Run(r.q)[j] \notin Matching
        BY <3>3, <4>1, <4>2 DEF LastSeen
      <4>3. ASSUME NEW x \in 0..i, Run(r.q)[x] \in Matching, r.lastmatch = EndOf(x),
                   \A j \in 0..i : Run(r.q)[j] \in Matching => j <= x
            PROVE  LastSeen(r.q, k, r.lastmatch)
        <5>1. x \in 0..k
          BY <1>1, <2>4
        <5> QED BY <3>3, <4>1, <4>3, <5>1 DEF LastSeen
      <4> QED BY <3>1, <4>2, <4>3 DEF LastSeen
    <3>5. k \in i..k
      BY <1>1, <2>4
    <3>6. r.s.st = Run(r.q)[k]
      BY <2>7, <3>2, <3>5 DEF Reached
    <3>7. Reached(r, k)
      BY <2>7, <3>4, <3>6 DEF Reached
    <3> QED BY <2>4, <3>7 DEF k
  <2> QED BY <2>6, <2>7
<1> QED BY <1>2, <1>3
-----------------------------------------------------------------------------
(* The invariant, in the parts that the steps keep.                        *)

HeldOn(r, m) ==
    /\ r.s.live /\ r.s.st \in m.states \cup {Null}
    /\ r.todo # "last" => r.start.live /\ r.start.st \in m.states \cup Special \cup {Null}

Starts(st, m) ==
    /\ st \in [DOMAIN StartOf -> StartInfo]
    /\ \A k \in DOMAIN StartOf :
        /\ st[k].start # Null => st[k].start = StartOf[k] /\ StartOf[k] \in m.states \cup Special
        /\ st[k].firstbyte # Unknown => st[k].start # Null
        /\ st[k].start \in States /\ ~st[k].partial => Leaves(st[k].start, st[k].firstbyte)

Parts ==
    /\ Sound(cache) /\ Starts(start_, cache)
    /\ readers \subseteq Threads /\ writer \subseteq Threads /\ done \in 0..MaxSearches
    /\ srch \in [Threads -> SearchParams]
    /\ LockInv /\ KeptInv
    /\ \A t \in Holders : HeldOn(srch[t], cache)
    /\ \A t \in Threads : Fine(srch[t])

LEMMA InvParts == IInv <=> Parts
<1>1. ASSUME IInv PROVE Parts
  <2>1. TypeOK /\ LockInv /\ NoDangling /\ CacheSound /\ StartInv /\ KeptInv /\ \A t \in Threads : Fine(srch[t])
    BY <1>1 DEF IInv
  <2>2. Sound(cache)
    <3>1. Closed(cache)
      BY <2>1 DEF CacheSound, Closed
    <3> QED BY <2>1, <3>1 DEF Sound, TypeOK, CacheSound
  <2>3. Starts(start_, cache)
    BY <2>1 DEF Starts, TypeOK, CacheSound, StartInv
  <2>4. \A t \in Holders : HeldOn(srch[t], cache)
    BY <2>1 DEF NoDangling, HeldOn, Holders
  <2> QED BY <2>1, <2>2, <2>3, <2>4 DEF Parts, TypeOK
<1>2. ASSUME Parts PROVE IInv
  <2>1. /\ Sound(cache) /\ Starts(start_, cache) /\ LockInv /\ KeptInv
        /\ \A t \in Holders : HeldOn(srch[t], cache)
        /\ \A t \in Threads : Fine(srch[t])
    BY <1>2 DEF Parts
  <2>2. CacheSound
    <3>1. \A s \in States, c \in Bytes \cup {EndText} :
            cache.next[<<s, c>>] # Null =>
                /\ s \in cache.states /\ cache.next[<<s, c>>] = Delta[<<s, c>>]
                /\ cache.next[<<s, c>>] \in cache.states \cup Special
      BY <2>1 DEF Sound, Closed
    <3>2. \A k \in DOMAIN StartOf : start_[k].start # Null =>
              start_[k].start = StartOf[k] /\ StartOf[k] \in cache.states \cup Special
      BY <2>1 DEF Starts
    <3>3. cache.budget \in {-1, Capacity - Cardinality(cache.states)}
      BY <2>1 DEF Sound
    <3> QED BY <3>1, <3>2, <3>3 DEF CacheSound
  <2>3. StartInv
    BY <2>1 DEF Starts, StartInv
  <2>4. NoDangling
    BY <2>1 DEF NoDangling, HeldOn, Holders
  <2>5. Cardinality(writer) <= 1
    <3>1. CASE writer = {}
      <4>1. Cardinality(writer) = 0
        BY <3>1, FS_EmptySet
      <4> QED BY <4>1
    <3>2. CASE writer # {}
      <4>1. PICK x : x \in writer
        BY <3>2
      <4>2. writer = {x}
        BY <2>1, <4>1 DEF LockInv
      <4>3. Cardinality(writer) = 1
        BY <4>2, FS_Singleton
      <4> QED BY <4>3
    <3> QED BY <3>1, <3>2
  <2>6. \A t \in Threads : srch[t].p <= Len(Text(t)) /\ srch[t].resetp <= Len(Text(t)) /\ srch[t].lastmatch <= Len(Text(t))
    BY <2>1 DEF Fine, Bounded, Text
  <2>7. cache \in Cache /\ start_ \in [DOMAIN StartOf -> StartInfo]
    BY <2>1 DEF Sound, Starts
  <2>8. TypeOK
    BY <1>2, <2>5, <2>6, <2>7 DEF Parts, TypeOK
  <2> QED BY <2>1, <2>2, <2>3, <2>4, <2>8 DEF IInv
<1> QED BY <1>1, <1>2

LEMMA NothingStarted == ASSUME NEW m PROVE Starts(NoStart, m)
<1>1. \A k \in DOMAIN StartOf : NoStart[k] = [start |-> Null, firstbyte |-> Unknown, partial |-> FALSE]
  BY DEF NoStart
<1>2. NoStart \in [DOMAIN StartOf -> StartInfo]
  BY <1>1 DEF NoStart, StartInfo, FbMarks
<1> QED BY <1>1, <1>2, ConstantsTyped DEF Starts

LEMMA IdleIs ==
    /\ Fine(Idle) /\ Idle.pc = "idle"
    /\ \A q \in Queries :
        LET e == [Idle EXCEPT !.pc = "quick", !.q = q]
        IN  Fine(e) /\ e.pc = "quick" /\ \A m : HeldOn(e, m)
<1>1. Nowhere \in Pointer /\ Nowhere.st = Null /\ Nowhere.live
  BY DEF Nowhere, Ptr, Pointer
<1>2. Answer(FALSE, -1) \in [failed : BOOLEAN, ret : BOOLEAN, ep : Nat \cup {-1}, why : Reasons]
  BY AnswerTyped
<1>3. 0 \in Bytes /\ Unknown \in Bytes \cup FbMarks
  BY ConstantsTyped DEF Bytes, FbMarks
<1>4. Len(NoQuery.text) = 0
  BY DEF NoQuery
<1> DEFINE a == Answer(FALSE, -1)
<1>5. Idle = [pc |-> "idle", q |-> NoQuery, start |-> Nowhere, s |-> Nowhere, firstbyte |-> Unknown,
              partial |-> FALSE, p |-> 0, resetp |-> -1, c |-> 0, lastmatch |-> -1,
              todo |-> "none", answer |-> a]
  BY DEF Idle
<1> HIDE DEF a
<1>6. Idle \in SearchParams /\ Idle.pc = "idle" /\ Idle.p = 0 /\ Idle.resetp = -1 /\ Idle.lastmatch = -1
      /\ Idle.q = NoQuery
  BY <1>1, <1>2, <1>3, <1>5 DEF SearchParams, a
<1>7. Fine(Idle)
  BY <1>4, <1>6 DEF Fine, Bounded
<1>8. ASSUME NEW q \in Queries
      PROVE  LET e == [Idle EXCEPT !.pc = "quick", !.q = q]
             IN  Fine(e) /\ e.pc = "quick" /\ \A m : HeldOn(e, m)
  <2> DEFINE e == [Idle EXCEPT !.pc = "quick", !.q = q]
  <2>1. e \in SearchParams
    BY <1>6 DEF SearchParams
  <2>2. /\ e.pc = "quick" /\ e.q = q /\ e.s = Nowhere /\ e.start = Nowhere
        /\ e.p = 0 /\ e.lastmatch = -1 /\ e.todo = "none" /\ e.resetp = -1
    BY <1>5
  <2> HIDE DEF e
  <2>3. Len(q.text) \in Nat
    BY QueryTyped
  <2>4. Starting(e) /\ Bounded(e)
    BY <2>2, <2>3 DEF Starting, Bounded
  <2>5. Fine(e)
    BY <2>1, <2>2, <2>4 DEF Fine
  <2>6. \A m : HeldOn(e, m)
    BY <1>1, <2>2 DEF HeldOn
  <2> QED BY <2>2, <2>5, <2>6 DEF e
<1> QED BY <1>6, <1>7, <1>8

LEMMA InitInv == Init => IInv
<1> SUFFICES ASSUME Init PROVE Parts
  BY InvParts
<1>1. cache = Cleared /\ start_ = NoStart /\ readers = {} /\ writer = {} /\ done = 0
      /\ srch = [t \in Threads |-> Idle]
  BY DEF Init
<1>2. Sound(cache) /\ Starts(start_, cache)
  BY <1>1, ClearedIs, NothingStarted
<1>3. \A t \in Threads : srch[t] = Idle /\ Fine(srch[t]) /\ srch[t].pc = "idle"
  BY <1>1, IdleIs
<1>4. srch \in [Threads -> SearchParams]
  BY <1>1, IdleIs DEF Fine
<1>5. LockInv /\ KeptInv
  BY <1>1, <1>3 DEF LockInv, KeptInv, Holders, At
<1>6. done \in 0..MaxSearches
  BY <1>1, CacheAssumption
<1> QED BY <1>1, <1>2, <1>3, <1>4, <1>5, <1>6 DEF Parts, Holders

\* Who holds the lock for writing is alone.
LEMMA Alone ==
    ASSUME LockInv, NEW t \in Holders, NEW u \in writer
    PROVE  t = u
  BY DEF LockInv, Holders

\* A step of a search that holds the lock before and after, and adds to the cache.
LEMMA HolderStep ==
    ASSUME IInv, NEW t \in Threads, srch[t].pc \notin {"idle", "lock"},
           NEW e, srch' = [srch EXCEPT ![t] = e], Fine(e), e.pc \notin {"idle", "lock"},
           readers' = readers, writer' = writer, done' = done,
           Sound(cache'), cache.states \subseteq cache'.states, Starts(start_', cache'), HeldOn(e, cache'),
           \A k \in DOMAIN StartOf : start_[k].firstbyte # Unknown => start_'[k].firstbyte # Unknown,
           e.pc = "take" => start_'[e.q.start].firstbyte # Unknown,
           e.pc = "analyze" => e.todo # "analyze"
    PROVE  IInv'
<1>1. Parts
  BY InvParts
<1>2. Fine(e) /\ e \in SearchParams
  BY DEF Fine
<1>3. srch' \in [Threads -> SearchParams] /\ srch'[t] = e /\ \A u \in Threads \ {t} : srch'[u] = srch[u]
  BY <1>1, <1>2 DEF Parts
<1>4. Holders' = Holders /\ t \in Holders /\ Holders \subseteq Threads
  BY <1>1 DEF Parts, LockInv, Holders
<1>5. \A u \in Threads : Fine(srch'[u])
  BY <1>1, <1>3 DEF Parts
<1>6. LockInv'
  BY <1>1, <1>3, <1>4 DEF Parts, LockInv, At
<1>7. \A u \in Holders' : HeldOn(srch'[u], cache')
  BY <1>1, <1>3, <1>4 DEF Parts, HeldOn
<1>8. KeptInv'
  <2>1. ASSUME NEW u \in Threads, srch'[u].pc = "take"
        PROVE  start_'[srch'[u].q.start].firstbyte # Unknown
    <3>1. CASE u = t
      BY <1>3, <2>1, <3>1
    <3>2. CASE u # t
      <4>1. srch'[u] = srch[u] /\ srch[u].q \in Queries /\ start_[srch[u].q.start].firstbyte # Unknown
        BY <1>1, <1>3, <2>1, <3>2 DEF Parts, KeptInv, At, Fine, Starting
      <4> QED BY <4>1, QueryTyped
    <3> QED BY <3>1, <3>2
  <2>2. ASSUME NEW u \in Threads, srch'[u].pc = "analyze", srch'[u].todo = "analyze"
        PROVE  FALSE
    <3>1. u # t
      BY <1>3, <2>2
    <3>2. u \in writer
      BY <1>1, <1>3, <2>2, <3>1 DEF Parts, KeptInv, At
    <3> QED BY <1>1, <1>4, <3>1, <3>2, Alone DEF Parts
  <2> QED BY <2>1, <2>2 DEF KeptInv, At
<1>9. Parts'
  BY <1>1, <1>3, <1>5, <1>6, <1>7, <1>8 DEF Parts
<1> QED BY <1>9, InvParts, PTL
-----------------------------------------------------------------------------
(* Each step keeps the invariant.                                          *)

\* What holds of any search in a state with the invariant.
LEMMA OfSearch ==
    ASSUME IInv, NEW t \in Threads
    PROVE  /\ Fine(srch[t]) /\ srch[t] \in SearchParams /\ Bounded(srch[t])
           /\ Sound(cache) /\ Starts(start_, cache) /\ LockInv /\ KeptInv
           /\ srch[t].pc \notin {"idle", "lock"} => t \in Holders /\ HeldOn(srch[t], cache)
<1>1. Parts
  BY InvParts
<1>2. /\ Fine(srch[t]) /\ Sound(cache) /\ Starts(start_, cache) /\ LockInv /\ KeptInv
      /\ t \in Holders => HeldOn(srch[t], cache)
  BY <1>1 DEF Parts
<1>3. srch[t].pc \notin {"idle", "lock"} => t \in Holders
  BY <1>2 DEF LockInv
<1> QED BY <1>2, <1>3 DEF Fine

LEMMA QuickCheckInv == ASSUME IInv, NEW t \in Threads, QuickCheck(t) PROVE IInv'
<1> DEFINE r == srch[t]
           ok == start_[r.q.start].firstbyte # Unknown
           pc == IF ok THEN "take" ELSE "analyze"
           e == [r EXCEPT !.pc = pc]
<1>1. r.pc = "quick" /\ UNCHANGED <<cache, start_, readers, writer, done>> /\ srch' = [srch EXCEPT ![t] = e]
  BY DEF QuickCheck, Go, At, Become
<1>2. /\ Fine(r) /\ r \in SearchParams /\ Bounded(r) /\ Sound(cache) /\ Starts(start_, cache) /\ HeldOn(r, cache)
      /\ Starting(r) /\ r.todo = "none"
  BY <1>1, OfSearch DEF Fine
<1>3. pc \in {"take", "analyze"} /\ (pc = "take" => ok)
  OBVIOUS
<1> HIDE DEF pc, r
<1>4. /\ e \in SearchParams /\ e.pc = pc /\ e.q = r.q /\ e.start = r.start /\ e.s = r.s /\ e.p = r.p
      /\ e.resetp = r.resetp /\ e.lastmatch = r.lastmatch /\ e.todo = "none"
  BY <1>2, <1>3 DEF SearchParams
<1> HIDE DEF e, ok
<1>5. Starting(e) /\ Bounded(e) /\ HeldOn(e, cache)
  BY <1>2, <1>4 DEF Starting, Bounded, HeldOn
<1>6. Fine(e)
  BY <1>3, <1>4, <1>5 DEF Fine
<1>7. r.pc \notin {"idle", "lock"} /\ e.pc \notin {"idle", "lock"} /\ (e.pc = "analyze" => e.todo # "analyze")
      /\ (e.pc = "take" => start_'[e.q.start].firstbyte # Unknown)
  BY <1>1, <1>3, <1>4 DEF ok
<1>8. \A k \in DOMAIN StartOf : start_[k].firstbyte # Unknown => start_'[k].firstbyte # Unknown
  BY <1>1
<1>9. Sound(cache') /\ cache.states \subseteq cache'.states /\ Starts(start_', cache') /\ HeldOn(e, cache')
  BY <1>1, <1>2, <1>5
<1>10. readers' = readers /\ writer' = writer /\ done' = done
  BY <1>1
<1> QED BY <1>1, <1>6, <1>7, <1>8, <1>9, <1>10, HolderStep DEF r

LEMMA TakeStartInv == ASSUME IInv, NEW t \in Threads, TakeStart(t) PROVE IInv'
<1> DEFINE r0 == srch[t]
           info == start_[r0.q.start]
           r == [r0 EXCEPT !.start = Ptr(info.start), !.firstbyte = info.firstbyte, !.partial = info.partial]
           e == CASE info.start = Dead -> Ended(r, FALSE, -1)
                  [] info.start = Full -> Ended(r, TRUE, IF r.q.earliest THEN 0 ELSE Len(r.q.text))
                  [] OTHER -> Entered(r, info.start, 0)
<1>1. r0.pc = "take" /\ UNCHANGED <<cache, start_, readers, writer, done>>
  BY DEF TakeStart, At
<1>2. /\ Fine(r0) /\ r0 \in SearchParams /\ Bounded(r0) /\ Sound(cache) /\ Starts(start_, cache) /\ HeldOn(r0, cache)
      /\ Starting(r0) /\ info.firstbyte # Unknown
  BY <1>1, OfSearch DEF Fine, KeptInv, At
<1>3. /\ r0.q \in Queries /\ r0.q.start \in DOMAIN StartOf /\ Len(r0.q.text) \in Nat /\ r0.q.earliest \in BOOLEAN
      /\ StartOf[r0.q.start] \in States \cup Special /\ StartOf[r0.q.start] \notin Matching
  BY <1>2, QueryTyped, StartTyped DEF Starting
<1>4. /\ info \in StartInfo /\ info.start = StartOf[r0.q.start] /\ info.start \in cache.states \cup Special
      /\ info.start \in States /\ ~info.partial => Leaves(info.start, info.firstbyte)
  BY <1>2, <1>3 DEF Starts
<1> HIDE DEF info
<1>5. Ptr(info.start) \in Pointer /\ Ptr(info.start).st = info.start /\ Ptr(info.start).live
  BY <1>4 DEF Ptr, Pointer, StartInfo
<1>6. /\ r \in SearchParams /\ r.q = r0.q /\ r.start = Ptr(info.start) /\ r.firstbyte = info.firstbyte
      /\ r.partial = info.partial /\ r.s = r0.s /\ r.p = r0.p /\ r.resetp = r0.resetp /\ r.lastmatch = r0.lastmatch
      /\ r.todo = r0.todo
  BY <1>2, <1>4, <1>5 DEF SearchParams, StartInfo
<1>7. srch' = [srch EXCEPT ![t] = e]
  <2>1. Text(t) = r.q.text
    BY <1>6 DEF Text
  <2> QED BY <2>1 DEF TakeStart, Become, info
<1> HIDE DEF r
<1>8. Bounded(r) /\ r.partial \in BOOLEAN /\ r.p = 0 /\ r.lastmatch = -1 /\ r.todo # "last" /\ HeldOn(r, cache)
  BY <1>2, <1>4, <1>5, <1>6 DEF Bounded, Starting, SearchParams, HeldOn
<1>9. Fine(e) /\ SameSearch(e, r) /\ e.pc \in {"byte", "end"} /\ (e.s = r.s \/ (e.s = Ptr(info.start) /\ info.start \notin Special))
  <2>1. CASE info.start = Dead
    <3> DEFINE ret == FALSE
               ep == -1
    <3>1. e = Ended(r, ret, ep)
      <4> HIDE DEF ret
      <4>1. e = CASE info.start = Dead -> Ended(r, ret, -1)
                  [] info.start = Full -> Ended(r, TRUE, IF r.q.earliest THEN 0 ELSE Len(r.q.text))
                  [] OTHER -> Entered(r, info.start, 0)
        BY DEF ret
      <4> QED BY <2>1, <4>1 DEF Dead, Full
    <3>2. Reference(r.q) = Answer(ret, ep)
      BY <1>3, <1>4, <1>6, <2>1, SpecialStart
    <3>3. ret \in BOOLEAN /\ ep \in Nat \cup {-1}
      OBVIOUS
    <3> HIDE DEF ret, ep, e
    <3>4. Fine(e)
      BY <1>6, <1>8, <3>1, <3>2, <3>3, EndsFine
    <3>5. SameSearch(e, r) /\ e.s = r.s /\ e.pc = "end"
      BY <1>6, <3>1, <3>3, EndedIs
    <3>6. e.pc \in {"byte", "end"}
      BY <3>5
    <3> QED BY <3>4, <3>5, <3>6
  <2>2. CASE info.start = Full
    <3> DEFINE ret == TRUE
               ep == IF r.q.earliest THEN 0 ELSE Len(r.q.text)
    <3>1. e = Ended(r, ret, ep)
      BY <2>2, QueryTyped, <1>3
    <3>2. Reference(r.q) = Answer(ret, ep)
      BY <1>3, <1>4, <1>6, <2>2, SpecialStart
    <3>3. ret \in BOOLEAN /\ ep \in Nat \cup {-1}
      BY <1>3, <1>6
    <3> HIDE DEF ret, ep, e
    <3>4. Fine(e)
      BY <1>6, <1>8, <3>1, <3>2, <3>3, EndsFine
    <3>5. SameSearch(e, r) /\ e.s = r.s /\ e.pc = "end"
      BY <1>6, <3>1, <3>3, EndedIs
    <3>6. e.pc \in {"byte", "end"}
      BY <3>5
    <3> QED BY <3>4, <3>5, <3>6
  <2>3. CASE info.start \notin Special
    <3>1. e = Entered(r, info.start, 0)
      BY <2>3 DEF Special
    <3> HIDE DEF e
    <3>2. info.start \in States /\ info.start \notin Matching
      BY <1>3, <1>4, <2>3
    <3>3. EntersAs(e, r, info.start, 0)
      BY <1>6, <3>1, <3>2, EnteredIs
    <3>4. SameSearch(e, r) /\ e.s = Ptr(info.start) /\ e.pc = "byte" /\ e.lastmatch = -1
      BY <1>8, <3>2, <3>3 DEF EntersAs
    <3>5. Run(r.q)[0] = info.start
      BY <1>3, <1>4, <1>6, RunUnfolds
    <3>6. LastSeen(r.q, 0, -1)
      <4>1. \A j \in 0..0 : j = 0
        OBVIOUS
      <4> QED BY <3>2, <3>5, <4>1 DEF LastSeen
    <3>7. Reached(e, 0)
      BY <1>3, <1>4, <1>5, <1>6, <3>2, <3>4, <3>5, <3>6 DEF Reached, SameSearch
    <3>8. Bounded(e)
      BY <1>8, <3>4 DEF Bounded, SameSearch
    <3>9. Fine(e)
      BY <1>8, <3>4, <3>7, <3>8 DEF Fine, SameSearch
    <3> QED BY <2>3, <3>4, <3>9
  <2> QED BY <2>1, <2>2, <2>3 DEF Special
<1> HIDE DEF e
<1>10. HeldOn(e, cache)
  BY <1>4, <1>5, <1>8, <1>9 DEF HeldOn, SameSearch
<1>11. r0.pc \notin {"idle", "lock"} /\ e.pc \notin {"idle", "lock"} /\ e.pc # "analyze" /\ e.pc # "take"
  BY <1>1, <1>9
<1>12. \A k \in DOMAIN StartOf : start_[k].firstbyte # Unknown => start_'[k].firstbyte # Unknown
  BY <1>1
<1>13. Sound(cache') /\ cache.states \subseteq cache'.states /\ Starts(start_', cache') /\ HeldOn(e, cache')
  BY <1>1, <1>2, <1>10
<1>14. readers' = readers /\ writer' = writer /\ done' = done
  BY <1>1
<1> QED BY <1>7, <1>9, <1>11, <1>12, <1>13, <1>14, HolderStep DEF r0

\* What a step to the state that a byte leads to does.
LEMMA FollowStep ==
    ASSUME IInv, NEW t \in Threads, srch[t].pc \notin {"idle", "lock"},
           NEW r, NEW i \in Nat, ReadsAfter(r, i), HeldOn(r, cache'),
           srch' = [srch EXCEPT ![t] = Followed(r, Delta[<<r.s.st, r.c>>])],
           Delta[<<r.s.st, r.c>>] \in cache'.states \cup Special,
           Sound(cache'), cache.states \subseteq cache'.states,
           start_' = start_, readers' = readers, writer' = writer, done' = done
    PROVE  IInv'
<1> DEFINE ns == Delta[<<r.s.st, r.c>>]
           e  == Followed(r, ns)
<1>1. Fine(e) /\ StaysOrEnters(e, r, ns)
  BY FollowedFine
<1>2. ns \in cache'.states \cup Special /\ srch' = [srch EXCEPT ![t] = e]
  OBVIOUS
<1> HIDE DEF e, ns
<1>3. SameSearch(e, r) /\ e.pc \in {"byte", "end"} /\ (e.s = r.s \/ (ns \in States /\ e.s = Ptr(ns)))
  BY <1>1 DEF StaysOrEnters
<1>4. HeldOn(e, cache')
  BY <1>2, <1>3, ConstantsTyped DEF HeldOn, SameSearch, Ptr
<1>5. Starts(start_', cache')
  <2>1. Starts(start_, cache)
    BY OfSearch
  <2> QED BY <2>1 DEF Starts
<1>6. e.pc \notin {"idle", "lock"} /\ e.pc # "analyze" /\ e.pc # "take"
  BY <1>3
<1>7. \A k \in DOMAIN StartOf : start_[k].firstbyte # Unknown => start_'[k].firstbyte # Unknown
  OBVIOUS
<1> QED BY <1>1, <1>2, <1>4, <1>5, <1>6, <1>7, HolderStep

LEMMA ReadByteInv == ASSUME IInv, NEW t \in Threads, ReadByte(t) PROVE IInv'
<1> DEFINE r0 == srch[t]
           n == Len(r0.q.text)
           i == Skipped(r0)
           r == IF i < n THEN [r0 EXCEPT !.p = i + 1, !.c = r0.q.text[i + 1], !.todo = "byte"]
                ELSE [r0 EXCEPT !.p = i, !.c = r0.q.last, !.todo = "last"]
           ns == cache.next[<<r.s.st, r.c>>]
           e == IF ns # Null THEN Followed(r, ns) ELSE [r EXCEPT !.pc = "run"]
<1>1. r0.pc = "byte" /\ UNCHANGED <<cache, start_, readers, writer, done>> /\ srch' = [srch EXCEPT ![t] = e]
  BY DEF ReadByte, At, Become, Text
<1>2. /\ Fine(r0) /\ r0 \in SearchParams /\ Bounded(r0) /\ Sound(cache) /\ Starts(start_, cache) /\ HeldOn(r0, cache)
      /\ r0.todo # "last" /\ Reached(r0, r0.p)
  BY <1>1, OfSearch DEF Fine
<1>3. /\ r0.q \in Queries /\ n \in Nat /\ r0.q.text \in Seq(Bytes) /\ r0.q.last \in Bytes \cup {EndText} /\ r0.p \in Nat
      /\ r0.s.st \in States
  BY <1>2, QueryTyped DEF Reached, SearchParams
<1>4. i \in r0.p..n /\ i \in Nat /\ Reached(r0, i)
  BY <1>2, <1>3, SkippedIs
<1> HIDE DEF i
<1>5. /\ r \in SearchParams /\ r.q = r0.q /\ r.s = r0.s /\ r.start = r0.start /\ r.firstbyte = r0.firstbyte
      /\ r.partial = r0.partial /\ r.resetp = r0.resetp /\ r.lastmatch = r0.lastmatch
      /\ \/ r.todo = "byte" /\ i < n /\ r.p = i + 1 /\ r.c = r0.q.text[i + 1]
         \/ r.todo = "last" /\ i = n /\ r.p = i /\ r.c = r0.q.last
  <2>1. CASE i < n
    <3>1. i + 1 \in Nat /\ r0.q.text[i + 1] \in Bytes
      BY <1>3, <1>4, <2>1
    <3>2. r = [r0 EXCEPT !.p = i + 1, !.c = r0.q.text[i + 1], !.todo = "byte"]
      BY <2>1
    <3> HIDE DEF r
    <3> QED BY <1>2, <2>1, <3>1, <3>2 DEF SearchParams
  <2>2. CASE ~(i < n)
    <3>1. i = n
      BY <1>3, <1>4, <2>2
    <3>2. r = [r0 EXCEPT !.p = i, !.c = r0.q.last, !.todo = "last"]
      BY <2>2
    <3> HIDE DEF r
    <3> QED BY <1>2, <1>3, <1>4, <3>1, <3>2 DEF SearchParams
  <2> QED BY <2>1, <2>2
<1> HIDE DEF r
<1>6. Reached(r, i) /\ Bounded(r)
  BY <1>2, <1>3, <1>4, <1>5 DEF Reached, Bounded
<1>7. ReadsAfter(r, i) /\ HeldOn(r, cache)
  BY <1>2, <1>3, <1>5, <1>6 DEF ReadsAfter, HeldOn
<1>8. r.s.st \in cache.states /\ r.s.st \in States /\ r.c \in Bytes \cup {EndText}
  <2>1. r.s.st \in States /\ r.c \in Bytes \cup {EndText}
    BY <1>4, <1>7, ReadsTyped
  <2>2. r.s.st \in cache.states \cup {Null} /\ r.s.st # Null
    BY <1>7, <2>1, ConstantsTyped DEF HeldOn
  <2> QED BY <2>1, <2>2
<1>9. r0.pc \notin {"idle", "lock"} /\ cache' = cache /\ start_' = start_ /\ readers' = readers /\ writer' = writer /\ done' = done
  BY <1>1
<1>10. CASE ns # Null
  <2>1. ns = Delta[<<r.s.st, r.c>>] /\ Delta[<<r.s.st, r.c>>] \in cache.states \cup Special
    BY <1>2, <1>8, <1>10 DEF Sound, Closed
  <2>2. srch' = [srch EXCEPT ![t] = Followed(r, Delta[<<r.s.st, r.c>>])]
    BY <1>1, <1>10, <2>1
  <2>3. HeldOn(r, cache') /\ Sound(cache') /\ cache.states \subseteq cache'.states /\ Delta[<<r.s.st, r.c>>] \in cache'.states \cup Special
    BY <1>2, <1>7, <1>9, <2>1
  <2> QED BY <1>4, <1>7, <1>9, <2>2, <2>3, FollowStep DEF r0
<1>11. CASE ns = Null
  <2> DEFINE x == [r EXCEPT !.pc = "run"]
  <2>1. srch' = [srch EXCEPT ![t] = x]
    BY <1>1, <1>11
  <2>2. /\ x \in SearchParams /\ x.pc = "run" /\ x.q = r.q /\ x.s = r.s /\ x.start = r.start /\ x.firstbyte = r.firstbyte
        /\ x.partial = r.partial /\ x.resetp = r.resetp /\ x.lastmatch = r.lastmatch
        /\ x.todo = r.todo /\ x.p = r.p /\ x.c = r.c
    BY <1>5 DEF SearchParams
  <2> HIDE DEF x
  <2>3. Reading(x)
    <3>1. Reached(x, i)
      BY <1>6, <2>2 DEF Reached
    <3>2. CASE r.todo = "byte"
      <4>1. x.p = i + 1 /\ x.p > 0 /\ x.p - 1 = i /\ x.c = x.q.text[x.p] /\ x.todo = "byte"
        BY <1>4, <1>5, <2>2, <3>2
      <4> QED BY <3>1, <4>1 DEF Reading
    <3>3. CASE r.todo = "last"
      <4>1. x.p = i /\ i = n /\ x.c = x.q.last /\ x.todo = "last" /\ n = Len(x.q.text)
        BY <1>5, <2>2, <3>3
      <4> QED BY <3>1, <4>1 DEF Reading
    <3> QED BY <1>5, <3>2, <3>3
  <2>4. Fine(x)
    BY <1>6, <2>2, <2>3 DEF Fine, Bounded
  <2>5. HeldOn(x, cache') /\ Sound(cache') /\ cache.states \subseteq cache'.states /\ Starts(start_', cache')
    BY <1>2, <1>7, <1>9, <2>2 DEF HeldOn
  <2>6. x.pc \notin {"idle", "lock"} /\ x.pc # "analyze" /\ x.pc # "take"
    BY <2>2
  <2>7. \A k \in DOMAIN StartOf : start_[k].firstbyte # Unknown => start_'[k].firstbyte # Unknown
    BY <1>9
  <2> QED BY <1>9, <2>1, <2>4, <2>5, <2>6, <2>7, HolderStep DEF r0
<1> QED BY <1>10, <1>11

LEMMA RunByteInv == ASSUME IInv, NEW t \in Threads, RunByte(t) PROVE IInv'
<1> DEFINE r == srch[t]
           run == RunStateOnByte(cache, r.s.st, r.c)
           resetp == IF r.todo = "byte" THEN r.p ELSE r.resetp
           e == IF run.st # Null THEN Followed(r, run.st)
                ELSE IF TooSlow(r) THEN GaveUp(r, "slow")
                ELSE [r EXCEPT !.pc = "reset", !.resetp = resetp]
<1>1. r.pc = "run" /\ UNCHANGED <<start_, readers, writer, done>> /\ srch' = [srch EXCEPT ![t] = e] /\ cache' = run.m
  BY DEF RunByte, At, Become
<1>2. /\ Fine(r) /\ r \in SearchParams /\ Bounded(r) /\ Sound(cache) /\ Starts(start_, cache) /\ HeldOn(r, cache) /\ Reading(r)
  BY <1>1, OfSearch DEF Fine
<1>3. PICK i \in Nat : ReadsAfter(r, i)
  BY <1>2, ReadingIs
<1>4. r.s.st \in cache.states /\ r.s.st \in States /\ r.c \in Bytes \cup {EndText}
  BY <1>2, <1>3, ReadsTyped, ConstantsTyped DEF HeldOn
<1>5. /\ Sound(cache') /\ cache.states \subseteq cache'.states
      /\ run.st = Null \/ (run.st = Delta[<<r.s.st, r.c>>] /\ Delta[<<r.s.st, r.c>>] \in cache'.states \cup Special)
  <2>1. /\ Sound(run.m) /\ cache.states \subseteq run.m.states
        /\ run.st = Null \/ (run.st = Delta[<<r.s.st, r.c>>] /\ Delta[<<r.s.st, r.c>>] \in run.m.states \cup Special)
    BY <1>2, <1>4, RunIs
  <2> HIDE DEF run
  <2> QED BY <1>1, <2>1
<1> HIDE DEF run
<1>6. r.pc \notin {"idle", "lock"} /\ start_' = start_ /\ readers' = readers /\ writer' = writer /\ done' = done
      /\ HeldOn(r, cache') /\ Starts(start_', cache')
  BY <1>1, <1>2, <1>5 DEF HeldOn, Starts
<1>7. CASE run.st # Null
  <2>1. srch' = [srch EXCEPT ![t] = Followed(r, Delta[<<r.s.st, r.c>>])] /\ Delta[<<r.s.st, r.c>>] \in cache'.states \cup Special
    BY <1>1, <1>5, <1>7
  <2> QED BY <1>3, <1>5, <1>6, <2>1, FollowStep DEF r
<1>8. ASSUME NEW x, srch' = [srch EXCEPT ![t] = x], Fine(x), x.pc \in {"end", "reset"},
             x.s = r.s, x.start = r.start, x.todo = r.todo
      PROVE  IInv'
  <2>1. HeldOn(x, cache')
    BY <1>6, <1>8 DEF HeldOn
  <2>2. x.pc \notin {"idle", "lock"} /\ x.pc # "analyze" /\ x.pc # "take"
    BY <1>8
  <2>3. \A k \in DOMAIN StartOf : start_[k].firstbyte # Unknown => start_'[k].firstbyte # Unknown
    BY <1>6
  <2> QED BY <1>5, <1>6, <1>8, <2>1, <2>2, <2>3, HolderStep DEF r
<1>9. CASE run.st = Null /\ TooSlow(r)
  <2>1. Fine(GaveUp(r, "slow"))
    BY <1>2, GivesUpFine
  <2>2. "slow" \in Reasons
    BY DEF Reasons
  <2>3. SameSearch(GaveUp(r, "slow"), r) /\ GaveUp(r, "slow").s = r.s /\ GaveUp(r, "slow").pc = "end"
    BY <1>2, <2>2, GaveUpIs
  <2>4. srch' = [srch EXCEPT ![t] = GaveUp(r, "slow")]
    BY <1>1, <1>9
  <2> QED BY <1>8, <2>1, <2>3, <2>4 DEF SameSearch
<1>10. CASE run.st = Null /\ ~TooSlow(r)
  <2> DEFINE x == [r EXCEPT !.pc = "reset", !.resetp = resetp]
  <2>1. srch' = [srch EXCEPT ![t] = x]
    BY <1>1, <1>10
  <2>2. resetp \in Nat \cup {-1} /\ resetp <= Len(r.q.text)
    BY <1>2 DEF Bounded, SearchParams
  <2> HIDE DEF resetp
  <2>3. /\ x \in SearchParams /\ x.pc = "reset" /\ x.q = r.q /\ x.s = r.s /\ x.start = r.start /\ x.firstbyte = r.firstbyte
        /\ x.partial = r.partial /\ x.resetp = resetp /\ x.lastmatch = r.lastmatch
        /\ x.todo = r.todo /\ x.p = r.p /\ x.c = r.c
    BY <1>2, <2>2 DEF SearchParams
  <2> HIDE DEF x
  <2>4. Reading(x) /\ x.todo # "analyze"
    BY <1>2, <2>3 DEF Reading, Reached
  <2>5. Fine(x)
    BY <1>2, <2>2, <2>3, <2>4 DEF Fine, Bounded
  <2> QED BY <1>8, <2>1, <2>3, <2>5
<1> QED BY <1>7, <1>9, <1>10

\* When there is room for two states and the one it starts from, the start state is analyzed.
LEMMA AnalyzedIs ==
    ASSUME NEW m, Sound(m), NEW s \in States \cup Special
    PROVE  LET r == CachedState(m, s)
               last == LastByte(r.m, r.st)
               ok == Fits(r.m, r.st, last)
               ran == IF ok THEN last ELSE last - 1
               e == Explored(r.m, r.st, ran, ok)
           IN  r.st \in States =>
                 /\ r.st = s /\ ok \in BOOLEAN /\ ran \in -1..MaxByte
                 /\ Sound(e) /\ m.states \subseteq e.states /\ s \in e.states
                 /\ FirstByte(Leaving(s, ran)) \in Bytes \cup {NoneLeave, Many} /\ FirstByte(Leaving(s, ran)) # Unknown
                 /\ ok => Leaves(s, FirstByte(Leaving(s, ran)))
                 /\ m.budget >= 3 => ok
<1> DEFINE r == CachedState(m, s)
           last == LastByte(r.m, r.st)
           ok == Fits(r.m, r.st, last)
           ran == IF ok THEN last ELSE last - 1
           e == Explored(r.m, r.st, ran, ok)
<1> SUFFICES ASSUME r.st \in States
             PROVE  /\ r.st = s /\ ok \in BOOLEAN /\ ran \in -1..MaxByte
                    /\ Sound(e) /\ m.states \subseteq e.states /\ s \in e.states
                    /\ FirstByte(Leaving(s, ran)) \in Bytes \cup {NoneLeave, Many} /\ FirstByte(Leaving(s, ran)) # Unknown
                    /\ ok => Leaves(s, FirstByte(Leaving(s, ran)))
                    /\ m.budget >= 3 => ok
  OBVIOUS
<1>1. /\ Sound(r.m) /\ m.states \subseteq r.m.states /\ r.st \in States
      /\ r.st = Null \/ (r.st = s /\ s \in r.m.states \cup Special)
      /\ m.budget >= 1 => r.st = s /\ r.m.budget >= m.budget - 1
  BY CachedStateIs
<1> HIDE DEF r
<1>2. r.st = s /\ s \in States /\ s \in r.m.states
  BY <1>1, ConstantsTyped
<1>3. ok \in BOOLEAN
  BY DEF Fits
<1>4. last \in Bytes /\ last \in 0..MaxByte
  BY <1>2, LastByteIs DEF Bytes
<1>5. ok => Fits(r.m, s, ran)
  BY <1>2
<1>6. ok => Leaves(s, FirstByte(Leaving(s, ran)))
  BY <1>2, FirstByteLeaves
<1>7. m.budget >= 3 => ok
  <2> SUFFICES ASSUME m.budget >= 3 PROVE ok
    OBVIOUS
  <2>1. m.budget \in Int /\ r.m.budget \in Int
    BY <1>1 DEF Sound, Cache
  <2>2. r.m.budget >= 2
    BY <1>1, <2>1
  <2> QED BY <1>2, <2>1, <2>2, AnalyzeFits
<1> HIDE DEF ok, last
<1>8. ran \in -1..MaxByte
  BY <1>4, ConstantsTyped
<1> HIDE DEF ran
<1>9. Sound(e) /\ r.m.states \subseteq e.states
  BY <1>1, <1>2, <1>3, <1>5, <1>8, ExploredIs
<1>10. FirstByte(Leaving(s, ran)) \in Bytes \cup {NoneLeave, Many} /\ FirstByte(Leaving(s, ran)) # Unknown
  BY <1>2, <1>8, FirstByteTyped
<1> HIDE DEF e
<1> QED BY <1>1, <1>2, <1>3, <1>6, <1>7, <1>8, <1>9, <1>10

\* A new entry for one start state.
LEMMA StartsStored ==
    ASSUME NEW m, NEW m2, m.states \subseteq m2.states, Starts(start_, m),
           NEW k \in DOMAIN StartOf, NEW info \in StartInfo,
           info.start # Null => info.start = StartOf[k] /\ StartOf[k] \in m2.states \cup Special,
           info.firstbyte # Unknown => info.start # Null,
           info.start \in States /\ ~info.partial => Leaves(info.start, info.firstbyte)
    PROVE  Starts([start_ EXCEPT ![k] = info], m2)
<1> DEFINE st == [start_ EXCEPT ![k] = info]
<1>1. st \in [DOMAIN StartOf -> StartInfo] /\ st[k] = info /\ \A j \in DOMAIN StartOf : j # k => st[j] = start_[j]
  BY DEF Starts
<1> HIDE DEF st
<1>2. Starts(st, m2)
  BY <1>1 DEF Starts
<1> QED BY <1>2 DEF st

\* After Analyze the search takes the start state or has to reset the cache.
LEMMA AnalyzeEnds ==
    ASSUME NEW r, Fine(r), Starting(r), NEW m, HeldOn(r, m)
    PROVE  /\ LET e == [r EXCEPT !.pc = "take"]
              IN  Fine(e) /\ e.pc = "take" /\ e.q = r.q /\ HeldOn(e, m)
           /\ LET e == [r EXCEPT !.pc = "reset", !.todo = "analyze"]
              IN  Fine(e) /\ e.pc = "reset" /\ HeldOn(e, m)
<1>1. r \in SearchParams /\ Bounded(r)
  BY DEF Fine
<1>2. LET e == [r EXCEPT !.pc = "take"]
      IN  Fine(e) /\ e.pc = "take" /\ e.q = r.q /\ HeldOn(e, m)
  <2> DEFINE e == [r EXCEPT !.pc = "take"]
  <2>1. /\ e \in SearchParams /\ e.pc = "take" /\ e.q = r.q /\ e.s = r.s /\ e.start = r.start /\ e.p = r.p
        /\ e.resetp = r.resetp /\ e.lastmatch = r.lastmatch /\ e.todo = r.todo
    BY <1>1 DEF SearchParams
  <2> HIDE DEF e
  <2> QED BY <1>1, <2>1 DEF e, Fine, Bounded, Starting, HeldOn
<1>3. LET e == [r EXCEPT !.pc = "reset", !.todo = "analyze"]
      IN  Fine(e) /\ e.pc = "reset" /\ HeldOn(e, m)
  <2> DEFINE e == [r EXCEPT !.pc = "reset", !.todo = "analyze"]
  <2>1. /\ e \in SearchParams /\ e.pc = "reset" /\ e.q = r.q /\ e.s = r.s /\ e.start = r.start /\ e.p = r.p
        /\ e.resetp = r.resetp /\ e.lastmatch = r.lastmatch /\ e.todo = "analyze"
    BY <1>1 DEF SearchParams
  <2> HIDE DEF e
  <2>2. r.todo # "last"
    BY DEF Starting
  <2>3. Starting(e) /\ Bounded(e) /\ HeldOn(e, m)
    BY <1>1, <2>1, <2>2 DEF Bounded, Starting, HeldOn
  <2>4. Fine(e)
    BY <2>1, <2>3 DEF Fine
  <2> QED BY <2>1, <2>3, <2>4 DEF e
<1> QED BY <1>2, <1>3

LEMMA AnalyzeInv == ASSUME IInv, NEW t \in Threads, Analyze(t) PROVE IInv'
<1> DEFINE r == srch[t]
           k == r.q.start
           took == [r EXCEPT !.pc = "take"]
           again == [r EXCEPT !.pc = "reset", !.todo = "analyze"]
           cs == CachedState(cache, StartOf[k])
           last == LastByte(cs.m, cs.st)
           ok == Fits(cs.m, cs.st, last)
           ran == IF ok THEN last ELSE last - 1
           fb == FirstByte(Leaving(cs.st, ran))
<1>1. r.pc = "analyze" /\ UNCHANGED <<readers, writer, done>>
  BY DEF Analyze, At
<1>2. /\ Fine(r) /\ r \in SearchParams /\ Bounded(r) /\ Sound(cache) /\ Starts(start_, cache) /\ HeldOn(r, cache)
      /\ Starting(r)
  BY <1>1, OfSearch DEF Fine
<1>3. r.todo = "analyze" => cache = Cleared
  BY <1>1, OfSearch DEF KeptInv, At
<1>4. k \in DOMAIN StartOf /\ StartOf[k] \in States \cup Special
  BY <1>2, QueryTyped, StartTyped DEF Starting
<1>5. cache.budget \in Int /\ (r.todo = "analyze" => cache.budget >= 3)
  BY <1>2, <1>3, ClearedIs, ConstantsTyped DEF Sound, Cache
\* What is left to show of each way through Analyze.
<1>6. ASSUME NEW e \in {took, again}, srch' = [srch EXCEPT ![t] = e], Sound(cache'), cache.states \subseteq cache'.states,
             Starts(start_', cache'),
             \A j \in DOMAIN StartOf : start_[j].firstbyte # Unknown => start_'[j].firstbyte # Unknown,
             e = took => start_'[k].firstbyte # Unknown
      PROVE  IInv'
  <2>1. HeldOn(r, cache')
    BY <1>2, <1>6 DEF HeldOn
  <2>2. Fine(e) /\ HeldOn(e, cache') /\ e.pc \in {"take", "reset"} /\ (e.pc = "take" => e = took /\ e.q = r.q)
    <3>1. /\ Fine(took) /\ took.pc = "take" /\ took.q = r.q /\ HeldOn(took, cache')
          /\ Fine(again) /\ again.pc = "reset" /\ HeldOn(again, cache')
      BY <1>2, <2>1, AnalyzeEnds
    <3> HIDE DEF took, again
    <3>2. CASE e = took
      BY <3>1, <3>2
    <3>3. CASE e = again
      BY <3>1, <3>3
    <3> QED BY <1>6, <3>2, <3>3
  <2> HIDE DEF took, again
  <2>3. /\ r.pc \notin {"idle", "lock"} /\ e.pc \notin {"idle", "lock"} /\ e.pc # "analyze"
        /\ (e.pc = "take" => start_'[e.q.start].firstbyte # Unknown)
    BY <1>1, <1>6, <2>2
  <2>4. readers' = readers /\ writer' = writer /\ done' = done
    BY <1>1
  <2> QED BY <1>6, <2>2, <2>3, <2>4, HolderStep DEF r
<1>7. CASE start_[k].firstbyte # Unknown
  <2>1. srch' = [srch EXCEPT ![t] = took] /\ cache' = cache /\ start_' = start_
    BY <1>7 DEF Analyze, Go, Become
  <2> HIDE DEF r, took, again
  <2>2. took \in {took, again} /\ Sound(cache') /\ cache.states \subseteq cache'.states /\ Starts(start_', cache')
    BY <1>2, <2>1
  <2>3. start_'[k].firstbyte # Unknown /\ \A j \in DOMAIN StartOf : start_[j].firstbyte # Unknown => start_'[j].firstbyte # Unknown
    BY <1>7, <2>1
  <2> QED BY <1>6, <2>1, <2>2, <2>3
\* A new entry is stored.
<1>8. ASSUME start_[k].firstbyte = Unknown, NEW info \in StartInfo, start_' = [start_ EXCEPT ![k] = info],
             NEW e \in {took, again}, srch' = [srch EXCEPT ![t] = e], Sound(cache'), cache.states \subseteq cache'.states,
             info.start # Null => info.start = StartOf[k] /\ StartOf[k] \in cache'.states \cup Special,
             info.firstbyte # Unknown => info.start # Null,
             info.start \in States /\ ~info.partial => Leaves(info.start, info.firstbyte),
             e = took => info.firstbyte # Unknown
      PROVE  IInv'
  <2> HIDE DEF k, took, again
  <2>1. Starts(start_', cache')
    BY <1>2, <1>4, <1>8, StartsStored
  <2>2. start_ \in [DOMAIN StartOf -> StartInfo]
    BY <1>2 DEF Starts
  <2>3. start_'[k] = info /\ \A j \in DOMAIN StartOf : j # k => start_'[j] = start_[j]
    BY <1>4, <1>8, <2>2
  <2>4. \A j \in DOMAIN StartOf : start_[j].firstbyte # Unknown => start_'[j].firstbyte # Unknown
    BY <1>8, <2>3
  <2>5. e = took => start_'[k].firstbyte # Unknown
    BY <1>8, <2>3
  <2> QED BY <1>6, <1>8, <2>1, <2>4, <2>5
<1>9. /\ Sound(cs.m) /\ cache.states \subseteq cs.m.states
      /\ cs.st = Null \/ (cs.st = StartOf[k] /\ StartOf[k] \in cs.m.states \cup Special)
      /\ cache.budget >= 1 => cs.st = StartOf[k]
  BY <1>2, <1>4, CachedStateIs
<1>10. ASSUME start_[k].firstbyte = Unknown, cs.st = Null, cache' = cs.m,
              start_' = [start_ EXCEPT ![k] = [start |-> Null, firstbyte |-> Unknown, partial |-> FALSE]],
              AnalyzeFailed(t)
       PROVE  IInv'
  <2> DEFINE info == [start |-> Null, firstbyte |-> Unknown, partial |-> FALSE]
  <2>1. info \in StartInfo /\ info.start = Null /\ info.firstbyte = Unknown /\ Null \notin States
    BY ConstantsTyped DEF StartInfo, FbMarks
  <2>2. r.todo # "analyze"
    BY <1>4, <1>5, <1>9, <1>10, ConstantsTyped
  <2>3. srch' = [srch EXCEPT ![t] = again]
    BY <1>10, <2>2 DEF AnalyzeFailed, Become
  <2>4. again # took
    <3>1. took.pc = "take" /\ again.pc = "reset"
      BY <1>2 DEF SearchParams
    <3> QED BY <3>1
  <2>5. Sound(cache') /\ cache.states \subseteq cache'.states
    BY <1>9, <1>10
  <2> HIDE DEF info, took, again, k, cs
  <2>6. start_' = [start_ EXCEPT ![k] = info] /\ again \in {took, again}
    BY <1>10 DEF info
  <2> QED BY <1>8, <1>10, <2>1, <2>3, <2>4, <2>5, <2>6
<1>11. ASSUME start_[k].firstbyte = Unknown, cs.st \in Special, cache' = cs.m,
              start_' = [start_ EXCEPT ![k] = [start |-> cs.st, firstbyte |-> NoneLeave, partial |-> FALSE]],
              srch' = [srch EXCEPT ![t] = took]
       PROVE  IInv'
  <2> DEFINE info == [start |-> cs.st, firstbyte |-> NoneLeave, partial |-> FALSE]
  <2> HIDE DEF cs, took, again, k
  <2>1. info \in StartInfo /\ info.start = cs.st /\ info.firstbyte = NoneLeave
    BY <1>11 DEF StartInfo, FbMarks
  <2>2. cs.st # Null /\ cs.st \notin States /\ NoneLeave # Unknown
    BY <1>11, ConstantsTyped DEF NoneLeave, Unknown
  <2>3. cs.st = StartOf[k] /\ StartOf[k] \in cache'.states \cup Special /\ Sound(cache') /\ cache.states \subseteq cache'.states
    BY <1>9, <1>11, <2>2
  <2>4. start_' = [start_ EXCEPT ![k] = info] /\ took \in {took, again}
    BY <1>11
  <2> HIDE DEF info
  <2> QED BY <1>8, <1>11, <2>1, <2>2, <2>3, <2>4
<1>12. ASSUME start_[k].firstbyte = Unknown, cs.st \in States, cache' = Explored(cs.m, cs.st, ran, ok),
              start_' = [start_ EXCEPT ![k] = [start |-> cs.st, firstbyte |-> fb, partial |-> ~ok]],
              IF ok THEN srch' = [srch EXCEPT ![t] = took] ELSE AnalyzeFailed(t)
       PROVE  IInv'
  <2>1. /\ cs.st = StartOf[k] /\ ok \in BOOLEAN /\ ran \in -1..MaxByte
        /\ Sound(cache') /\ cache.states \subseteq cache'.states /\ StartOf[k] \in cache'.states
        /\ fb \in Bytes \cup {NoneLeave, Many} /\ fb # Unknown
        /\ ok => Leaves(cs.st, fb)
        /\ cache.budget >= 3 => ok
    <3> DEFINE fb0 == FirstByte(Leaving(StartOf[k], ran))
               ex == Explored(cs.m, cs.st, ran, ok)
    <3>1. cs.st \in States =>
            /\ cs.st = StartOf[k] /\ ok \in BOOLEAN /\ ran \in -1..MaxByte
            /\ Sound(ex) /\ cache.states \subseteq ex.states /\ StartOf[k] \in ex.states
            /\ fb0 \in Bytes \cup {NoneLeave, Many} /\ fb0 # Unknown
            /\ ok => Leaves(StartOf[k], fb0)
            /\ cache.budget >= 3 => ok
      <4>1. Sound(cache) /\ StartOf[k] \in States \cup Special
        BY <1>2, <1>4
      <4> QED BY <4>1, AnalyzedIs
    <3>2. cache' = ex /\ cs.st \in States
      BY <1>12
    <3> HIDE DEF ex, ok, ran, cs
    <3>3. cs.st = StartOf[k] /\ fb = fb0
      BY <3>1, <3>2
    <3> HIDE DEF fb, fb0
    <3> QED BY <3>1, <3>2, <3>3
  <2> DEFINE e == IF ok THEN took ELSE again
  <2>2. srch' = [srch EXCEPT ![t] = e] /\ e \in {took, again}
    <3>1. CASE ok
      BY <1>12, <3>1
    <3>2. CASE ~ok
      <4>1. r.todo # "analyze"
        BY <1>5, <2>1, <3>2
      <4>2. srch' = [srch EXCEPT ![t] = again]
        BY <1>12, <3>2, <4>1 DEF AnalyzeFailed, Become
      <4> QED BY <3>2, <4>2
    <3> QED BY <3>1, <3>2
  <2> DEFINE partial == ~ok
             info == [start |-> cs.st, firstbyte |-> fb, partial |-> partial]
  <2>3. start_' = [start_ EXCEPT ![k] = info]
    BY <1>12
  <2>4. partial \in BOOLEAN /\ (~partial => ok)
    BY <2>1
  <2> HIDE DEF cs, ran, fb, e, ok, took, again, k, partial
  <2>5. info \in StartInfo /\ info.start = cs.st /\ info.firstbyte = fb /\ info.partial = partial
    BY <1>12, <2>1, <2>4 DEF StartInfo, FbMarks
  <2> HIDE DEF info
  <2> QED BY <1>8, <1>12, <2>1, <2>2, <2>3, <2>4, <2>5, ConstantsTyped
<1>13. CASE start_[k].firstbyte = Unknown
  <2>1. \/ /\ cs.st = Null
           /\ cache' = cs.m /\ start_' = [start_ EXCEPT ![k] = [start |-> Null, firstbyte |-> Unknown, partial |-> FALSE]]
           /\ AnalyzeFailed(t)
        \/ /\ cs.st \in Special
           /\ cache' = cs.m /\ start_' = [start_ EXCEPT ![k] = [start |-> cs.st, firstbyte |-> NoneLeave, partial |-> FALSE]]
           /\ srch' = [srch EXCEPT ![t] = took]
        \/ /\ cs.st \in States
           /\ cache' = Explored(cs.m, cs.st, ran, ok)
           /\ start_' = [start_ EXCEPT ![k] = [start |-> cs.st, firstbyte |-> fb, partial |-> ~ok]]
           /\ IF ok THEN srch' = [srch EXCEPT ![t] = took] ELSE AnalyzeFailed(t)
    BY <1>13, ZenonT(60) DEF Analyze, Go, Become
  <2> QED BY <1>10, <1>11, <1>12, <1>13, <2>1
<1> QED BY <1>7, <1>13

\* A step that changes who holds the lock.
LEMMA LockStep ==
    ASSUME IInv, NEW t \in Threads, NEW e, srch' = [srch EXCEPT ![t] = e], Fine(e),
           cache' = cache, start_' = start_, done' \in 0..MaxSearches,
           e.pc \notin {"take", "analyze"},
           readers' \subseteq Threads, writer' \subseteq Threads,
           \A u \in Threads \ {t} : (u \in readers' <=> u \in readers) /\ (u \in writer' <=> u \in writer),
           t \in writer' => t \in writer,
           writer' = {} \/ readers' = {},
           t \in Holders' => HeldOn(e, cache),
           e.pc = "idle" => t \notin Holders',
           e.pc = "lock" => t \notin readers',
           e.pc \notin {"idle", "lock"} => t \in Holders'
    PROVE  IInv'
<1>1. Parts
  BY InvParts
<1>2. srch' \in [Threads -> SearchParams] /\ srch'[t] = e /\ \A u \in Threads \ {t} : srch'[u] = srch[u]
  BY <1>1 DEF Parts, Fine
<1>3. \A u \in Threads : Fine(srch'[u])
  BY <1>1, <1>2 DEF Parts
<1>4. \A u \in Holders' : HeldOn(srch'[u], cache')
  BY <1>1, <1>2 DEF Parts, Holders
<1>5. LockInv'
  <2>1. \A u, v \in writer' : u = v
    BY <1>1 DEF Parts, LockInv
  <2>2. ASSUME NEW u \in Threads
        PROVE  /\ srch'[u].pc = "idle" => u \notin Holders'
               /\ srch'[u].pc = "lock" => u \notin readers'
               /\ srch'[u].pc \notin {"idle", "lock"} => u \in Holders'
    <3>1. CASE u = t
      BY <1>2, <3>1
    <3>2. CASE u # t
      BY <1>1, <1>2, <3>2 DEF Parts, LockInv, At, Holders
    <3> QED BY <3>1, <3>2
  <2> QED BY <2>1, <2>2 DEF LockInv, At
<1>6. KeptInv'
  BY <1>1, <1>2 DEF Parts, KeptInv, At
<1>7. Parts'
  BY <1>1, <1>2, <1>3, <1>4, <1>5, <1>6 DEF Parts
<1> QED BY <1>7, InvParts, PTL

LEMMA BeginInv == ASSUME IInv, NEW t \in Threads, NEW q \in Queries, Begin(t, q) PROVE IInv'
<1> DEFINE e == [Idle EXCEPT !.pc = "quick", !.q = q]
<1>1. Parts
  BY InvParts
<1>2. /\ writer = {} /\ writer' = {} /\ readers' = readers \cup {t} /\ srch' = [srch EXCEPT ![t] = e]
      /\ cache' = cache /\ start_' = start_ /\ done < MaxSearches /\ done' = done + 1
  BY DEF Begin, Become
<1>3. Fine(e) /\ e.pc = "quick" /\ HeldOn(e, cache)
  BY IdleIs
<1> HIDE DEF e
<1>4. done' \in 0..MaxSearches
  BY <1>1, <1>2, CacheAssumption DEF Parts
<1>5. readers' \subseteq Threads /\ writer' \subseteq Threads /\ t \in Holders'
  BY <1>1, <1>2 DEF Parts, Holders
<1>6. e.pc \notin {"take", "analyze"} /\ e.pc \notin {"idle", "lock"}
  BY <1>3
<1>7. \A u \in Threads \ {t} : (u \in readers' <=> u \in readers) /\ (u \in writer' <=> u \in writer)
  BY <1>2
<1> QED BY <1>2, <1>3, <1>4, <1>5, <1>6, <1>7, LockStep

LEMMA UnlockInv == ASSUME IInv, NEW t \in Threads, Unlock(t) PROVE IInv'
<1> DEFINE r == srch[t]
           e == [r EXCEPT !.pc = "lock"]
<1>1. Parts
  BY InvParts
<1>2. /\ r.pc = "reset" /\ writer' = writer /\ readers' = readers \ {t} /\ srch' = [srch EXCEPT ![t] = e]
      /\ cache' = cache /\ start_' = start_ /\ done' = done
  BY DEF Unlock, At, Go, Become
<1>3. Fine(r) /\ r \in SearchParams /\ Bounded(r) /\ HeldOn(r, cache) /\ LockInv
      /\ (IF r.todo = "analyze" THEN Starting(r) ELSE Reading(r))
  BY <1>2, OfSearch DEF Fine
<1> HIDE DEF r
<1>4. /\ e \in SearchParams /\ e.pc = "lock" /\ e.q = r.q /\ e.s = r.s /\ e.start = r.start /\ e.firstbyte = r.firstbyte
      /\ e.partial = r.partial /\ e.resetp = r.resetp /\ e.lastmatch = r.lastmatch
      /\ e.todo = r.todo /\ e.p = r.p /\ e.c = r.c
  BY <1>3 DEF SearchParams
<1> HIDE DEF e
<1>5. r.todo = "analyze" => Starting(e)
  BY <1>3, <1>4 DEF Starting
<1>6. r.todo # "analyze" => Reading(e)
  BY <1>3, <1>4 DEF Reading, Reached
<1>7. Fine(e) /\ HeldOn(e, cache)
  BY <1>3, <1>4, <1>5, <1>6 DEF Fine, Bounded, HeldOn
<1>8. done' \in 0..MaxSearches /\ readers' \subseteq Threads /\ writer' \subseteq Threads /\ t \notin readers'
  BY <1>1, <1>2 DEF Parts
<1>9. writer' = {} \/ readers' = {}
  BY <1>2, <1>3 DEF LockInv
<1>10. e.pc \notin {"take", "analyze"} /\ e.pc # "idle"
  BY <1>4
<1>11. \A u \in Threads \ {t} : (u \in readers' <=> u \in readers) /\ (u \in writer' <=> u \in writer)
  BY <1>2
<1> QED BY <1>2, <1>4, <1>7, <1>8, <1>9, <1>10, <1>11, LockStep

LEMMA FinishInv == ASSUME IInv, NEW t \in Threads, Finish(t) PROVE IInv'
<1>1. Parts
  BY InvParts
<1>2. /\ writer' = writer \ {t} /\ readers' = readers \ {t} /\ srch' = [srch EXCEPT ![t] = Idle]
      /\ cache' = cache /\ start_' = start_ /\ done' = done
  BY DEF Finish, Become
<1>3. Fine(Idle) /\ Idle.pc = "idle"
  BY IdleIs
<1>4. /\ done' \in 0..MaxSearches /\ readers' \subseteq Threads /\ writer' \subseteq Threads /\ t \notin Holders'
      /\ t \notin writer' /\ t \notin readers'
  BY <1>1, <1>2 DEF Parts, Holders
<1>5. writer' = {} \/ readers' = {}
  BY <1>1, <1>2 DEF Parts, LockInv
<1>6. Idle.pc \notin {"take", "analyze"} /\ Idle.pc # "lock"
  BY <1>3
<1>7. \A u \in Threads \ {t} : (u \in readers' <=> u \in readers) /\ (u \in writer' <=> u \in writer)
  BY <1>2
<1> QED BY <1>2, <1>3, <1>4, <1>5, <1>6, <1>7, LockStep

\* A search that does not hold the lock is no worse for what it points to being gone.
LEMMA VoidedFine ==
    ASSUME NEW r \in SearchParams, Fine(r), r.pc \in {"idle", "lock"}
    PROVE  LET e == [r EXCEPT !.start = Void(@), !.s = Void(@)]
           IN  Fine(e) /\ e.pc = r.pc /\ e \in SearchParams
<1> DEFINE e == [r EXCEPT !.start = Void(@), !.s = Void(@)]
           a == Void(r.start)
           b == Void(r.s)
<1>1. /\ \A x \in Pointer : Void(x) \in Pointer /\ Void(x).st = x.st
      /\ Void(Nowhere) = Nowhere
  BY DEF Void, Pointer, Nowhere, Ptr
<1>2. r.start \in Pointer /\ r.s \in Pointer
  BY DEF SearchParams
<1>3. e = [r EXCEPT !.start = a, !.s = b]
  OBVIOUS
<1>4. a \in Pointer /\ a.st = r.start.st /\ (r.start = Nowhere => a = Nowhere)
      /\ b \in Pointer /\ b.st = r.s.st /\ (r.s = Nowhere => b = Nowhere)
  BY <1>1, <1>2
<1> HIDE DEF a, b, e
<1>5. /\ e \in SearchParams /\ e.pc = r.pc /\ e.q = r.q /\ e.s = b /\ e.start = a /\ e.firstbyte = r.firstbyte
      /\ e.partial = r.partial /\ e.resetp = r.resetp /\ e.lastmatch = r.lastmatch
      /\ e.todo = r.todo /\ e.p = r.p /\ e.c = r.c
  BY <1>3, <1>4 DEF SearchParams
<1>6. Bounded(e)
  BY <1>5 DEF Fine, Bounded
<1>7. CASE r.pc = "idle"
  BY <1>5, <1>6, <1>7 DEF Fine, e
<1>8. CASE r.pc = "lock"
  <2>1. r.todo = "analyze" => Starting(e)
    BY <1>4, <1>5, <1>8 DEF Fine, Starting
  <2>2. ASSUME r.todo # "analyze" PROVE Reading(e)
    <3>1. Reading(r)
      BY <1>8, <2>2 DEF Fine
    <3>2. \A i : Reached(r, i) => Reached(e, i)
      BY <1>4, <1>5 DEF Reached
    <3> QED BY <1>5, <3>1, <3>2 DEF Reading
  <2>3. Fine(e)
    BY <1>5, <1>6, <1>8, <2>1, <2>2 DEF Fine
  <2> QED BY <1>5, <2>3 DEF e
<1> QED BY <1>7, <1>8

\* What a reset leaves, if it is right for the search that does it.
LEMMA ResetStep ==
    ASSUME IInv, NEW t \in Threads, MayWrite(t), NEW e, srch' = [Voided EXCEPT ![t] = e], Fine(e), HeldOn(e, cache'),
           e.pc \in {"analyze", "byte", "end"}, e.pc = "analyze" => cache' = Cleared, Sound(cache'),
           start_' = NoStart, readers' = readers, writer' = {t}, done' = done
    PROVE  IInv'
<1>1. Parts
  BY InvParts
<1>2. readers = {} /\ writer \subseteq {t} /\ Holders' = {t} /\ readers' = {}
  BY DEF MayWrite, Holders
<1>3. \A u \in Threads \ {t} : srch[u].pc \in {"idle", "lock"}
  BY <1>1, <1>2 DEF Parts, LockInv, Holders
<1>4. ASSUME NEW u \in Threads \ {t}
      PROVE  /\ Voided[u] \in SearchParams /\ Fine(Voided[u]) /\ Voided[u].pc \in {"idle", "lock"}
  <2>1. srch[u] \in SearchParams /\ Fine(srch[u]) /\ srch[u].pc \in {"idle", "lock"}
    BY <1>1, <1>3 DEF Parts
  <2>2. Voided[u] = [srch[u] EXCEPT !.start = Void(@), !.s = Void(@)]
    BY DEF Voided
  <2> QED BY <2>1, <2>2, VoidedFine
<1>5. srch'[t] = e /\ \A u \in Threads \ {t} : srch'[u] = Voided[u]
  BY DEF Voided
<1>6. \A u \in Threads : srch'[u] \in SearchParams /\ Fine(srch'[u])
  BY <1>4, <1>5 DEF Fine
<1>7. srch' \in [Threads -> SearchParams]
  <2>1. srch' = [u \in Threads |-> srch'[u]]
    BY DEF Voided
  <2> QED BY <1>6, <2>1
<1>8. LockInv'
  BY <1>2, <1>4, <1>5 DEF LockInv, At, Holders
<1>9. KeptInv'
  BY <1>4, <1>5 DEF KeptInv, At
<1>10. \A u \in Holders' : HeldOn(srch'[u], cache')
  BY <1>2, <1>5
<1>11. Parts'
  BY <1>1, <1>2, <1>6, <1>7, <1>8, <1>9, <1>10, NothingStarted DEF Parts
<1> QED BY <1>11, InvParts, PTL

LEMMA ResetCacheInv == ASSUME IInv, NEW t \in Threads, ResetCache(t) PROVE IInv'
<1> DEFINE r == srch[t]
<1>1. /\ r.pc = "lock" /\ MayWrite(t) /\ readers' = readers /\ writer' = {t} /\ done' = done /\ start_' = NoStart
  BY DEF ResetCache, At, ClearStart
<1>2. Fine(r) /\ r \in SearchParams /\ Bounded(r) /\ (IF r.todo = "analyze" THEN Starting(r) ELSE Reading(r))
  BY <1>1, OfSearch DEF Fine
<1>3. CASE r.todo = "analyze"
  <2> DEFINE e == [r EXCEPT !.pc = "analyze"]
  <2>1. cache' = Cleared /\ srch' = [Voided EXCEPT ![t] = e]
    BY <1>3 DEF ResetCache
  <2> HIDE DEF r
  <2>2. /\ e \in SearchParams /\ e.pc = "analyze" /\ e.q = r.q /\ e.s = r.s /\ e.start = r.start /\ e.p = r.p
        /\ e.resetp = r.resetp /\ e.lastmatch = r.lastmatch /\ e.todo = r.todo
    BY <1>2 DEF SearchParams
  <2> HIDE DEF e
  <2>3. Starting(e) /\ Bounded(e)
    BY <1>2, <1>3, <2>2 DEF Starting, Bounded
  <2>4. Fine(e)
    BY <2>2, <2>3 DEF Fine
  <2>5. HeldOn(e, cache')
    BY <2>3 DEF Starting, HeldOn, Nowhere, Ptr
  <2>6. e.pc \in {"analyze", "byte", "end"}
    BY <2>2
  <2> QED BY <1>1, <2>1, <2>4, <2>5, <2>6, ClearedIs, ResetStep
<1>4. CASE r.todo # "analyze"
  <2> DEFINE x == Rerun(r)
             start == IF r.todo = "last" THEN Void(r.start) ELSE Ptr(x.start)
             n == [r EXCEPT !.s = Ptr(x.s), !.start = start]
             ns == Delta[<<r.s.st, r.c>>]
  <2>1. PICK i \in Nat : ReadsAfter(r, i)
    BY <1>2, <1>4, ReadingIs
  <2>2. /\ r.s.st \in States /\ r.c \in Bytes \cup {EndText} /\ ns \in States \cup Special /\ r.start.st \in States
        /\ r.todo \in {"byte", "last"}
    <3>1. r.start.st \in States /\ r.todo \in {"byte", "last"}
      BY <2>1 DEF ReadsAfter, Reached
    <3> QED BY <2>1, <3>1, ReadsTyped
  <2>3. /\ Sound(x.m) /\ x.s = r.s.st /\ x.s \in x.m.states /\ x.ns = ns /\ x.ns \in x.m.states \cup Special
        /\ r.todo # "last" => x.start = r.start.st /\ x.start \in x.m.states
    BY <2>2, RerunIs
  <2>4. /\ cache' = x.m
        /\ srch' = [Voided EXCEPT ![t] =
                      IF x.s = Null \/ (x.start = Null /\ r.todo = "byte")
                      THEN GaveUp(r, "StateSaver failed to restore state.")
                      ELSE IF x.ns = Null THEN GaveUp(r, "RunStateOnByteUnlocked failed after ResetCache")
                      ELSE Followed([r EXCEPT !.s = Ptr(x.s), !.start = IF r.todo = "last" THEN Void(@) ELSE Ptr(x.start)], x.ns)]
    <3> HIDE DEF x
    <3>1. \E y \in {x} :
             /\ cache' = y.m
             /\ srch' = [Voided EXCEPT ![t] =
                  IF y.s = Null \/ (y.start = Null /\ r.todo = "byte")
                  THEN GaveUp(r, "StateSaver failed to restore state.")
                  ELSE IF y.ns = Null THEN GaveUp(r, "RunStateOnByteUnlocked failed after ResetCache")
                  ELSE Followed([r EXCEPT !.s = Ptr(y.s), !.start = IF r.todo = "last" THEN Void(@) ELSE Ptr(y.start)], y.ns)]
      BY <1>4, Zenon DEF ResetCache, x
    <3> QED BY <3>1, Zenon
  <2> HIDE DEF x, r, ns
  <2>5. x.s # Null /\ x.ns # Null /\ ~(x.start = Null /\ r.todo = "byte")
    BY <2>2, <2>3, ConstantsTyped
  <2>6. srch' = [Voided EXCEPT ![t] = Followed(n, ns)]
    BY <2>3, <2>4, <2>5
  <2>7. start \in Pointer /\ start.st = r.start.st /\ (r.todo # "last" => start.live) /\ Ptr(x.s) \in Pointer
        /\ Ptr(x.s).st = r.s.st /\ Ptr(x.s).live
    <3>1. r.start \in Pointer
      BY <1>2 DEF SearchParams
    <3>2. \A y \in Pointer : Void(y) \in Pointer /\ Void(y).st = y.st
      BY DEF Void, Pointer
    <3>3. \A y \in States : Ptr(y) \in Pointer /\ Ptr(y).st = y /\ Ptr(y).live
      BY DEF Ptr, Pointer
    <3>4. Ptr(x.s) \in Pointer /\ Ptr(x.s).st = r.s.st /\ Ptr(x.s).live
      BY <2>2, <2>3, <3>3
    <3>5. CASE r.todo = "last"
      BY <3>1, <3>2, <3>4, <3>5
    <3>6. CASE r.todo # "last"
      BY <2>2, <2>3, <3>3, <3>4, <3>6
    <3> QED BY <3>5, <3>6
  <2> HIDE DEF start
  <2>8. /\ n \in SearchParams /\ n.pc = r.pc /\ n.q = r.q /\ n.s = Ptr(x.s) /\ n.start = start /\ n.firstbyte = r.firstbyte
        /\ n.partial = r.partial /\ n.resetp = r.resetp /\ n.lastmatch = r.lastmatch
        /\ n.todo = r.todo /\ n.p = r.p /\ n.c = r.c
    BY <1>2, <2>7 DEF SearchParams
  <2> HIDE DEF n
  <2>9. ReadsAfter(n, i)
    <3>1. Reached(n, i)
      BY <2>1, <2>7, <2>8 DEF ReadsAfter, Reached
    <3> QED BY <2>1, <2>8, <3>1 DEF ReadsAfter, Bounded
  <2>10. HeldOn(n, cache')
    BY <2>2, <2>3, <2>4, <2>7, <2>8 DEF HeldOn
  <2> DEFINE e == Followed(n, ns)
  <2>11. Fine(e) /\ StaysOrEnters(e, n, ns)
    <3>1. ns = Delta[<<n.s.st, n.c>>]
      BY <2>7, <2>8 DEF ns
    <3> QED BY <2>9, <3>1, FollowedFine
  <2>12. srch' = [Voided EXCEPT ![t] = e]
    BY <2>6
  <2> HIDE DEF e
  <2>13. SameSearch(e, n) /\ e.pc \in {"byte", "end"} /\ (e.s = n.s \/ (ns \in States /\ e.s = Ptr(ns)))
    BY <2>11 DEF StaysOrEnters
  <2>14. ns \in cache'.states \cup Special /\ Sound(cache')
    BY <2>3, <2>4
  <2>15. HeldOn(e, cache')
    BY <2>10, <2>13, <2>14, ConstantsTyped DEF HeldOn, SameSearch, Ptr
  <2>16. e.pc \in {"analyze", "byte", "end"} /\ e.pc # "analyze"
    BY <2>13
  <2> QED BY <1>1, <2>11, <2>12, <2>14, <2>15, <2>16, ResetStep
<1> QED BY <1>3, <1>4

LEMMA NextInv == IInv /\ [Next]_vars => IInv'
<1> SUFFICES ASSUME IInv, [Next]_vars PROVE IInv'
  OBVIOUS
<1>1. CASE UNCHANGED vars
  BY <1>1 DEF vars, IInv, TypeOK, LockInv, NoDangling, CacheSound, StartInv, KeptInv, Holders, At, Text
<1>2. ASSUME NEW t \in Threads, Step(t) PROVE IInv'
  BY <1>2, QuickCheckInv, AnalyzeInv, TakeStartInv, ReadByteInv, RunByteInv, UnlockInv, ResetCacheInv, FinishInv DEF Step
<1>3. ASSUME NEW t \in Threads, NEW q \in Queries, Begin(t, q) PROVE IInv'
  BY <1>3, BeginInv
<1> QED BY <1>1, <1>2, <1>3 DEF Next

LEMMA Invariance == Spec => []IInv
  BY InitInv, NextInv, PTL DEF Spec

-----------------------------------------------------------------------------
(* The theorems.                                                           *)

\* Every variable keeps its type: one writer at most, the memory never below -1, no
\* search reads, resets or finds a match past the end of its text.
THEOREM TypeCorrect == Spec => []TypeOK
<1>1. IInv => TypeOK
  BY DEF IInv
<1> QED BY <1>1, Invariance, PTL

\* A State* is only used while cache_mutex_ keeps the state it points to there.
THEOREM StatesStay == Spec => []NoDangling
<1>1. IInv => NoDangling
  BY DEF IInv
<1> QED BY <1>1, Invariance, PTL

\* The cache is a part of the automaton that is closed under its arrows, and
\* mem_budget_ counts what it holds.
THEOREM CacheIsSound == Spec => []CacheSound
<1>1. IInv => CacheSound
  BY DEF IInv
<1> QED BY <1>1, Invariance, PTL

\* With room for three states the branches that log at DFATAL are never taken: a
\* search that gives up is one that RunStateOnByteUnlocked found too slow.
THEOREM NeverFatalHolds == Spec => []NeverFatal
<1>1. IInv => NeverFatal
  <2> SUFFICES ASSUME IInv, NEW t \in Threads, At(t, "end"), srch[t].answer.failed
               PROVE  srch[t].answer.why = "slow"
    BY DEF NeverFatal
  <2> QED BY DEF IInv, Fine, Right, At
<1> QED BY <1>1, Invariance, PTL

\* Whatever other searches add to the cache, and however often it is thrown away, a
\* search whose firstbyte was complete answers as the automaton alone would.
THEOREM AnswersAreRight == Spec => []AnswerRightIfComplete
<1>1. IInv => AnswerRightIfComplete
  <2> SUFFICES ASSUME IInv, NEW t \in Threads, At(t, "end"), ~srch[t].answer.failed, ~srch[t].partial
               PROVE  srch[t].answer = Reference(srch[t].q)
    BY DEF AnswerRightIfComplete
  <2> QED BY DEF IInv, Fine, Right, At
<1> QED BY <1>1, Invariance, PTL
=============================================================================
