----------------------------- MODULE ReDfaCache -----------------------------
(***************************************************************************)
(* The state cache of RE2's DFA (re2/dfa.cc).  The automaton is built      *)
(* while it runs: a State is made when a search first needs it, an arrow   *)
(* when it is first followed, and when the memory is used up the search    *)
(* that finds it so throws all states away and starts again from copies of *)
(* the two it needs.  Any number of threads search at once.                *)
(*                                                                         *)
(*   cache_mutex_  is held for reading by a search, and for writing by a   *)
(*                 search that has reset the cache, up to its end          *)
(*   mutex_        is held to add to the cache.  What is done under it is  *)
(*                 one step: others only load arrows and firstbyte without *)
(*                 it, and each of these is stored at once                 *)
(*                                                                         *)
(* The automaton itself is a constant here: what WorkqToCachedState finds  *)
(* as the content of a state is the state, and where a byte leads from it  *)
(* is a function of the two.  Texts are written in the order in which they *)
(* are read; for a backward search that is from the end, and p counts the  *)
(* bytes read.                                                             *)
(***************************************************************************)
EXTENDS Integers, FiniteSets, Sequences

CONSTANTS
    Threads,
    States,       \* the contents of states, the special ones apart
    MaxByte,      \* bytes are 0..MaxByte: 255 in the code
    StartOf,      \* where a search starts, by its index into start_
    Delta,        \* Delta[<<s, c>>]: where c leads from s
    Matching,     \* the states with kFlagMatch
    Capacity,     \* state_budget_, in states.  The constructor asks for 20
    BailFactor,   \* bytes per state below which a search gives up: 10
    Queries,      \* the searches: [text, start, last, earliest, forward]
    MaxSearches   \* bound: searches of all threads together

Null     == "NULL"
Dead     == "DeadState"
Full     == "FullMatchState"
Special  == {Dead, Full}
EndText  == MaxByte + 1            \* kByteEndText
Bytes    == 0..MaxByte
Unknown  == -1                     \* kFbUnknown
Many     == -2                     \* kFbMany
NoneLeave == -3                    \* kFbNone

ASSUME CacheAssumption ==
    /\ MaxByte \in Nat
    /\ States \cap (Special \cup {Null}) = {} /\ IsFiniteSet(States)
    /\ \A k \in DOMAIN StartOf : StartOf[k] \in (States \cup Special) \ Matching  \* its flags have no kFlagMatch
    /\ Delta \in [States \X (Bytes \cup {EndText}) -> States \cup Special]
    /\ Matching \subseteq States
    /\ Capacity \in Nat /\ Capacity >= 3
    /\ BailFactor \in Nat /\ MaxSearches \in Nat
    /\ \A q \in Queries : /\ q.text \in Seq(Bytes) /\ q.start \in DOMAIN StartOf
                          /\ q.last \in Bytes \cup {EndText} /\ q.earliest \in BOOLEAN
                          /\ q.forward \in BOOLEAN

VARIABLES
    cache,     \* state_cache_, mem_budget_ and the arrows of the states
    start_,    \* start and firstbyte of each index; partial: see Analyze
    readers,   \* who holds cache_mutex_ for reading
    writer,    \* who holds it for writing
    srch,      \* the search each thread is in
    done       \* how many searches have begun

vars == <<cache, start_, readers, writer, srch, done>>

Cleared == [states |-> {}, budget |-> Capacity,
            next |-> [x \in States \X (Bytes \cup {EndText}) |-> Null]]

NoStart == [k \in DOMAIN StartOf |-> [start |-> Null, firstbyte |-> Unknown, partial |-> FALSE]]

\* A pointer to a state, and whether the state it points to is still there.
Ptr(s) == [st |-> s, live |-> TRUE]
Nowhere == Ptr(Null)

NoQuery == [text |-> <<>>, start |-> 0, last |-> 0, earliest |-> FALSE, forward |-> TRUE]

Answer(ret, ep) == [failed |-> FALSE, ret |-> ret, ep |-> ep, why |-> "none"]

Idle == [pc |-> "idle", q |-> NoQuery, start |-> Nowhere, s |-> Nowhere, firstbyte |-> Unknown,
         partial |-> FALSE, p |-> 0, resetp |-> -1, c |-> 0, lastmatch |-> -1,
         todo |-> "none", answer |-> Answer(FALSE, -1)]

Init ==
    /\ cache = Cleared /\ start_ = NoStart
    /\ readers = {} /\ writer = {}
    /\ srch = [t \in Threads |-> Idle]
    /\ done = 0

-----------------------------------------------------------------------------
(* What is done under mutex_: m is the cache before, the result the cache  *)
(* after and a State* or NULL.                                             *)

\* WorkqToCachedState and CachedState.  Once memory has run out no state is made
\* before the cache is reset.
CachedState(m, s) ==
    IF s \in Special \/ s \in m.states THEN [m |-> m, st |-> s]
    ELSE IF m.budget < 1 THEN [m |-> [m EXCEPT !.budget = -1], st |-> Null]
    ELSE [m |-> [m EXCEPT !.states = @ \cup {s}, !.budget = @ - 1], st |-> s]

\* RunStateOnByte, which stores NULL too.
RunStateOnByte(m, s, c) ==
    IF m.next[<<s, c>>] # Null THEN [m |-> m, st |-> m.next[<<s, c>>]]
    ELSE LET r == CachedState(m, Delta[<<s, c>>])
         IN  [m |-> [r.m EXCEPT !.next[<<s, c>>] = r.st], st |-> r.st]

\* The bytes up to c that lead from start to another state, and the states they
\* lead to that there is no memory for yet.
Leaving(start, c) == {b \in 0..c : Delta[<<start, b>>] # start}
Missing(m, start, c) == {Delta[<<start, b>>] : b \in 0..c} \ (m.states \cup Special)
Fits(m, start, c) == Missing(m, start, c) = {} \/ Cardinality(Missing(m, start, c)) <= m.budget

\* The byte at which the loop of AnalyzeSearchHelper over all bytes ends: the
\* first one for which memory runs out, or else the second one that leaves.
LastByte(m, start) ==
    CHOOSE c \in Bytes :
        /\ c = MaxByte \/ ~Fits(m, start, c) \/ Cardinality(Leaving(start, c)) = 2
        /\ c > 0 => Fits(m, start, c - 1) /\ Cardinality(Leaving(start, c - 1)) < 2

\* The cache after the loop has run start on the bytes up to c.
Explored(m, start, c, ok) ==
    [states |-> m.states \cup Missing(m, start, c),
     budget |-> IF ok THEN m.budget - Cardinality(Missing(m, start, c)) ELSE -1,
     next   |-> [x \in DOMAIN m.next |->
                    IF x[1] = start /\ x[2] \in 0..c THEN Delta[x] ELSE m.next[x]]]

FirstByte(leave) ==
    IF leave = {} THEN NoneLeave
    ELSE IF Cardinality(leave) = 2 THEN Many ELSE CHOOSE b \in leave : TRUE

-----------------------------------------------------------------------------
(* A search: Search, AnalyzeSearch and InlinedSearchLoop.                  *)

At(t, pc)     == srch[t].pc = pc
Become(t, r)  == srch' = [srch EXCEPT ![t] = r]
Go(t, pc)     == Become(t, [srch[t] EXCEPT !.pc = pc])
Text(t)       == srch[t].q.text

\* The search ends with ret, and ep if it is TRUE, or it gives up.
Ended(r, ret, ep) == [r EXCEPT !.pc = "end", !.answer = Answer(ret, ep)]
GaveUp(r, why)    == [r EXCEPT !.pc = "end", !.answer = [failed |-> TRUE, ret |-> FALSE, ep |-> -1, why |-> why]]
LastMatch(r)      == Ended(r, r.lastmatch >= 0, r.lastmatch)

\* RWLocker's constructor.
Begin(t, q) ==
    /\ At(t, "idle") /\ done < MaxSearches
    /\ writer = {}
    /\ readers' = readers \cup {t}
    /\ Become(t, [Idle EXCEPT !.pc = "quick", !.q = q])
    /\ done' = done + 1
    /\ UNCHANGED <<cache, start_, writer>>

\* The quick check of AnalyzeSearchHelper, without a lock.
QuickCheck(t) ==
    /\ At(t, "quick")
    /\ Go(t, IF start_[srch[t].q.start].firstbyte # Unknown THEN "take" ELSE "analyze")
    /\ UNCHANGED <<cache, start_, readers, writer, done>>

\* The first failure resets the cache, the second is the end of the search.
AnalyzeFailed(t) ==
    Become(t, IF srch[t].todo = "analyze" THEN GaveUp(srch[t], "Failed to analyze start state.")
              ELSE [srch[t] EXCEPT !.pc = "reset", !.todo = "analyze"])

\* AnalyzeSearchHelper below its quick check, unless another thread has done it.
\* When a byte leads to a state there is no memory for, the bytes seen so far
\* decide what is stored as firstbyte; partial says so, and is not in the code.
Analyze(t) ==
    LET k == srch[t].q.start
        Store(start, fb, partial) ==
            start_' = [start_ EXCEPT ![k] = [start |-> start, firstbyte |-> fb, partial |-> partial]]
    IN
    /\ At(t, "analyze")
    /\ IF start_[k].firstbyte # Unknown
       THEN Go(t, "take") /\ UNCHANGED <<cache, start_>>
       ELSE \E r \in {CachedState(cache, StartOf[k])} :
            \/ /\ r.st = Null
               /\ cache' = r.m /\ Store(Null, Unknown, FALSE)
               /\ AnalyzeFailed(t)
            \/ /\ r.st \in Special
               /\ cache' = r.m /\ Store(r.st, NoneLeave, FALSE)
               /\ Go(t, "take")
            \/ /\ r.st \in States
               /\ \E last \in {LastByte(r.m, r.st)}, ok \in {Fits(r.m, r.st, LastByte(r.m, r.st))} :
                  LET ran == IF ok THEN last ELSE last - 1 IN
                  /\ cache' = Explored(r.m, r.st, ran, ok)
                  /\ Store(r.st, FirstByte(Leaving(r.st, ran)), ~ok)
                  /\ IF ok THEN Go(t, "take") ELSE AnalyzeFailed(t)
    /\ UNCHANGED <<readers, writer, done>>

\* s is the state after what has been read; lastmatch is lm if it matches.
Entered(r, s, lm) ==
    LET n == [r EXCEPT !.s = Ptr(s), !.pc = "byte"] IN
    IF s \notin Matching THEN n
    ELSE IF r.q.earliest THEN Ended([n EXCEPT !.lastmatch = lm], TRUE, lm)
    ELSE [n EXCEPT !.lastmatch = lm]

\* The end of AnalyzeSearch, and Search on a special start state.
TakeStart(t) ==
    LET info == start_[srch[t].q.start]
        r == [srch[t] EXCEPT !.start = Ptr(info.start), !.firstbyte = info.firstbyte,
                             !.partial = info.partial]
    IN
    /\ At(t, "take")
    /\ Become(t, CASE info.start = Dead -> Ended(r, FALSE, -1)
                   [] info.start = Full -> Ended(r, TRUE, IF r.q.earliest THEN 0 ELSE Len(Text(t)))
                   [] OTHER -> Entered(r, info.start, 0))
    /\ UNCHANGED <<cache, start_, readers, writer, done>>

\* Mutant: memchr is used in every state.
SkippedAlways(r) ==
    LET found == {i \in r.p..(Len(r.q.text) - 1) : r.q.text[i + 1] = r.firstbyte} IN
    IF r.firstbyte < 0 THEN r.p
    ELSE IF found = {} THEN Len(r.q.text) ELSE CHOOSE i \in found : \A j \in found : i <= j

\* Where memchr stops: at firstbyte, or at the end.
Skipped(r) ==
    IF r.firstbyte < 0 \/ r.s.st # r.start.st THEN r.p
    ELSE LET found == {i \in r.p..(Len(r.q.text) - 1) : r.q.text[i + 1] = r.firstbyte}
         IN  IF found = {} THEN Len(r.q.text) ELSE CHOOSE i \in found : \A j \in found : i <= j

\* The state ns that byte c leads to, by an arrow or made now.  The last byte,
\* and the match it may end, is treated apart.
Followed(r, ns) ==
    IF r.todo = "last"
    THEN IF ns = Full THEN Ended(r, TRUE, Len(r.q.text))
         ELSE IF ns \in Matching THEN Ended(r, TRUE, r.p) ELSE LastMatch(r)
    ELSE IF ns = Dead THEN LastMatch(r)
         ELSE IF ns = Full THEN Ended(r, TRUE, Len(r.q.text))
         ELSE Entered(r, ns, r.p - 1)

\* The loop's head, and the lock-free load of the arrow.  At the end of the text
\* one more byte is read, to see whether it triggers a match.
ReadByte(t) ==
    /\ At(t, "byte")
    /\ \E p \in {Skipped(srch[t])} :
       LET r == IF p < Len(Text(t))
                THEN [srch[t] EXCEPT !.p = p + 1, !.c = Text(t)[p + 1], !.todo = "byte"]
                ELSE [srch[t] EXCEPT !.p = p, !.c = srch[t].q.last, !.todo = "last"]
           ns == cache.next[<<r.s.st, r.c>>]
       IN  Become(t, IF ns # Null THEN Followed(r, ns) ELSE [r EXCEPT !.pc = "run"])
    /\ UNCHANGED <<cache, start_, readers, writer, done>>

\* Few bytes read since the last reset, for the states it has made.  The cast of
\* p - resetp is huge when the search goes backwards: it is never slow then.
TooSlow(r) ==
    /\ r.q.forward
    /\ r.todo = "byte" /\ r.resetp >= 0
    /\ r.p - r.resetp < BailFactor * Cardinality(cache.states)

\* RunStateOnByteUnlocked.  Without memory the search gives up if it has made
\* little use of the states made since it has last reset the cache.
RunByte(t) ==
    LET r == srch[t] IN
    /\ At(t, "run")
    /\ \E run \in {RunStateOnByte(cache, r.s.st, r.c)} :
      /\ cache' = run.m
      /\ Become(t, IF run.st # Null THEN Followed(r, run.st)
                   ELSE IF TooSlow(r) THEN GaveUp(r, "slow")
                   ELSE [r EXCEPT !.pc = "reset", !.resetp = IF r.todo = "byte" THEN r.p ELSE @])
    /\ UNCHANGED <<start_, readers, writer, done>>

\* Mutant: a lock held for reading is kept.
UnlockNothing(t) ==
    /\ At(t, "reset")
    /\ Go(t, "lock")
    /\ UNCHANGED <<cache, start_, readers, writer, done>>

\* LockForWriting: drops the lock for reading, if that is what it has.
Unlock(t) ==
    /\ At(t, "reset")
    /\ readers' = readers \ {t}
    /\ Go(t, "lock")
    /\ UNCHANGED <<cache, start_, writer, done>>

\* Mutant: the states are not thrown away.
RerunInFull(r) ==
    LET n == RunStateOnByte(cache, r.s.st, r.c)
    IN  [m |-> n.m, start |-> r.start.st, s |-> r.s.st, ns |-> n.st]

\* The two states that a reset saves, restored in a cleared cache, and the byte
\* run again: [m, start, s, ns].
Rerun(r) ==
    LET a == IF r.todo = "last" THEN [m |-> Cleared, st |-> Null] ELSE CachedState(Cleared, r.start.st)
        b == CachedState(a.m, r.s.st)
        n == RunStateOnByte(b.m, r.s.st, r.c)
    IN  [m |-> n.m, start |-> a.st, s |-> b.st, ns |-> n.st]

\* All pointers into the cache are void after this, whoever has them.
Void(ptr) == IF ptr.st = Null THEN ptr ELSE [ptr EXCEPT !.live = FALSE]
Voided == [u \in Threads |-> [srch[u] EXCEPT !.start = Void(@), !.s = Void(@)]]

\* Mutant: the lock for writing is taken while others read.
CanWrite(t) == writer \subseteq {t}

\* The lock for writing, or it has it already.
MayWrite(t) == writer \subseteq {t} /\ readers = {}

\* Mutant: the start states are kept.
StartKept == start_

\* ResetCache: the start states go with the cache.
ClearStart == NoStart

\* The rest of LockForWriting, ResetCache, and what its callers do next: nobody
\* else can look before the search is over.
ResetCache(t) ==
    LET r == srch[t] IN
    /\ At(t, "lock") /\ MayWrite(t)
    /\ writer' = {t}
    /\ start_' = ClearStart
    /\ \/ /\ r.todo = "analyze"
          /\ cache' = Cleared
          /\ srch' = [Voided EXCEPT ![t] = [r EXCEPT !.pc = "analyze"]]
       \/ /\ r.todo # "analyze"
          /\ \E x \in {Rerun(r)} :
             /\ cache' = x.m
             /\ srch' = [Voided EXCEPT ![t] =
                  IF x.s = Null \/ (x.start = Null /\ r.todo = "byte")
                  THEN GaveUp(r, "StateSaver failed to restore state.")
                  ELSE IF x.ns = Null THEN GaveUp(r, "RunStateOnByteUnlocked failed after ResetCache")
                  ELSE Followed([r EXCEPT !.s = Ptr(x.s),
                                          !.start = IF r.todo = "last" THEN Void(@) ELSE Ptr(x.start)], x.ns)]
    /\ UNCHANGED <<readers, done>>

\* RWLocker's destructor.
Finish(t) ==
    /\ At(t, "end")
    /\ readers' = readers \ {t} /\ writer' = writer \ {t}
    /\ Become(t, Idle)
    /\ UNCHANGED <<cache, start_, done>>

Step(t) ==
    \/ QuickCheck(t) \/ Analyze(t) \/ TakeStart(t) \/ ReadByte(t) \/ RunByte(t)
    \/ Unlock(t) \/ ResetCache(t) \/ Finish(t)

Next == \E t \in Threads : Step(t) \/ \E q \in Queries : Begin(t, q)

Spec == Init /\ [][Next]_vars

\* Each thread runs, and gets a mutex nobody holds.
FairSpec == Spec /\ \A t \in Threads : WF_vars(Step(t))

-----------------------------------------------------------------------------
(* What a search finds on the automaton itself, without cache and memchr.  *)

Follow(s, c) == IF s \in Special THEN s ELSE Delta[<<s, c>>]

\* The states of the search after 0, 1, ... bytes, the last byte included.
Run(q) ==
    LET in == Append(q.text, q.last)
        f[i \in 0..Len(in)] == IF i = 0 THEN StartOf[q.start] ELSE Follow(f[i - 1], in[i])
    IN  f

\* Where a match ends that is seen after i bytes: one byte late.
EndOf(i) == IF i = 0 THEN 0 ELSE i - 1

Smallest(S) == CHOOSE x \in S : \A y \in S : x <= y
Largest(S)  == CHOOSE x \in S : \A y \in S : y <= x

Reference(q) ==
    LET run == Run(q)
        n == Len(q.text)
        seen == {i \in 0..(n + 1) : run[i] \in Matching}
        \* it does not stop at a match that only the last byte triggers
        first == IF seen = {} THEN n + 1 ELSE Smallest(seen)
    IN
    IF q.earliest /\ run[0] = Full THEN Answer(TRUE, 0)
    ELSE IF q.earliest /\ first < n + 1 THEN Answer(TRUE, EndOf(first))
    ELSE IF run[n + 1] = Full THEN Answer(TRUE, n)
    ELSE IF seen = {} THEN Answer(FALSE, -1)
    ELSE Answer(TRUE, EndOf(Largest(seen)))

-----------------------------------------------------------------------------
FbMarks == {Unknown, Many, NoneLeave}

Cache == [states : SUBSET States, budget : -1..Capacity,
          next : [States \X (Bytes \cup {EndText}) -> States \cup Special \cup {Null}]]

StartInfo == [start : States \cup Special \cup {Null}, firstbyte : Bytes \cup FbMarks, partial : BOOLEAN]

Pointer == [st : States \cup Special \cup {Null}, live : BOOLEAN]

Reasons == {"none", "slow", "Failed to analyze start state.", "StateSaver failed to restore state.",
            "RunStateOnByteUnlocked failed after ResetCache"}

SearchParams ==
    [pc : {"idle", "quick", "analyze", "take", "byte", "run", "reset", "lock", "end"},
     q : Queries \cup {NoQuery}, start : Pointer, s : Pointer, firstbyte : Bytes \cup FbMarks,
     partial : BOOLEAN, p : Nat, resetp : Nat \cup {-1}, c : Bytes \cup {EndText}, lastmatch : Nat \cup {-1},
     todo : {"none", "analyze", "byte", "last"},
     answer : [failed : BOOLEAN, ret : BOOLEAN, ep : Nat \cup {-1}, why : Reasons]]

TypeOK ==
    /\ cache \in Cache
    /\ start_ \in [DOMAIN StartOf -> StartInfo]
    /\ readers \subseteq Threads /\ writer \subseteq Threads /\ Cardinality(writer) <= 1
    /\ srch \in [Threads -> SearchParams]
    /\ \A t \in Threads : srch[t].p <= Len(Text(t)) /\ srch[t].resetp <= Len(Text(t)) /\ srch[t].lastmatch <= Len(Text(t))
    /\ done \in 0..MaxSearches

\* "Any State* pointers are only valid while cache_mutex_ is held": no search that
\* holds the lock has a pointer into a cache that another has thrown away, and
\* what it points to is in the cache.
NoDangling ==
    \A t \in readers \cup writer :
        /\ srch[t].s.live /\ srch[t].s.st \in cache.states \cup {Null}
        /\ srch[t].todo # "last" => srch[t].start.live /\ srch[t].start.st \in cache.states \cup Special \cup {Null}

\* The graph is closed: each arrow and each start state is where the automaton
\* goes and is in the cache, and the memory of a state is counted exactly.
CacheSound ==
    /\ \A s \in States, c \in Bytes \cup {EndText} :
        cache.next[<<s, c>>] # Null =>
            /\ s \in cache.states /\ cache.next[<<s, c>>] = Delta[<<s, c>>]
            /\ cache.next[<<s, c>>] \in cache.states \cup Special
    /\ \A k \in DOMAIN StartOf : start_[k].start # Null =>
        start_[k].start = StartOf[k] /\ StartOf[k] \in cache.states \cup Special
    /\ cache.budget \in {-1, Capacity - Cardinality(cache.states)}

\* The branches that log at DFATAL are dead: after a reset there is always room
\* for the states a search needs to go on, and a search that gives up does so
\* because it is slow.
NeverFatal ==
    \A t \in Threads : At(t, "end") /\ srch[t].answer.failed => srch[t].answer.why = "slow"

\* A search that does not give up finds what it would find alone, whatever the
\* others add to the cache and however often it is thrown away; but see
\* AnswerRight for those that take a partial firstbyte.
AnswerRightIfComplete ==
    \A t \in Threads :
        At(t, "end") /\ ~srch[t].answer.failed /\ ~srch[t].partial
            => srch[t].answer = Reference(srch[t].q)

\* dfa.cc:65: a search "returns whether a match was found", and "if the DFA
\* cannot complete the search (for example, if it is out of memory), it sets
\* *failed".
AnswerRight ==
    \A t \in Threads :
        At(t, "end") /\ ~srch[t].answer.failed => srch[t].answer = Reference(srch[t].q)

\* Every search ends, also those that wait for all others to reset the cache.
SearchEnds == \A t \in Threads : ~At(t, "idle") ~> At(t, "idle")
=============================================================================
