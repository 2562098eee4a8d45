--------------------------------- MODULE ReDfa ---------------------------------
(***************************************************************************)
(* The deterministic automaton of RE2 (dfa.cc) as a function of what it     *)
(* reads, and the bounds on the matching strings that RE2::PossibleMatchRange *)
(* reads off it.  A state is [inst, flag, need]: the instructions to run, in *)
(* order of preference, with Marks between the sets of a longest match; the  *)
(* flags on entry; the empty-width flags that its instructions wait for.     *)
(* Two states equal by value are one state of the cache.                     *)
(***************************************************************************)
EXTENDS ReEngines

DeadState == [inst |-> <<>>, flag |-> {"dead"}, need |-> {}]
FullState == [inst |-> <<>>, flag |-> {"full"}, need |-> {}]
Special   == {DeadState, FullState}
EndByte   == -1                    \* kByteEndText
AllClasses(prog) == Range(prog.bytemap)

IsMatchState(s) == "Match" \in s.flag

\* The kind of the two automata of a program (GetDFA).
DfaKind(kind) == IF kind = "first" THEN "first" ELSE "longest"

\* The .*? loop of a longest-match search puts a Mark between the threads that
\* begin here and those that begin later.
RECURSIVE AddToQueue(_, _, _, _, _)
AddToQueue(prog, kind, q, id, flag) ==
    LET i    == prog.inst[id]
        q1   == Append(q, id)
        loop == kind = "longest" /\ id = prog.startUnanchored /\ id # prog.start
        out  == AddToQueue(prog, kind, q1, i.out, flag)
    IN CASE id = Mark -> Append(q, Mark)
         [] id = 0 \/ (id # Mark /\ Contains(q, id)) -> q
         [] OTHER ->
            CASE IsAlt(i) -> AddToQueue(prog, kind, IF loop THEN Append(out, Mark) ELSE out,
                                        i.out1, flag)
              [] i.op \in {"Capture", "Nop"} -> out
              [] i.op = "EmptyWidth" /\ i.empty \in flag -> out
              [] OTHER -> q1

RunWorkqOnEmptyString(prog, kind, q, flag) ==
    FoldLeft(LAMBDA new, id : AddToQueue(prog, kind, new, id, flag), <<>>, q)

\* Runs q, in order, on byte c and then the empty strings of flag; r is the
\* queue that results and whether the end of the expression was reached.
RECURSIVE RunWorkqOnByte(_, _, _, _, _, _)
RunWorkqOnByte(prog, kind, q, c, flag, r) ==
    LET id == Head(q)
        i  == prog.inst[id]
        rest(s) == RunWorkqOnByte(prog, kind, Tail(q), c, flag, s)
        ends == id # Mark /\ i.op = "Match" /\ (prog.anchorEnd => c = EndByte)
    IN CASE q = <<>> -> r
         [] q # <<>> /\ id = Mark ->
              IF r.ismatch THEN r ELSE rest([r EXCEPT !.q = Append(@, Mark)])
         [] q # <<>> /\ id # Mark ->
              IF ends THEN (IF kind = "first" THEN [r EXCEPT !.ismatch = TRUE]
                                              ELSE rest([r EXCEPT !.ismatch = TRUE]))
              ELSE IF i.op = "ByteRange" /\ c # EndByte /\ Matches(i, c)
              THEN rest([r EXCEPT !.q = AddToQueue(prog, kind, @, i.out, flag)])
              ELSE rest(r)

-----------------------------------------------------------------------------
(* WorkqToCachedState.                                                       *)

\* Mutant: an Alt has been followed, so it is not kept.
KeptNoAlt(prog, id) == id = Mark \/ prog.inst[id].op \in
                           {"AltMatch", "ByteRange", "EmptyWidth", "Match"}

\* kInstAlt is kept: an empty-width instruction may lead back to it.
Kept(prog, id) == id = Mark \/ prog.inst[id].op \in
                      {"AltMatch", "ByteRange", "EmptyWidth", "Match", "Alt"}

\* The part of the queue behind a certain match is dropped: at once in a
\* first-match search, from the next Mark in a longest-match one.
Considered(prog, kind, q) ==
    LET sure == { k \in DOMAIN q : q[k] # Mark /\ prog.inst[q[k]].op = "Match"
                                   /\ ~prog.anchorEnd }
        cuts == { k \in DOMAIN q : /\ kind = "first" \/ q[k] = Mark
                                   /\ \E j \in sure : j < k }
    IN IF cuts = {} THEN q ELSE SubSeq(q, 1, Min(cuts) - 1)

\* An AltMatch that nothing can beat: the rest of the text matches whatever it is.
IsFull(prog, kind, q, flag) ==
    /\ "Match" \in flag
    /\ \E k \in DOMAIN q :
         /\ q[k] # Mark /\ prog.inst[q[k]].op = "AltMatch"
         /\ IF kind = "first" THEN k = 1 /\ Greedy(prog.inst, q[k])
            ELSE ~\E m \in 1..(k - 1), j \in 1..(k - 1) :
                     j < m /\ q[m] = Mark /\ q[j] # Mark /\ Kept(prog, q[j])

AddTidily(inst, id) ==             \* no Mark at the front or behind another
    IF id = Mark /\ (inst = <<>> \/ Last(inst) = Mark) THEN inst ELSE Append(inst, id)

\* The sets between Marks have no order: they are sorted to be compared.
Sorted(inst) ==
    LET set(k) == Cardinality({ j \in 1..(k - 1) : inst[j] = Mark })
        before(k, j) == \/ set(k) < set(j)
                        \/ /\ set(k) = set(j) /\ inst[k] # Mark
                           /\ inst[j] = Mark \/ inst[k] < inst[j]
        order == SortSeq([k \in DOMAIN inst |-> k], before)
    IN [k \in DOMAIN inst |-> inst[order[k]]]

WithoutLastMark(inst) == IF inst # <<>> /\ Last(inst) = Mark THEN Front(inst) ELSE inst
KeptOf(prog, q) ==
    WithoutLastMark(FoldLeft(AddTidily, <<>>, SelectSeq(q, LAMBDA id : Kept(prog, id))))

\* The flags are kept for the instructions that wait for one.
CachedState(prog, kind, inst, flag) ==
    LET need == { prog.inst[id].empty : id \in { d \in ToSet(inst) \ {Mark} :
                                                  prog.inst[d].op = "EmptyWidth" } }
        kept == IF need = {} THEN flag \cap {"Match"} ELSE flag
    IN IF inst = <<>> /\ kept = {} THEN DeadState
       ELSE [inst |-> IF kind = "longest" THEN Sorted(inst) ELSE inst,
             flag |-> kept, need |-> need]

StateOfQueue(prog, kind, q, flag) ==
    IF IsFull(prog, kind, q, flag) THEN FullState
    ELSE CachedState(prog, kind, KeptOf(prog, q), flag)

WorkqToCachedState(prog, kind, q, flag) ==
    StateOfQueue(prog, kind, Considered(prog, kind, q), flag)

-----------------------------------------------------------------------------
\* A byte is read as the last of its class: next_ has one entry for a class.
RunStateOnByte(prog, kind, s, byte) ==
    LET c      == IF byte = EndByte THEN EndByte ELSE prog.bytemap[byte]
        isword == c # EndByte /\ IsWordChar(c)
        old    == s.flag \cap EmptyOps
        before == old \cup (IF c = Newline THEN {"EndLine"} ELSE {})
                      \cup (IF c = EndByte THEN {"EndLine", "EndText"} ELSE {})
                      \cup {IF isword = ("LastWord" \in s.flag)
                            THEN "NoWordBoundary" ELSE "WordBoundary"}
        after  == IF c = Newline THEN {"BeginLine"} ELSE {}
        q      == IF (before \ old) \cap s.need # {}
                  THEN RunWorkqOnEmptyString(prog, kind, s.inst, before) ELSE s.inst
        read(r) == WorkqToCachedState(prog, kind, r.q,
                     after \cup (IF r.ismatch THEN {"Match"} ELSE {})
                           \cup (IF isword THEN {"LastWord"} ELSE {}))
    IN IF s = FullState THEN FullState
       ELSE read(RunWorkqOnByte(prog, kind, q, c, after, [q |-> <<>>, ismatch |-> FALSE]))

\* AnalyzeSearch: the start state depends on what is before the text.
StartState(x, kind) ==
    LET back   == x.prog.reversed
        atEdge == IF back THEN x.to = Len(x.ctx) ELSE x.from = 0
        byte   == IF back THEN x.ctx[x.to + 1] ELSE x.ctx[x.from]
        flag   == IF atEdge THEN {"BeginText", "BeginLine"}
                  ELSE IF byte = Newline THEN {"BeginLine"}
                  ELSE IF IsWordChar(byte) THEN {"LastWord"} ELSE {}
        first  == IF Anchored(x) THEN x.prog.start ELSE x.prog.startUnanchored
    IN WorkqToCachedState(x.prog, kind,
                          AddToQueue(x.prog, kind, <<>>, first, flag \cap EmptyOps), flag)

\* The one byte that leaves the start state, if there is one.
FirstByte(prog, kind, start) ==
    LET leaving == { b \in Bytes : RunStateOnByte(prog, kind, start, b) # start }
    IN IF Cardinality(leaving) = 1 THEN Max(leaving) ELSE None

\* InlinedSearchLoop: matches are seen one byte late; the result is where the
\* last one was, None without one.
RECURSIVE DfaLoop(_, _, _, _, _, _)
Arrived(x, y, ns, at, last, shortest) ==     \* in state ns, having read the byte at
    LET back == x.prog.reversed
        ep   == IF back THEN x.from ELSE x.to
        seen == IF IsMatchState(ns) THEN at ELSE last
    IN CASE ns = FullState -> ep
         [] ns = DeadState -> last
         [] OTHER -> IF at = ep \/ (shortest /\ IsMatchState(ns)) THEN seen
                     ELSE DfaLoop(x, y, ns, IF back THEN at - 1 ELSE at + 1, seen, shortest)

DfaLoop(x, y, s, p, last, shortest) ==
    LET back == x.prog.reversed
        ep   == IF back THEN x.from ELSE x.to
        byte(at) == IF back THEN (IF at = 0 THEN EndByte ELSE x.ctx[at])
                    ELSE IF at = Len(x.ctx) THEN EndByte ELSE x.ctx[at + 1]
        found == { at \in x.from..x.to : at # ep /\ byte(at) = y.firstbyte
                                         /\ (IF back THEN at <= p ELSE at >= p) }
        skip == y.firstbyte # None /\ s = y.start /\ p # ep
        at   == IF skip THEN (IF found = {} THEN ep ELSE IF back THEN Max(found) ELSE Min(found))
                ELSE p
    IN Arrived(x, y, RunStateOnByte(x.prog, y.kind, s, byte(at)), at, last, shortest)

SearchFrom(x, kind, start, shortest) ==
    LET back == x.prog.reversed
        bp   == IF back THEN x.to ELSE x.from
        y    == [start |-> start, kind |-> kind,
                 firstbyte |-> FirstByte(x.prog, kind, start)]
    IN CASE start = DeadState -> None
         [] start = FullState -> IF ~back = shortest THEN x.from ELSE x.to
         [] OTHER -> IF shortest /\ IsMatchState(start) THEN bp
                     ELSE DfaLoop(x, y, start, bp,
                                  IF IsMatchState(start) THEN bp ELSE None, shortest)

\* SearchDFA: where asks for the end of the match (its beginning, run backwards).
SearchDFA(x, where) ==
    LET endmatch == x.kind = "full" \/ x.prog.anchorEnd
        shortest == ~where /\ ~endmatch
        kind == IF endmatch \/ shortest THEN "longest" ELSE DfaKind(x.kind)
        ep   == IF x.prog.reversed THEN x.from ELSE x.to
        allowed(end) == IF endmatch /\ end # ep THEN None ELSE end
    IN IF OutOfPlace(x) THEN None
       ELSE allowed(SearchFrom(x, kind, StartState(x, kind), shortest))

-----------------------------------------------------------------------------
(* PossibleMatchRange: the least and the greatest string of bytes that the     *)
(* longest-match automaton, anchored, can begin with.                          *)

Goes(s) == s = FullState \/ (s \notin Special /\ s.inst # <<>>)

\* Extends a bound by the first byte of order that leads on, until a state comes
\* back; r.open tells whether the walk ended with a byte still to come.
RECURSIVE Walk(_, _, _, _, _, _)
Walk(prog, s, order, room, stop(_), r) ==
    LET onward == SelectSeq([k \in DOMAIN order |->
                               <<order[k], RunStateOnByte(prog, "longest", s, order[k])>>],
                            LAMBDA on : Goes(on[2]))
        go(on) == IF on = <<>> THEN r
                  ELSE Walk(prog, on[1][2], order, room - 1, stop,
                            [r EXCEPT !.visited = @ \cup {s}, !.str = Append(@, on[1][1])])
    IN IF room = 0 \/ s \in r.visited \/ stop(s) THEN [r EXCEPT !.open = TRUE] ELSE go(onward)

\* Mutant: the bound is not rounded up.
PrefixItself(s) == s

RECURSIVE PrefixSuccessor(_)
PrefixSuccessor(s) ==
    IF s = <<>> THEN <<>>
    ELSE IF Last(s) = Max(Bytes) THEN PrefixSuccessor(Front(s))
    ELSE Append(Front(s), Last(s) + 1)

DfaRange(prog, maxlen) ==          \* [ok, min, max]
    LET x     == [prog |-> prog, ctx |-> <<>>, from |-> 0, to |-> 0,
                  anchored |-> TRUE, kind |-> "longest", n |-> 0]
        low   == [k \in 1..Cardinality(Bytes) |-> k - 1]
        r0    == [visited |-> {}, str |-> <<>>, open |-> FALSE]
        ends(s) == s = FullState \/ IsMatchState(s)
        bounds(min, max) ==
            LET top == IF max.open THEN PrefixSuccessor(max.str) ELSE max.str
            IN [ok |-> ~(max.open /\ top = <<>>), min |-> min.str, max |-> top]
        from(start) ==
            CASE start = DeadState -> [ok |-> TRUE, min |-> <<>>, max |-> <<>>]
              [] start = FullState -> [ok |-> FALSE, min |-> <<>>, max |-> <<>>]
              [] OTHER ->
                   bounds(Walk(prog, start, low, maxlen, LAMBDA s :
                                 ends(RunStateOnByte(prog, "longest", s, EndByte)), r0),
                          Walk(prog, start, Reverse(low), maxlen, LAMBDA s : FALSE, r0))
    IN from(StartState(x, "longest"))
=============================================================================
