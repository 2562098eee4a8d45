------------------------------ MODULE ReEngines ------------------------------
(***************************************************************************)
(* The four matchers of RE2, each run on a compiled program: the threads of *)
(* nfa.cc, the backtracker with a visited bit map of bitstate.cc, the       *)
(* one-pass automaton of onepass.cc and the deterministic automaton of      *)
(* dfa.cc.  (What the DFA does when it runs out of memory, and its sharing   *)
(* by threads, are the subject of ReDfaCache.)                              *)
(*                                                                         *)
(* A search is the record x: the program, the context, the text searched,   *)
(* which is ctx[from + 1 .. to], whether it must begin at from, the kind of *)
(* match ("first", "longest" or "full") and the number n of groups wanted.  *)
(* Positions are 0..Len(ctx).  A result is [ok, cap], cap the positions     *)
(* recorded, cap[2k] and cap[2k + 1] for group k and None where unset.      *)
(***************************************************************************)
EXTENDS ReProg

None == -1
Mark == -1                         \* separates the sets of a longest-match queue

Groups(n)   == 0 .. (2 * (IF n = 0 THEN 1 ELSE n) - 1)
NoCaps(n)   == [k \in Groups(n) |-> None]
Failed      == [ok |-> FALSE, cap |-> NoCaps(1)]
Found(caps) == [ok |-> TRUE, cap |-> caps]

\* prog.h Prog::EmptyFlags is ReSyntax!EmptyFlags.
Satisfied(empty, x, p) == empty \in EmptyFlags(x.ctx, p)

\* The checks with which every search begins: an anchored program cannot match
\* inside the context.  A reversed program meets the end of the text first.
OutOfPlace(x) ==
    LET first == IF x.prog.reversed THEN x.prog.anchorEnd ELSE x.prog.anchorStart
        last  == IF x.prog.reversed THEN x.prog.anchorStart ELSE x.prog.anchorEnd
    IN (first /\ x.from # 0) \/ (last /\ x.to # Len(x.ctx))

Anchored(x) == x.anchored \/ x.prog.anchorStart \/ x.kind = "full"
Longest(x)  == x.kind # "first" \/ x.prog.anchorEnd

\* With kFullMatch the first three engines look for the longest match from the
\* beginning and then ask whether it covers the text.
Covering(x, r) ==
    IF r.ok /\ x.kind = "full" /\ r.cap[1] # x.to THEN Failed ELSE r

Greedy(inst, id) == inst[inst[id].out].op = "ByteRange"    \* of an AltMatch

-----------------------------------------------------------------------------
(* nfa.cc.  A queue is the sequence of the instructions reached, in order of  *)
(* preference; those that wait for a byte, or match, are live threads.        *)

RECURSIVE AddToThreadq(_, _, _, _, _)
AddToThreadq(x, q, id, p, caps) ==
    LET i    == x.prog.inst[id]
        live == i.op \in {"AltMatch", "Match", "ByteRange"}
        q1   == Append(q, [id |-> id, live |-> live, cap |-> caps])
    IN CASE id = 0 \/ (\E k \in DOMAIN q : q[k].id = id) -> q
         [] OTHER ->
            CASE IsAlt(i) ->
                   AddToThreadq(x, AddToThreadq(x, q1, i.out, p, caps), i.out1, p, caps)
              [] i.op = "Nop" -> AddToThreadq(x, q1, i.out, p, caps)
              [] i.op = "Capture" ->
                   AddToThreadq(x, q1, i.out, p,
                       IF i.cap \in DOMAIN caps THEN [caps EXCEPT ![i.cap] = p] ELSE caps)
              [] i.op = "EmptyWidth" /\ Satisfied(i.empty, x, p) ->
                   AddToThreadq(x, q1, i.out, p, caps)
              [] OTHER -> q1

\* Step: the threads of runq at position p read the byte behind p, in order;
\* s is [next, best, matched, jump]; jump is where a shortcut to the end begins,
\* stop that the rest of the queue is worse than the match just found.
RECURSIVE Step(_, _, _, _, _)
Step(x, runq, k, p, s) ==
    LET t == runq[k]
        i == x.prog.inst[t.id]
        late  == Longest(x) /\ s.matched /\ s.best[0] < t.cap[0]
        byte  == p < x.to /\ Matches(i, x.ctx[p + 1])
        mine  == [t.cap EXCEPT ![1] = p]
        take  == [s EXCEPT !.best = mine, !.matched = TRUE]
        better == \/ ~s.matched \/ mine[0] < s.best[0]
                  \/ mine[0] = s.best[0] /\ mine[1] > s.best[1]
        rest(r) == Step(x, runq, k + 1, p, r)
    IN CASE k > Len(runq) -> s
         [] k <= Len(runq) /\ (~t.live \/ late) -> rest(s)
         [] OTHER ->
            CASE i.op = "ByteRange" /\ byte ->
                   rest([s EXCEPT !.next = AddToThreadq(x, @, i.out, p + 1, t.cap)])
              [] i.op = "AltMatch" /\ k = 1 /\ (Greedy(x.prog.inst, t.id) \/ Longest(x)) ->
                   [s EXCEPT !.best = t.cap, !.matched = TRUE,
                             !.jump = IF Greedy(x.prog.inst, t.id) THEN i.out1 ELSE i.out]
              [] i.op = "Match" /\ ~(x.prog.anchorEnd /\ p # x.to) ->
                   IF ~Longest(x) THEN take
                   ELSE rest(IF better THEN take ELSE s)
              [] OTHER -> rest(s)

RECURSIVE ShortCut(_, _, _)
ShortCut(x, id, caps) ==           \* the match is certain: run on to its end
    LET i == x.prog.inst[id] IN
    CASE i.op = "Capture" ->
           ShortCut(x, i.out, IF i.cap \in DOMAIN caps
                              THEN [caps EXCEPT ![i.cap] = x.to] ELSE caps)
      [] i.op = "Match" -> [caps EXCEPT ![1] = x.to]
      [] OTHER -> ShortCut(x, i.out, caps)

\* The byte every match begins with, or None (ComputeFirstByte).
FirstByteOf(prog) ==
    LET Empties(S) == { prog.inst[id].out : id \in { d \in S :
                            prog.inst[d].op \in {"Nop", "Capture", "EmptyWidth"} \/ IsAlt(prog.inst[d]) } }
                      \cup { prog.inst[id].out1 : id \in { d \in S : IsAlt(prog.inst[d]) } }
        reach[n \in 0..Cardinality(DOMAIN prog.inst)] ==
            IF n = 0 THEN {prog.start} ELSE reach[n-1] \cup Empties(reach[n-1])
        ops   == { prog.inst[id] : id \in reach[Cardinality(DOMAIN prog.inst)] }
        reads == { i \in ops : i.op = "ByteRange" }
        one(i) == i.lo = i.hi /\ ~(i.fold /\ i.lo \in Lower)
    IN IF /\ reads # {} /\ \A i \in ops : i.op # "Match"
          /\ \A i \in reads : one(i) /\ \A j \in reads : j.lo = i.lo
       THEN (CHOOSE i \in reads : TRUE).lo ELSE None

NextPos(S, none) == IF S = {} THEN none ELSE Min(S)

\* The loop over the text: at p the queue reads, then a new thread may start.
RECURSIVE NfaLoop(_, _, _, _, _)
NfaLoop(x, fb, p, runq, s) ==
    LET ran  == Step(x, runq, 1, p - 1, [s EXCEPT !.next = <<>>])
        at   == IF /\ ~Anchored(x) /\ fb # None /\ ran.next = <<>>
                   /\ p < x.to /\ x.ctx[p + 1] # fb
                THEN NextPos({ j \in p..(x.to - 1) : x.ctx[j + 1] = fb }, x.to) ELSE p
        new  == ~ran.matched /\ (~Anchored(x) \/ p = x.from)
        q    == IF new THEN AddToThreadq(x, ran.next, x.prog.start, at,
                                         [NoCaps(x.n) EXCEPT ![0] = at])
                       ELSE ran.next
        pos  == IF new THEN at ELSE p
    IN CASE ran.jump # 0 -> [ran EXCEPT !.best = ShortCut(x, ran.jump, ran.best)]
         [] ran.jump = 0 /\ (p > x.to \/ q = <<>>) -> ran
         [] OTHER -> NfaLoop(x, fb, pos + 1, q, ran)

SearchNFA(x) ==
    LET s == NfaLoop(x, FirstByteOf(x.prog), x.from, <<>>,
                     [next |-> <<>>, best |-> NoCaps(x.n), matched |-> FALSE, jump |-> 0])
    IN IF x.prog.start = 0 \/ OutOfPlace(x) \/ ~s.matched THEN Failed
       ELSE Covering(x, Found(s.best))

-----------------------------------------------------------------------------
(* bitstate.cc.  The job stack is the recursion; r is [seen, best, hit, stop,  *)
(* left]: the pairs visited, the best match so far (no positions: none),       *)
(* whether the current TrySearch has found one, "yes" or "no" once it returns, *)
(* and the groups it leaves recorded (a kInstFail returns without undoing).    *)

RECURSIVE Explore(_, _, _, _, _)
Visit(x, id, p, caps, r) ==        \* CheckAndLoop
    IF r.stop # "" \/ <<id, p>> \in r.seen THEN r
    ELSE Explore(x, id, p, caps, [r EXCEPT !.seen = @ \cup {<<id, p>>}])

Explore(x, id, p, caps, r) ==
    LET i    == x.prog.inst[id]
        mine == [caps EXCEPT ![1] = p]
        best == IF r.best[0] = None \/ (Longest(x) /\ p > r.best[1]) THEN mine ELSE r.best
        stop == IF ~Longest(x) \/ p = x.to THEN "yes" ELSE ""
        \* The job pushed for later is marked now and run last.
        later(d, at) ==
            LET known == <<d, at>> \in r.seen \/ x.prog.inst[d].op = "Fail"
                marked == IF known THEN r ELSE [r EXCEPT !.seen = @ \cup {<<d, at>>}]
                first == IF Greedy(x.prog.inst, id)
                         THEN Visit(x, d, x.to, caps, marked)
                         ELSE Visit(x, d, p, caps, marked)
            IN IF known \/ first.stop # "" THEN first ELSE Explore(x, d, at, caps, first)
    IN CASE i.op = "Fail" -> [r EXCEPT !.stop = "no", !.left = caps]
         [] i.op = "Alt"  -> Visit(x, i.out1, p, caps, Visit(x, i.out, p, caps, r))
         [] i.op = "AltMatch" ->
              IF Greedy(x.prog.inst, id) THEN later(i.out1, p) ELSE later(i.out, x.to)
         [] i.op = "ByteRange" ->
              IF p < x.to /\ Matches(i, x.ctx[p + 1])
              THEN Visit(x, i.out, p + 1, caps, r) ELSE r
         [] i.op = "Capture" ->
              Visit(x, i.out, p, IF i.cap \in DOMAIN caps THEN [caps EXCEPT ![i.cap] = p]
                                                           ELSE caps, r)
         [] i.op = "EmptyWidth" ->
              IF Satisfied(i.empty, x, p) THEN Visit(x, i.out, p, caps, r) ELSE r
         [] i.op = "Nop" -> Visit(x, i.out, p, caps, r)
         [] i.op = "Match" ->
              IF x.prog.anchorEnd /\ p # x.to THEN r
              ELSE [r EXCEPT !.best = best, !.hit = TRUE,
                             !.stop = IF x.n = 0 THEN "yes" ELSE stop]

\* TrySearch from each position in turn; neither the visited pairs nor the
\* groups stored are cleared in between.
RECURSIVE TryFrom(_, _, _)
TryFrom(x, p, r) ==
    LET t == Visit(x, x.prog.start, p, [r.left EXCEPT ![0] = p],
                   [r EXCEPT !.hit = FALSE, !.stop = ""])
    IN CASE t.stop = "yes" \/ (t.stop = "" /\ t.hit) -> Found(t.best)
         [] OTHER -> IF Anchored(x) \/ p = x.to THEN Failed ELSE TryFrom(x, p + 1, t)

\* A full match is judged by its end, which is then asked for.
SearchBitState(x) ==
    LET y == IF x.kind = "full" /\ x.n = 0 THEN [x EXCEPT !.n = 1] ELSE x
    IN IF OutOfPlace(x) THEN Failed
       ELSE Covering(y, TryFrom(y, y.from, [seen |-> {}, best |-> NoCaps(y.n),
                                            left |-> NoCaps(y.n),
                                            hit |-> FALSE, stop |-> ""]))

-----------------------------------------------------------------------------
(* onepass.cc.  A node is an instruction that begins the run after a byte: its *)
(* match condition and, for each byte class, an action.  A condition is the    *)
(* empty-width operators that must hold, the groups to record, and whether a   *)
(* match takes priority over going on.                                         *)

MaxOnePassCapture == 5             \* prog.h kMaxOnePassCapture
Always     == [empty |-> {}, caps |-> {}, wins |-> FALSE]
Impossible == [Always EXCEPT !.empty = {"WordBoundary", "NoWordBoundary"}]
CanHold(cond) == ~(Impossible.empty \subseteq cond.empty)
Holds(cond, x, p) == cond.empty \subseteq EmptyFlags(x.ctx, p)
Recorded(cond, caps, p) ==
    [k \in DOMAIN caps |-> IF k > 1 /\ k \in cond.caps THEN p ELSE caps[k]]

\* Flood the instructions that id reaches without a byte, depth first, out
\* before out1; f is [seen, matched, match, action, ok].
RECURSIVE Flood(_, _, _, _)
Flood(prog, id, cond, f) ==
    LET i == prog.inst[id]
        hit == { prog.bytemap[b] : b \in { c \in Bytes : Matches(i, c) } }
        act == [cond |-> [cond EXCEPT !.wins = f.matched], next |-> i.out]
        free(b) == ~CanHold(f.action[b].cond)
        add(d, g) == IF d = 0 THEN g
                     ELSE [g EXCEPT !.ok = @ /\ d \notin g.seen, !.seen = @ \cup {d}]
        on(c) == LET g == add(i.out, f) IN IF g.ok THEN Flood(prog, i.out, c, g) ELSE g
    IN CASE ~f.ok -> f
         [] f.ok /\ IsAlt(i) ->
              LET g == add(i.out1, add(i.out, f))
              IN IF g.ok THEN Flood(prog, i.out1, cond, Flood(prog, i.out, cond, g)) ELSE g
         [] f.ok /\ i.op = "ByteRange" ->
              [f EXCEPT !.ok = \A b \in hit : free(b) \/ f.action[b] = act,
                        !.action = [b \in DOMAIN @ |-> IF b \in hit /\ free(b)
                                                       THEN act ELSE @[b]]]
         [] f.ok /\ i.op = "Capture" ->
              on(IF i.cap < 2 * MaxOnePassCapture
                 THEN [cond EXCEPT !.caps = @ \cup {i.cap}] ELSE cond)
         [] f.ok /\ i.op = "EmptyWidth" -> on([cond EXCEPT !.empty = @ \cup {i.empty}])
         [] f.ok /\ i.op = "Nop" -> on(cond)
         [] f.ok /\ i.op = "Match" ->
              [f EXCEPT !.ok = ~f.matched, !.matched = TRUE, !.match = cond]
         [] f.ok /\ i.op = "Fail" -> f

OnePassNode(prog, id) ==
    Flood(prog, id, Always,
          [seen |-> {}, matched |-> FALSE, match |-> Impossible, ok |-> TRUE,
           action |-> [b \in Range(prog.bytemap) |-> [cond |-> Impossible, next |-> 0]]])

\* The nodes that the start leads to; the analysis fails if one of them does.
OnePassNodes(prog) ==
    LET reads == { id \in Reachable(prog.inst, {prog.start}) :
                      prog.inst[id].op = "ByteRange" }
    IN [id \in {prog.start} \cup { prog.inst[d].out : d \in reads } |->
          OnePassNode(prog, id)]
IsOnePass(prog, nodes) == prog.start # 0 /\ \A id \in DOMAIN nodes : nodes[id].ok

\* The loop of SearchOnePass: at p in node id with caps recorded; best is what
\* matched so far.
RECURSIVE OnePassLoop(_, _, _, _, _, _)
OnePassLoop(x, nodes, id, p, caps, best) ==
    LET node == nodes[id]
        act  == node.action[x.prog.bytemap[x.ctx[p + 1]]]
        goes == Holds(act.cond, x, p)
        here == [Recorded(node.match, caps, p) EXCEPT ![1] = p]
        may  == CanHold(node.match) /\ Holds(node.match, x, p)
        full == x.kind = "full" \/ x.prog.anchorEnd
        beaten  == ~act.cond.wins /\ goes /\ nodes[act.next].match.empty = {}
        matches == ~full /\ ~beaten /\ may
        best1   == IF matches THEN here ELSE best
    IN IF p = x.to THEN (IF may THEN here ELSE best)
       ELSE IF ~goes \/ (matches /\ x.kind = "first" /\ act.cond.wins) THEN best1
       ELSE OnePassLoop(x, nodes, act.next, p + 1, Recorded(act.cond, caps, p), best1)

SearchOnePass(x, nodes) ==
    LET none == [NoCaps(x.n) EXCEPT ![0] = x.from]
        best == OnePassLoop(x, nodes, x.prog.start, x.from, none, none)
    IN IF OutOfPlace(x) \/ best[1] = None THEN Failed ELSE Found(best)
=============================================================================
