-------------------------------- MODULE ReProg --------------------------------
(***************************************************************************)
(* The compiler of RE2: from a syntax tree to a program of byte             *)
(* instructions (compile.cc, Latin-1), with the peep-hole optimizer and the *)
(* byte classes of prog.cc.                                                 *)
(*                                                                         *)
(* A compilation is the record c: the instructions so far, the ends of the  *)
(* byte ranges told apart, and whether concatenations are reversed.  A      *)
(* fragment is [begin, end]: its first instruction and its patch list, the  *)
(* set of the out and out1 fields still to be filled.  What an operation    *)
(* returns is [c, f].  Instruction 0 is kInstFail: a fragment that begins   *)
(* there matches nothing.                                                   *)
(***************************************************************************)
EXTENDS ReSyntax, TLC

Inst(op) == [op |-> op, out |-> 0, out1 |-> 0, lo |-> 0, hi |-> 0,
             fold |-> FALSE, cap |-> 0, empty |-> "none"]
Fail == Inst("Fail")

NewCompiler(reversed) == [inst |-> <<>>, marks |-> {}, rev |-> reversed]

Res(c, begin, end) == [c |-> c, f |-> [begin |-> begin, end |-> end]]
NoFrag == [begin |-> 0, end |-> {}]
IsNoMatch(f) == f.begin = 0

LastId(c) == Len(c.inst)
Emit(c, inst) == [c EXCEPT !.inst = Append(@, inst)]

Patch(c, holes, to) ==
    [c EXCEPT !.inst =
       [id \in DOMAIN @ |->
          [@[id] EXCEPT !.out  = IF <<id, "out">>  \in holes THEN to ELSE @,
                        !.out1 = IF <<id, "out1">> \in holes THEN to ELSE @]]]

\* prog.cc MarkByteRange: a range ends before lo and at hi.
Marked(c, lo, hi) ==
    [c EXCEPT !.marks = @ \cup {hi} \cup (IF lo > 0 THEN {lo - 1} ELSE {})]

-----------------------------------------------------------------------------
(* The constructions of the fragments.                                       *)

\* An instruction whose one way out is still open.
Open(c, inst) == Res(Emit(c, inst), LastId(c) + 1, {<<LastId(c) + 1, "out">>})

NopFrag(c) == Open(c, Inst("Nop"))

CatFrags(c, a, b) ==
    CASE IsNoMatch(a) \/ IsNoMatch(b) -> [c |-> c, f |-> NoFrag]
      [] ~IsNoMatch(a) /\ ~IsNoMatch(b)
           /\ c.inst[a.begin].op = "Nop" /\ a.end = {<<a.begin, "out">>} ->
            [c |-> Patch(c, a.end, b.begin), f |-> b]
      [] OTHER ->
            IF c.rev THEN Res(Patch(c, b.end, a.begin), b.begin, a.end)
                     ELSE Res(Patch(c, a.end, b.begin), a.begin, b.end)

\* Mutant: the alternatives are tried in the other order.
AltFragsSwapped(c, a, b) ==
    IF IsNoMatch(a) THEN [c |-> c, f |-> b]
    ELSE IF IsNoMatch(b) THEN [c |-> c, f |-> a]
    ELSE Res(Emit(c, [Inst("Alt") EXCEPT !.out = b.begin, !.out1 = a.begin]),
             LastId(c) + 1, a.end \cup b.end)

AltFrags(c, a, b) ==
    IF IsNoMatch(a) THEN [c |-> c, f |-> b]
    ELSE IF IsNoMatch(b) THEN [c |-> c, f |-> a]
    ELSE Res(Emit(c, [Inst("Alt") EXCEPT !.out = a.begin, !.out1 = b.begin]),
             LastId(c) + 1, a.end \cup b.end)

\* The branch of a new Alt that takes the repetition, and the one that leaves.
Into(lazy)  == IF lazy THEN "out1" ELSE "out"
OutOf(lazy) == IF lazy THEN "out" ELSE "out1"

StarFrag(c, a, lazy) ==
    LET id == LastId(c) + 1
        alt == [Inst("Alt") EXCEPT ![Into(lazy)] = a.begin]
    IN Res(Patch(Emit(c, alt), a.end, id), id, {<<id, OutOf(lazy)>>})

PlusFrag(c, a, lazy) ==
    LET star == StarFrag(c, a, lazy) IN Res(star.c, a.begin, star.f.end)

QuestFrag(c, a, lazy) ==
    LET id == LastId(c) + 1
        alt == [Inst("Alt") EXCEPT ![Into(lazy)] = a.begin]
    IN IF IsNoMatch(a) THEN NopFrag(c)
       ELSE Res(Emit(c, alt), id, {<<id, OutOf(lazy)>>} \cup a.end)

CaptureFrag(c, a, n) ==
    LET id == LastId(c) + 1
        open  == [Inst("Capture") EXCEPT !.cap = 2 * n, !.out = a.begin]
        close == [Inst("Capture") EXCEPT !.cap = 2 * n + 1]
    IN IF IsNoMatch(a) THEN [c |-> c, f |-> NoFrag]
       ELSE Res(Patch(Emit(Emit(c, open), close), a.end, id + 1),
                id, {<<id + 1, "out">>})

\* With fold, the upper case image of the part of lo..hi inside a..z is
\* matched too: its ends are marked as well.
ByteRange(c, lo, hi, fold) ==
    LET r == Open(c, [Inst("ByteRange") EXCEPT !.lo = lo, !.hi = hi, !.fold = fold])
        low == (lo..hi) \cap Lower
        m == Marked(r.c, lo, hi)
    IN [r EXCEPT !.c = IF fold /\ low # {}
                       THEN Marked(m, Min(low) - Case, Max(low) - Case) ELSE m]

EmptyWidth(c, empty) ==
    LET r == Open(c, [Inst("EmptyWidth") EXCEPT !.empty = empty])
        words == { b \in Bytes : b + 1 \in Bytes => IsWordChar(b) # IsWordChar(b + 1) }
    IN [r EXCEPT !.c =
          CASE empty \in {"BeginLine", "EndLine"} -> Marked(@, Newline, Newline)
            [] empty \in {"WordBoundary", "NoWordBoundary"} ->
                 [@ EXCEPT !.marks = @ \cup words]
            [] OTHER -> @]

Swapped(op) ==                     \* reading the text backwards
    CASE op = "BeginLine" -> "EndLine" [] op = "EndLine" -> "BeginLine"
      [] op = "BeginText" -> "EndText" [] op = "EndText" -> "BeginText"
      [] OTHER -> op

-----------------------------------------------------------------------------
(* Literals and classes.                                                     *)

Combined(Combine(_, _, _), c, fs) ==     \* f1 with f2, then with f3, ...
    FoldLeft(LAMBDA r, f : Combine(r.c, r.f, f), [c |-> c, f |-> fs[1]], Tail(fs))

\* Emits each piece of a sequence and returns the fragments in order.
EmitAll(c, pieces, EmitOne(_, _)) ==
    FoldLeft(LAMBDA r, p : LET one == EmitOne(r.c, p)
                           IN [c |-> one.c, fs |-> Append(r.fs, one.f)],
             [c |-> c, fs |-> <<>>], pieces)

LiteralFrag(c, runes, fold) ==
    LET all == EmitAll(c, runes, LAMBDA d, r : ByteRange(d, r, r, fold))
    IN Combined(CatFrags, all.c, all.fs)

Ranges(cc) ==                      \* the maximal ranges of a class, in order
    SetToSortSeq({ r \in cc \X cc : /\ r[1]..r[2] \subseteq cc
                                    /\ r[1] - 1 \notin cc /\ r[2] + 1 \notin cc },
                 LAMBDA r, s : r[1] < s[1])

FoldsASCII(cc) == Shift(cc \cap Upper, Case) = cc \cap Lower

\* A class that treats A-Z as a-z drops its ranges inside A-Z and folds.
ClassFrag(c, cc) ==
    LET folds == FoldsASCII(cc)
        kept  == SelectSeq(Ranges(cc), LAMBDA r : ~(folds /\ r[1]..r[2] \subseteq Upper))
        Letters == Min(Upper)..Max(Lower)
        fold(r) == /\ folds
                   /\ ~(Letters \subseteq r[1]..r[2])
                   /\ (r[1]..r[2]) \cap Letters # {}
        all == EmitAll(c, kept, LAMBDA d, r : ByteRange(d, r[1], r[2], fold(r)))
    IN Combined(AltFrags, all.c, all.fs)

LeafFrag(c, re) ==
    CASE re.op = "NoMatch"     -> [c |-> c, f |-> NoFrag]
      [] re.op = "EmptyMatch"  -> NopFrag(c)
      [] IsLiteral(re)         -> LiteralFrag(c, re.runes, re.fold)
      [] re.op = "AnyChar"     -> ByteRange(c, Min(Bytes), Max(Bytes), FALSE)
      [] re.op = "CharClass"   -> ClassFrag(c, re.cc)
      [] re.op \in EmptyOps    ->
           EmptyWidth(c, IF c.rev THEN Swapped(re.op) ELSE re.op)

\* The fragment of re from those of its parts, subs.
InnerFrag(re, subs) ==
    LET sub == subs.fs[1] IN
    CASE re.op = "Concat"      -> Combined(CatFrags, subs.c, subs.fs)
      [] re.op = "Alternate"   -> Combined(AltFrags, subs.c, subs.fs)
      [] re.op = "Star"        -> StarFrag(subs.c, sub, re.ng)
      [] re.op = "Plus"        -> PlusFrag(subs.c, sub, re.ng)
      [] re.op = "Quest"       -> QuestFrag(subs.c, sub, re.ng)
      [] re.op = "Capture"     -> CaptureFrag(subs.c, sub, re.cap)

RECURSIVE Frag(_, _)
Frag(c, re) ==                     \* Compiler::PostVisit
    IF re.subs = <<>> THEN LeafFrag(c, re)
    ELSE InnerFrag(re, EmitAll(c, re.subs, Frag))

-----------------------------------------------------------------------------
(* prog.cc Optimize and ComputeByteMap.                                      *)

IsAlt(i) == i.op \in {"Alt", "AltMatch"}

RECURSIVE SkipNops(_, _)
SkipNops(inst, id) == IF inst[id].op = "Nop" THEN SkipNops(inst, inst[id].out) ELSE id

RECURSIVE Reachable(_, _)
Reachable(inst, S) ==
    LET next == S \cup { inst[id].out : id \in S }
                  \cup { inst[id].out1 : id \in { x \in S : IsAlt(inst[x]) } }
    IN IF next \subseteq S \cup {0} THEN S ELSE Reachable(inst, next \ {0})

RECURSIVE IsMatch(_, _)
IsMatch(inst, id) ==
    \/ inst[id].op = "Match"
    \/ inst[id].op \in {"Capture", "Nop"} /\ IsMatch(inst, inst[id].out)

AnyByteLoop(inst, id, alt) ==      \* id reads any byte and comes back to alt
    /\ inst[id].op = "ByteRange" /\ inst[id].out = alt
    /\ inst[id].lo = Min(Bytes) /\ inst[id].hi = Max(Bytes)

\* First the nops that can be reached from start are skipped, then an Alt
\* between a loop on any byte and a match becomes an AltMatch.
WithoutNops(inst, start) ==
    LET reached == Reachable(inst, {start}) \ {0}
    IN [id \in DOMAIN inst |->
          IF id \in reached
          THEN [inst[id] EXCEPT
                  !.out = SkipNops(inst, @),
                  !.out1 = IF inst[id].op = "Alt" THEN SkipNops(inst, @) ELSE @]
          ELSE inst[id]]

WithAltMatches(inst, start) ==
    LET reached == Reachable(inst, {start})
        between(id, loop, end) == AnyByteLoop(inst, loop, id) /\ IsMatch(inst, end)
    IN [id \in DOMAIN inst |->
          IF /\ id \in reached /\ inst[id].op = "Alt"
             /\ \/ between(id, inst[id].out, inst[id].out1)
                \/ between(id, inst[id].out1, inst[id].out)
          THEN [inst[id] EXCEPT !.op = "AltMatch"] ELSE inst[id]]

Optimize(inst, start) == WithAltMatches(WithoutNops(inst, start), start)

\* Bytes with the same number of marks below them are one class; a class is
\* known by its last byte (unbytemap).
ByteMap(marks) ==
    LET class(b) == Cardinality({ m \in marks : m < b })
    IN [b \in Bytes |-> Max({ d \in Bytes : class(d) = class(b) })]

-----------------------------------------------------------------------------
DotStar(c) ==
    LET any == ByteRange(c, Min(Bytes), Max(Bytes), FALSE)
    IN StarFrag(any.c, any.f, TRUE)

BehindDotStar(r) ==
    LET dot == DotStar(r.c) IN CatFrags(dot.c, dot.f, r.f)

BeforeMatch(r) ==
    CatFrags(Emit(r.c, Inst("Match")), r.f, [begin |-> LastId(r.c) + 1, end |-> {}])

\* The anchors at the ends, and what is left between them.
Trimmed(re) ==
    LET begin == Unanchored(re, "BeginText", 0)
        end   == Unanchored(begin.re, "EndText", 0)
    IN [re |-> end.re, begin |-> begin.is, end |-> end.is]

\* The program of the trimmed expression t, all its instructions to the match.
Program(t, reversed, all) ==
    LET anchorStart == IF reversed THEN t.end ELSE t.begin
        open  == IF anchorStart THEN all ELSE BehindDotStar(all)
        none  == all.f.begin = 0 /\ open.f.begin = 0
        inst  == [id \in (IF none THEN {0} ELSE 0..LastId(open.c)) |->
                    IF id = 0 THEN Fail ELSE open.c.inst[id]]
    IN [inst            |-> Optimize(inst, all.f.begin),
        start           |-> all.f.begin,
        startUnanchored |-> open.f.begin,
        anchorStart     |-> anchorStart,
        anchorEnd       |-> IF reversed THEN t.begin ELSE t.end,
        reversed        |-> reversed,
        bytemap         |-> ByteMap(open.c.marks)]

CompileTrimmed(t, reversed) ==
    Program(t, reversed,
            BeforeMatch([Frag(NewCompiler(reversed), t.re) EXCEPT !.c.rev = FALSE]))

\* Compiler::Compile: the anchors at the ends are removed and recorded, the
\* rest is compiled, a match is put behind it and a .*? before it.
Compile(re, reversed) == CompileTrimmed(Trimmed(Simplify(re)), reversed)

\* What one byte does to an instruction (prog.h Inst::Matches).
Matches(inst, b) ==
    LET d == IF inst.fold /\ b \in Upper THEN b + Case ELSE b
    IN inst.op = "ByteRange" /\ inst.lo <= d /\ d <= inst.hi
=============================================================================
