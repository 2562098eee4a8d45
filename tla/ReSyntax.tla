------------------------------ MODULE ReSyntax ------------------------------
(***************************************************************************)
(* Regular expressions of RE2 as syntax trees, the rewritings the library  *)
(* makes before it compiles one (parse.cc FactorAlternation, regexp.cc     *)
(* RequiredPrefix, simplify.cc, the anchor test of compile.cc), and two     *)
(* reference meanings: the set of ends a match can have, and the list of    *)
(* ways a backtracking matcher tries, best first.                           *)
(*                                                                         *)
(* Bytes are 0..5: the newline, two upper case letters, a punctuation mark,  *)
(* two lower case letters, in the order of ASCII: what the flags of prog.h   *)
(* and case folding tell apart.  Expressions are in Latin-1, where a rune is *)
(* a byte.                                                                   *)
(*                                                                         *)
(* This module declares RECURSIVE operators: it is for model checking.      *)
(***************************************************************************)
EXTENDS Integers, Sequences, SequencesExt, FiniteSetsExt, Functions

Bytes   == 0..5
Newline == 0
Upper   == 1..2
Lower   == 4..5
Case    == 3                       \* 'a' - 'A'
IsWordChar(c) == c \in Upper \cup Lower

Shift(S, d) == { c + d : c \in S }

\* regexp.h: one record for every operator, the unused fields empty.
Node(op) == [op |-> op, subs |-> <<>>, runes |-> <<>>, cc |-> {}, cap |-> 0,
             min |-> 0, max |-> 0, fold |-> FALSE, ng |-> FALSE]

Empty     == Node("EmptyMatch")
NoMatch   == Node("NoMatch")
AnyChar   == Node("AnyChar")
BeginText == Node("BeginText")
EndText   == Node("EndText")
BeginLine == Node("BeginLine")
EndLine   == Node("EndLine")
WordB     == Node("WordBoundary")
NotWordB  == Node("NoWordBoundary")
Class(S)  == [Node("CharClass") EXCEPT !.cc = S]

Repeated(op, re, lazy) ==          \* a** is a*
    IF re.op = op /\ re.ng = lazy THEN re
    ELSE [Node(op) EXCEPT !.subs = <<re>>, !.ng = lazy]
Star(re)  == Repeated("Star", re, FALSE)
Plus(re)  == Repeated("Plus", re, FALSE)
Quest(re) == Repeated("Quest", re, FALSE)
LazyStar(re)  == Repeated("Star", re, TRUE)
LazyPlus(re)  == Repeated("Plus", re, TRUE)
LazyQuest(re) == Repeated("Quest", re, TRUE)
Times(re, lo, hi) ==               \* re{lo,hi}; hi = -1 for no limit
    [Node("Repeat") EXCEPT !.subs = <<re>>, !.min = lo, !.max = hi]
Group(re, n) == [Node("Capture") EXCEPT !.subs = <<re>>, !.cap = n]

Several(op, none, subs) ==
    CASE Len(subs) = 0 -> none
      [] Len(subs) = 1 -> subs[1]
      [] OTHER -> [Node(op) EXCEPT !.subs = subs]
Cat(subs) == Several("Concat", Empty, subs)
Alt(subs) == Several("Alternate", NoMatch, subs)

LiteralString(runes, fold) ==
    IF runes = <<>> THEN Empty
    ELSE [Node(IF Len(runes) = 1 THEN "Literal" ELSE "LiteralString")
             EXCEPT !.runes = runes, !.fold = fold]
Lit(c)     == LiteralString(<<c>>, FALSE)
LitFold(c) == LiteralString(<<c>>, TRUE)
Str(s)     == LiteralString(s, FALSE)

IsLiteral(re)   == re.op \in {"Literal", "LiteralString"}
IsRepeated(re)  == re.op \in {"Star", "Plus", "Quest"}

\* The bytes one rune of a literal stands for.
Folded(c, fold) ==
    {c} \cup (IF fold /\ c \in Lower THEN {c - Case} ELSE {})

RECURSIVE NumberOfGroups(_)
NumberOfGroups(re) ==
    (IF re.op = "Capture" THEN 1 ELSE 0)
      + FoldLeft(LAMBDA n, sub : n + NumberOfGroups(sub), 0, re.subs)

-----------------------------------------------------------------------------
(* parse.cc: FactorAlternation.  The four rounds work on the list of         *)
(* alternatives, each replacing a run of neighbours by one alternative.      *)

RECURSIVE LeadingString(_)
LeadingString(re) ==
    IF re.op = "Concat" THEN LeadingString(re.subs[1])
    ELSE [runes |-> IF IsLiteral(re) THEN re.runes ELSE <<>>, fold |-> re.fold]

\* Removing the head of a concatenation, which collapses when two are left.
WithoutHead(re) == Cat(Tail(re.subs))

RECURSIVE RemoveLeadingString(_, _)
RemoveLeadingString(re, n) ==
    IF re.op = "Concat"
    THEN LET head == RemoveLeadingString(re.subs[1], n) IN
         IF head.op = "EmptyMatch" THEN WithoutHead(re)
                                   ELSE [re EXCEPT !.subs[1] = head]
    ELSE LiteralString(SubSeq(re.runes, n + 1, Len(re.runes)), re.fold)

HasHead(re) == re.op = "Concat" /\ re.subs[1].op # "EmptyMatch"

LeadingRegexp(re) ==
    CASE re.op = "EmptyMatch" -> {}
      [] re.op = "Concat"     -> IF HasHead(re) THEN {re.subs[1]} ELSE {}
      [] OTHER                -> {re}

RemoveLeadingRegexp(re) ==
    CASE HasHead(re) -> WithoutHead(re)
      [] ~HasHead(re) /\ re.op \in {"Concat", "EmptyMatch"} -> re
      [] OTHER -> Empty

CommonPrefix(s, t) == LongestCommonPrefix({s, t})

\* What the alternatives of a run still have in common when re joins it, and
\* whether re may join it: round 1 by literal string, round 2 by first piece.
StringInCommon(lead, re) ==
    LET mine == LeadingString(re) IN
    IF mine.fold = lead.fold
    THEN [lead EXCEPT !.runes = CommonPrefix(lead.runes, mine.runes)]
    ELSE [lead EXCEPT !.runes = <<>>]

\* Splits a list into maximal runs, as the loops of rounds 1 and 2 do:
\* a run is [lead, subs]; Shared(lead, re) is what is left of lead, or "none".
RECURSIVE Runs(_, _, _, _, _)
Runs(subs, Lead(_), Shared(_, _), None(_), runs) ==
    IF subs = <<>> THEN runs
    ELSE LET re   == Head(subs)
             last == runs[Len(runs)]
             lead == Shared(last.lead, re)
         IN Runs(Tail(subs), Lead, Shared, None,
                 IF runs # <<>> /\ ~None(lead)
                 THEN [runs EXCEPT ![Len(runs)] =
                         [lead |-> lead, subs |-> Append(last.subs, re)]]
                 ELSE Append(runs, [lead |-> Lead(re), subs |-> <<re>>]))

StringRuns(subs) ==
    Runs(subs, LeadingString, StringInCommon, LAMBDA lead : lead.runes = <<>>,
         <<>>)
PieceRuns(subs) ==
    Runs(subs, LeadingRegexp, LAMBDA lead, re : lead \cap LeadingRegexp(re),
         LAMBDA lead : lead = {}, <<>>)

\* Round 3: neighbouring single characters become one class.
Single(re)  == re.op \in {"Literal", "CharClass"}
BytesOf(re) == IF re.op = "CharClass" THEN re.cc ELSE Folded(re.runes[1], re.fold)
Collapse(out, re) ==
    IF out # <<>> /\ Single(re) /\ Single(out[Len(out)])
    THEN [out EXCEPT ![Len(out)] = Class(BytesOf(@) \cup BytesOf(re))]
    ELSE Append(out, re)

\* Round 4: neighbouring empty alternatives become one.
DropEmpty(out, re) ==
    IF out # <<>> /\ re.op = "EmptyMatch" /\ out[Len(out)].op = "EmptyMatch"
    THEN out ELSE Append(out, re)

RECURSIVE FactorAlternation(_, _)
FactorAlternation(subs, depth) ==
    LET Factored(sufs) == Alt(FactorAlternation(sufs, depth - 1))
        ByString(run) ==
            LET n == Len(run.lead.runes) IN
            IF Len(run.subs) = 1 THEN run.subs[1]
            ELSE Cat(<<LiteralString(run.lead.runes, run.lead.fold),
                       Factored([k \in DOMAIN run.subs |->
                                    RemoveLeadingString(run.subs[k], n)])>>)
        ByPiece(run) ==
            IF Len(run.subs) = 1 THEN run.subs[1]
            ELSE Cat(<<CHOOSE re \in run.lead : TRUE,
                       Factored([k \in DOMAIN run.subs |->
                                    RemoveLeadingRegexp(run.subs[k])])>>)
        Each(Op(_), runs) == [k \in DOMAIN runs |-> Op(runs[k])]
        round2 == Each(ByPiece, PieceRuns(Each(ByString, StringRuns(subs))))
    IN IF depth <= 0 THEN subs
       ELSE FoldLeft(DropEmpty, <<>>, FoldLeft(Collapse, <<>>, round2))

-----------------------------------------------------------------------------
(* simplify.cc: counted repetitions, empty classes, idempotent repetitions.  *)
(* (A class is full() when it has every rune of Unicode: none is in Latin-1.) *)

Copies(n, re) == [k \in 1..n |-> re]

RECURSIVE OptionalCopies(_, _, _)
OptionalCopies(n, re, lazy) ==     \* n copies nested: (x(x(x)?)?)?
    IF n = 1 THEN Repeated("Quest", re, lazy)
    ELSE Repeated("Quest", Cat(<<re, OptionalCopies(n - 1, re, lazy)>>), lazy)

SimplifyRepeat(re, min, max, lazy) ==
    CASE max = -1 ->
            IF min = 0 THEN Repeated("Star", re, lazy)
            ELSE Cat(Append(Copies(min - 1, re), Repeated("Plus", re, lazy)))
      [] max # -1 /\ max <= min -> Cat(Copies(min, re))
      [] max # -1 /\ max > min ->
            LET more == OptionalCopies(max - min, re, lazy)
            IN IF min = 0 THEN more ELSE Cat(<<Cat(Copies(min, re)), more>>)

RECURSIVE Simplify(_)
Simplify(re) ==
    LET subs == [k \in DOMAIN re.subs |-> Simplify(re.subs[k])] IN
    CASE re.op = "CharClass" ->
            IF re.cc = {} THEN NoMatch ELSE re
      [] IsRepeated(re) ->
            IF subs[1].op = "EmptyMatch" \/ (subs[1].op = re.op /\ subs[1].ng = re.ng)
            THEN subs[1] ELSE [re EXCEPT !.subs = subs]
      [] re.op = "Repeat" ->
            IF subs[1].op = "EmptyMatch" THEN subs[1]
            ELSE SimplifyRepeat(subs[1], re.min, re.max, re.ng)
      [] OTHER -> [re EXCEPT !.subs = subs]

-----------------------------------------------------------------------------
(* regexp.cc RequiredPrefix: \A followed by a literal lets Match compare the *)
(* literal with memcmp and compile only the rest.                            *)

NoPrefix(re) == [runes |-> <<>>, fold |-> FALSE, suffix |-> re]

RequiredPrefix(re) ==
    LET carets == { k \in DOMAIN re.subs :
                      \A j \in 1..k : re.subs[j].op = "BeginText" }
        i == Cardinality(carets) + 1
    IN IF /\ re.op = "Concat" /\ carets # {} /\ i <= Len(re.subs)
          /\ IsLiteral(re.subs[i])
       THEN [runes |-> re.subs[i].runes, fold |-> re.subs[i].fold,
             suffix |-> Cat(SubSeq(re.subs, i + 1, Len(re.subs)))]
       ELSE NoPrefix(re)

(* compile.cc IsAnchorStart and IsAnchorEnd: an anchor at an end of the      *)
(* expression, under at most three concatenations or groups, is removed and  *)
(* recorded in the program instead.                                          *)
RECURSIVE Unanchored(_, _, _)
Unanchored(re, anchor, depth) ==
    LET at  == IF anchor = "BeginText" THEN 1 ELSE Len(re.subs)
        sub == Unanchored(re.subs[at], anchor, depth + 1)
        is  == re.op = anchor
    IN IF depth < 4 /\ re.op \in {"Concat", "Capture"}
       THEN [is |-> sub.is, re |-> [re EXCEPT !.subs[at] = sub.re]]
       ELSE IF depth < 4 /\ is THEN [is |-> TRUE, re |-> Empty]
                               ELSE [is |-> FALSE, re |-> re]

-----------------------------------------------------------------------------
(* mimics_pcre.cc: an expression that repeats something that may be empty is *)
(* one on which the library does not promise what a backtracking matcher     *)
(* does.                                                                     *)

RECURSIVE CanBeEmptyString(_)
CanBeEmptyString(re) ==
    CASE re.op \in {"NoMatch", "Literal", "LiteralString", "AnyChar", "CharClass"}
            -> FALSE
      [] re.op = "Concat" -> \A k \in DOMAIN re.subs : CanBeEmptyString(re.subs[k])
      [] re.op = "Alternate" -> \E k \in DOMAIN re.subs : CanBeEmptyString(re.subs[k])
      [] re.op \in {"Plus", "Capture"} -> CanBeEmptyString(re.subs[1])
      [] re.op = "Repeat" -> re.min = 0 \/ CanBeEmptyString(re.subs[1])
      [] OTHER -> TRUE

RECURSIVE RepeatsEmpty(_)
RepeatsEmpty(re) ==
    \/ \E k \in DOMAIN re.subs : RepeatsEmpty(re.subs[k])
    \/ /\ IsRepeated(re) \/ (re.op = "Repeat" /\ re.max = -1)
       /\ CanBeEmptyString(re.subs[1])

-----------------------------------------------------------------------------
(* The empty-width conditions that hold at position p of ctx (prog.cc        *)
(* EmptyFlags).  Positions are 0..Len(ctx); ctx[p + 1] is the byte after p.  *)

EmptyFlags(ctx, p) ==
    LET n == Len(ctx)
        before == p > 0 /\ IsWordChar(ctx[p])
        after  == p < n /\ IsWordChar(ctx[p + 1])
    IN    (IF p = 0 THEN {"BeginText"} ELSE {})
     \cup (IF p = 0 \/ ctx[p] = Newline THEN {"BeginLine"} ELSE {})
     \cup (IF p = n THEN {"EndText"} ELSE {})
     \cup (IF p = n \/ ctx[p + 1] = Newline THEN {"EndLine"} ELSE {})
     \cup {IF before # after THEN "WordBoundary" ELSE "NoWordBoundary"}

EmptyOps == {"BeginText", "BeginLine", "EndText", "EndLine",
             "WordBoundary", "NoWordBoundary"}

(* Reference 1: the ends of all the ways re can match from position i, inside *)
(* ctx[i+1 .. to].                                                            *)
RECURSIVE Ends(_, _, _, _)
Ends(re, ctx, to, i) ==
    LET After(sub, S) == UNION { Ends(sub, ctx, to, j) : j \in S }
        In(S) == IF i < to /\ ctx[i + 1] \in S THEN {i + 1} ELSE {}
        reach[n \in 0..(to + 1)] ==
            IF n = 0 THEN {i} ELSE reach[n-1] \cup After(re.subs[1], reach[n-1])
        times[n \in 0..(IF re.max < re.min THEN re.min ELSE re.max)] ==
            IF n = 0 THEN {i} ELSE After(re.subs[1], times[n-1])
    IN CASE re.op = "EmptyMatch" -> {i}
         [] re.op = "NoMatch"    -> {}
         [] re.op = "AnyChar"    -> In(Bytes)
         [] re.op = "CharClass"  -> In(re.cc)
         [] IsLiteral(re) ->
              IF /\ i + Len(re.runes) <= to
                 /\ \A k \in DOMAIN re.runes :
                       ctx[i + k] \in Folded(re.runes[k], re.fold)
              THEN {i + Len(re.runes)} ELSE {}
         [] re.op \in EmptyOps -> IF re.op \in EmptyFlags(ctx, i) THEN {i} ELSE {}
         [] re.op = "Concat" ->
              FoldLeft(LAMBDA S, sub : After(sub, S), {i}, re.subs)
         [] re.op = "Alternate" ->
              UNION { Ends(re.subs[k], ctx, to, i) : k \in DOMAIN re.subs }
         [] re.op = "Capture" -> After(re.subs[1], {i})
         [] re.op = "Quest" -> {i} \cup After(re.subs[1], {i})
         [] re.op = "Star"  -> reach[to + 1]
         [] re.op = "Plus"  -> After(re.subs[1], reach[to + 1])
         [] re.op = "Repeat" /\ re.max # -1 ->
              UNION { times[n] : n \in re.min..re.max }
         [] re.op = "Repeat" /\ re.max = -1 ->
              UNION { Ends(Star(re.subs[1]), ctx, to, j) : j \in times[re.min] }

(* Reference 2: the ways, in the order a backtracking matcher tries them; a   *)
(* way is [at, caps], caps the positions recorded by the groups (-1: unset).  *)
(* Repetitions of something that may be empty have no meaning here.           *)
RECURSIVE Ways(_, _, _, _)
RECURSIVE Loop(_, _, _, _, _, _)
Then(ways, Next(_)) == FlattenSeq([k \in DOMAIN ways |-> Next(ways[k])])

Loop(sub, min, max, lazy, x, w) ==  \* min..max more rounds of sub; -1: no limit
    LET again == IF max = 0 THEN <<>>
                 ELSE Then(Ways(sub, x.ctx, x.to, w),
                           LAMBDA v : Loop(sub, IF min = 0 THEN 0 ELSE min - 1,
                                           IF max = -1 THEN -1 ELSE max - 1,
                                           lazy, x, v))
        stop  == IF min > 0 THEN <<>> ELSE <<w>>
    IN IF lazy THEN stop \o again ELSE again \o stop

Ways(re, ctx, to, w) ==
    LET x == [ctx |-> ctx, to |-> to]
        Within(sub, v) == Ways(sub, ctx, to, v)
    IN CASE re.op = "Concat" ->
              FoldLeft(LAMBDA ws, sub : Then(ws, LAMBDA v : Within(sub, v)),
                       <<w>>, re.subs)
         [] re.op = "Alternate" ->
              FlattenSeq([k \in DOMAIN re.subs |-> Within(re.subs[k], w)])
         [] re.op = "Capture" ->
              Then(Within(re.subs[1], [w EXCEPT !.caps[2 * re.cap] = w.at]),
                   LAMBDA v : <<[v EXCEPT !.caps[2 * re.cap + 1] = v.at]>>)
         [] re.op = "Quest"  -> Loop(re.subs[1], 0, 1, re.ng, x, w)
         [] re.op = "Star"   -> Loop(re.subs[1], 0, -1, re.ng, x, w)
         [] re.op = "Plus"   -> Loop(re.subs[1], 1, -1, re.ng, x, w)
         [] re.op = "Repeat" -> Loop(re.subs[1], re.min, re.max, re.ng, x, w)
         [] OTHER ->
              [k \in 1..Cardinality(Ends(re, ctx, to, w.at)) |->
                  [w EXCEPT !.at = CHOOSE e \in Ends(re, ctx, to, w.at) : TRUE]]
=============================================================================
