-------------------------------- MODULE ReParse --------------------------------
(***************************************************************************)
(* The parser of RE2 (parse.cc): a stack of expressions and markers, and one *)
(* operation for each token of the pattern; and the printer that turns a tree *)
(* back into a pattern (tostring.cc).                                        *)
(*                                                                         *)
(* A pattern is a sequence of tokens: how its characters are grouped into    *)
(* them (escapes, the digits of a count, names of groups and of classes) is  *)
(* left out, and so are the errors of that grouping.  The flags a pattern     *)
(* may set are those of regexp.h, (?m) being the opposite of OneLine.  Only a *)
(* pattern in Perl syntax has tokens for flags and for lazy repetitions.      *)
(***************************************************************************)
EXTENDS ReSyntax

VerticalBar == Node("VerticalBar")

-----------------------------------------------------------------------------
(* Tokens.                                                                    *)

Mark(t)  == [t |-> t]        \* ( (?P<n> | ) ^ $ . \A \z \b \B
Char(c)  == [t |-> "char", r |-> c]
Repeating(op, min, max, lazy) ==   \* * + ? {min,max}, with a ? behind if lazy
    [t |-> "repeat", op |-> op, min |-> min, max |-> max, lazy |-> lazy]
Perl(set, clear, open) ==    \* (?flags) or, if open, (?flags:
    [t |-> "flags", set |-> set, clear |-> clear, open |-> open]
Bracket(neg, items) == [t |-> "class", neg |-> neg, items |-> items]
Runes(S)            == [runes |-> S, group |-> FALSE, neg |-> FALSE]     \* a-z
NamedGroup(S, neg)  == [runes |-> S, group |-> TRUE, neg |-> neg]        \* \w \W

-----------------------------------------------------------------------------
(* The state of the parser.                                                   *)

MaxRepeat == 1000
LikePerl  == {"ClassNL", "OneLine", "PerlX"}

Start(flags) ==              \* unary: the token before was a repetition
    [stack |-> <<>>, flags |-> flags, ncap |-> 0, unary |-> FALSE, error |-> ""]

TestFlags == {"ClassNL", "DotNL", "PerlX"}   \* those of parse_test.cc

Fail(s, code) == [s EXCEPT !.error = code]
IsMarker(re)  == re.op \in {"LeftParen", "VerticalBar"}
TopMarker(s)  == SelectLastInSeq(s.stack, IsMarker)
NoOperand(s)  == s.stack = <<>> \/ IsMarker(Last(s.stack))

WithTop(s, n, re) == [s EXCEPT !.stack = Append(SubSeq(@, 1, Len(@) - n), re)]

Folds(s) == "FoldCase" \in s.flags

\* Two literals on top that fold alike become one string, when something else
\* is about to be pushed: not before, or ab* would be (ab)*.
MaybeConcatString(s) ==
    LET n == Len(s.stack)
        below == s.stack[n - 1]
        top   == s.stack[n]
    IN IF n >= 2 /\ IsLiteral(top) /\ IsLiteral(below) /\ top.fold = below.fold
       THEN WithTop(s, 2, LiteralString(below.runes \o top.runes, top.fold))
       ELSE s

\* A class of one character is a literal that folds as the flags say, and [Aa]
\* is a literal that folds.
AsLiteral(re, fold) ==
    LET lo == Min(re.cc) IN
    CASE re.op = "CharClass" /\ Cardinality(re.cc) = 1 -> LiteralString(<<lo>>, fold)
      [] re.op = "CharClass" /\ Cardinality(re.cc) = 2 /\ lo \in Upper /\ lo + Case \in re.cc
            -> LitFold(lo + Case)
      [] OTHER -> re

PushRegexp(s, re) == WithTop(MaybeConcatString(s), 0, AsLiteral(re, Folds(s)))

-----------------------------------------------------------------------------
(* Operands.                                                                  *)

WithCases(S) == S \cup Shift(S \cap Upper, Case) \cup Shift(S \cap Lower, -Case)

PushLiteral(s, c) ==
    CASE Folds(s) /\ IsWordChar(c) -> PushRegexp(s, Class(WithCases({c})))
      [] "NeverNL" \in s.flags /\ c = Newline -> PushRegexp(s, NoMatch)
      [] OTHER -> PushRegexp(s, LiteralString(<<c>>, Folds(s)))

PushDot(s) ==
    PushRegexp(s, IF "DotNL" \in s.flags /\ "NeverNL" \notin s.flags
                  THEN AnyChar ELSE Class(Bytes \ {Newline}))

AtLine(s, ofText, ofLine) ==       \* ^ and $
    PushRegexp(s, IF "OneLine" \in s.flags THEN ofText ELSE ofLine)

CutsNewline(flags) == "ClassNL" \notin flags \/ "NeverNL" \in flags

AddRangeFlags(S, flags) ==
    LET kept == IF CutsNewline(flags) THEN S \ {Newline} ELSE S
    IN IF "FoldCase" \in flags THEN WithCases(kept) ELSE kept

AddUGroup(S, neg, flags) ==
    IF ~neg THEN AddRangeFlags(S, flags)
    ELSE IF "FoldCase" \in flags
    THEN Bytes \ (AddRangeFlags(S, flags)
                    \cup (IF CutsNewline(flags) THEN {Newline} ELSE {}))
    ELSE AddRangeFlags(Bytes \ S, flags)

\* A newline written out in a class is in it whatever ClassNL says.
ParseCharClass(flags, tok) ==
    LET of(item) == IF item.group THEN AddUGroup(item.runes, item.neg, flags)
                    ELSE AddRangeFlags(item.runes, flags \cup {"ClassNL"})
        listed == UNION { of(tok.items[k]) : k \in DOMAIN tok.items }
    IN Class(IF ~tok.neg THEN listed
             ELSE Bytes \ (listed \cup (IF CutsNewline(flags) THEN {Newline} ELSE {})))

-----------------------------------------------------------------------------
(* Repetitions.                                                               *)

\* PushRepeatOp and PushRepetition, behind the test of the caller: in Perl
\* syntax one repetition does not directly follow another.
PushRepeat(s, tok) ==
    LET counted == tok.op = "Repeat"
        stacked == s.unary /\ "PerlX" \in s.flags
        badSize == \/ tok.max # -1 /\ tok.max < tok.min
                   \/ Max({tok.min, tok.max}) > MaxRepeat
        over == [Node(tok.op) EXCEPT !.subs = <<Last(s.stack)>>,
                                     !.ng   = ("NonGreedy" \in s.flags) # tok.lazy,
                                     !.min  = tok.min, !.max = tok.max]
    IN CASE stacked -> Fail(s, "RepeatOp")
         [] ~stacked /\ counted /\ badSize -> Fail(s, "RepeatSize")
         [] OTHER -> IF NoOperand(s) THEN Fail(s, "RepeatArgument")
                     ELSE WithTop(s, 1, over)

-----------------------------------------------------------------------------
(* Groups and alternatives.                                                   *)

ConcatOrAlternate(op, subs) ==
    IF op = "Concat" THEN Cat(subs) ELSE Alt(FactorAlternation(subs, 8))

\* What is above the marker becomes one expression, op in op flattened.
DoCollapse(s, op) ==
    LET flat(over) == FlattenSeq([k \in DOMAIN over |->
                                     IF over[k].op = op THEN over[k].subs ELSE <<over[k]>>])
        joined(over) == IF Len(over) = 1 THEN s
                        ELSE WithTop(s, Len(over), ConcatOrAlternate(op, flat(over)))
    IN joined(SubSeq(s.stack, TopMarker(s) + 1, Len(s.stack)))

DoConcatenation(s) ==
    DoCollapse(IF NoOperand(s) THEN PushRegexp(s, Empty) ELSE s, "Concat")

\* Below a bar is the list of alternatives: a single character joins the one
\* before it in a class.
AnyOf(re, with) ==
    IF "AnyChar" \in {re.op, with.op} THEN AnyChar ELSE Class(BytesOf(re) \cup BytesOf(with))

DoVerticalBar(s) ==
    LET One(re) == Single(re) \/ re.op = "AnyChar"
        joined(t, n) ==
            IF n >= 2 /\ t.stack[n - 1].op = "VerticalBar"
            THEN IF One(t.stack[n]) /\ One(t.stack[n - 2])
                 THEN WithTop(WithTop(t, 3, AnyOf(t.stack[n - 2], t.stack[n])), 0, VerticalBar)
                 ELSE WithTop(WithTop(t, 2, t.stack[n]), 0, VerticalBar)
            ELSE PushRegexp(t, VerticalBar)
        concatenated(t) == joined(t, Len(t.stack))
    IN concatenated(DoConcatenation(MaybeConcatString(s)))

DoAlternation(s) ==
    DoCollapse([DoVerticalBar(s) EXCEPT !.stack = Front(@)], "Alternate")

\* The marker keeps the flags of outside the group.
OpenGroup(s, n) ==
    PushRegexp(s, [op |-> "LeftParen", cap |-> n, flags |-> s.flags])
DoLeftParen(s) == OpenGroup([s EXCEPT !.ncap = @ + 1], s.ncap + 1)
DoLeftParenNoCapture(s) == OpenGroup(s, -1)

DoRightParen(s) ==
    LET closed(t, paren, inner) ==
            PushRegexp([t EXCEPT !.stack = Front(Front(@)), !.flags = paren.flags],
                       IF paren.cap > 0 THEN Group(inner, paren.cap) ELSE inner)
        alternated(t) ==
            IF Len(t.stack) < 2 \/ t.stack[Len(t.stack) - 1].op # "LeftParen"
            THEN Fail(s, "MissingParen")
            ELSE closed(t, t.stack[Len(t.stack) - 1], Last(t.stack))
    IN alternated(DoAlternation(s))

\* Mutant: the group is opened behind its flags, which then outlast it.
ParsePerlFlagsFirst(s, tok) ==
    LET with(t) == IF tok.open THEN DoLeftParenNoCapture(t) ELSE t
    IN with([s EXCEPT !.flags = (@ \cup tok.set) \ tok.clear])

ParsePerlFlags(s, tok) ==
    [(IF tok.open THEN DoLeftParenNoCapture(s) ELSE s)
        EXCEPT !.flags = (@ \cup tok.set) \ tok.clear]

-----------------------------------------------------------------------------
(* The loop over the pattern.                                                 *)

Step(s, tok) ==
    CASE tok.t = "char"   -> PushLiteral(s, tok.r)
      [] tok.t = "class"  -> PushRegexp(s, ParseCharClass(s.flags, tok))
      [] tok.t = "repeat" -> PushRepeat(s, tok)
      [] tok.t = "flags"  -> ParsePerlFlags(s, tok)
      [] tok.t = "("      -> IF "NeverCapture" \in s.flags THEN DoLeftParenNoCapture(s)
                                                           ELSE DoLeftParen(s)
      [] tok.t = "(?P<n>" -> DoLeftParen(s)
      [] tok.t = "|"      -> DoVerticalBar(s)
      [] tok.t = ")"      -> DoRightParen(s)
      [] tok.t = "^"      -> AtLine(s, BeginText, BeginLine)
      [] tok.t = "$"      -> AtLine(s, EndText, EndLine)
      [] tok.t = "."      -> PushDot(s)
      [] tok.t = "\\A"    -> PushRegexp(s, BeginText)
      [] tok.t = "\\z"    -> PushRegexp(s, EndText)
      [] tok.t = "\\b"    -> PushRegexp(s, WordB)
      [] tok.t = "\\B"    -> PushRegexp(s, NotWordB)

Scan(s, tok) ==
    IF s.error # "" THEN s ELSE [Step(s, tok) EXCEPT !.unary = (tok.t = "repeat")]

DoFinish(s) ==
    LET finished(t) == IF Len(t.stack) > 1 THEN Fail(t, "MissingParen") ELSE t
    IN finished(DoAlternation(s))

\* [error, re]: the tree, or why there is none.
Parse(text, flags) ==
    LET scanned(s) == IF s.error = "" THEN DoFinish(s) ELSE s
        result(s)  == [error |-> s.error, re |-> IF s.error = "" THEN s.stack[1] ELSE NoMatch]
    IN result(scanned(FoldLeft(Scan, Start(flags), text)))

-----------------------------------------------------------------------------
(* tostring.cc: the pattern of a tree, which means that tree when it is parsed *)
(* with (?ms) and nothing else set.                                            *)

PrecAtom == 0
PrecUnary == 1
PrecConcat == 2
PrecAlternate == 3
PrecEmpty == 4
PrecParen == 5
PrecToplevel == 6

Opened(set) == <<Perl(set, {}, TRUE)>>
Closed      == <<Mark(")")>>
InParens(needed, text) == IF needed THEN Opened({}) \o text \o Closed ELSE text

RuneText(c, fold) ==
    IF fold /\ c \in Lower THEN Bracket(FALSE, <<Runes({c - Case, c})>>) ELSE Char(c)

Simple == [AnyChar |-> ".", BeginLine |-> "^", EndLine |-> "$", EndText |-> "\\z",
           WordBoundary |-> "\\b", NoWordBoundary |-> "\\B"]

RECURSIVE TextOf(_, _)
TextOf(re, prec) ==
    LET texts(inner) == [k \in DOMAIN re.subs |-> TextOf(re.subs[k], inner)]
        bars == [k \in DOMAIN re.subs |-> IF k = 1 THEN <<>> ELSE <<Mark("|")>>]
    IN CASE re.op = "NoMatch" -> <<Bracket(TRUE, <<Runes(Bytes)>>)>>
         [] re.op = "EmptyMatch" -> InParens(prec < PrecEmpty, <<>>)
         [] IsLiteral(re) ->
              InParens(Len(re.runes) > 1 /\ prec < PrecConcat,
                       [k \in DOMAIN re.runes |-> RuneText(re.runes[k], re.fold)])
         [] re.op \in DOMAIN Simple -> <<Mark(Simple[re.op])>>
         [] re.op = "BeginText" -> Opened({"OneLine"}) \o <<Mark("^")>> \o Closed
         [] re.op = "CharClass" ->
              <<IF re.cc = {} THEN Bracket(TRUE, <<Runes(Bytes)>>)
                              ELSE Bracket(FALSE, <<Runes(re.cc)>>)>>
         [] re.op = "Concat" ->
              InParens(prec < PrecConcat, FlattenSeq(texts(PrecConcat)))
         [] re.op = "Alternate" ->
              InParens(prec < PrecAlternate,
                       FlattenSeq([k \in DOMAIN re.subs |-> bars[k] \o texts(PrecAlternate)[k]]))
         [] re.op = "Capture" -> <<Mark("(")>> \o texts(PrecParen)[1] \o Closed
         [] OTHER ->
              InParens(prec < PrecUnary,
                       Append(texts(PrecAtom)[1], Repeating(re.op, re.min, re.max, re.ng)))

-----------------------------------------------------------------------------
(* Reference: what a pattern means, by the grammar of doc/syntax.txt: groups    *)
(* within their parentheses, then alternatives, then pieces with what repeats  *)
(* them.  A setting of flags lasts to the end of its group.                    *)

Opens(tok) == tok.t \in {"(", "(?P<n>"} \/ (tok.t = "flags" /\ tok.open)
Sets(tok)  == tok.t = "flags" /\ ~tok.open
Count(text, Test(_)) == Cardinality({ k \in DOMAIN text : Test(text[k]) })

Depth(text, k) ==
    LET before == SubSeq(text, 1, k)
    IN Count(before, Opens) - Count(before, LAMBDA tok : tok.t = ")")

Changed(flags, tok) == (flags \cup tok.set) \ tok.clear
FlagsBehind(text, flags) ==
    LET outer == { k \in DOMAIN text : Sets(text[k]) /\ Depth(text, k) = 0 }
    IN FoldLeft(Changed, flags,
                [k \in 1..Cardinality(outer) |-> text[SetToSortSeq(outer, <)[k]]])

Captures(tok, flags) ==
    tok.t = "(?P<n>" \/ (tok.t = "(" /\ "NeverCapture" \notin flags)

\* The bytes a class matches: with FoldCase, those that have a case listed.
Listed(item, c, flags) ==
    /\ item.neg # (\E d \in (IF "FoldCase" \in flags THEN WithCases({c}) ELSE {c}) :
                       d \in item.runes)
    /\ c = Newline => "NeverNL" \notin flags /\ (item.group => "ClassNL" \in flags)
Matched(tok, flags) ==
    { c \in Bytes :
        /\ tok.neg # (\E k \in DOMAIN tok.items : Listed(tok.items[k], c, flags))
        /\ tok.neg /\ c = Newline => ~CutsNewline(flags) }

Atom(tok, flags) ==
    CASE tok.t = "char" ->
            Class((IF "FoldCase" \in flags THEN WithCases({tok.r}) ELSE {tok.r})
                    \ (IF "NeverNL" \in flags THEN {Newline} ELSE {}))
      [] tok.t = "class" -> Class(Matched(tok, flags))
      [] tok.t = "." ->
            Class(IF "DotNL" \in flags /\ "NeverNL" \notin flags
                  THEN Bytes ELSE Bytes \ {Newline})
      [] tok.t = "^" -> IF "OneLine" \in flags THEN BeginText ELSE BeginLine
      [] tok.t = "$" -> IF "OneLine" \in flags THEN EndText ELSE EndLine
      [] tok.t = "\\A" -> BeginText
      [] tok.t = "\\z" -> EndText
      [] tok.t = "\\b" -> WordB
      [] tok.t = "\\B" -> NotWordB

RECURSIVE Meaning(_, _, _)
RECURSIVE Followed(_, _, _, _)

\* re, and behind it what repeats it or comes next.
Followed(re, text, flags, n) ==
    LET tok == Head(text)
        over == [Node(tok.op) EXCEPT !.subs = <<re>>, !.min = tok.min, !.max = tok.max,
                                     !.ng = (("NonGreedy" \in flags) # tok.lazy)]
    IN CASE text = <<>> -> re
         [] text # <<>> /\ Sets(tok) -> Followed(re, Tail(text), Changed(flags, tok), n)
         [] text # <<>> /\ tok.t = "repeat" -> Followed(over, Tail(text), flags, n)
         [] OTHER -> Cat(<<re, Meaning(text, flags, n)>>)

\* The tree of a well-formed text; its groups are numbered from n + 1.
Meaning(text, flags, n) ==
    LET bars  == { k \in DOMAIN text : text[k].t = "|" /\ Depth(text, k) = 0 }
        left  == SubSeq(text, 1, Min(bars) - 1)
        tok   == Head(text)
        close == Min({ k \in DOMAIN text : Depth(text, k) = 0 })
        inner == SubSeq(text, 2, close - 1)
        m     == IF Captures(tok, flags) THEN n + 1 ELSE n
        group == Meaning(inner, IF tok.t = "flags" THEN Changed(flags, tok) ELSE flags, m)
        groups(part) == Count(part, LAMBDA x : Captures(x, flags))
        behind(k) == SubSeq(text, k + 1, Len(text))
    IN CASE bars # {} ->
              Alt(<<Meaning(left, flags, n),
                    Meaning(behind(Min(bars)), FlagsBehind(left, flags), n + groups(left))>>)
         [] text = <<>> -> Empty
         [] bars = {} /\ text # <<>> /\ Sets(tok) ->
              Meaning(Tail(text), Changed(flags, tok), n)
         [] bars = {} /\ text # <<>> /\ Opens(tok) ->
              Followed(IF m > n THEN Group(group, m) ELSE group,
                       behind(close), flags, m + groups(inner))
         [] OTHER -> Followed(Atom(tok, flags), Tail(text), flags, n)

\* What is tried in a text, in order, each way once.
RECURSIVE Once(_)
Once(ways) ==
    IF ways = <<>> THEN <<>>
    ELSE LET first == Once(Front(ways))
         IN IF Contains(first, Last(ways)) THEN first ELSE Append(first, Last(ways))
WaysIn(re, ctx) ==
    Once(Ways(re, ctx, Len(ctx),
              [at |-> 0, caps |-> [k \in 0..(2 * NumberOfGroups(re) + 1) |-> -1]]))

\* The trees match the same, and so do their groups, in the same order.
SameOn(re, with, ctx) ==
    /\ Ends(re, ctx, Len(ctx), 0) = Ends(with, ctx, Len(ctx), 0)
    /\ ~RepeatsEmpty(re) => WaysIn(re, ctx) = WaysIn(with, ctx)

\* Parentheses pair, and what repeats has something to repeat.
WellFormed(text, flags) ==
    LET behind(k) == { j \in 1..(k - 1) : ~Sets(text[j]) } IN
    /\ \A k \in DOMAIN text : Depth(text, k) >= 0
    /\ Depth(text, Len(text)) = 0
    /\ \A k \in DOMAIN text : text[k].t = "repeat" =>
          /\ behind(k) # {}
          /\ LET over == text[Max(behind(k))] IN ~Opens(over) /\ over.t # "|"
          /\ "PerlX" \in flags /\ k > 1 => text[k - 1].t # "repeat"
          /\ text[k].op = "Repeat" =>
                /\ text[k].max = -1 \/ text[k].min <= text[k].max
                /\ Max({text[k].min, text[k].max}) <= MaxRepeat
=============================================================================
