------------------------------- MODULE MCReMatch -------------------------------
(* RE2::Match on a list of expressions and short texts over the letters of     *)
(* ReSyntax: A = 1, B = 2, '-' = 3, a = 4, b = 5, newline = 0.                 *)
EXTENDS FilteredRE2

a == Lit(4)
b == Lit(5)
ab == Class({4, 5})
Gr(e) == Group(e, 1)

\* A pattern printed from what it means, and one that is written.
LikePerl    == P!LikePerl
Printed(e, longest) ==
    [text |-> <<P!Perl({"DotNL"}, {"OneLine"}, FALSE)>> \o P!TextOf(e, P!PrecToplevel),
     flags |-> LikePerl, longest |-> longest, re |-> e]
Written(tokens, flags) ==
    [text |-> tokens, flags |-> flags, longest |-> FALSE,
     re |-> IF P!WellFormed(tokens, flags) THEN P!Meaning(tokens, flags, 0) ELSE NoMatch]

\* The longest match is asked for of the first thirteen.
MCExprs == <<
    Cat(<<Group(Alt(<<a, Str(<<4, 5>>)>>), 1), Group(Quest(b), 2)>>),
    Cat(<<Star(Group(Alt(<<a, b>>), 1)), b>>),
    Cat(<<LazyStar(ab), Group(b, 1)>>),
    Cat(<<BeginText, Str(<<4, 5>>), Group(Star(a), 1)>>),
    Cat(<<BeginText, LitFold(4), Group(Star(b), 1), EndText>>),
    Cat(<<WordB, Group(Plus(ab), 1), WordB>>),
    Times(Group(ab, 1), 1, -1),
    Cat(<<Group(LazyQuest(a), 1), Group(Star(AnyChar), 2)>>),
    Cat(<<Group(Star(a), 1), EndText>>),
    Alt(<<Str(<<4, 5>>), Str(<<4, 4>>), b>>),
    Plus(Gr(Alt(<<WordB, a>>))),
    Cat(<<Plus(Class({3, 4})), Group(LitFold(5), 1)>>),
    Cat(<<Star(AnyChar), Group(b, 1), Star(AnyChar)>>),
    Cat(<<BeginLine, a, EndLine>>),
    Cat(<<NotWordB, a>>),
    Times(Group(a, 1), 2, 3),
    Class({1, 4}),
    Empty,
    Cat(<<BeginText, a, NotWordB, b>>)
>>

MCTexts ==
    UNION { [1..n -> {4, 5}] : n \in 0..2 }
      \cup {<<4, 4, 5>>, <<4, 5, 4>>, <<4, 5, 5>>, <<5, 4, 5>>,
            <<4, 0>>, <<4, 0, 5>>, <<1, 5, 4>>, <<3, 4, 2>>, <<4, 3, 5, 4>>}
\* For the filter: atoms in sequence, in alternatives, shared, in upper case, too
\* short, a class, and nothing to look for.
FilterExprs == <<
    Cat(<<Str(<<4, 5>>), Star(AnyChar), Str(<<5, 4>>)>>),
    Cat(<<Str(<<4, 5>>), Plus(Alt(<<Str(<<5, 5>>), Str(<<1, 3>>)>>))>>),
    Alt(<<Cat(<<Str(<<4, 5>>), LazyStar(a), Str(<<5, 4>>)>>), Str(<<2, 2, 4>>)>>),
    Cat(<<ab, a, Quest(b)>>),
    Cat(<<Str(<<4, 4>>), Star(b), Lit(3)>>),
    Alt(<<b, Str(<<4, 4>>)>>),
    Alt(<<Str(<<5, 5>>), Str(<<4, 5, 5>>)>>)
>>

Ca == P!Char(4)
Cb == P!Char(5)
Many  == P!Repeating("Star", 0, 0, FALSE)
Maybe == P!Repeating("Quest", 0, 0, FALSE)
Lp  == P!Mark("(")
Rp  == P!Mark(")")
Bar == P!Mark("|")
Flag(set, clear)    == P!Perl(set, clear, FALSE)
FlagFor(set, clear) == P!Perl(set, clear, TRUE)

\* Flags that end with their group, options, and patterns that do not parse in
\* Perl syntax.
MCWritten == <<
    Written(<<Lp, Ca>>, LikePerl),
    Written(<<Flag({"FoldCase"}, {}), Ca, FlagFor({}, {"FoldCase"}), Lp, Cb, Rp, Bar,
              Ca, Cb, Rp, Ca>>, LikePerl),
    Written(<<Lp, Flag({"NonGreedy"}, {}), Ca, Many, Rp, Cb, Maybe>>, LikePerl),
    Written(<<Lp, Ca, Rp, P!Mark("(?P<n>"), Cb, Rp, Maybe>>, LikePerl \cup {"NeverCapture"}),
    Written(<<Ca, P!Bracket(TRUE, <<P!Runes({5})>>), Bar, P!Char(0)>>,
            LikePerl \cup {"NeverNL", "FoldCase"}),
    Written(<<Ca, Many, Many, Cb>>, LikePerl \ {"PerlX"}),
    Written(<<Ca, Many, Many, Cb>>, LikePerl)
>>

MCPatterns ==
    [i \in DOMAIN FilterExprs |-> Printed(FilterExprs[i], FALSE)]
      \o MCWritten
      \o [i \in DOMAIN MCExprs |-> Printed(MCExprs[i], FALSE)]
      \o [i \in 1..13 |-> Printed(MCExprs[i], TRUE)]
MCFiltered == 1..(Len(FilterExprs) + 1)
MCFilterTexts == {<<>>, <<4, 5>>, <<4, 5, 5, 4>>, <<1, 2, 0, 5, 4>>, <<4, 5, 1, 3>>,
                  <<2, 2, 4>>, <<4, 4, 3>>, <<5, 5, 5>>}

\* Two alternatives that begin with the same repetition: (a*|a*b)(ab)?
FactorExprs == <<Written(<<Lp, Ca, Many, Bar, Ca, Many, Cb, Rp, Lp, Ca, Cb, Rp, Maybe>>, LikePerl)>>

Wide == [tiny |-> 3, onepass |-> 4, bitprog |-> 50, bitvector |-> 500]
Tight == [tiny |-> 0, onepass |-> 2, bitprog |-> 7, bitvector |-> 30]

Whole == { [text |-> t, from |-> 0, to |-> Len(t), anchor |-> c, n |-> n, limits |-> l] :
           t \in MCTexts, c \in Anchors, n \in {0, 1, 3}, l \in {Wide, Tight} }
\* Part of a text: what is around it decides the empty-width tests.
Parts == { [text |-> t, from |-> p[1], to |-> p[2], anchor |-> c, n |-> 2, limits |-> Wide] :
           t \in {<<4, 5, 4>>, <<0, 4, 0>>, <<3, 4, 5>>}, c \in Anchors,
           p \in {<<1, 3>>, <<0, 2>>, <<1, 2>>} }
MCRequests == Whole \cup Parts

-----------------------------------------------------------------------------
\* Patterns of a few tokens, in several combinations of options.
Texts(tokens, n) == UNION { [1..k -> tokens] : k \in 0..n }
Perlish == {Ca, P!Char(1), Many, P!Repeating("Quest", 0, 0, TRUE), Lp, Rp, Bar, P!Mark("."),
            Flag({"FoldCase"}, {}), FlagFor({"FoldCase"}, {})}
Grouped == {Ca, Cb, Many, Lp, Rp, Bar}
Classes == {Ca, P!Char(0), Many, Bar, P!Mark("."), P!Mark("^"), P!Mark("$"),
            P!Repeating("Repeat", 1, 2, FALSE), P!Repeating("Repeat", 2, 1, FALSE),
            P!Bracket(TRUE, <<P!Runes({4})>>), P!Bracket(FALSE, <<P!Runes({1, 4})>>),
            P!Bracket(TRUE, <<P!NamedGroup(Upper, TRUE)>>),
            P!Bracket(FALSE, <<P!Runes({0, 3}), P!NamedGroup(Upper \cup Lower, TRUE)>>)}
MCParsed ==
    (Texts(Perlish, 4) \X {LikePerl}) \cup (Texts(Grouped, 5) \X {LikePerl \cup {"NonGreedy"}})
      \cup (Texts(Classes, 3) \X {LikePerl, {"FoldCase"}, {"FoldCase", "NeverNL", "DotNL"},
                                {"ClassNL", "OneLine", "NeverCapture"}})
Strings == {<<>>, <<4, 4>>, <<1, 4>>, <<0, 4>>, <<4, 5, 4>>}

\* The parser accepts the patterns of the grammar and no others, and the tree it
\* leaves, with its alternatives factored and merged, matches what the pattern
\* means, the same groups in the same order (Regexp::Parse); what is printed of
\* the tree, parsed again, matches the same (ToString).
PatternsMeanTheirTrees ==
    FilterInit =>
        \A p \in MCParsed :
            LET pat == p[1]
                flags == p[2]
                agree(parsed, again, meant) ==
                    /\ again.error = ""
                    /\ NumberOfGroups(parsed.re) = NumberOfGroups(meant)
                    /\ \A ctx \in Strings :
                          P!SameOn(meant, parsed.re, ctx) /\ P!SameOn(parsed.re, again.re, ctx)
                accepted(parsed) ==
                    /\ (parsed.error = "") = P!WellFormed(pat, flags)
                    /\ parsed.error = "" =>
                          agree(parsed, P!Parse(P!TextOf(parsed.re, P!PrecToplevel), P!TestFlags),
                                P!Meaning(pat, flags, 0))
            IN accepted(P!Parse(pat, flags))
=============================================================================
