------------------------------ MODULE FilteredRE2 ------------------------------
(***************************************************************************)
(* FilteredRE2 (filtered_re2.cc) over RE2::Match: expressions are added, then *)
(* compiled into a PrefilterTree; for a text, whose lower case the caller     *)
(* searches for the tree's atoms, the expressions the tree lets through are   *)
(* tried in order by PartialMatch.                                            *)
(*                                                                         *)
(* A client has one RE2 object, which it calls as it likes, or one            *)
(* FilteredRE2, whose objects are made again for each call.                   *)
(***************************************************************************)
EXTENDS ReMatch

CONSTANTS
    MaxClass, MaxExact, MinAtomLen, MaxParents,    \* see RePrefilter
    Filtered,      \* the patterns that are added to a FilteredRE2
    MaxRegexps,    \* how many of them at most
    FilterTexts,   \* the texts it is asked about
    FilterLimits   \* the limits of Match for these

Tree == INSTANCE RePrefilter

VARIABLES
    re2_vec,      \* the patterns added, [number, pattern]
    filters,      \* prefilter_vec_: a formula for each
    entries,      \* the nodes of the tree
    stage,        \* "adding", "compiled", "trying" or "answered"
    text,         \* the text asked about
    all,          \* whether by AllMatches or by FirstMatch
    regexps,      \* the expressions still to be tried, in order
    matching      \* those that matched

treeVars   == <<re2_vec, filters, entries>>
filterVars == <<treeVars, stage, text, all, regexps, matching>>

FilterInit ==
    /\ Init
    /\ re2_vec = <<>> /\ filters = <<>> /\ entries = <<>>
    /\ stage = "adding" /\ text = <<>> /\ all = FALSE
    /\ regexps = <<>> /\ matching = <<>>

\* A pattern that does not parse is skipped.  The bound: patterns are added in
\* the order of their numbers.
Add(p) ==
    /\ stage = "adding" /\ pc = "new" /\ Len(re2_vec) < MaxRegexps
    /\ \A k \in DOMAIN re2_vec : re2_vec[k].number < p
    /\ \E pat \in {Patterns[p]} :
          /\ P!Parse(pat.text, pat.flags).error = ""
          /\ re2_vec' = Append(re2_vec, [number |-> p, pattern |-> pat])
    /\ UNCHANGED <<vars, filters, entries, stage, text, all, regexps, matching>>

EntireRegexp(pat) == P!Parse(pat.text, pat.flags).re

FilterCompile ==
    /\ stage = "adding" /\ re2_vec # <<>>
    /\ filters' = [k \in DOMAIN re2_vec |->
                      Tree!Kept(Tree!FromRegexp(EntireRegexp(re2_vec[k].pattern)))]
    /\ entries' = Tree!PruneAll(Tree!Entries(filters'))
    /\ stage' = "compiled"
    /\ UNCHANGED <<vars, re2_vec, text, all, regexps, matching>>

\* FirstMatch and AllMatches: the atoms are those the caller finds in the text.
Ask(t, every) ==
    LET found == { a \in Tree!Atoms(entries) : Tree!Contained(a, Tree!LowerCase(t)) }
    IN /\ stage = "compiled"
       /\ stage' = "trying" /\ text' = t /\ all' = every
       /\ regexps' = SetToSortSeq(Tree!RegexpsGivenStrings(filters, entries, found), <)
       /\ UNCHANGED <<vars, treeVars, matching>>

\* RE2::PartialMatch of the next expression.
Partial == [text |-> text, from |-> 0, to |-> Len(text), anchor |-> "UNANCHORED",
            n |-> 0, limits |-> FilterLimits]

Try ==
    /\ stage = "trying" /\ regexps # <<>> /\ pc = "new"
    /\ pattern' = re2_vec[Head(regexps)].pattern
    /\ re' = CompiledRE(pattern')
    /\ pc' = "idle"
    /\ UNCHANGED <<filterVars, req, anchor, subtext, match, skipped, out>>

TryMatch == stage = "trying" /\ Match(Partial) /\ UNCHANGED filterVars

\* The object is not used again: the variables of Match are those of a new one.
Tried ==
    /\ stage = "trying" /\ pc = "done"
    /\ matching' = IF out.ok THEN Append(matching, Head(regexps)) ELSE matching
    /\ regexps'  = IF out.ok /\ ~all THEN <<>> ELSE Tail(regexps)
    /\ re' = NoObject /\ pattern' = NoPattern /\ req' = NoRequest
    /\ pc' = "new" /\ anchor' = "UNANCHORED" /\ skipped' = FALSE
    /\ subtext' = Nowhere /\ match' = Nowhere /\ out' = NoMatches
    /\ UNCHANGED <<treeVars, stage, text, all>>

Answered ==
    /\ stage = "trying" /\ regexps = <<>> /\ pc = "new"
    /\ stage' = "answered"
    /\ UNCHANGED <<vars, treeVars, text, all, regexps, matching>>

Searching == Forward \/ Backward \/ DfaFails \/ Submatch

\* The client's own object.
Direct ==
    /\ stage = "adding" /\ re2_vec = <<>>
    /\ \/ pc = "new" /\ \E p \in DOMAIN Patterns \ Filtered : Construct(p)
       \/ \E q \in Requests : Match(q)
    /\ UNCHANGED filterVars

FilterNext ==
    \/ Direct
    \/ Searching /\ UNCHANGED filterVars
    \/ \E p \in Filtered : Add(p)
    \/ FilterCompile
    \/ \E t \in FilterTexts, every \in BOOLEAN : Ask(t, every)
    \/ Try \/ TryMatch \/ Tried \/ Answered

FilterSpec == FilterInit /\ [][FilterNext]_<<vars, filterVars>>

-----------------------------------------------------------------------------
MatchesIn(e, t) == \E i \in 0..Len(t) : Ends(e, t, Len(t), i) # {}

\* FirstMatch returns what SlowFirstMatch does, the first of all expressions that
\* matches, and AllMatches returns all of them: the filter lets everything through
\* that matches ("a regexp that does not pass the filter is guaranteed to not
\* match"), and a DFA that runs out of memory changes nothing.
FilterMissesNothing ==
    stage = "answered" =>
        LET does == SelectSeq([r \in DOMAIN re2_vec |-> r],
                              LAMBDA r : MatchesIn(re2_vec[r].pattern.re, text))
        IN matching = IF all \/ does = <<>> THEN does ELSE <<Head(does)>>

\* The graph of numbered nodes, passed up by counting, says what the formulas say,
\* for every set of atoms: an expression whose formula holds is let through, and
\* no other is unless a node has been dropped from the graph.
TreeIsFormulas ==
    stage = "compiled" =>
        \A found \in SUBSET Tree!Atoms(entries) :
            LET passed == Tree!RegexpsGivenStrings(filters, entries, found)
                meant  == { r \in DOMAIN filters : Tree!Holds(filters[r], found) }
            IN /\ meant \subseteq passed
               /\ entries = Tree!Entries(filters) => passed = meant
=============================================================================
