------------------------------ MODULE RePrefilter ------------------------------
(***************************************************************************)
(* What RE2 knows of the strings an expression can match, and the tree in   *)
(* which it looks for the expressions that a text may match (prefilter.cc,   *)
(* prefilter_tree.cc): an expression becomes a formula of atoms, strings of  *)
(* lower case that a matching text must contain; the formulas of all          *)
(* expressions become one graph; the atoms found in a text are passed up.    *)
(*                                                                         *)
(* A formula is [op, atom, subs].  The nodes of the graph are the distinct    *)
(* formulas: two nodes with the same NodeString are equal as values.          *)
(*                                                                         *)
(* This module declares RECURSIVE operators: it is for model checking.       *)
(***************************************************************************)
EXTENDS ReSyntax

CONSTANTS
    MaxClass,     \* the largest class whose strings are listed (10)
    MaxExact,     \* the largest product of two exact sets (16)
    MinAtomLen,   \* filtered_re2_min_atom_len
    MaxParents    \* the parents above which a node is dropped (8)

Formula(op)  == [op |-> op, atom |-> <<>>, subs |-> <<>>]
All          == Formula("ALL")
NoneMatches  == Formula("NONE")
FromString(s) == [Formula("ATOM") EXCEPT !.atom = s]
NoFilter     == Formula("NULL")
Junction(f)  == f.op \in {"AND", "OR"}
OpRank(op)   == CASE op = "ALL" -> 0 [] op = "NONE" -> 1 [] op = "ATOM" -> 2
                  [] op = "AND" -> 3 [] op = "OR" -> 4

RECURSIVE SimplifyFormula(_)
SimplifyFormula(f) ==
    CASE Junction(f) /\ f.subs = <<>> -> IF f.op = "AND" THEN All ELSE NoneMatches
      [] Junction(f) /\ Len(f.subs) = 1 -> SimplifyFormula(f.subs[1])
      [] OTHER -> f

\* Prefilter::AndOr: a and b in order of op, the trivial cases, and no junction
\* below another of the same kind.
Joined(op, a, b) ==
    LET unit == IF op = "AND" THEN "ALL" ELSE "NONE"
    IN CASE a.op \in {"ALL", "NONE"} -> IF a.op = unit THEN b ELSE a
         [] a.op = op /\ b.op = op -> [a EXCEPT !.subs = @ \o b.subs]
         [] a.op # op /\ b.op = op -> [b EXCEPT !.subs = Append(@, a)]
         [] a.op = op /\ b.op # op -> [a EXCEPT !.subs = Append(@, b)]
         [] a.op \notin {"ALL", "NONE", op} /\ b.op # op ->
              [Formula(op) EXCEPT !.subs = <<a, b>>]

AndOr(op, f, g) ==
    LET inOrder(a, b) == IF OpRank(a.op) > OpRank(b.op) THEN Joined(op, b, a)
                                                        ELSE Joined(op, a, b)
    IN inOrder(SimplifyFormula(f), SimplifyFormula(g))

\* The order of std::set<string>.
Before(s, t) ==
    LET n == Len(LongestCommonPrefix({s, t}))
    IN n < Len(t) /\ (n = Len(s) \/ s[n + 1] < t[n + 1])

RECURSIVE InOrder(_)
InOrder(S) ==
    IF S = {} THEN <<>>
    ELSE LET least == CHOOSE s \in S : \A t \in S \ {s} : Before(s, t)
         IN <<least>> \o InOrder(S \ {least})

Contained(s, t) == \E i \in 0..(Len(t) - Len(s)) : SubSeq(t, i + 1, i + Len(s)) = s

\* Mutant: the strings that are part of another are dropped.
SimplifyStringSetInside(S) == { s \in S : ~\E t \in S : s # t /\ Contained(s, t) }

\* SimplifyStringSet: a string is dropped if one before it in the set is part of
\* it: where that one is not found, the longer cannot be.
SimplifyStringSet(S) == { t \in S : ~\E s \in S : Before(s, t) /\ Contained(s, t) }

OrStrings(S) ==
    FoldLeft(LAMBDA f, s : AndOr("OR", f, FromString(s)), NoneMatches,
             InOrder(SimplifyStringSet(S)))

-----------------------------------------------------------------------------
(* Prefilter::Info: either the exact set of strings, in lower case, or a       *)
(* formula; "nothing" for a null pointer.                                      *)

Exactly(S)  == [exact |-> TRUE, strings |-> S, match |-> All]
Requires(f) == [exact |-> FALSE, strings |-> {}, match |-> f]
Nothing     == [exact |-> TRUE, strings |-> {}, match |-> NoFilter]

TakeMatch(i) == IF i.exact THEN OrStrings(i.strings) ELSE i.match

ToLower(c) == IF c \in Upper THEN c + Case ELSE c
LowerCase(s) == [k \in DOMAIN s |-> ToLower(s[k])]

ConcatInfo(a, b) ==
    IF a = Nothing THEN b
    ELSE Exactly({ s \o t : s \in a.strings, t \in b.strings })

AndInfo(a, b) ==
    IF a = Nothing THEN b ELSE IF b = Nothing THEN a
    ELSE Requires(AndOr("AND", TakeMatch(a), TakeMatch(b)))

AltInfo(a, b) ==
    IF a.exact /\ b.exact THEN Exactly(a.strings \cup b.strings)
    ELSE Requires(AndOr("OR", TakeMatch(a), TakeMatch(b)))

\* The loop over a concatenation: s is [info, run], run the exact strings of the
\* pieces since the last one that is not exact.
Accumulate(s, piece) ==
    IF ~piece.exact \/
       (s.run # Nothing /\ Cardinality(piece.strings) * Cardinality(s.run.strings) > MaxExact)
    THEN [info |-> AndInfo(AndInfo(s.info, s.run), piece), run |-> Nothing]
    ELSE [s EXCEPT !.run = ConcatInfo(@, piece)]

ConcatInfos(infos) ==
    LET s == FoldLeft(Accumulate, [info |-> Nothing, run |-> Nothing], infos)
    IN AndInfo(s.info, s.run)

RECURSIVE BuildInfo(_)
BuildInfo(re) ==                   \* Info::Walker::PostVisit
    LET subs == [k \in DOMAIN re.subs |-> BuildInfo(re.subs[k])]
    IN CASE re.op = "NoMatch" -> Requires(NoneMatches)
         [] re.op = "EmptyMatch" \/ re.op \in EmptyOps -> Exactly({<<>>})
         [] IsLiteral(re) -> Exactly({LowerCase(re.runes)})
         [] re.op = "Concat" -> ConcatInfos(subs)
         [] re.op = "Alternate" -> FoldLeft(AltInfo, subs[1], Tail(subs))
         [] re.op \in {"Star", "Quest", "AnyChar"} -> Requires(All)
         [] re.op = "Plus" -> Requires(TakeMatch(subs[1]))
         [] re.op = "CharClass" ->
              IF Cardinality(re.cc) > MaxClass THEN Requires(All)
              ELSE Exactly({ <<ToLower(c)>> : c \in re.cc })
         [] re.op = "Capture" -> subs[1]

FromRegexp(re) == TakeMatch(BuildInfo(Simplify(re)))

-----------------------------------------------------------------------------
(* PrefilterTree::Add: the atoms too short to look for are left out; r is       *)
(* [keep, f].                                                                  *)

RECURSIVE KeepPart(_)
KeepPart(f) ==
    LET parts == [k \in DOMAIN f.subs |-> KeepPart(f.subs[k])]
        kept  == SelectSeq(parts, LAMBDA p : p.keep)
        subs(ps) == [k \in DOMAIN ps |-> ps[k].f]
    IN CASE f.op = "ATOM" -> [keep |-> Len(f.atom) >= MinAtomLen, f |-> f]
         [] f.op = "AND"  -> [keep |-> kept # <<>>, f |-> [f EXCEPT !.subs = subs(kept)]]
         [] f.op = "OR"   -> [keep |-> kept = parts, f |-> [f EXCEPT !.subs = subs(parts)]]
         [] OTHER -> [keep |-> FALSE, f |-> f]

Kept(f) == LET r == KeepPart(f) IN IF r.keep THEN r.f ELSE NoFilter

-----------------------------------------------------------------------------
(* PrefilterTree::Compile.                                                     *)

\* All nodes from top to bottom; the unique ones are numbered from the bottom.
RECURSIVE Descendants(_, _)
Descendants(v, i) ==
    IF i > Len(v) THEN v ELSE Descendants(v \o v[i].subs, i + 1)

UniqueNodes(filters) ==
    LET all == Reverse(Descendants(SelectSeq(filters, LAMBDA f : f # NoFilter), 1))
    IN SelectSeq([i \in DOMAIN all |-> IF \E j \in 1..(i - 1) : all[j] = all[i]
                                       THEN NoFilter ELSE all[i]],
                 LAMBDA f : f # NoFilter)

\* AssignUniqueIds: an entry is [node, parents, count, regexps].
Entries(filters) ==
    LET nodes == UniqueNodes(filters)
    IN [id \in DOMAIN nodes |->
          [node    |-> nodes[id],
           parents |-> { p \in DOMAIN nodes : Contains(nodes[p].subs, nodes[id]) },
           count   |-> IF nodes[id].op = "AND" THEN Cardinality(ToSet(nodes[id].subs)) ELSE 1,
           regexps |-> { r \in DOMAIN filters : filters[r] = nodes[id] }]]

\* Mutant: a node is dropped whatever else its parents wait for.
PruneCountKept(entries, id) ==
    IF Cardinality(entries[id].parents) > MaxParents
    THEN [entries EXCEPT ![id].parents = {}] ELSE entries

\* A node that triggers too many is dropped, where its parents have another.
Prune(entries, id) ==
    LET ps == entries[id].parents
    IN IF Cardinality(ps) > MaxParents /\ \A p \in ps : entries[p].count > 1
       THEN [p \in DOMAIN entries |->
               IF p = id THEN [entries[p] EXCEPT !.parents = {}]
               ELSE IF p \in ps THEN [entries[p] EXCEPT !.count = @ - 1] ELSE entries[p]]
       ELSE entries

PruneAll(entries) == FoldLeft(Prune, entries, [id \in DOMAIN entries |-> id])

Atoms(entries) == { entries[id].node.atom :
                    id \in { e \in DOMAIN entries : entries[e].node.op = "ATOM" } }

-----------------------------------------------------------------------------
(* PropagateMatch: work is the list of the nodes triggered, in order, the first *)
(* at of them handled; seen counts the children that have triggered a node.     *)

RECURSIVE Propagate(_, _, _, _)
Propagate(entries, work, at, seen) ==
    LET ps    == entries[work[at]].parents
        now   == [p \in DOMAIN seen |-> IF p \in ps /\ entries[p].count > 1
                                        THEN seen[p] + 1 ELSE seen[p]]
        fires == { p \in ps : now[p] >= entries[p].count \/ entries[p].count <= 1 } \ ToSet(work)
    IN IF at > Len(work) THEN ToSet(work)
       ELSE Propagate(entries, work \o SetToSortSeq(fires, <), at + 1, now)

\* RegexpsGivenStrings: the filters triggered by the atoms, and the expressions
\* that have none.
RegexpsGivenStrings(filters, entries, matched) ==
    LET ids == { id \in DOMAIN entries : entries[id].node.op = "ATOM"
                                         /\ entries[id].node.atom \in matched }
        triggered == Propagate(entries, SetToSortSeq(ids, <), 1, [id \in DOMAIN entries |-> 0])
    IN UNION { entries[id].regexps : id \in triggered }
       \cup { r \in DOMAIN filters : filters[r] = NoFilter }

\* What a formula says of a set of atoms.
RECURSIVE Holds(_, _)
Holds(f, matched) ==
    CASE f.op = "ATOM" -> f.atom \in matched
      [] f.op = "AND"  -> \A k \in DOMAIN f.subs : Holds(f.subs[k], matched)
      [] f.op = "OR"   -> \E k \in DOMAIN f.subs : Holds(f.subs[k], matched)
      [] OTHER -> TRUE
=============================================================================
