-------------------------------- MODULE ReMatch --------------------------------
(***************************************************************************)
(* RE2::Init and RE2::Match (re2.cc): an expression is compiled forwards and *)
(* backwards, and a match is found by up to three searches in turn: a        *)
(* forward DFA for where it ends, a backward DFA for where it begins, and     *)
(* one of three slower engines for its groups.  A DFA search may run out of   *)
(* memory, which turns the rest of the search over to the slow engines.       *)
(*                                                                         *)
(* What is asked is chosen by the caller: an expression, a text, the part of  *)
(* it to search, the anchor, the number of submatches - and the limits of the *)
(* code (how long a text is still tiny, how large the bit map may be), for    *)
(* which the texts of a small model are short and long in turn.               *)
(***************************************************************************)
EXTENDS ReDfa

CONSTANTS
    Patterns,   \* the expressions, a sequence of [text, flags, longest, re]:
                \* a pattern in tokens, the options, and what it means
    Requests,   \* what may be asked of one: a set of
                \* [text, from, to, anchor, n, limits]
    MaxRange    \* the longest bound PossibleMatchRange is asked for

Anchors == {"UNANCHORED", "ANCHOR_START", "ANCHOR_BOTH"}

VARIABLES
    re,         \* the RE2 object, or NoObject
    pattern,    \* what it was made of
    req,        \* the call
    pc,         \* "new", "idle", "forward", "reverse", "submatch" or "done"
    anchor,     \* re_anchor, as tightened by Match
    subtext,    \* the text left behind the prefix, [from, to]
    match,      \* where the DFAs have found the match, [from, to]
    skipped,    \* skipped_test: no DFA has located the match
    out         \* what Match returns, [ok, cap]

call == <<re, pattern, req>>
vars == <<re, pattern, req, pc, anchor, subtext, match, skipped, out>>

P == INSTANCE ReParse

NoPattern == [longest |-> FALSE, re |-> NoMatch]
NoObject  == [ok |-> FALSE, groups |-> 0]
NoRequest == [text |-> <<>>, from |-> 0, to |-> 0, anchor |-> "UNANCHORED", n |-> 0]
NoMatches == [ok |-> FALSE, cap |-> <<>>]
Nowhere   == [from |-> 0, to |-> 0]

Init ==
    /\ re = NoObject /\ pattern = NoPattern /\ req = NoRequest
    /\ pc = "new" /\ anchor = "UNANCHORED" /\ skipped = FALSE
    /\ subtext = Nowhere /\ match = Nowhere /\ out = NoMatches

\* RE2::Init: the pattern is parsed, and what is left behind the required prefix
\* is compiled both ways (the backward program is really compiled by the first
\* call that needs it).  A pattern that does not parse leaves no program.
CompiledRE(pat) ==
    LET object(tree, rest, prog, nodes) ==
            [ok      |-> TRUE,
             prefix  |-> rest.runes, fold |-> rest.fold,
             prog    |-> prog, rprog |-> Compile(rest.suffix, TRUE),
             nodes   |-> nodes, onepass |-> IsOnePass(prog, nodes),
             groups  |-> NumberOfGroups(tree),
             kind    |-> IF pat.longest THEN "longest" ELSE "first"]
        withNodes(tree, rest, prog) == object(tree, rest, prog, OnePassNodes(prog))
        compiled(tree, rest) == withNodes(tree, rest, Compile(rest.suffix, FALSE))
        parsed(p) == IF p.error # "" THEN NoObject
                     ELSE compiled(p.re, RequiredPrefix(p.re))
    IN parsed(P!Parse(pat.text, pat.flags))

Construct(p) ==
    /\ pc = "new" /\ pc' = "idle"
    /\ pattern' = Patterns[p]
    /\ re' = CompiledRE(pattern')
    /\ UNCHANGED <<req, anchor, subtext, match, skipped, out>>

NCap(q) == Min({q.n, 1 + re.groups})

Return(r) == pc' = "done" /\ out' = r

-----------------------------------------------------------------------------
(* The beginning of Match: the cheap refusals, the anchor and the prefix.     *)

Tightened(q) ==
    IF re.prog.anchorStart /\ re.prog.anchorEnd THEN "ANCHOR_BOTH"
    ELSE IF (re.prog.anchorStart \/ re.prefix # <<>>) /\ q.anchor # "ANCHOR_BOTH"
    THEN "ANCHOR_START" ELSE q.anchor

Prefixlen == Len(re.prefix)

HasPrefix(q) ==
    /\ q.from = 0 /\ Prefixlen <= q.to
    /\ \A k \in 1..Prefixlen : q.text[k] \in Folded(re.prefix[k], re.fold)

\* The engines that may find the groups (can_one_pass, can_bit_state).
CanOnePass(q) == re.onepass /\ NCap(q) <= MaxOnePassCapture
ProgSize == Cardinality(DOMAIN re.prog.inst)
CanBitState(q, length) ==
    ProgSize <= q.limits.bitprog /\ length <= q.limits.bitvector \div ProgSize

\* An anchored search for groups of a short text goes straight to the engine.
Skips(q) ==
    LET length == Len(q.text) IN
    \/ CanOnePass(q) /\ length <= q.limits.onepass /\ (NCap(q) > 1 \/ length <= q.limits.tiny)
    \/ CanBitState(q, length) /\ NCap(q) > 1

Begun(q) ==
    /\ anchor' = Tightened(q)
    /\ skipped' = (anchor' # "UNANCHORED" /\ Skips(q))
    /\ IF \/ re.prog.anchorStart /\ q.from # 0
          \/ re.prefix # <<>> /\ ~HasPrefix(q)
       THEN subtext' = [from |-> q.from, to |-> q.to] /\ Return(NoMatches)
       ELSE /\ subtext' = [from |-> q.from + Prefixlen, to |-> q.to]
            /\ pc' = (IF skipped' THEN "submatch" ELSE "forward")
            /\ UNCHANGED out
    /\ match' = subtext'

Match(q) ==
    /\ pc = "idle"
    /\ req' = q
    /\ \/ re.ok /\ Begun(q)
       \/ ~re.ok /\ Return(NoMatches) /\ UNCHANGED <<anchor, skipped, subtext, match>>
    /\ UNCHANGED <<re, pattern>>

-----------------------------------------------------------------------------
(* The two DFA searches.                                                      *)

KindOfSearch == IF anchor = "ANCHOR_BOTH" THEN "full" ELSE re.kind

Search(prog, where, anchored, kind, n) ==
    [prog |-> prog, ctx |-> req.text, from |-> where.from, to |-> where.to,
     anchored |-> anchored, kind |-> kind, n |-> n]

\* A DFA that runs out of memory leaves the whole text to the slow engines.
DfaFails ==
    /\ pc \in {"forward", "reverse"}
    /\ skipped' = TRUE /\ pc' = "submatch"
    /\ UNCHANGED <<call, anchor, subtext, match, out>>

Forward ==
    LET free  == anchor = "UNANCHORED"
        where == ~free \/ req.n > 0
    IN /\ pc = "forward"
       /\ \E end \in {SearchDFA(Search(re.prog, subtext, ~free, KindOfSearch, 0), where)} :
             IF end = None \/ ~where
             THEN /\ Return([NoMatches EXCEPT !.ok = (end # None)])
                  /\ UNCHANGED match
             ELSE /\ match' = [subtext EXCEPT !.to = end]
                  /\ pc' = IF free THEN "reverse" ELSE "submatch"
                  /\ UNCHANGED out
       /\ UNCHANGED <<call, anchor, subtext, skipped>>

\* Mutant: the search backwards is of the kind asked for.
BackwardAsAsked ==
    /\ pc = "reverse"
    /\ \E begin \in {SearchDFA(Search(re.rprog, match, TRUE, re.kind, 0), TRUE)} :
          IF begin = None
          THEN Return(NoMatches) /\ UNCHANGED match
          ELSE match' = [match EXCEPT !.from = begin] /\ pc' = "submatch" /\ UNCHANGED out
    /\ UNCHANGED <<call, anchor, subtext, skipped>>

\* The longest match backwards from the end is where the match begins.
Backward ==
    /\ pc = "reverse"
    /\ \E begin \in {SearchDFA(Search(re.rprog, match, TRUE, "longest", 0), TRUE)} :
          IF begin = None
          THEN Return(NoMatches) /\ UNCHANGED match
          ELSE match' = [match EXCEPT !.from = begin] /\ pc' = "submatch" /\ UNCHANGED out
    /\ UNCHANGED <<call, anchor, subtext, skipped>>

-----------------------------------------------------------------------------
(* The groups.                                                                *)

\* The group numbers asked for, those the expression lacks left unset, and the
\* overall match extended by the prefix.
Answer(caps) ==
    [k \in 0..(2 * req.n - 1) |->
        IF k = 0 THEN caps[0] - Prefixlen ELSE IF k < 2 * NCap(req) THEN caps[k] ELSE None]

Engine(anchored, length) ==
    CASE CanOnePass(req) /\ anchored -> "onepass"
      [] ~(CanOnePass(req) /\ anchored) /\ CanBitState(req, length) -> "bitstate"
      [] OTHER -> "nfa"

RunEngine(engine, x) ==
    CASE engine = "onepass"  -> SearchOnePass(x, re.nodes)
      [] engine = "bitstate" -> SearchBitState(x)
      [] engine = "nfa"      -> SearchNFA(x)

Submatch ==
    LET where    == IF skipped THEN subtext ELSE match
        anchored == ~skipped \/ anchor # "UNANCHORED"
        kind     == IF skipped THEN KindOfSearch ELSE "full"
    IN /\ pc = "submatch"
       /\ IF ~skipped /\ NCap(req) <= 1
          THEN Return([ok |-> TRUE,
                       cap |-> Answer(IF NCap(req) = 0 THEN <<>> ELSE (0 :> match.from @@ 1 :> match.to))])
          ELSE \E r \in {RunEngine(Engine(anchored, where.to - where.from),
                              Search(re.prog, where, anchored, kind, NCap(req)))} :
                  Return(IF r.ok THEN [ok |-> TRUE, cap |-> Answer(r.cap)] ELSE NoMatches)
       /\ UNCHANGED <<call, anchor, subtext, match, skipped>>

-----------------------------------------------------------------------------
(* RE2::PossibleMatchRange: bounds of the strings that match from end to end,  *)
(* at most maxlen bytes long.                                                  *)

PossibleMatchRange(maxlen) ==
    LET n    == Min({Prefixlen, maxlen})
        pmin == [k \in 1..n |-> IF re.fold /\ re.prefix[k] \in Lower
                                THEN re.prefix[k] - Case ELSE re.prefix[k]]
        pmax == SubSeq(re.prefix, 1, n)
        none == [ok |-> FALSE, min |-> <<>>, max |-> <<>>]
        behind(rest) ==
            IF rest.ok THEN [ok |-> TRUE, min |-> pmin \o rest.min, max |-> pmax \o rest.max]
            ELSE IF n > 0 THEN [ok |-> TRUE, min |-> pmin, max |-> PrefixSuccessor(pmax)]
            ELSE none
    IN behind(IF maxlen > n THEN DfaRange(re.prog, maxlen - n) ELSE none)

-----------------------------------------------------------------------------
Next ==
    \/ \E p \in DOMAIN Patterns : Construct(p)
    \/ (\E q \in Requests : Match(q)) \/ Forward \/ Backward \/ DfaFails \/ Submatch
Spec == Init /\ [][Next]_vars

-----------------------------------------------------------------------------
(* What the answer should be, from the meaning of the expression.             *)

\* The order of strings of bytes.
AtMost(s, t) ==
    LET n == Len(LongestCommonPrefix({s, t}))
    IN n = Len(s) \/ (n < Len(t) /\ s[n + 1] < t[n + 1])

Expr == pattern.re
Wants(i, e) == req.anchor = "ANCHOR_BOTH" => i = req.from /\ e = req.to

\* The ends of the matches that begin at i, and the leftmost beginning.
EndsFrom(i) == { e \in Ends(Expr, req.text, req.to, i) : Wants(i, e) }
Leftmost ==
    LET S == IF req.anchor = "UNANCHORED" THEN req.from..req.to ELSE {req.from}
    IN NextPos({ i \in S : EndsFrom(i) # {} }, None)

\* The answer of a backtracking matcher: the first way, among those of greatest
\* length if the longest match is asked for.
Preferred ==
    LET none == [k \in 0..(2 * re.groups + 1) |-> None]
        ways == Ways(Expr, req.text, req.to, [at |-> Leftmost, caps |-> none])
        fits == SelectSeq(ways, LAMBDA w :
                   /\ Wants(Leftmost, w.at)
                   /\ re.kind = "longest" => w.at = Max(EndsFrom(Leftmost)))
        caps == [Head(fits).caps EXCEPT ![0] = Leftmost, ![1] = Head(fits).at]
    IN [k \in 0..(2 * req.n - 1) |-> IF k \in DOMAIN caps THEN caps[k] ELSE None]

Done == pc = "done"

\* RE2::Match finds a match exactly when there is one, and says that it begins
\* as far left as any does and ends where one does - as far right as any, with
\* longest_match - whichever searches answered and whether or not a DFA ran out
\* of memory.
MatchIsLeftmost ==
    Done =>
        /\ out.ok = (Leftmost # None)
        /\ out.ok /\ req.n > 0 =>
              /\ out.cap[0] = Leftmost
              /\ out.cap[1] \in EndsFrom(Leftmost)
              /\ re.kind = "longest" => out.cap[1] = Max(EndsFrom(Leftmost))

\* The match and its groups are those of a backtracking matcher that tries the
\* alternatives in order ("the one traditional backtracking engines find"),
\* for expressions that repeat nothing that may be empty.
MatchIsFirst ==
    Done /\ out.ok /\ req.n > 0 /\ ~RepeatsEmpty(Expr) => out.cap = Preferred

\* What follows the literal prefix in the text matches as a text of its own, too.
\* If it does not, an empty-width test behind the prefix has looked at the prefix.
RestStandsAlone ==
    LET rest   == SubSeq(req.text, Prefixlen + 1, Len(req.text))
        suffix == RequiredPrefix(P!Parse(pattern.text, pattern.flags).re).suffix
    IN Prefixlen = 0 \/ Len(rest) \in Ends(suffix, rest, Len(rest), 0)

\* The text is asked to match from end to end.
WholeText == req.anchor = "ANCHOR_BOTH" /\ req.from = 0 /\ req.to = Len(req.text)

\* PossibleMatchRange(&min, &max, n) is right about what Match finds: "any string
\* s that is an anchored match for this regexp satisfies min <= s && s <= max".
\* That is so of the strings whose rest stands alone, and not of all: for ^a\Bb both
\* bounds may be "a", which leaves out the match "ab".
RangeSound ==
    Done /\ out.ok /\ WholeText /\ RestStandsAlone =>
        \A maxlen \in 0..MaxRange :
            LET holds(range) ==
                    range.ok => AtMost(range.min, req.text) /\ AtMost(req.text, range.max)
            IN holds(PossibleMatchRange(maxlen))

\* The groups found do not depend on which engine looked for them, nor on what
\* a DFA found first: they are those that the threads of the NFA find in the
\* whole of the text.
SameWhateverEngine ==
    Done /\ re.ok /\ (re.prefix = <<>> \/ HasPrefix(req)) =>
        LET r == SearchNFA(Search(re.prog, subtext, anchor # "UNANCHORED",
                                  KindOfSearch, NCap(req)))
        IN out = IF r.ok THEN [ok |-> TRUE, cap |-> IF req.n = 0 THEN <<>> ELSE Answer(r.cap)]
                 ELSE NoMatches
=============================================================================
