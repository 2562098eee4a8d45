---------------------------- MODULE MCReDfaCache ----------------------------
(***************************************************************************)
(* An automaton for TLC to search with: S can be left by both bytes and T  *)
(* by one only, so that T has a firstbyte.                                 *)
(***************************************************************************)
EXTENDS ReDfaCache

CONSTANTS t1, t2, t3

MCStates == {"S", "T", "P", "Q", "M"}

Arrows ==
    [S |-> <<"P", "Q", Dead>>,
     T |-> <<"T", "P", Dead>>,
     P |-> <<"M", "Q", "M">>,
     Q |-> <<Dead, Full, "M">>,
     M |-> <<"P", "M", Dead>>]

MCDelta == [x \in MCStates \X (0..2) |-> Arrows[x[1]][x[2] + 1]]

MCStart == <<"S", "T", Full, Dead>>

\* Three of them fill the cache twice: one gives up then, another has read enough
\* since the first time to go on, and the one backwards goes on whatever it has read.
MCQueries ==
    {[text |-> <<1>>, start |-> 1, last |-> 2, earliest |-> FALSE, forward |-> TRUE],
     [text |-> <<0, 0, 0, 1>>, start |-> 1, last |-> 2, earliest |-> FALSE, forward |-> TRUE],
     [text |-> <<0, 0, 0, 1>>, start |-> 1, last |-> 2, earliest |-> FALSE, forward |-> FALSE],
     [text |-> <<0, 0, 1, 1, 0, 1, 0>>, start |-> 1, last |-> 2, earliest |-> FALSE, forward |-> TRUE],
     [text |-> <<0, 1, 0, 1>>, start |-> 2, last |-> 0, earliest |-> TRUE, forward |-> TRUE],
     [text |-> <<0>>, start |-> 3, last |-> 2, earliest |-> FALSE, forward |-> TRUE],
     [text |-> <<0>>, start |-> 4, last |-> 2, earliest |-> FALSE, forward |-> TRUE]}
=============================================================================
