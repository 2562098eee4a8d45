------------------------------ MODULE Sequence ------------------------------
(***************************************************************************)
(* TCP sequence numbers: tcpip/src/tcp/sequence.ml.                        *)
(*                                                                         *)
(* The code keeps a sequence number in an int32.  A specification keeps    *)
(* the unbounded number it stands for, and every comparison the code makes *)
(* is made on Wrap of it, the value the int32 holds.  Wrap is a ring       *)
(* homomorphism, so wrapping once, where a number is looked at, gives what *)
(* wrapping after every addition gives.                                    *)
(***************************************************************************)
EXTENDS Integers

CONSTANT HalfRange      \* 2^31 in the code: an int32 is in -HalfRange..HalfRange-1

ASSUME HalfRangeAssumption == HalfRange \in Nat \ {0}

\* The int32 that represents x.
Wrap(x) == ((x + HalfRange) % (2 * HalfRange)) - HalfRange

\* The serial-number comparisons: the sign of the wrapped difference.
Lt(a, b)  == Wrap(a - b) < 0
Leq(a, b) == Wrap(a - b) <= 0
Gt(a, b)  == Wrap(a - b) > 0
Geq(a, b) == Wrap(a - b) >= 0
Between(a, b, c) == Geq(a, b) /\ Leq(a, c)

\* Int32.compare: the order of the int32 values themselves, not of their
\* difference.
Compare(a, b) ==
    LET x == Wrap(a)
        y == Wrap(b)
    IN  IF x < y THEN -1 ELSE IF x = y THEN 0 ELSE 1
=============================================================================
