--------------------------- MODULE MCTcpTransmit ----------------------------
(***************************************************************************)
(* TLC's instances of TcpTransmit.                                         *)
(***************************************************************************)
EXTENDS TcpTransmit

CONSTANTS w1, w2, closer     \* the application's threads

Two    == [w \in Writers |-> 2]
Three  == [w \in Writers |-> 3]
TwoOne == [w \in Writers |-> IF w = w1 THEN 2 ELSE 1]

=============================================================================
