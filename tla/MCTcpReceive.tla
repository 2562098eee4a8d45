---------------------------- MODULE MCTcpReceive ----------------------------
(***************************************************************************)
(* TLC's instances of TcpReceive: what the peer may send.                  *)
(***************************************************************************)
EXTENDS TcpReceive

\* A data segment, a FIN, and a segment that only carries an ACK.
Data(o, n) == [seq |-> First + o, len |-> n, fin |-> FALSE, syn |-> FALSE, rst |-> FALSE, ackok |-> TRUE]
LastData(o) == [Data(o, StreamLen - o) EXCEPT !.fin = TRUE]
PureAck(o) == Data(o, 0)
Rst(o)     == [Data(o, 0) EXCEPT !.rst = TRUE]
OldSyn     == [Data(-1, 0) EXCEPT !.syn = TRUE]
BadAck(o)  == [Data(o, 0) EXCEPT !.ackok = FALSE]

\* Overlaps, a FIN that carries data, an ACK ahead of the data.
StreamSegs == {Data(0, 1), Data(0, 2), Data(1, 1), Data(2, 2), PureAck(2), LastData(2), LastData(4), OldSyn}
\* One byte at a time; a reset.
UnitSegs == {Data(o, 1) : o \in 0..(StreamLen - 1)} \cup {LastData(StreamLen)}
AbortSegs == {Data(o, 1) : o \in 0..(StreamLen - 2)} \cup {LastData(StreamLen - 1), Rst(2), BadAck(1)}
\* The peer goes on to acknowledge our data after its FIN.
HalfCloseSegs == UnitSegs \cup {PureAck(StreamLen + 1)}
=============================================================================
