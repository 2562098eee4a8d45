----------------------------- MODULE ByteStream -----------------------------
(***************************************************************************)
(* What a TCP connection promises the application that reads from it: the  *)
(* bytes the peer wrote, each once and in order, and the end of the stream *)
(* when all of them have been read.  Only an aborted connection may report *)
(* its end early.                                                          *)
(***************************************************************************)
EXTENDS Integers, Sequences

CONSTANTS Start, Finish     \* the stream is the bytes Start..Finish-1

VARIABLES out,      \* what has been read: slices [seq, len], and End
          aborted   \* the connection has been reset

End == [seq |-> Finish, len |-> 0]

\* The place in the stream up to which out has got.
Position ==
    LET data == {i \in DOMAIN out : out[i] # End}
    IN  IF data = {} THEN Start
        ELSE LET last == CHOOSE i \in data : \A j \in data : j <= i
             IN  out[last].seq + out[last].len

Ended == \E i \in DOMAIN out : out[i] = End

Init == out = <<>> /\ aborted = FALSE

\* The application reads the next bytes, as many as it is given.
Read ==
    /\ ~Ended \/ aborted
    /\ \E n \in 1..(Finish - Position) :
        out' = Append(out, [seq |-> Position, len |-> n])
    /\ UNCHANGED aborted

\* It reads the end of the stream.
ReadEnd ==
    /\ (Position = Finish /\ ~Ended) \/ aborted
    /\ out' = Append(out, End)
    /\ UNCHANGED aborted

\* The connection is reset, which may end a read that was waiting.
Abort ==
    /\ ~aborted
    /\ aborted' = TRUE
    /\ out' = out \/ out' = Append(out, End)

Next == Read \/ ReadEnd \/ Abort

Spec == Init /\ [][Next]_<<out, aborted>>
=============================================================================
