----------------------------- MODULE ByteSource -----------------------------
(***************************************************************************)
(* What a TCP connection does with the bytes the application writes to it: *)
(* it takes them until the stream is finished, transmits each under its    *)
(* place in the stream, the new ones in their order and the others only    *)
(* while they are not acknowledged, and ends the stream behind the last of *)
(* them.  Only a connection that was reset may end it before.              *)
(***************************************************************************)
EXTENDS Integers

VARIABLES taken,     \* how many bytes the writes have taken
          sent,      \* how many of them have been transmitted
          acked,     \* up to where that is acknowledged, the end of the stream with it
          finished,  \* the end of the stream has been transmitted
          aborted,   \* the connection has been reset
          line       \* the last transmission: under which number, which bytes, the end or not

sourceVars == <<taken, sent, acked, finished, aborted, line>>

Init == taken = 0 /\ sent = 0 /\ acked = 0 /\ finished = FALSE /\ aborted = FALSE /\ line = <<>>

Carries(number, pos, len, fin) == line' = <<[seq |-> number, pos |-> pos, len |-> len, fin |-> fin]>>

\* The application writes, and some of what is taken may be transmitted at once.
Write ==
    /\ ~finished /\ ~aborted
    /\ taken' \in Nat /\ taken' > taken
    /\ \/ UNCHANGED <<sent, line>>
       \/ sent' \in (sent + 1)..taken' /\ Carries(sent, sent, sent' - sent, FALSE)
    /\ UNCHANGED <<acked, finished, aborted>>

\* More of what was taken is transmitted.
Send ==
    /\ ~finished
    /\ sent' \in (sent + 1)..taken /\ Carries(sent, sent, sent' - sent, FALSE)
    /\ UNCHANGED <<taken, acked, finished, aborted>>

\* The end of the stream is.
Finish ==
    /\ ~finished /\ (sent = taken \/ aborted)
    /\ finished' = TRUE /\ Carries(sent, taken, 0, TRUE)
    /\ UNCHANGED <<taken, sent, acked, aborted>>

\* What begins at from is transmitted again.
Again(from) ==
    \E n \in 0..(sent - from), fin \in BOOLEAN :
        /\ fin => finished /\ from + n = taken
        /\ Carries(from, from, n, fin)

Repeat == Again(acked) /\ UNCHANGED <<taken, sent, acked, finished, aborted>>

Acknowledge ==
    /\ acked' \in (acked + 1)..(sent + (IF finished THEN 1 ELSE 0))
    /\ UNCHANGED line \/ Again(acked')
    /\ UNCHANGED <<taken, sent, finished, aborted>>

Abort ==
    /\ ~aborted
    /\ aborted' = TRUE
    /\ UNCHANGED <<taken, sent, acked, finished, line>>

Next == Write \/ Send \/ Finish \/ Repeat \/ Acknowledge \/ Abort

Spec == Init /\ [][Next]_sourceVars
=============================================================================
