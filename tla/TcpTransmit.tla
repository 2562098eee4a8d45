---------------------------- MODULE TcpTransmit -----------------------------
(***************************************************************************)
(* The transmitting half of one TCP connection of tcpip/src/tcp, from the  *)
(* writes of the application to the segments on the wire and back through  *)
(* the ACKs:                                                               *)
(*                                                                         *)
(*   Flow.write, close    the application's threads; they may wait in      *)
(*                        User_buffer.Tx.wait_for and wait_for_flushed     *)
(*   User_buffer.Tx       buffers what the window or Nagle holds back      *)
(*   Segment.Tx.output    numbers a segment, transmits it and keeps it     *)
(*   Segment.Rx.input     puts ACKs into the mvar tx_ack                   *)
(*   Segment.Tx.rto_t     clears what is acknowledged, retransmits on      *)
(*                        duplicate ACKs, puts into the mvar tx_wnd_update *)
(*   Flow.Wnd.thread      empties the buffer, wakes a waiting thread       *)
(*   Segment.Tx.ontimer   the retransmission timer                         *)
(*                                                                         *)
(* A step runs from one point where a promise may be pending to the next.  *)
(* Segments and ACKs may be lost, delayed or repeated: the peer            *)
(* acknowledges any part of what was transmitted, at any time.             *)
(*                                                                         *)
(* The stream's first byte has sequence number 0.  Sequence numbers are    *)
(* not wrapped: this half of the code compares them by the sign of their   *)
(* difference only, and all that are alive are within one window.          *)
(***************************************************************************)
EXTENDS TcpState, LwtMvar, FiniteSets

CONSTANTS
    Writers,     \* threads of the application that write
    Closers,     \* threads of the application that close
    ToWrite,     \* how many bytes each writer writes
    NoDelay,     \* the writers that use write_nodelay
    Mss,         \* Window.tx_mss
    MaxSize,     \* User_buffer.Tx.max_size
    Windows,     \* the windows the peer advertises, scaled, in bytes
    MidAcks,     \* the peer acknowledges parts of segments
    PeerCloses,  \* the peer may send a FIN
    PeerResets,  \* the peer may send a RST
    MaxRexmits,  \* Window.max_rexmits_done: 5 in the code
    CwndCap,     \* cwnd is not counted past this, which no window exceeds
    MaxPuts,     \* bound: ACKs in tx_ack, and inputs blocked on it
    MaxDupAcks,  \* bound: dup_acks when the peer repeats its ACK once more
    MaxFinAcks   \* bound: ACKs in Fin_wait_2

Threads == Writers \cup Closers \cup {"wnd"}

ASSUME TransmitAssumption ==
    /\ Writers \cap Closers = {} /\ "wnd" \notin Writers \cup Closers
    /\ ToWrite \in [Writers -> Nat]
    /\ NoDelay \subseteq Writers
    /\ Mss \in Nat \ {0} /\ MaxSize \in Nat /\ MaxSize >= Mss
    /\ Windows \subseteq 0..CwndCap /\ CwndCap >= 2 * Mss
    /\ MidAcks \in BOOLEAN /\ PeerCloses \in BOOLEAN /\ PeerResets \in BOOLEAN
    /\ MaxRexmits \in Nat /\ CwndCap \in Nat /\ MaxPuts \in Nat /\ MaxDupAcks \in Nat /\ MaxFinAcks \in Nat

VARIABLES
    wnd,           \* Window.t, its transmit half
    segs,          \* Segment.Tx.q.segs: transmitted and not acknowledged
    dup_acks,      \* Segment.Tx.q.dup_acks
    timer,         \* Segment.Tx.q.rexmit_timer, and the argument of its expire
    tx_ack,        \* mvar from Segment.Rx.input to rto_t
    rto,           \* rto_t: where it is
    tx_wnd_update, \* mvar from rto_t to Flow.Wnd.thread
    buffer,        \* User_buffer.Tx.buffer
    bufbytes,      \* User_buffer.Tx.bufbytes
    waiters,       \* User_buffer.Tx.writers: threads that wait
    pc,            \* where each thread is
    left,          \* what each writer has still to write
    written,       \* how many bytes writes have taken
    state,         \* State.t
    finwait2,      \* finwait2timer: <<>> or <<its count>>
    timewait,      \* the timewait timer runs
    wire,          \* the last segment transmitted, as a sequence
    peer_fin       \* the peer's FIN has been taken

appVars  == <<buffer, bufbytes, waiters, pc, left, written>>
ackVars  == <<tx_ack, rto, tx_wnd_update>>
segVars  == <<wnd, segs, timer, wire>>
stVars   == <<state, finwait2, timewait, peer_fin>>
vars     == <<appVars, ackVars, segVars, stVars, dup_acks>>

\* A segment; its data is named by its place in the stream.
Seg == [seq : Int, pos : Int, len : Nat, fin : BOOLEAN]

\* Segment.Tx.len
SeqLen(s) == s.len + (IF s.fin THEN 1 ELSE 0)
SeqEnd(s) == s.seq + SeqLen(s)

Chunk == [pos : Int, len : Nat]

Wnd == [tx_nxt : Nat, snd_una : Nat, tx_wnd : Nat, cwnd : Nat, ssthresh : Nat,
        fast_recovery : BOOLEAN, fast_rec_th : Nat, backoff_count : 0..(MaxRexmits + 1),
        ack_serviced : BOOLEAN, ack_seq : Nat, ack_win : Windows]

Places == {"idle", "ready", "take", "waiting", "woken", "direct", "clearing", "fin", "done",
           "failed"}

MinOf(a, b) == IF a < b THEN a ELSE b
MaxOf(a, b) == IF a > b THEN a ELSE b

-----------------------------------------------------------------------------
(* Window.                                                                 *)

InFlight == wnd.tx_nxt - wnd.snd_una

\* tx_available
TxAvailable ==
    LET avail == MinOf(wnd.cwnd, wnd.tx_wnd) - InFlight IN IF avail < Mss THEN 0 ELSE avail

\* cwnd_incr outside fast recovery.
CwndIncr(w) == IF w.cwnd < w.ssthresh THEN Mss ELSE MaxOf((Mss * Mss) \div w.cwnd, 1)

Grow(w, n) == [w EXCEPT !.cwnd = MinOf(@ + n, CwndCap)]

\* An open connection with nothing in flight.  The client's ack_win is our own
\* window until an ACK comes; the server's cwnd has grown by the ACK of its SYN.
Init ==
    /\ \E w, v \in Windows :
        LET new == [tx_nxt |-> 0, snd_una |-> 0, tx_wnd |-> w, cwnd |-> MinOf(2 * Mss, CwndCap),
                    ssthresh |-> w, fast_recovery |-> FALSE, fast_rec_th |-> 0, backoff_count |-> 0,
                    ack_serviced |-> TRUE, ack_seq |-> 0, ack_win |-> v]
        IN  wnd \in {new, Grow(new, CwndIncr(new))}
    /\ segs = <<>> /\ dup_acks = 0
    /\ timer = [running |-> FALSE, seq |-> 0]
    /\ tx_ack = AwaitedMvar /\ rto = "take" /\ tx_wnd_update = AwaitedMvar
    /\ buffer = <<>> /\ bufbytes = 0 /\ waiters = <<>>
    /\ pc = [t \in Threads |-> CASE t = "wnd" -> "take" [] t \in Closers -> "idle" [] OTHER -> "ready"]
    /\ left = ToWrite /\ written = 0
    /\ state = St("Established") /\ finwait2 = <<>> /\ timewait = FALSE
    /\ wire = <<>> /\ peer_fin = FALSE

\* Mutant: fast recovery does not move snd_una.
TxAckStuck(w, r, win) ==
    IF w.fast_recovery
    THEN IF r >= w.fast_rec_th
         THEN [w EXCEPT !.tx_wnd = win, !.cwnd = MinOf(w.ssthresh, CwndCap), !.fast_recovery = FALSE]
         ELSE Grow([w EXCEPT !.tx_wnd = win], Mss)
    ELSE Grow([w EXCEPT !.tx_wnd = win, !.snd_una = MaxOf(@, r),
                        !.backoff_count = IF r > w.snd_una THEN 0 ELSE @], CwndIncr(w))

\* tx_ack: everything before r is acknowledged, and the window is win.
TxAck(w, r, win) ==
    LET una == [w EXCEPT !.tx_wnd = win, !.snd_una = MaxOf(@, r)]
    IN  IF w.fast_recovery
        THEN IF r >= w.fast_rec_th
             THEN [una EXCEPT !.cwnd = MinOf(w.ssthresh, CwndCap), !.fast_recovery = FALSE]
             ELSE Grow(una, Mss)
        ELSE Grow([una EXCEPT !.backoff_count = IF r > w.snd_una THEN 0 ELSE @], CwndIncr(w))

\* alert_fast_rexmit
AlertFastRexmit(w) ==
    LET inflight == w.tx_nxt - w.snd_una
    IN  IF w.fast_recovery THEN w
        ELSE [w EXCEPT !.fast_recovery = TRUE, !.fast_rec_th = w.tx_nxt,
                       !.ssthresh = MaxOf(inflight \div 2, 2 * Mss),
                       !.cwnd = MinOf(inflight + 2 * Mss, CwndCap)]

-----------------------------------------------------------------------------
(* State.tick, with the timers it starts.                                  *)

Ticks(i) ==
    /\ state' = Tick(state, i)
    /\ finwait2' = IF StartsFinwait2(state, i) THEN <<0>> ELSE finwait2
    /\ timewait' = (timewait \/ StartsTimewait(state, i))

CanSend == state.name \in {"Established", "Close_wait"}

\* on_close takes the connection out of the table of channels.
Over == state.name \in {"Closed", "Reset"}

Finwait2timer ==
    /\ finwait2 # <<>>
    /\ IF state.name # "Fin_wait_2"
       THEN finwait2' = <<>> /\ UNCHANGED state
       ELSE IF state.n = finwait2[1]
       THEN finwait2' = <<>> /\ state' = St("Closed")
       ELSE finwait2' = <<state.n>> /\ UNCHANGED state
    /\ UNCHANGED <<timewait, peer_fin, appVars, ackVars, segVars, dup_acks>>

Timewait ==
    /\ timewait
    /\ timewait' = FALSE /\ state' = St("Closed")
    /\ UNCHANGED <<finwait2, peer_fin, appVars, ackVars, segVars, dup_acks>>

-----------------------------------------------------------------------------
(* Segment.Tx.output and User_buffer.Tx.                                   *)

\* output of data or a FIN, as far as the transmission that blocks.
Output(data, fin) ==
    LET seg == [seq |-> wnd.tx_nxt, pos |-> data.pos, len |-> data.len, fin |-> fin]
    IN  /\ wnd' = [wnd EXCEPT !.tx_nxt = @ + SeqLen(seg)]
        /\ segs' = Append(segs, seg)
        /\ timer' = IF timer.running THEN timer ELSE [running |-> TRUE, seq |-> seg.seq]
        /\ wire' = <<seg>>

Moved(t, place) == [pc EXCEPT ![t] = place]

\* inform_app wakes the first thread that waits; here it makes the given move.
Informed(place) ==
    [t \in Threads |-> IF t = "wnd" THEN place
                       ELSE IF waiters # <<>> /\ t = Head(waiters) THEN "woken" ELSE pc[t]]

\* Mutant: nobody is woken.
InformNobody ==
    /\ pc' = Moved("wnd", "take") /\ UNCHANGED waiters
    /\ tx_wnd_update' = Take(Consume(tx_wnd_update))
    /\ IF rto = "put" THEN rto' = "take" /\ tx_ack' = Take(tx_ack) ELSE UNCHANGED <<rto, tx_ack>>

\* Flow.Wnd.thread informs the application and takes again, which lets rto_t go
\* on to its next take if its put was blocked.
InformAndTake ==
    /\ pc' = Informed("take")
    /\ waiters' = IF waiters = <<>> THEN <<>> ELSE Tail(waiters)
    /\ tx_wnd_update' = Take(Consume(tx_wnd_update))
    /\ IF rto = "put" THEN rto' = "take" /\ tx_ack' = Take(tx_ack) ELSE UNCHANGED <<rto, tx_ack>>

\* A call of clear_buffer by the thread t has returned.
Cleared(t) ==
    IF t = "wnd" THEN InformAndTake
    ELSE pc' = Moved(t, "ready") /\ UNCHANGED <<waiters, ackVars>>

\* The length of the first k chunks of buf, which follow one another.
Length(buf, k) == buf[k].pos + buf[k].len - buf[1].pos

\* clear_buffer by the thread t, when the buffer holds buf, bytes long: as many
\* whole chunks as make up a segment, if the window allows one.  The chunks are
\* no longer than Mss, so none is split.
ClearBuffer(t, buf, bytes) ==
    \/ /\ buf = <<>> \/ TxAvailable = 0
       /\ buffer' = buf /\ bufbytes' = bytes
       /\ Cleared(t)
       /\ UNCHANGED segVars
    \/ /\ buf # <<>> /\ TxAvailable > 0
       /\ \E k \in 1..Len(buf) :
            /\ Length(buf, k) <= Mss
            /\ k < Len(buf) => Length(buf, k + 1) > Mss
            /\ buffer' = SubSeq(buf, k + 1, Len(buf))
            /\ bufbytes' = bytes - Length(buf, k)
            /\ Output([pos |-> buf[1].pos, len |-> Length(buf, k)], FALSE)
       /\ pc' = Moved(t, "clearing")
       /\ tx_wnd_update' = IF t = "wnd" THEN Consume(tx_wnd_update) ELSE tx_wnd_update
       /\ UNCHANGED <<waiters, tx_ack, rto>>

\* The device has taken the segment: output returns to its caller.
OutputReturns(t) ==
    /\ \/ /\ pc[t] = "direct" /\ pc' = Moved(t, "ready")
          /\ UNCHANGED <<segVars, buffer, bufbytes, waiters, ackVars>>
       \/ /\ pc[t] = "fin" /\ pc' = Moved(t, "done")
          /\ UNCHANGED <<segVars, buffer, bufbytes, waiters, ackVars>>
       \/ pc[t] = "clearing" /\ ClearBuffer(t, buffer, bufbytes)
    /\ UNCHANGED <<left, written, stVars, dup_acks>>

-----------------------------------------------------------------------------
(* Flow.write.                                                             *)

Available == LET a == MaxSize - bufbytes IN IF a < Mss THEN 0 ELSE a

Waits(t) == pc' = Moved(t, "waiting") /\ waiters' = Append(waiters, t)

\* Mutant: what is buffered is overtaken.
EagerOvertakes(w, n) == w \in NoDelay \/ n = Mss \/ InFlight = 0

\* write sends at once what fills a segment, or anything when nothing is in
\* flight (Nagle); write_nodelay sends at once unless something is buffered.
Eager(w, n) == buffer = <<>> /\ (w \in NoDelay \/ n = Mss \/ InFlight = 0)

\* write, or write_nodelay, of the next n bytes.
UtxWrite(w, n) ==
    LET chunk == [pos |-> written, len |-> n]
        bytes == bufbytes + n
    IN  \/ /\ Eager(w, n) /\ TxAvailable >= n
           /\ Output(chunk, FALSE)
           /\ pc' = Moved(w, "direct")
           /\ UNCHANGED <<buffer, bufbytes, waiters, ackVars>>
        \/ /\ Eager(w, n) => TxAvailable < n
           /\ Eager(w, n) \/ w \in NoDelay \/ bytes < Mss
           /\ buffer' = Append(buffer, chunk) /\ bufbytes' = bytes
           /\ pc' = Moved(w, "ready")
           /\ UNCHANGED <<segVars, waiters, ackVars>>
        \/ /\ ~Eager(w, n) /\ w \notin NoDelay /\ bytes >= Mss
           /\ ClearBuffer(w, Append(buffer, chunk), bytes)

\* writefn writes what there is room for, up to one segment, at a time; the
\* application may ask for less.  A thread that has waited comes here when there
\* is room again.
Write(w) ==
    /\ CanSend /\ left[w] > 0 /\ Available > 0
    /\ pc[w] \in {"ready", "woken"}
    /\ \E n \in 1..MinOf(left[w], MinOf(Mss, Available)) :
           /\ UtxWrite(w, n)
           /\ left' = [left EXCEPT ![w] = @ - n]
           /\ written' = written + n
    /\ UNCHANGED <<stVars, dup_acks>>

\* There is no room: it waits.  A thread that has waited does not look at the
\* state before it waits again.
WriteWaits(w) ==
    /\ left[w] > 0 /\ Available = 0
    /\ (pc[w] = "ready" /\ CanSend) \/ pc[w] = "woken"
    /\ Waits(w)
    /\ UNCHANGED <<buffer, bufbytes, left, written, ackVars, segVars, stVars, dup_acks>>

\* The connection does not take writes: `Not_ready.
WriteFails(w) ==
    /\ ~CanSend /\ left[w] > 0
    /\ pc[w] = "ready" \/ (pc[w] = "woken" /\ Available > 0)
    /\ pc' = Moved(w, "failed")
    /\ UNCHANGED <<buffer, bufbytes, waiters, left, written, ackVars, segVars, stVars, dup_acks>>

-----------------------------------------------------------------------------
(* Flow.close.                                                             *)

\* close of a connection that is not open does nothing.
Closes(c) == (pc[c] = "idle" /\ CanSend) \/ pc[c] = "woken"

\* wait_for_flushed, while the buffer holds something.
CloseWaits(c) ==
    /\ Closes(c) /\ buffer # <<>>
    /\ Waits(c)
    /\ UNCHANGED <<buffer, bufbytes, left, written, ackVars, segVars, stVars, dup_acks>>

\* Mutant: the FIN does not wait for the flush.
CloseSendsEarly(c) ==
    /\ Closes(c)
    /\ Ticks(ActSeq("Send_fin", wnd.tx_nxt))
    /\ Output([pos |-> written, len |-> 0], TRUE)
    /\ pc' = Moved(c, "fin")
    /\ UNCHANGED <<peer_fin, buffer, bufbytes, waiters, left, written, ackVars, dup_acks>>

\* The buffer is flushed: the FIN goes out, whatever the state is by now.
CloseSends(c) ==
    /\ Closes(c) /\ buffer = <<>>
    /\ Ticks(ActSeq("Send_fin", wnd.tx_nxt))
    /\ Output([pos |-> written, len |-> 0], TRUE)
    /\ pc' = Moved(c, "fin")
    /\ UNCHANGED <<peer_fin, buffer, bufbytes, waiters, left, written, ackVars, dup_acks>>

-----------------------------------------------------------------------------
(* Flow.Wnd.thread.                                                        *)

\* It is handed an update: User_buffer.Tx.free.
WndFree ==
    /\ tx_wnd_update.handed # <<>>
    /\ state.name # "Reset"
    /\ ClearBuffer("wnd", buffer, bufbytes)
    /\ UNCHANGED <<left, written, stVars, dup_acks>>

\* It is handed an update after a reset: User_buffer.Tx.reset.
WndReset ==
    /\ tx_wnd_update.handed # <<>>
    /\ state.name = "Reset"
    /\ buffer' = <<>>
    /\ InformAndTake
    /\ UNCHANGED <<bufbytes, left, written, segVars, stVars, dup_acks>>

-----------------------------------------------------------------------------
(* Segment.Rx.input, as far as it concerns this half.                      *)

\* The connection is in the table of channels, so a segment finds it.
Arrives == ~Over /\ Len(tx_ack.contents \o tx_ack.writers) < MaxPuts

\* The peer may have everything that was transmitted, and acknowledges it up to
\* the end of any segment; or up to any byte.
AckPoints ==
    IF MidAcks THEN wnd.ack_seq..wnd.tx_nxt
    ELSE {wnd.ack_seq} \cup {a \in wnd.ack_seq..wnd.tx_nxt : \E i \in DOMAIN segs : SeqEnd(segs[i]) = a}

\* rto_t is told of an ACK unless the last one has not been serviced, and then
\* of a repeated one only; with nothing in flight, of a new window only.
Alerts(a, win) ==
    IF InFlight # 0 THEN wnd.ack_serviced \/ a = wnd.ack_seq ELSE win # wnd.ack_win

\* An ACK, older than none before.
InputAck(a, win) ==
    /\ Arrives /\ a \in AckPoints
    /\ a = wnd.ack_seq => dup_acks < MaxDupAcks
    /\ state.name = "Fin_wait_2" => state.n < MaxFinAcks
    /\ Ticks(ActSeq("Recv_ack", a))
    /\ wnd' = [wnd EXCEPT !.ack_seq = a, !.ack_win = win,
                          !.ack_serviced = @ /\ ~Alerts(a, win)]
    /\ tx_ack' = IF Alerts(a, win) THEN Put(tx_ack, "ack") ELSE tx_ack
    /\ UNCHANGED <<peer_fin, appVars, rto, tx_wnd_update, segs, timer, wire, dup_acks>>

\* A RST.
InputReset ==
    /\ Arrives /\ PeerResets
    /\ Ticks(Act("Recv_rst"))
    /\ tx_ack' = IF wnd.ack_serviced THEN Put(tx_ack, "ack") ELSE tx_ack
    /\ UNCHANGED <<peer_fin, appVars, rto, tx_wnd_update, segVars, dup_acks>>

\* The peer's FIN, which Flow.Rx.thread takes after all its data.
InputFin ==
    /\ PeerCloses /\ ~peer_fin /\ ~Over
    /\ peer_fin' = TRUE
    /\ Ticks(Act("Recv_fin"))
    /\ UNCHANGED <<appVars, ackVars, segVars, dup_acks>>

-----------------------------------------------------------------------------
(* Segment.Tx.rto_t.                                                       *)

\* What the first k segments take up.
ClearedLen(k) == IF k = 0 THEN 0 ELSE SeqEnd(segs[k]) - segs[1].seq

\* Mutant: the loop ends after the first segment.
ClearSegsOnce(n) ==
    {MinOf(k, 1) : k \in {i \in 0..Len(segs) : /\ ClearedLen(i) <= n
                                               /\ i < Len(segs) => ClearedLen(i + 1) > n}}

\* clearsegs of n: the number of segments it takes off the queue.
ClearSegs(n) ==
    {k \in 0..Len(segs) : /\ ClearedLen(k) <= n
                          /\ k < Len(segs) => ClearedLen(k + 1) > n}

\* q.dup_acks, which is only compared with 3.
CountDup == MinOf(dup_acks + 1, 4)

\* Mutant: fast recovery is looked at before the ACK is applied.
ServiceAckStale ==
    LET seq     == wnd.ack_seq
        ack_len == seq - wnd.snd_una
        dup     == ack_len = 0 /\ wnd.tx_wnd = wnd.ack_win /\ segs # <<>>
    IN  \E k \in ClearSegs(ack_len) :
            LET w      == TxAck(wnd, wnd.snd_una + ClearedLen(k), wnd.ack_win)
                counts == dup \/ wnd.fast_recovery
                rexmit == counts /\ (CountDup = 3 \/ ack_len > 0)
            IN  /\ segs' = SubSeq(segs, k + 1, Len(segs))
                /\ dup_acks' = IF counts THEN CountDup ELSE 0
                /\ wnd' = [(IF rexmit THEN AlertFastRexmit(w) ELSE w) EXCEPT !.ack_serviced = TRUE]
                /\ wire' = IF rexmit /\ segs' # <<>> THEN <<[segs'[1] EXCEPT !.seq = seq]>> ELSE wire
                /\ rto' = IF rexmit /\ segs' = <<>> THEN "failed"
                          ELSE IF PutBlocks(tx_wnd_update) THEN "put" ELSE "take"

\* serviceack.  It retransmits the first segment under the number of the ACK;
\* peek_l fails if there is none.
ServiceAck ==
    LET seq     == wnd.ack_seq
        ack_len == seq - wnd.snd_una
        dup     == ack_len = 0 /\ wnd.tx_wnd = wnd.ack_win /\ segs # <<>>
    IN  \E k \in ClearSegs(ack_len) :
            LET w      == TxAck(wnd, wnd.snd_una + ClearedLen(k), wnd.ack_win)
                counts == dup \/ w.fast_recovery
                rexmit == counts /\ (CountDup = 3 \/ ack_len > 0)
            IN  /\ segs' = SubSeq(segs, k + 1, Len(segs))
                /\ dup_acks' = IF counts THEN CountDup ELSE 0
                /\ wnd' = [(IF rexmit THEN AlertFastRexmit(w) ELSE w) EXCEPT !.ack_serviced = TRUE]
                /\ wire' = IF rexmit /\ segs' # <<>> THEN <<[segs'[1] EXCEPT !.seq = seq]>> ELSE wire
                /\ rto' = IF rexmit /\ segs' = <<>> THEN "failed"
                          ELSE IF PutBlocks(tx_wnd_update) THEN "put" ELSE "take"

\* reset_seq
ResetSegs ==
    /\ segs' = <<>>
    /\ wnd' = [wnd EXCEPT !.ack_serviced = TRUE]
    /\ rto' = IF PutBlocks(tx_wnd_update) THEN "put" ELSE "take"
    /\ UNCHANGED <<dup_acks, wire>>

\* tx_ack_t is handed an ACK, services it, and tells Flow.Wnd.thread.
RtoAck ==
    /\ tx_ack.handed # <<>>
    /\ \/ state.name = "Reset" /\ ResetSegs
       \/ state.name # "Reset" /\ ServiceAck
    /\ tx_wnd_update' = IF rto' = "failed" THEN tx_wnd_update ELSE Put(tx_wnd_update, "wnd")
    /\ tx_ack' = IF rto' = "take" THEN Take(Consume(tx_ack)) ELSE Consume(tx_ack)
    /\ UNCHANGED <<appVars, timer, stVars>>

-----------------------------------------------------------------------------
(* Segment.Tx.ontimer, called by Tcptimer.timerloop.                       *)

Retransmits == state.name \in {"Established", "Fin_wait_1", "Close_wait", "Last_ack"}

\* Mutant: the timer stops when its segment has been acknowledged.
TimerStopsEarly ==
    /\ timer.running
    /\ (~Retransmits \/ segs = <<>> \/ (segs # <<>> /\ segs[1].seq # timer.seq))
    /\ timer' = [timer EXCEPT !.running = FALSE]
    /\ UNCHANGED <<appVars, ackVars, wnd, segs, wire, stVars, dup_acks>>

TimerStops ==
    /\ timer.running
    /\ (~Retransmits \/ segs = <<>>)
    /\ timer' = [timer EXCEPT !.running = FALSE]
    /\ UNCHANGED <<appVars, ackVars, wnd, segs, wire, stVars, dup_acks>>

\* The segment it was started for has been acknowledged: on to the first.
TimerMoves ==
    /\ timer.running /\ Retransmits /\ segs # <<>> /\ segs[1].seq # timer.seq
    /\ timer' = [timer EXCEPT !.seq = segs[1].seq]
    /\ UNCHANGED <<appVars, ackVars, wnd, segs, wire, stVars, dup_acks>>

\* Mutant: the timer does not look whether its segment is still the first.
TimerRexmitsStale ==
    /\ timer.running /\ Retransmits /\ segs # <<>>
    /\ wnd.backoff_count <= MaxRexmits
    /\ wire' = <<[segs[1] EXCEPT !.seq = timer.seq]>>
    /\ wnd' = [AlertFastRexmit(wnd) EXCEPT !.backoff_count = @ + 1]
    /\ UNCHANGED <<appVars, ackVars, segs, timer, stVars, dup_acks>>

\* Mutant: the retransmissions are not counted.
TimerRexmitsForever ==
    /\ timer.running /\ Retransmits /\ segs # <<>> /\ segs[1].seq = timer.seq
    /\ wnd.backoff_count <= MaxRexmits
    /\ wire' = <<[segs[1] EXCEPT !.seq = timer.seq]>>
    /\ wnd' = AlertFastRexmit(wnd)
    /\ UNCHANGED <<appVars, ackVars, segs, timer, stVars, dup_acks>>

TimerRexmits ==
    /\ timer.running /\ Retransmits /\ segs # <<>> /\ segs[1].seq = timer.seq
    /\ wnd.backoff_count <= MaxRexmits
    /\ wire' = <<[segs[1] EXCEPT !.seq = timer.seq]>>
    /\ wnd' = [AlertFastRexmit(wnd) EXCEPT !.backoff_count = @ + 1]
    /\ UNCHANGED <<appVars, ackVars, segs, timer, stVars, dup_acks>>

TimerGivesUp ==
    /\ timer.running /\ Retransmits /\ segs # <<>> /\ segs[1].seq = timer.seq
    /\ wnd.backoff_count > MaxRexmits
    /\ timer' = [timer EXCEPT !.running = FALSE]
    /\ Ticks(Act("Timeout"))
    /\ UNCHANGED <<peer_fin, appVars, ackVars, wnd, segs, wire, dup_acks>>

-----------------------------------------------------------------------------
App(t) ==
    \/ t \in Writers /\ (Write(t) \/ WriteWaits(t) \/ WriteFails(t))
    \/ t \in Closers /\ (CloseWaits(t) \/ CloseSends(t))

WndThread == WndFree \/ WndReset
Ontimer   == TimerStops \/ TimerMoves \/ TimerRexmits \/ TimerGivesUp

Next ==
    \/ \E t \in Threads : App(t) \/ OutputReturns(t)
    \/ WndThread \/ RtoAck \/ Ontimer
    \/ \E a \in 0..wnd.tx_nxt, win \in Windows : InputAck(a, win)
    \/ InputReset \/ InputFin \/ Finwait2timer \/ Timewait

Spec == Init /\ [][Next]_vars

\* The Lwt scheduler runs the application's threads that can go on (a close need
\* not be called), and rto_t or Flow.Wnd.thread; the device takes segments, and the
\* retransmission timer expires.  The network and the peer owe nothing: what is
\* never acknowledged times out.
Fairness ==
    /\ WF_vars(\E t \in Threads : pc[t] # "idle" /\ App(t))
    /\ WF_vars(WndThread \/ RtoAck)
    /\ WF_vars(\E t \in Threads : OutputReturns(t))
    /\ WF_vars(Ontimer)

FairSpec == Spec /\ Fairness

-----------------------------------------------------------------------------
(* Properties.                                                             *)

\* Every variable has the type the code gives it.
TypeOK ==
    /\ wnd \in Wnd
    /\ segs \in Seq(Seg) /\ dup_acks \in 0..4
    /\ timer \in [running : BOOLEAN, seq : Int]
    /\ IsMvar(tx_ack, {"ack"}) /\ IsMvar(tx_wnd_update, {"wnd"})
    /\ rto \in {"take", "put", "failed"}
    /\ buffer \in Seq(Chunk) /\ bufbytes \in Nat
    /\ waiters \in Seq(Writers \cup Closers)
    /\ pc \in [Threads -> Places]
    /\ left \in [Writers -> Nat] /\ written \in Nat
    /\ state \in State /\ finwait2 \in Seq(Int) /\ timewait \in BOOLEAN
    /\ wire \in Seq(Seg) /\ peer_fin \in BOOLEAN

\* A thread has sent the FIN.
FinSent == \E c \in Closers : pc[c] \in {"fin", "done"}

\* The segments in the queue follow one another from snd_una to tx_nxt
\* (Segment.Tx): clearsegs, which counts their lengths, and tx_ack, which moves
\* snd_una, never come apart, whatever ACKs come in and when they are serviced.
SegsTile ==
    state.name # "Reset" =>
        /\ segs = <<>> => wnd.snd_una = wnd.tx_nxt
        /\ segs # <<>> => segs[1].seq = wnd.snd_una /\ SeqEnd(segs[Len(segs)]) = wnd.tx_nxt
        /\ \A i \in 1..(Len(segs) - 1) : segs[i + 1].seq = SeqEnd(segs[i])

\* clearsegs as the code writes it, a segment at a time: the number of those it
\* has taken off the queue for an ACK of n, and what is left of n (partleft).
ClearLoop(n) ==
    LET loop[k \in 0..Len(segs)] ==
            IF k = 0 THEN [taken |-> 0, left |-> n]
            ELSE LET acc == loop[k - 1] IN
                 IF acc.taken = k - 1 /\ acc.left > 0 /\ SeqLen(segs[k]) <= acc.left
                 THEN [taken |-> k, left |-> acc.left - SeqLen(segs[k])] ELSE acc
    IN  loop[Len(segs)]

\* ClearSegs says what that loop computes, for every ACK that may come next and
\* for partial ones (Segment.Tx.clearsegs, which rto_t does not call after a reset):
\* it takes that number of segments and no other, and returns the rest of the ACK.
ClearSegsIsLoop ==
    state.name # "Reset" =>
        \A n \in 0..InFlight :
            /\ ClearSegs(n) = {ClearLoop(n).taken}
            /\ ClearLoop(n).left = n - ClearedLen(ClearLoop(n).taken)

\* The bytes the writes have taken are in the stream once and in their order:
\* those that were transmitted, then those in the buffer, and the FIN last;
\* bufbytes is the length of the buffer and within its limit (User_buffer.Tx,
\* with writers, the closer and Flow.Wnd.thread all sending).
StreamInOrder ==
    state.name # "Reset" =>
        /\ buffer = <<>> => wnd.tx_nxt = written + (IF FinSent THEN 1 ELSE 0)
        /\ buffer # <<>> => buffer[1].pos = wnd.tx_nxt /\ ~FinSent
        /\ \A i \in DOMAIN buffer : buffer[i].pos + buffer[i].len =
               IF i = Len(buffer) THEN written ELSE buffer[i + 1].pos
        /\ \A i \in DOMAIN segs : segs[i].fin => segs[i].pos = written
        /\ bufbytes = (IF buffer = <<>> THEN 0 ELSE written - buffer[1].pos)
        /\ bufbytes <= MaxSize

\* What is on the wire under a sequence number never changes (Segment.Tx): each
\* transmission, and each retransmission by the timer or on duplicate ACKs,
\* sends the bytes that belong there.  A close that waits for the flush when
\* the connection is reset sends its FIN all the same, before data.
WireAligned ==
    \A i \in DOMAIN wire :
        wire[i].pos = wire[i].seq \/ (wire[i].len = 0 /\ state.name = "Reset")

\* The retransmission timer runs as long as something is not acknowledged, in
\* the states in which it retransmits (Tcptimer, ontimer).
TimerArmed == Retransmits /\ segs # <<>> => timer.running

\* rto_t finds a segment to retransmit when it wants one (peek_l asserts it).
RtoAlive == rto # "failed"

\* A close loses nothing (State.tick): the connection is past its FIN only if
\* the peer has the FIN and all the data before it.
FinReceived == state.name \in {"Fin_wait_2", "Time_wait"} => wnd.ack_seq = written + 1

\* What writes have taken goes out as ByteSource promises (Flow.write, Flow.close,
\* Segment.Tx, with all the threads that send): new bytes once and in order, the FIN
\* behind them and nothing after it, and again only what snd_una has not passed.
Source == INSTANCE ByteSource
    WITH taken <- written, sent <- wnd.tx_nxt - (IF FinSent THEN 1 ELSE 0), acked <- wnd.snd_una,
         finished <- FinSent, aborted <- (state.name = "Reset"), line <- wire

ImplementsByteSource == Source!Spec

\* Nothing answers for the data any more: the connection is over, or both ends
\* have closed at once, and ontimer stops its timer in Closing.
Abandoned == Over \/ state.name = "Closing"

\* Data is acknowledged in the end (ontimer), unless it is abandoned: time and
\* again nothing is left that was transmitted and not acknowledged.
DataAcked == []<>(segs = <<>> \/ Abandoned)

\* Nothing is in flight and the window is smaller than a segment.  There is no
\* persist timer (Window.tx_available, User_buffer.Tx.clear_buffer): nothing is
\* sent until the peer, of its own accord, advertises another window.
Shut == InFlight = 0 /\ wnd.tx_wnd < Mss

\* A write returns in the end (User_buffer.Tx.wait_for), unless the connection is
\* abandoned or the peer shuts its window for good or over and over: no wake-up of
\* inform_app is lost or spent on the wrong thread.
WriteReturnsOrOver ==
    \A w \in Writers : []<>(left[w] = 0 \/ pc[w] = "failed" \/ Abandoned \/ Shut)

\* A write returns in the end, `Closed if the connection is.
WriteReturns == \A w \in Writers : (left[w] > 0) ~> (left[w] = 0 \/ pc[w] = "failed")
=============================================================================
