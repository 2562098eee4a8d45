----------------------------- MODULE TcpReceive -----------------------------
(***************************************************************************)
(* The receiving half of one TCP connection of tcpip/src/tcp, from the     *)
(* segments the network hands to Flow.input to the buffers the application *)
(* reads:                                                                  *)
(*                                                                         *)
(*   Segment.Rx.input     reassembly: puts each batch of in-order payloads *)
(*                        into the mvar rx_data                            *)
(*   Flow.Rx.thread       takes from rx_data, asks for an ACK, and queues  *)
(*                        the payloads for the application                 *)
(*   Ack.Immediate        asks for an ACK by a put into the mvar send_ack  *)
(*   Flow.Tx.thread       takes from send_ack and transmits an empty ACK;  *)
(*                        takes from rx_ack the news of an ACK that went   *)
(*                        out with data                                    *)
(*   User_buffer.Rx       the application's bounded buffer                 *)
(*                                                                         *)
(* Each is an Lwt thread; a step runs from one point where a promise may   *)
(* be pending to the next.  Flow.input is started in a promise of its own  *)
(* for every packet, so inputs blocked on rx_data pile up.                 *)
(*                                                                         *)
(* Segment.Rx.input also starts the transmit half's promise (tx_ack); it   *)
(* reads and writes none of the variables here, except that a reset waits  *)
(* for it, which InputReset allows for.  The connection is past its        *)
(* handshake and the local side does not close it.                         *)
(***************************************************************************)
EXTENDS Sequence, LwtMvar, FiniteSets

CONSTANTS
    RxIsn,       \* the peer's initial sequence number
    StreamLen,   \* the peer sends this many bytes, then a FIN
    PeerSegs,    \* the segments the peer transmits, each as often as it likes
    MaxSize,     \* Window.max_rx_wnd, the first rx_wnd and the size of urx
    MinWnd,      \* the least window set_rx_wnd sets: 3 * tx_mss + 1 lsl scale
    Span,        \* no segment in the network is further from rx_nxt: the peer
                 \* keeps to the window, and older ones have left the network
    KeepaliveOn, \* the listener asked for keepalives
    MaxReaders,  \* bound: concurrent reads of the application
    MaxPuts,     \* bound: inputs blocked on rx_data
    MaxOutputs   \* bound: Segment.Tx.output calls that have not returned

First  == RxIsn + 1             \* the stream's first byte
FinSeq == First + StreamLen     \* the sequence number of the peer's FIN

Segment == [seq : Int, len : Nat, fin : BOOLEAN, syn : BOOLEAN, rst : BOOLEAN,
            ackok : BOOLEAN]    \* ackok: the ack number is in rfc5961's range

\* Segment.Rx.len, of a segment that is not a SYN.
SegLen(s) == s.len + (IF s.fin THEN 1 ELSE 0)

ASSUME ReceiveAssumption ==
    /\ RxIsn \in Int /\ StreamLen \in Nat
    /\ PeerSegs \subseteq Segment
    /\ MaxSize \in Nat /\ MinWnd \in Nat /\ Span \in Nat
    /\ KeepaliveOn \in BOOLEAN
    /\ MaxReaders \in Nat /\ MaxPuts \in Nat /\ MaxOutputs \in Nat

\* What the peer sends is a slice of its stream, with the FIN at its end.
ASSUME PeerAssumption ==
    \A s \in PeerSegs : ~s.rst /\ ~s.syn =>
        /\ First <= s.seq
        /\ s.len > 0 => s.seq + s.len <= FinSeq
        /\ s.fin => s.seq + s.len = FinSeq

VARIABLES
    segs,          \* Segment.Rx.t.segs: segments that wait for earlier ones
    rx_nxt,        \* Window: the next ACK number
    rx_nxt_inseq,  \* Window: the end of the data put into rx_data
    rx_wnd,        \* Window: the receive window
    rx_data,       \* mvar from Segment.Rx to Flow.Rx.thread
    eof_puts,      \* puts of (None, Some 0) that wait for an earlier promise
    rx,            \* Flow.Rx.thread: where it is, the payloads it has to queue
    pushpending,   \* Ack.Immediate
    send_ack,      \* mvar from Ack.Immediate to send_empty_ack
    xmitting,      \* send_empty_ack waits for the device
    outputs,       \* Segment.Tx.output calls that wait for the device
    rx_ack,        \* mvar from Segment.Tx.output to notify
    acked,         \* the ACK number of the last segment transmitted
    urx,           \* User_buffer.Rx.t
    keepalive,     \* the keepalive timer runs
    state,         \* State.t, as far as this half of a connection goes
    received       \* what the application has read, in order

vars == <<segs, rx_nxt, rx_nxt_inseq, rx_wnd, rx_data, eof_puts, rx, pushpending, send_ack,
          xmitting, outputs, rx_ack, acked, urx, keepalive, state, received>>

ackVars == <<pushpending, send_ack, xmitting, outputs, rx_ack, acked>>

-----------------------------------------------------------------------------
(* Payloads.  A payload is named by its place in the peer's stream.        *)

Item == [seq : Int, len : Nat]
Slice(s) == [seq |-> s.seq, len |-> s.len]
Eof == [seq |-> FinSeq, len |-> 0]      \* None in the code; a payload is not empty


\* A value of rx_data.  eof: the first component is None.  ack: the second is
\* Some adv.  fin: when this put returns, its input puts the EOF.
RxValue == {v \in [data : SUBSET Item, eof : BOOLEAN, ack : BOOLEAN, adv : Int, fin : BOOLEAN] :
                ~v.ack => v.adv = 0}
EofValue       == [data |-> {}, eof |-> TRUE,  ack |-> TRUE, adv |-> 0, fin |-> FALSE]
ChallengeValue == [data |-> {}, eof |-> FALSE, ack |-> TRUE, adv |-> 0, fin |-> FALSE]

UrxWriter == [owner : {"rx", "keepalive"}, item : Item]

Init ==
    /\ segs = {}
    /\ rx_nxt = First /\ rx_nxt_inseq = First /\ acked = First
    /\ rx_wnd = MaxSize
    /\ rx_data = AwaitedMvar /\ eof_puts = 0
    /\ rx = [pc |-> "take", rest |-> {}]
    /\ pushpending = FALSE /\ send_ack = AwaitedMvar /\ xmitting = FALSE
    /\ outputs = 0 /\ rx_ack = AwaitedMvar
    /\ urx = [q |-> <<>>, writers |-> <<>>, readers |-> 0, cur_size |-> 0]
    /\ keepalive = KeepaliveOn
    /\ state = "Established"
    /\ received = <<>>

-----------------------------------------------------------------------------
(* Segment.Rx: reassembly.                                                 *)

\* Window.valid
Valid(seq) == Between(seq, rx_nxt - MaxSize, rx_nxt + rx_wnd)

CheckValidSegment(s) ==
    IF s.rst THEN IF Compare(s.seq, rx_nxt) = 0 THEN "Reset"
                  ELSE IF Valid(s.seq) THEN "ChallengeAck" ELSE "Drop"
    ELSE IF s.syn THEN "ChallengeAck"
    ELSE IF ~Valid(s.seq) THEN "Drop"
    ELSE IF s.ackok THEN "Ok" ELSE "ChallengeAck"

Before(s, t) == Compare(s.seq, t.seq) < 0

\* S.add: the set holds one segment per sequence number, and the one it has.
Add(s, set) ==
    IF \E t \in set : Compare(s.seq, t.seq) = 0 THEN set ELSE set \cup {s}

\* Mutant: a segment that overlaps the data in sequence is passed on whole.
IsReadyOverlap(ready, set, n) ==
    ready = {s \in set :
        \/ Compare(s.seq, n) <= 0
        \/ \E r \in ready : Before(r, s) /\ Compare(r.seq + SegLen(r), s.seq) = 0}

\* The segments the walk over the ordered set finds in sequence, when the next
\* sequence number is n at its start: each begins at n or where an earlier
\* ready segment ends.
IsReady(ready, set, n) ==
    ready = {s \in set :
        /\ Compare(s.seq, n) >= 0
        /\ \/ Compare(s.seq, n) = 0
           \/ \E r \in ready : Before(r, s) /\ Compare(r.seq + SegLen(r), s.seq) = 0}

\* The ones that are ahead of the next sequence number when the walk comes to
\* them.  It drops the rest, which are behind it.
Waiting(set, ready, n) ==
    {s \in set \ ready :
        /\ Compare(s.seq, n) > 0
        /\ \A r \in ready : Before(r, s) => Compare(r.seq + SegLen(r), s.seq) < 0}

\* The last segment of a set, as a set.
LastOf(set) == {s \in set : \A t \in set \ {s} : Before(t, s)}

\* Mutant: a FIN takes up no sequence number.
AdvancesNoFin(ready, n) ==
    IF ready = {} THEN {0} ELSE {Wrap(s.seq + s.len - n) : s \in LastOf(ready)}

\* winadv, as a set: the lengths of the ready segments add up to the distance
\* from n to the end of the last.
Advances(ready, n) ==
    IF ready = {} THEN {0} ELSE {Wrap(s.seq + SegLen(s) - n) : s \in LastOf(ready)}

Payloads(ready) == {Slice(s) : s \in {t \in ready : t.len > 0}}

\* The function fin, of a set of segments.
Fin(set) == \E s \in LastOf(set) : s.fin

\* The segment is still in the network, and the connection in the table of
\* channels: a reset removes it, and no input finds it after that.
Arrives(s) ==
    /\ state # "Reset"
    /\ s.seq \in (rx_nxt - Span)..(rx_nxt + Span)
    /\ Len(rx_data.writers) < MaxPuts

\* The `Ok branch of Segment.Rx.input.
InputOk(s) ==
    /\ Arrives(s) /\ CheckValidSegment(s) = "Ok"
    /\ \E ready \in SUBSET Add(s, segs) :
        \E winadv \in Advances(ready, rx_nxt_inseq) :
            LET set   == Add(s, segs)
                ack   == set # ready \/ winadv > 0      \* set # ready: force_ack
                value == [data |-> Payloads(ready), eof |-> FALSE, ack |-> ack,
                          adv |-> IF ack THEN winadv ELSE 0, fin |-> Fin(ready)]
                first == Put(rx_data, value)
            IN  /\ IsReady(ready, set, rx_nxt_inseq)
                /\ segs' = Waiting(set, ready, rx_nxt_inseq)
                /\ rx_nxt_inseq' = rx_nxt_inseq + winadv
                /\ rx_data' = IF Fin(ready) /\ ~PutBlocks(rx_data)
                              THEN Put(first, EofValue) ELSE first
    /\ UNCHANGED <<rx_nxt, rx_wnd, eof_puts, rx, urx, keepalive, state, received>>
    /\ UNCHANGED ackVars

\* The `ChallengeAck branch: send_challenge_ack.
InputChallenge(s) ==
    /\ Arrives(s) /\ CheckValidSegment(s) = "ChallengeAck"
    /\ rx_data' = Put(rx_data, ChallengeValue)
    /\ UNCHANGED <<segs, rx_nxt, rx_nxt_inseq, rx_wnd, eof_puts, rx, urx, keepalive, state, received>>
    /\ UNCHANGED ackVars

\* The `Reset branch.  The alert to the transmit side may block, and then the
\* EOF is put when it returns.
InputReset(s) ==
    /\ Arrives(s) /\ CheckValidSegment(s) = "Reset"
    /\ state' = "Reset"
    /\ segs' = {}
    /\ \/ rx_data' = Put(rx_data, EofValue) /\ UNCHANGED eof_puts
       \/ eof_puts' = eof_puts + 1 /\ UNCHANGED rx_data
    /\ UNCHANGED <<rx_nxt, rx_nxt_inseq, rx_wnd, rx, urx, keepalive, received>>
    /\ UNCHANGED ackVars

\* The continuation of an input whose put, or whose alert, has returned.
PutEof ==
    /\ eof_puts > 0
    /\ eof_puts' = eof_puts - 1
    /\ rx_data' = Put(rx_data, EofValue)
    /\ UNCHANGED <<segs, rx_nxt, rx_nxt_inseq, rx_wnd, rx, urx, keepalive, state, received>>
    /\ UNCHANGED ackVars

-----------------------------------------------------------------------------
(* User_buffer.Rx: the application's buffer.                               *)

MaxOf(a, b) == IF a > b THEN a ELSE b

\* notify_size_watcher and Window.set_rx_wnd.
WndFor(size) == MaxOf(MaxOf(0, MaxSize - size), MinWnd)

AddBlocks == urx.cur_size > MaxSize

\* add_r by the given thread.
AddR(item, owner) ==
    \/ /\ AddBlocks
       /\ urx' = [urx EXCEPT !.writers = Append(@, [owner |-> owner, item |-> item]),
                             !.cur_size = @ + item.len]
       /\ rx_wnd' = WndFor(urx.cur_size + item.len)
       /\ UNCHANGED received
    \/ /\ ~AddBlocks /\ urx.readers > 0
       /\ urx' = [urx EXCEPT !.readers = @ - 1]
       /\ received' = Append(received, item)
       /\ UNCHANGED rx_wnd
    \/ /\ ~AddBlocks /\ urx.readers = 0
       /\ urx' = [urx EXCEPT !.q = Append(@, item), !.cur_size = @ + item.len]
       /\ rx_wnd' = WndFor(urx.cur_size + item.len)
       /\ UNCHANGED received

\* take_l of an empty queue: the reader waits.
ReadWaits ==
    /\ urx.q = <<>>
    /\ urx.readers < MaxReaders
    /\ urx' = [urx EXCEPT !.readers = @ + 1]
    /\ UNCHANGED <<segs, rx_nxt, rx_nxt_inseq, rx_wnd, rx_data, eof_puts, rx, keepalive, state, received>>
    /\ UNCHANGED ackVars

\* Mutant: it wakes one while the buffer is over its size.
WakesWriterLate(size) == size > MaxSize /\ urx.writers # <<>>

\* take_l wakes a blocked writer, when size bytes are left.
WakesWriter(size) == size < MaxSize /\ urx.writers # <<>>

\* take_l of a queue that holds something.  If the buffer is no longer full
\* the first blocked writer adds its item and goes on.
ReadTakes ==
    /\ urx.q # <<>>
    /\ received' = Append(received, Head(urx.q))
    /\ LET size == urx.cur_size - Head(urx.q).len
       IN  /\ rx_wnd' = WndFor(size)
           /\ \/ /\ WakesWriter(size)
                 /\ LET w == Head(urx.writers)
                    IN  /\ urx' = [urx EXCEPT !.q = Append(Tail(@), w.item),
                                              !.writers = Tail(@), !.cur_size = size]
                        /\ rx' = IF w.owner = "rx"
                                 THEN [rx EXCEPT !.pc = IF w.item = Eof THEN "done" ELSE "queue"]
                                 ELSE rx
              \/ /\ ~WakesWriter(size)
                 /\ urx' = [urx EXCEPT !.q = Tail(@), !.cur_size = size]
                 /\ UNCHANGED rx
    /\ UNCHANGED <<segs, rx_nxt, rx_nxt_inseq, rx_data, eof_puts, keepalive, state>>
    /\ UNCHANGED ackVars

\* The application cancels a read that waits: on_cancel removes its node.
CancelRead ==
    /\ urx.readers > 0
    /\ urx' = [urx EXCEPT !.readers = @ - 1]
    /\ UNCHANGED <<segs, rx_nxt, rx_nxt_inseq, rx_wnd, rx_data, eof_puts, rx, keepalive, state, received>>
    /\ UNCHANGED ackVars

-----------------------------------------------------------------------------
(* Flow.Rx.thread, the loop rx_application_t.                              *)

\* Mutant: only a duplicate is acknowledged.
AckWantedForced(v) == v.ack /\ v.adv = 0

\* signal_ack puts into send_ack: Ack.pushack if the window has not advanced,
\* Ack.receive, which leaves it to a request still pending, if it has.
AckWanted(v) == v.ack /\ (v.adv > 0 => ~pushpending)

\* It is handed data: signal_ack.  The put into send_ack may block it.
RxData ==
    /\ rx.pc = "take" /\ rx_data.handed # <<>>
    /\ LET v    == Head(rx_data.handed)
           push == AckWanted(v)
       IN  /\ ~v.eof
           /\ rx_nxt' = rx_nxt + v.adv
           /\ \/ /\ push
                 /\ pushpending' = TRUE
                 /\ send_ack' = Put(send_ack, "ack")
              \/ /\ ~push
                 /\ UNCHANGED <<pushpending, send_ack>>
           /\ rx' = [pc   |-> IF push /\ PutBlocks(send_ack) THEN "ack" ELSE "queue",
                     rest |-> v.data]
    /\ rx_data' = Consume(rx_data)
    /\ UNCHANGED <<segs, rx_nxt_inseq, rx_wnd, eof_puts, xmitting, outputs, rx_ack, acked, urx,
                   keepalive, state, received>>

\* Mutant: the list of payloads is not reversed (List.rev).
RxQueueReversed ==
    /\ rx.pc = "queue"
    /\ \E hd \in rx.rest :
        /\ \A s \in rx.rest \ {hd} : Before(s, hd)
        /\ AddR(hd, "rx")
        /\ rx' = [pc |-> IF AddBlocks THEN "blocked" ELSE "queue", rest |-> rx.rest \ {hd}]
    /\ UNCHANGED <<segs, rx_nxt, rx_nxt_inseq, rx_data, eof_puts, keepalive, state>>
    /\ UNCHANGED ackVars

\* It adds the next payload to the application's buffer.
RxQueue ==
    /\ rx.pc = "queue"
    /\ \E hd \in rx.rest :
        /\ \A s \in rx.rest \ {hd} : Before(hd, s)
        /\ AddR(hd, "rx")
        /\ rx' = [pc |-> IF AddBlocks THEN "blocked" ELSE "queue", rest |-> rx.rest \ {hd}]
    /\ UNCHANGED <<segs, rx_nxt, rx_nxt_inseq, rx_data, eof_puts, keepalive, state>>
    /\ UNCHANGED ackVars

\* Mutant: an input whose put blocked does not go on to put its EOF.
RxLoopForgetsEof ==
    /\ rx.pc = "queue" /\ rx.rest = {}
    /\ rx' = [rx EXCEPT !.pc = "take"]
    /\ rx_data' = Take(rx_data)
    /\ UNCHANGED <<segs, rx_nxt, rx_nxt_inseq, rx_wnd, eof_puts, urx, keepalive, state, received>>
    /\ UNCHANGED ackVars

\* It has queued all of them and takes again.  A blocked input whose put returns
\* now goes on to put its EOF.
RxLoop ==
    /\ rx.pc = "queue" /\ rx.rest = {}
    /\ rx' = [rx EXCEPT !.pc = "take"]
    /\ rx_data' = Take(rx_data)
    /\ eof_puts' = IF \E i \in DOMAIN Admitted(rx_data) : Admitted(rx_data)[i].fin
                   THEN eof_puts + 1 ELSE eof_puts
    /\ UNCHANGED <<segs, rx_nxt, rx_nxt_inseq, rx_wnd, urx, keepalive, state, received>>
    /\ UNCHANGED ackVars

\* It is handed the end of the stream, which it queues; then it ends.
RxEof ==
    /\ rx.pc = "take" /\ rx_data.handed # <<>> /\ Head(rx_data.handed).eof
    /\ state' = IF state = "Established" THEN "Close_wait" ELSE state
    /\ AddR(Eof, "rx")
    /\ rx' = [rx EXCEPT !.pc = IF AddBlocks THEN "blocked" ELSE "done"]
    /\ rx_data' = Consume(rx_data)
    /\ UNCHANGED <<segs, rx_nxt, rx_nxt_inseq, eof_puts, keepalive>>
    /\ UNCHANGED ackVars

\* keepalive_cb `Close: the connection is reset and the application is told,
\* past the payloads Flow.Rx.thread has still to queue.
KeepaliveClose ==
    /\ keepalive
    /\ keepalive' = FALSE
    /\ state' = "Reset"
    /\ AddR(Eof, "keepalive")
    /\ UNCHANGED <<segs, rx_nxt, rx_nxt_inseq, rx_data, eof_puts, rx>>
    /\ UNCHANGED ackVars

-----------------------------------------------------------------------------
(* Flow.Tx.thread, and the other transmitters of ACK numbers.              *)

rxVars == <<segs, rx_nxt, rx_nxt_inseq, rx_wnd, rx_data, eof_puts, urx, keepalive, state, received>>

\* Mutant: send_empty_ack does not call Ack.transmit.
SendEmptyAckSilent ==
    /\ send_ack.handed # <<>>
    /\ send_ack' = Consume(send_ack)
    /\ acked' = rx_nxt
    /\ xmitting' = TRUE
    /\ UNCHANGED <<pushpending, outputs, rx_ack, rx>>
    /\ UNCHANGED rxVars

\* send_empty_ack is handed a request and transmits.
SendEmptyAck ==
    /\ send_ack.handed # <<>>
    /\ send_ack' = Consume(send_ack)
    /\ pushpending' = FALSE
    /\ acked' = rx_nxt
    /\ xmitting' = TRUE
    /\ UNCHANGED <<outputs, rx_ack, rx>>
    /\ UNCHANGED rxVars

\* Mutant: the take does not complete the put that waits (next_writer).
EmptyAckSentAlone ==
    /\ xmitting
    /\ xmitting' = FALSE
    /\ send_ack' = Take(send_ack)
    /\ UNCHANGED <<pushpending, outputs, rx_ack, acked, rx>>
    /\ UNCHANGED rxVars

\* The device is done, and send_empty_ack takes again, which lets a blocked
\* Flow.Rx.thread go on.
EmptyAckSent ==
    /\ xmitting
    /\ xmitting' = FALSE
    /\ send_ack' = Take(send_ack)
    /\ rx' = IF rx.pc = "ack" THEN [rx EXCEPT !.pc = "queue"] ELSE rx
    /\ UNCHANGED <<pushpending, outputs, rx_ack, acked>>
    /\ UNCHANGED rxVars

\* Segment.Tx.output transmits a segment, with an ACK number in it.
Output ==
    /\ state # "Reset"
    /\ outputs + Len(rx_ack.writers) < MaxOutputs
    /\ outputs' = outputs + 1
    /\ acked' = rx_nxt
    /\ UNCHANGED <<pushpending, send_ack, xmitting, rx_ack, rx>>
    /\ UNCHANGED rxVars

\* The device is done, and output tells notify.
OutputSent ==
    /\ outputs > 0
    /\ outputs' = outputs - 1
    /\ rx_ack' = Put(rx_ack, "ack")
    /\ UNCHANGED <<pushpending, send_ack, xmitting, acked, rx>>
    /\ UNCHANGED rxVars

\* notify is told that an ACK has gone out, and takes again.
Notify ==
    /\ rx_ack.handed # <<>>
    /\ pushpending' = FALSE
    /\ rx_ack' = Take(Consume(rx_ack))
    /\ UNCHANGED <<send_ack, xmitting, outputs, acked, rx>>
    /\ UNCHANGED rxVars

\* A retransmission or a keepalive probe: xmit_pcb alone.
Retransmit ==
    /\ state # "Reset" \/ keepalive
    /\ acked' = rx_nxt
    /\ UNCHANGED <<pushpending, send_ack, xmitting, outputs, rx_ack, rx>>
    /\ UNCHANGED rxVars

-----------------------------------------------------------------------------

Input(s) == InputOk(s) \/ InputChallenge(s) \/ InputReset(s)

RxThread == RxData \/ RxQueue \/ RxLoop \/ RxEof
TxThread == SendEmptyAck \/ EmptyAckSent \/ Notify
Transmit == Output \/ OutputSent \/ Retransmit
App      == ReadWaits \/ ReadTakes \/ CancelRead

Next ==
    \/ \E s \in PeerSegs : Input(s)
    \/ PutEof \/ RxThread \/ TxThread \/ Transmit \/ App \/ KeepaliveClose

Spec == Init /\ [][Next]_vars

\* The Lwt scheduler runs every thread that can go on and the device completes
\* every transmission; the application keeps reading; the peer retransmits the
\* next byte until it gets through.
Fairness ==
    /\ WF_vars(RxThread) /\ WF_vars(PutEof)
    /\ WF_vars(SendEmptyAck) /\ WF_vars(EmptyAckSent)
    /\ WF_vars(OutputSent) /\ WF_vars(Notify)
    /\ WF_vars(ReadWaits \/ ReadTakes)
    /\ SF_vars(\E s \in PeerSegs : s.seq = rx_nxt_inseq /\ SegLen(s) > 0 /\ InputOk(s))

FairSpec == Spec /\ Fairness

-----------------------------------------------------------------------------
(* Properties.                                                             *)

\* Every variable has the type the code gives it, and the mvars are in states
\* that put and take leave them in.
TypeOK ==
    /\ segs \subseteq PeerSegs
    /\ rx_nxt \in Int /\ rx_nxt_inseq \in Int /\ acked \in Int
    /\ rx_wnd \in Nat
    /\ IsMvar(rx_data, RxValue)
    /\ eof_puts \in Nat
    /\ rx \in [pc : {"take", "ack", "queue", "blocked", "done"}, rest : SUBSET Item]
    /\ pushpending \in BOOLEAN
    /\ IsMvar(send_ack, {"ack"}) /\ xmitting \in BOOLEAN
    /\ outputs \in Nat /\ IsMvar(rx_ack, {"ack"})
    /\ urx \in [q : Seq(Item), writers : Seq(UrxWriter), readers : Nat, cur_size : Int]
    /\ keepalive \in BOOLEAN
    /\ state \in {"Established", "Close_wait", "Reset"}
    /\ received \in Seq(Item)

\* Flow.Rx.thread waits at most once among the blocked writers of the buffer,
\* and only while it is blocked there.
WritersAgree ==
    \A i \in DOMAIN urx.writers : urx.writers[i].owner = "rx" =>
        /\ rx.pc = "blocked"
        /\ \A j \in DOMAIN urx.writers : urx.writers[j].owner = "rx" => j = i

\* The threads are where the queues they wait in say they are: one that is not
\* in a take has not been handed a value it could miss, Flow.Rx.thread is blocked
\* in its put into send_ack just when that put waits there, and what wakes it
\* from the application's buffer finds it there.
ThreadsAgree ==
    /\ WritersAgree
    /\ rx.pc # "take" => ~rx_data.reading /\ rx_data.handed = <<>>
    /\ xmitting => ~send_ack.reading /\ send_ack.handed = <<>>
    /\ send_ack.writers = IF rx.pc = "ack" THEN <<"ack">> ELSE <<>>

\* No ACK is lost (Ack.Immediate).  receive asks for none while pushpending is
\* set, and notify clears pushpending for an ACK that may be older than the
\* data just taken.  Still, when the peer has not been told of all of rx_nxt,
\* or pushpending is set, a request is where send_empty_ack will find it.
AckRequested ==
    rx_nxt # acked \/ pushpending => send_ack.contents # <<>> \/ send_ack.handed # <<>>

\* The application's buffer does not stall (User_buffer.Rx): while a writer is
\* blocked there is something to read, whose reading can wake it, and while a
\* reader waits there is nothing it could have been given.
NoStall ==
    /\ urx.writers # <<>> => urx.q # <<>>
    /\ urx.readers > 0 => urx.q = <<>> /\ urx.writers = <<>>

\* The end of the stream is not lost (Segment.Rx.input): once the FIN is in
\* sequence the application has been told, or a thread is about to tell it.
FinTold ==
    rx_nxt_inseq > FinSeq =>
        \/ eof_puts > 0
        \/ rx.pc \in {"blocked", "done"}
        \/ \E q \in {rx_data.handed, rx_data.contents, rx_data.writers} :
            \E i \in DOMAIN q : q[i].eof \/ q[i].fin

\* The walk of Segment.Rx.input, one segment: it is behind the next sequence
\* number and dropped, or it is the next one, or it has to wait.
WalkStep(acc, s) ==
    IF Compare(s.seq, acc.n) < 0 THEN [acc EXCEPT !.force = TRUE]
    ELSE IF Compare(s.seq, acc.n) = 0
    THEN [acc EXCEPT !.n = @ + SegLen(s), !.ready = @ \cup {s}]
    ELSE [acc EXCEPT !.force = TRUE, !.waiting = @ \cup {s}]

\* The whole walk, over the set in its order, from the sequence number n.
Walk(set, n) ==
    LET walk[S \in SUBSET set] ==
            IF S = {} THEN [n |-> n, ready |-> {}, waiting |-> {}, force |-> FALSE]
            ELSE LET s == CHOOSE t \in LastOf(S) : TRUE IN WalkStep(walk[S \ {s}], s)
    IN  walk[set]

\* Reassembly is that walk (Segment.Rx.input), for every segment that may come
\* next: one set of segments fits IsReady and it is the one the walk finds ready,
\* Waiting is the one it keeps, Advances is how far it moves rx_nxt_inseq, and it
\* asks for an ACK just when not all of them are ready.
InputIsWalk ==
    \A s \in PeerSegs :
        LET set  == Add(s, segs)
            walk == Walk(set, rx_nxt_inseq)
        IN  /\ {r \in SUBSET set : IsReady(r, set, rx_nxt_inseq)} = {walk.ready}
            /\ Waiting(set, walk.ready, rx_nxt_inseq) = walk.waiting
            /\ \E adv \in Advances(walk.ready, rx_nxt_inseq) : Compare(rx_nxt_inseq + adv, walk.n) = 0
            /\ walk.force <=> set # walk.ready

\* The values on their way through rx_data, and what rx_nxt is when the first i
\* of them have been taken.
InFlight == rx_data.handed \o rx_data.contents \o rx_data.writers

Advanced ==
    LET upto[i \in 0..Len(InFlight)] == IF i = 0 THEN rx_nxt ELSE upto[i - 1] + InFlight[i].adv
    IN  upto

\* Every byte in sequence advances rx_nxt once (Flow.Rx.thread): the advances
\* that wait in rx_data make up the difference to rx_nxt_inseq, so the peer is
\* told of no byte the connection does not hold, and of each that it does.
AdvanceConserved == Advanced[Len(InFlight)] = rx_nxt_inseq

\* What the application has, read or queued, and where in the stream the data
\* among its first i items ends.
Delivered == received \o urx.q

DataEnd ==
    LET end[i \in 0..Len(Delivered)] ==
            IF i = 0 THEN First
            ELSE IF Delivered[i] = Eof THEN end[i - 1] ELSE Delivered[i].seq + Delivered[i].len
    IN  end

Blocked == {urx.writers[i].item : i \in DOMAIN urx.writers} \ {Eof}

\* Every byte from a to b is in just one of the items, and nothing else is.
Tiles(items, a, b) ==
    /\ a <= b
    /\ \A s \in items : s.len > 0 /\ a <= s.seq /\ s.seq + s.len <= b
    /\ \A x \in a..(b - 1) : \E s \in items : s.seq <= x /\ x < s.seq + s.len
    /\ \A s, t \in items : s = t \/ s.seq + s.len <= t.seq \/ t.seq + t.len <= s.seq

\* The bytes before the sequence number n: the FIN's number is of none.
Bytes(n) == IF n > FinSeq THEN FinSeq ELSE n

\* The bytes in sequence are where their advances say (Segment.Rx.input,
\* Flow.Rx.thread, User_buffer.Rx): what the application has been given is the
\* peer's stream from its first byte, in order; the batch that is being queued,
\* with the payload that is blocked, goes on from there to rx_nxt; and each batch
\* in rx_data has the bytes that it will advance rx_nxt by.
StreamIntact ==
    /\ \A i \in DOMAIN Delivered :
          Delivered[i] # Eof => Delivered[i].len > 0 /\ Delivered[i].seq = DataEnd[i - 1]
    /\ Tiles(rx.rest \cup Blocked, DataEnd[Len(Delivered)], Bytes(rx_nxt))
    /\ \A b \in Blocked, s \in rx.rest : b.seq < s.seq
    /\ \A i \in DOMAIN InFlight :
          Tiles(InFlight[i].data, Bytes(Advanced[i - 1]), Bytes(Advanced[i]))

\* What the application reads is what ByteStream promises it.
Stream == INSTANCE ByteStream
    WITH Start <- First, Finish <- FinSeq, out <- received, aborted <- (state = "Reset")

ImplementsByteStream == Stream!Spec

\* The application reads the whole stream and its end.
StreamDelivered == <>(\E i \in DOMAIN received : received[i] = Eof)

\* The peer is told of all the data that has been taken for the application.
AckEventually == rx_nxt # acked ~> rx_nxt = acked

=============================================================================
