------------------------- MODULE TcpTransmitProofs --------------------------
(***************************************************************************)
(* Theorems about TcpTransmit, for every value of its constants: that its  *)
(* variables keep their types, that the queue of segments tiles the        *)
(* sequence space between snd_una and tx_nxt, that rto_t finds a segment   *)
(* when it wants to retransmit one, and that the timer runs while there is *)
(* something to retransmit.                                                *)
(***************************************************************************)
EXTENDS TcpTransmit, LwtMvarProofs, NaturalSets

(* The inductive invariant, beyond the properties themselves.              *)

\* Segments and chunks have data, and come in their order.
SegsOrdered ==
    /\ \A i \in DOMAIN segs : SeqLen(segs[i]) >= 1 /\ SeqEnd(segs[i]) <= wnd.tx_nxt
    /\ \A i, j \in DOMAIN segs : i < j => SeqEnd(segs[i]) <= segs[j].seq

ChunkEnd(c) == c.pos + c.len

\* A buffer whose chunks follow one another up to byte end, and are no more
\* than bytes.
Chain(buf, end, bytes) ==
    /\ \A i \in DOMAIN buf : buf[i].len >= 1
    /\ \A i, j \in DOMAIN buf : j = i + 1 => ChunkEnd(buf[i]) = buf[j].pos
    /\ \A i, j \in DOMAIN buf : i < j => ChunkEnd(buf[i]) <= buf[j].pos
    /\ buf # <<>> => ChunkEnd(buf[Len(buf)]) = end /\ bytes >= end - buf[1].pos

\* A window in which fast recovery and cwnd make sense.
Sane(w) ==
    /\ w.snd_una <= w.tx_nxt /\ w.fast_rec_th <= w.tx_nxt
    /\ w.cwnd >= 1
    /\ w.fast_recovery => w.ssthresh >= 1

\* The connection is past its handshake, and Time_wait ends in Closed only.
StateOpen ==
    /\ state.name \notin {"Listen", "Syn_rcvd", "Syn_sent"}
    /\ timewait => state.name \in {"Time_wait", "Closed"}

\* rto_t holds no ACK that it has not looked at, unless it is at its take.
RtoAgrees == rto # "take" => ~tx_ack.reading /\ tx_ack.handed = <<>>

\* The invariant, by the parts of the state it is about.
SegInv ==
    /\ wnd \in Wnd /\ Sane(wnd)
    /\ segs \in Seq(Seg) /\ SegsOrdered /\ SegsTile
    /\ timer \in [running : BOOLEAN, seq : Int] /\ TimerArmed
    /\ wire \in Seq(Seg)

AckInv ==
    /\ IsMvar(tx_ack, {"ack"}) /\ IsMvar(tx_wnd_update, {"wnd"})
    /\ rto \in {"take", "put"} /\ RtoAgrees

AppInv ==
    /\ buffer \in Seq(Chunk) /\ bufbytes \in Nat /\ written \in Nat
    /\ Chain(buffer, written, bufbytes)
    /\ waiters \in Seq(Writers \cup Closers) /\ pc \in [Threads -> Places]
    /\ left \in [Writers -> Nat]

StInv ==
    /\ state \in State /\ finwait2 \in Seq(Int) /\ timewait \in BOOLEAN
    /\ peer_fin \in BOOLEAN /\ StateOpen

IInv == SegInv /\ AckInv /\ AppInv /\ StInv /\ dup_acks \in 0..4

-----------------------------------------------------------------------------
(* State.tick.                                                             *)

Inputs == {"Recv_ack", "Recv_rst", "Recv_fin", "Send_fin", "Timeout"}

Transmitting == {"Established", "Fin_wait_1", "Close_wait", "Last_ack"}

\* Where the moves of an open connection may lead.
LEMMA MoveFacts ==
    ASSUME NEW s \in State, NEW i, i.n \in Int, i.name \in Inputs, NEW name \in StateNames,
           <<s.name, i.name, name>> \in MovesOf(s, i),
           s.name \notin {"Listen", "Syn_rcvd", "Syn_sent"}
    PROVE  /\ name \notin {"Listen", "Syn_rcvd", "Syn_sent"}
           /\ s.name # "Reset"
           /\ name \in Transmitting => s.name \in Transmitting
           /\ s.name \in {"Time_wait", "Closed"} => name \in {"Time_wait", "Closed"}
           /\ i.name = "Timeout" => name = "Closed"
<1>1. <<s.name, i.name, name>> \in Moves \cup AckMoves
  BY DEF MovesOf
<1>2. CASE <<s.name, i.name, name>> \in Moves
  BY <1>2 DEF Moves, Inputs, Transmitting
<1>3. CASE <<s.name, i.name, name>> \in AckMoves
  BY <1>3 DEF AckMoves, Inputs, Transmitting
<1> QED BY <1>1, <1>2, <1>3

\* A timeout moves every state that retransmits.
LEMMA TimeoutMoves ==
    ASSUME NEW s \in State, NEW i, i.name = "Timeout", s.name \in Transmitting
    PROVE  <<s.name, i.name, "Closed">> \in MovesOf(s, i)
  BY DEF MovesOf, Moves, Transmitting

LEMMA CarriedType ==
    ASSUME NEW s \in State, NEW i, i.n \in Int, NEW name
    PROVE  Carried(s, i, name) \in Int
  BY DEF Carried, State

\* tick of an open connection.
LEMMA TickFacts ==
    ASSUME NEW s \in State, NEW i, i.n \in Int, i.name \in Inputs,
           s.name \notin {"Listen", "Syn_rcvd", "Syn_sent"}
    PROVE  /\ Tick(s, i) \in State
           /\ Tick(s, i).name \notin {"Listen", "Syn_rcvd", "Syn_sent"}
           /\ s.name = "Reset" => Tick(s, i).name = "Reset"
           /\ Tick(s, i).name \in Transmitting => s.name \in Transmitting
           /\ s.name \in {"Time_wait", "Closed"} => Tick(s, i).name \in {"Time_wait", "Closed"}
           /\ i.name = "Timeout" /\ s.name \in Transmitting => Tick(s, i).name = "Closed"
<1>1. CASE s.name = "Fin_wait_2" /\ i.name = "Recv_ack"
  <2>1. Tick(s, i) = [s EXCEPT !.n = @ + 1]
    BY <1>1 DEF Tick
  <2>2. Tick(s, i) \in State /\ Tick(s, i).name = s.name
    BY <2>1 DEF State
  <2> QED BY <1>1, <2>2 DEF Transmitting
<1>2. CASE ~(s.name = "Fin_wait_2" /\ i.name = "Recv_ack")
           /\ \E name \in StateNames : <<s.name, i.name, name>> \in MovesOf(s, i)
  <2> DEFINE to == CHOOSE name \in StateNames : <<s.name, i.name, name>> \in MovesOf(s, i)
  <2>1. to \in StateNames /\ <<s.name, i.name, to>> \in MovesOf(s, i)
    BY <1>2
  <2>2. Tick(s, i) = [name |-> to, n |-> Carried(s, i, to)]
    BY <1>2 DEF Tick
  <2> HIDE DEF to
  <2>3. Tick(s, i) \in State /\ Tick(s, i).name = to
    BY <2>1, <2>2, CarriedType DEF State
  <2> QED BY <2>1, <2>3, MoveFacts
<1>3. CASE ~(s.name = "Fin_wait_2" /\ i.name = "Recv_ack")
           /\ ~\E name \in StateNames : <<s.name, i.name, name>> \in MovesOf(s, i)
  <2>1. Tick(s, i) = s
    BY <1>3 DEF Tick
  <2>2. ~(i.name = "Timeout" /\ s.name \in Transmitting)
    BY <1>3, TimeoutMoves DEF StateNames
  <2> QED BY <2>1, <2>2
<1> QED BY <1>1, <1>2, <1>3

\* An input that ticks the state keeps what the invariant says of it, and a
\* reset or silent connection stays so.
LEMMA TicksKeep ==
    ASSUME StInv, NEW i, i.n \in Int, i.name \in Inputs, Ticks(i)
    PROVE  /\ state' \in State /\ finwait2' \in Seq(Int) /\ timewait' \in BOOLEAN
           /\ StateOpen'
           /\ state.name = "Reset" => state'.name = "Reset"
           /\ Retransmits' => Retransmits
           /\ i.name = "Timeout" /\ Retransmits => ~Retransmits'
<1>1. state \in State /\ finwait2 \in Seq(Int) /\ timewait \in BOOLEAN
  BY DEF StInv
<1>2. state' = Tick(state, i)
  BY DEF Ticks
<1>3. finwait2' \in Seq(Int)
  BY <1>1, OneValue DEF Ticks
<1>4. timewait' = (timewait \/ (state.name = "Fin_wait_2" /\ state'.name = "Time_wait"))
  BY <1>2 DEF Ticks, StartsTimewait
<1>5. /\ state' \in State
      /\ state'.name \notin {"Listen", "Syn_rcvd", "Syn_sent"}
      /\ state.name = "Reset" => state'.name = "Reset"
      /\ state'.name \in Transmitting => state.name \in Transmitting
      /\ state.name \in {"Time_wait", "Closed"} => state'.name \in {"Time_wait", "Closed"}
      /\ i.name = "Timeout" /\ state.name \in Transmitting => state'.name = "Closed"
  BY <1>1, <1>2, TickFacts DEF StInv, StateOpen
<1>6. StateOpen'
  BY <1>1, <1>4, <1>5 DEF StInv, StateOpen
<1>7. timewait' \in BOOLEAN
  BY <1>1, <1>4
<1> QED BY <1>3, <1>5, <1>6, <1>7 DEF Retransmits, Transmitting

-----------------------------------------------------------------------------
(* Window.                                                                 *)

LEMMA WndFields ==
    ASSUME NEW w \in Wnd
    PROVE  /\ w.tx_nxt \in Nat /\ w.snd_una \in Nat /\ w.tx_wnd \in Nat /\ w.cwnd \in Nat
           /\ w.ssthresh \in Nat /\ w.fast_recovery \in BOOLEAN /\ w.fast_rec_th \in Nat
           /\ w.backoff_count \in 0..(MaxRexmits + 1) /\ w.ack_serviced \in BOOLEAN
           /\ w.ack_seq \in Nat /\ w.ack_win \in Windows
  BY DEF Wnd

LEMMA WindowsNat == Windows \subseteq Nat /\ CwndCap \in Nat \ {0} /\ Mss \in Nat \ {0}
  BY TransmitAssumption

LEMMA DivNat == ASSUME NEW a \in Nat, NEW b \in Nat, b >= 1 PROVE a \div b \in Nat
  OBVIOUS

LEMMA SquareNat == ASSUME NEW a \in Nat PROVE a * a \in Nat
  OBVIOUS

\* cwnd grows by something, and stays within its bound.
LEMMA GrowFacts ==
    ASSUME NEW w \in Wnd, w.cwnd >= 1, NEW n \in Nat
    PROVE  /\ Grow(w, n) \in Wnd
           /\ Grow(w, n).cwnd >= 1
           /\ Grow(w, n) = [w EXCEPT !.cwnd = Grow(w, n).cwnd]
<1>1. MinOf(w.cwnd + n, CwndCap) \in Nat /\ MinOf(w.cwnd + n, CwndCap) >= 1
  BY WndFields, WindowsNat DEF MinOf
<1>2. Grow(w, n) = [w EXCEPT !.cwnd = MinOf(w.cwnd + n, CwndCap)]
  BY DEF Grow
<1> QED BY <1>1, <1>2 DEF Wnd

LEMMA CwndIncrNat == ASSUME NEW w \in Wnd, w.cwnd >= 1 PROVE CwndIncr(w) \in Nat
<1>1. Mss \in Nat /\ w.cwnd \in Nat
  BY WndFields, WindowsNat
<1>2. (Mss * Mss) \div w.cwnd \in Nat
  BY <1>1, SquareNat, DivNat
<1> QED BY <1>1, <1>2 DEF CwndIncr, MaxOf

\* An ACK of what was transmitted moves snd_una up to it, and ends fast recovery
\* if it reaches the threshold.
LEMMA TxAckFacts ==
    ASSUME NEW w \in Wnd, Sane(w), NEW r \in Int, r <= w.tx_nxt, NEW win \in Windows
    PROVE  /\ TxAck(w, r, win) \in Wnd /\ Sane(TxAck(w, r, win))
           /\ TxAck(w, r, win).tx_nxt = w.tx_nxt
           /\ TxAck(w, r, win).snd_una = MaxOf(w.snd_una, r)
           /\ r >= w.fast_rec_th => ~TxAck(w, r, win).fast_recovery
<1> DEFINE una == [w EXCEPT !.tx_wnd = win, !.snd_una = MaxOf(@, r)]
           out == [una EXCEPT !.cwnd = MinOf(w.ssthresh, CwndCap), !.fast_recovery = FALSE]
           new == [una EXCEPT !.backoff_count = IF r > w.snd_una THEN 0 ELSE @]
           t   == TxAck(w, r, win)
<1>1. win \in Nat /\ MaxOf(w.snd_una, r) \in Nat /\ MaxOf(w.snd_una, r) <= w.tx_nxt
  BY WndFields, WindowsNat DEF MaxOf, Sane
<1>2. /\ una \in Wnd /\ Sane(una) /\ una.tx_nxt = w.tx_nxt
      /\ una.snd_una = MaxOf(w.snd_una, r) /\ una.fast_recovery = w.fast_recovery
      /\ una.backoff_count = w.backoff_count /\ una.cwnd = w.cwnd
  <2> HIDE DEF una
  <2>1. una = [w EXCEPT !.tx_wnd = win, !.snd_una = MaxOf(w.snd_una, r)]
    BY DEF una
  <2> QED BY <1>1, <2>1, WndFields DEF Wnd, Sane
<1> HIDE DEF una
<1>3. CASE w.fast_recovery /\ r >= w.fast_rec_th
  <2>1. t = out
    BY <1>3 DEF TxAck, una
  <2>2. MinOf(w.ssthresh, CwndCap) \in Nat /\ MinOf(w.ssthresh, CwndCap) >= 1
    BY <1>3, WndFields, WindowsNat DEF MinOf, Sane
  <2> QED BY <1>2, <2>1, <2>2 DEF Wnd, Sane
<1>4. CASE w.fast_recovery /\ ~(r >= w.fast_rec_th)
  <2>1. t = Grow(una, Mss)
    BY <1>4 DEF TxAck, una
  <2>2. /\ t \in Wnd /\ t.cwnd >= 1 /\ t = [una EXCEPT !.cwnd = t.cwnd]
    BY <1>2, <2>1, GrowFacts, WindowsNat DEF Sane
  <2> QED BY <1>2, <1>4, <2>2 DEF Wnd, Sane
<1>5. CASE ~w.fast_recovery
  <2>1. t = Grow(new, CwndIncr(w))
    BY <1>5 DEF TxAck, una
  <2>2. new \in Wnd /\ Sane(new) /\ new.tx_nxt = w.tx_nxt /\ ~new.fast_recovery
        /\ new.snd_una = MaxOf(w.snd_una, r)
    BY <1>2, <1>5, WndFields, TransmitAssumption DEF Wnd, Sane
  <2> HIDE DEF new
  <2>3. CwndIncr(w) \in Nat
    BY CwndIncrNat DEF Sane
  <2>4. t \in Wnd /\ t.cwnd >= 1 /\ t = [new EXCEPT !.cwnd = t.cwnd]
    BY <2>1, <2>2, <2>3, GrowFacts DEF Sane
  <2> QED BY <2>2, <2>4 DEF Wnd, Sane
<1> QED BY <1>3, <1>4, <1>5, WndFields

\* Fast recovery leaves the sequence numbers alone.
LEMMA AlertFacts ==
    ASSUME NEW w \in Wnd, Sane(w)
    PROVE  /\ AlertFastRexmit(w) \in Wnd /\ Sane(AlertFastRexmit(w))
           /\ AlertFastRexmit(w).tx_nxt = w.tx_nxt
           /\ AlertFastRexmit(w).snd_una = w.snd_una
           /\ AlertFastRexmit(w).backoff_count = w.backoff_count
<1> DEFINE inflight == w.tx_nxt - w.snd_una
           thresh   == MaxOf(inflight \div 2, 2 * Mss)
           cwnd     == MinOf(inflight + 2 * Mss, CwndCap)
           a        == AlertFastRexmit(w)
<1>1. CASE w.fast_recovery
  BY <1>1 DEF AlertFastRexmit
<1>2. CASE ~w.fast_recovery
  <2>1. inflight \in Nat
    BY WndFields DEF Sane
  <2>2. thresh \in Nat /\ thresh >= 1 /\ cwnd \in Nat /\ cwnd >= 1
    BY <2>1, WindowsNat DEF MaxOf, MinOf
  <2>3. a = [w EXCEPT !.fast_recovery = TRUE, !.fast_rec_th = w.tx_nxt, !.ssthresh = thresh,
                      !.cwnd = cwnd]
    BY <1>2 DEF AlertFastRexmit
  <2> HIDE DEF thresh, cwnd, a
  <2>4. a \in Wnd
    BY <2>2, <2>3, WndFields DEF Wnd
  <2>5. /\ a.tx_nxt = w.tx_nxt /\ a.snd_una = w.snd_una /\ a.backoff_count = w.backoff_count
        /\ a.fast_rec_th = w.tx_nxt /\ a.ssthresh = thresh /\ a.cwnd = cwnd
    BY <2>3 DEF Wnd
  <2>6. Sane(a)
    BY <2>2, <2>5, WndFields DEF Sane
  <2> QED BY <2>4, <2>5, <2>6 DEF a
<1> QED BY <1>1, <1>2, WndFields

-----------------------------------------------------------------------------
(* The queue of segments.                                                  *)

LEMMA SegFields ==
    ASSUME NEW s \in Seg
    PROVE  /\ s.seq \in Int /\ s.pos \in Int /\ s.len \in Nat /\ s.fin \in BOOLEAN
           /\ SeqLen(s) \in Nat /\ SeqEnd(s) \in Int /\ SeqEnd(s) = s.seq + SeqLen(s)
           /\ \A n \in Int : [s EXCEPT !.seq = n] \in Seg
  BY DEF Seg, SeqLen, SeqEnd

\* A step that leaves the segments alone keeps the invariant about them.
LEMMA SegKeep ==
    ASSUME SegInv, UNCHANGED segVars, state.name = "Reset" => state'.name = "Reset",
           Retransmits' => Retransmits
    PROVE  SegInv'
<1>1. wnd' = wnd /\ segs' = segs /\ timer' = timer /\ wire' = wire
  BY DEF segVars
<1>2. SegsTile' /\ SegsOrdered'
  BY <1>1 DEF SegInv, SegsTile, SegsOrdered
<1>3. TimerArmed'
  BY <1>1 DEF SegInv, TimerArmed
<1> QED BY <1>1, <1>2, <1>3 DEF SegInv

\* output of something puts it at the end, from tx_nxt on.
LEMMA OutputKeeps ==
    ASSUME SegInv, NEW data \in Chunk, NEW fin \in BOOLEAN, data.len >= 1 \/ fin,
           Output(data, fin), state.name = "Reset" => state'.name = "Reset"
    PROVE  SegInv'
<1> DEFINE seg == [seq |-> wnd.tx_nxt, pos |-> data.pos, len |-> data.len, fin |-> fin]
           n   == Len(segs)
<1>1. /\ wnd' = [wnd EXCEPT !.tx_nxt = @ + SeqLen(seg)] /\ segs' = Append(segs, seg)
      /\ timer' = IF timer.running THEN timer ELSE [running |-> TRUE, seq |-> seg.seq]
      /\ wire' = <<seg>>
  BY DEF Output
<1>2. seg \in Seg /\ seg.seq = wnd.tx_nxt /\ SeqLen(seg) >= 1
  BY WndFields DEF Seg, Chunk, SeqLen, SegInv
<1> HIDE DEF seg
<1>3. wnd' \in Wnd /\ Sane(wnd') /\ wnd'.tx_nxt = SeqEnd(seg) /\ wnd'.snd_una = wnd.snd_una
  <2>1. wnd \in Wnd /\ Sane(wnd) /\ SeqLen(seg) \in Nat
    BY <1>2, SegFields DEF SegInv
  <2>2. wnd.tx_nxt + SeqLen(seg) \in Nat /\ wnd.tx_nxt + SeqLen(seg) >= wnd.tx_nxt
    BY <2>1, WndFields
  <2>3. wnd' = [wnd EXCEPT !.tx_nxt = wnd.tx_nxt + SeqLen(seg)]
    BY <1>1
  <2>4. wnd' \in Wnd
    BY <2>1, <2>2, <2>3 DEF Wnd
  <2>5. /\ wnd'.tx_nxt = wnd.tx_nxt + SeqLen(seg) /\ wnd'.snd_una = wnd.snd_una
        /\ wnd'.fast_rec_th = wnd.fast_rec_th /\ wnd'.cwnd = wnd.cwnd
        /\ wnd'.fast_recovery = wnd.fast_recovery /\ wnd'.ssthresh = wnd.ssthresh
    BY <2>1, <2>3 DEF Wnd
  <2>6. Sane(wnd')
    BY <2>1, <2>2, <2>5, WndFields DEF Sane
  <2>7. SeqEnd(seg) = wnd.tx_nxt + SeqLen(seg)
    BY <1>2, SegFields
  <2> QED BY <2>4, <2>5, <2>6, <2>7
<1>4. /\ segs' \in Seq(Seg) /\ Len(segs') = n + 1 /\ DOMAIN segs' = 1..(n + 1) /\ n \in Nat
      /\ \A i \in 1..n : segs'[i] = segs[i] /\ segs[i] \in Seg
      /\ segs'[n + 1] = seg /\ DOMAIN segs = 1..n /\ segs' # <<>>
  <2>1. segs \in Seq(Seg)
    BY DEF SegInv
  <2> QED BY <1>1, <1>2, <2>1, AppendProperties, LenProperties, ElementOfSeq
<1> HIDE DEF n
<1>5. SegsOrdered'
  <2>1. \A i \in 1..n : SeqLen(segs[i]) >= 1 /\ SeqEnd(segs[i]) <= wnd.tx_nxt
    BY <1>4 DEF SegInv, SegsOrdered
  <2>2. \A i \in 1..n : SeqEnd(segs[i]) <= seg.seq
    BY <1>2, <2>1
  <2>3. wnd.tx_nxt <= wnd'.tx_nxt /\ wnd.tx_nxt \in Nat /\ wnd'.tx_nxt \in Nat
    BY <1>2, <1>3, SegFields, WndFields DEF SegInv
  <2>4. \A i \in 1..(n + 1) : SeqLen(segs'[i]) >= 1 /\ SeqEnd(segs'[i]) <= wnd'.tx_nxt
    <3> SUFFICES ASSUME NEW i \in 1..(n + 1)
                 PROVE  SeqLen(segs'[i]) >= 1 /\ SeqEnd(segs'[i]) <= wnd'.tx_nxt
      OBVIOUS
    <3>1. CASE i \in 1..n
      BY <1>4, <2>1, <2>3, <3>1, SegFields
    <3>2. CASE i = n + 1
      BY <1>2, <1>3, <1>4, <3>2, SegFields
    <3> QED BY <1>4, <3>1, <3>2
  <2>5. \A i, j \in 1..(n + 1) : i < j => SeqEnd(segs'[i]) <= segs'[j].seq
    <3>1. \A i, j \in 1..n : i < j => SeqEnd(segs[i]) <= segs[j].seq
      BY <1>4 DEF SegInv, SegsOrdered
    <3> SUFFICES ASSUME NEW i \in 1..(n + 1), NEW j \in 1..(n + 1), i < j
                 PROVE  SeqEnd(segs'[i]) <= segs'[j].seq
      OBVIOUS
    <3>2. i \in 1..n /\ segs'[i] = segs[i]
      BY <1>4
    <3>3. CASE j \in 1..n
      BY <1>4, <3>1, <3>2, <3>3
    <3>4. CASE j = n + 1
      BY <1>4, <2>2, <3>2, <3>4
    <3> QED BY <1>4, <3>3, <3>4
  <2> QED BY <1>4, <2>4, <2>5 DEF SegsOrdered
<1>6. SegsTile'
  <2> SUFFICES ASSUME state'.name # "Reset"
               PROVE  /\ segs'[1].seq = wnd'.snd_una
                      /\ SeqEnd(segs'[n + 1]) = wnd'.tx_nxt
                      /\ \A i \in 1..n : segs'[i + 1].seq = SeqEnd(segs'[i])
    BY <1>4 DEF SegsTile
  <2>1. /\ segs = <<>> => wnd.snd_una = wnd.tx_nxt
        /\ segs # <<>> => segs[1].seq = wnd.snd_una /\ SeqEnd(segs[n]) = wnd.tx_nxt
        /\ \A i \in 1..(n - 1) : segs[i + 1].seq = SeqEnd(segs[i])
    BY DEF SegInv, SegsTile, n
  <2>2. CASE n = 0
    <3>1. segs = <<>>
      BY <2>2, EmptySeq DEF SegInv, n
    <3> QED BY <1>2, <1>3, <1>4, <2>1, <2>2, <3>1
  <2>3. CASE n > 0
    <3>1. segs # <<>>
      BY <2>3, EmptySeq DEF n
    <3>2. \A i \in 1..n : segs'[i + 1].seq = SeqEnd(segs'[i])
      <4> SUFFICES ASSUME NEW i \in 1..n PROVE segs'[i + 1].seq = SeqEnd(segs[i])
        BY <1>4
      <4>1. CASE i = n
        BY <1>2, <1>4, <2>1, <3>1, <4>1
      <4>2. CASE i # n
        BY <1>4, <2>1, <4>2
      <4> QED BY <4>1, <4>2
    <3> QED BY <1>3, <1>4, <2>1, <2>3, <3>1, <3>2
  <2> QED BY <1>4, <2>2, <2>3
<1>7. timer' \in [running : BOOLEAN, seq : Int] /\ timer'.running
  BY <1>1, <1>2, SegFields DEF SegInv
<1>8. wire' \in Seq(Seg)
  BY <1>1, <1>2, OneValue
<1> QED BY <1>3, <1>4, <1>5, <1>6, <1>7, <1>8 DEF SegInv, TimerArmed

\* What clearsegs takes off covers the sequence space from snd_una on.
LEMMA ClearedFacts ==
    ASSUME SegInv, state.name # "Reset", NEW n \in Int, NEW k \in ClearSegs(n)
    PROVE  /\ k \in 0..Len(segs) /\ ClearedLen(k) \in Nat
           /\ wnd.snd_una + ClearedLen(k) <= wnd.tx_nxt
           /\ k = Len(segs) => wnd.snd_una + ClearedLen(k) = wnd.tx_nxt
           /\ k < Len(segs) => segs[k + 1].seq = wnd.snd_una + ClearedLen(k)
           /\ n = 0 /\ segs # <<>> => k < Len(segs)
<1> DEFINE m == Len(segs)
<1>1. k \in 0..m /\ ClearedLen(k) <= n /\ m \in Nat
  BY LenProperties DEF ClearSegs, SegInv
<1>2. /\ \A i \in 1..m : segs[i] \in Seg /\ SeqLen(segs[i]) >= 1 /\ SeqEnd(segs[i]) <= wnd.tx_nxt
      /\ \A i, j \in 1..m : i < j => SeqEnd(segs[i]) <= segs[j].seq
  BY LenProperties, ElementOfSeq DEF SegInv, SegsOrdered
<1>3. /\ segs = <<>> => wnd.snd_una = wnd.tx_nxt
      /\ segs # <<>> => segs[1].seq = wnd.snd_una /\ SeqEnd(segs[m]) = wnd.tx_nxt
      /\ \A i \in 1..(m - 1) : segs[i + 1].seq = SeqEnd(segs[i])
  BY DEF SegInv, SegsTile
<1>4. wnd.snd_una \in Nat /\ wnd.tx_nxt \in Nat /\ wnd.snd_una <= wnd.tx_nxt
  BY WndFields DEF SegInv, Sane
<1>5. segs = <<>> <=> m = 0
  BY EmptySeq DEF SegInv
<1> HIDE DEF m
<1>6. CASE k = 0
  <2>1. ClearedLen(k) = 0
    BY <1>6 DEF ClearedLen
  <2> QED BY <1>1, <1>3, <1>4, <1>5, <1>6, <2>1 DEF m
<1>7. CASE k > 0
  <2>1. ClearedLen(k) = SeqEnd(segs[k]) - segs[1].seq /\ segs # <<>>
    BY <1>1, <1>5, <1>7 DEF ClearedLen
  <2>2. SeqEnd(segs[k]) >= segs[1].seq + 1
    <3>1. SeqEnd(segs[k]) >= segs[k].seq + 1 /\ SeqEnd(segs[1]) >= segs[1].seq + 1
          /\ segs[1] \in Seg /\ segs[k] \in Seg
      BY <1>1, <1>2, <1>7, SegFields
    <3>2. k = 1 \/ SeqEnd(segs[1]) <= segs[k].seq
      BY <1>1, <1>2, <1>7
    <3> QED BY <3>1, <3>2, SegFields
  <2>3. segs[1] \in Seg /\ segs[k] \in Seg
    BY <1>1, <1>2, <1>7
  <2>4. segs[1].seq \in Int /\ SeqEnd(segs[k]) \in Int
    BY <2>3, SegFields
  <2>5. ClearedLen(k) \in Nat /\ ClearedLen(k) >= 1
    BY <2>1, <2>2, <2>4
  <2>6. wnd.snd_una + ClearedLen(k) = SeqEnd(segs[k])
    BY <1>3, <1>4, <2>1, <2>4
  <2>7. SeqEnd(segs[k]) <= wnd.tx_nxt /\ (k = m => SeqEnd(segs[k]) = wnd.tx_nxt)
    BY <1>1, <1>2, <1>3, <1>7, <2>1
  <2>8. k < m => segs[k + 1].seq = SeqEnd(segs[k])
    BY <1>1, <1>3, <1>7
  <2>9. n # 0
    BY <1>1, <2>5
  <2> QED BY <1>1, <2>5, <2>6, <2>7, <2>8, <2>9 DEF m
<1> QED BY <1>1, <1>6, <1>7

-----------------------------------------------------------------------------
(* rto_t.                                                                  *)

\* serviceack keeps the queue in order, and finds a segment to retransmit if it
\* wants one: an ACK that clears the queue ends fast recovery, and a duplicate
\* clears nothing.
LEMMA ServiceAckKeeps ==
    ASSUME SegInv, dup_acks \in 0..4, state.name # "Reset", ServiceAck,
           UNCHANGED <<timer, state>>
    PROVE  /\ SegInv' /\ dup_acks' \in 0..4 /\ rto' \in {"take", "put"}
           /\ wnd'.tx_nxt = wnd.tx_nxt /\ wnd'.snd_una >= wnd.snd_una
<1> DEFINE seq     == wnd.ack_seq
           ack_len == seq - wnd.snd_una
           dup     == ack_len = 0 /\ wnd.tx_wnd = wnd.ack_win /\ segs # <<>>
           W(k)      == TxAck(wnd, wnd.snd_una + ClearedLen(k), wnd.ack_win)
           Counts(k) == dup \/ W(k).fast_recovery
           Rexmit(k) == Counts(k) /\ (CountDup = 3 \/ ack_len > 0)
           m       == Len(segs)
<1>1. PICK k \in ClearSegs(ack_len) :
         /\ segs' = SubSeq(segs, k + 1, m)
         /\ dup_acks' = IF Counts(k) THEN CountDup ELSE 0
         /\ wnd' = [(IF Rexmit(k) THEN AlertFastRexmit(W(k)) ELSE W(k)) EXCEPT !.ack_serviced = TRUE]
         /\ wire' = IF Rexmit(k) /\ segs' # <<>> THEN <<[segs'[1] EXCEPT !.seq = seq]>> ELSE wire
         /\ rto' = IF Rexmit(k) /\ segs' = <<>> THEN "failed"
                   ELSE IF PutBlocks(tx_wnd_update) THEN "put" ELSE "take"
  BY DEF ServiceAck
<1> DEFINE r == wnd.snd_una + ClearedLen(k)
           w == W(k)
           rexmit == Rexmit(k)
<1>2. /\ wnd \in Wnd /\ Sane(wnd) /\ ack_len \in Int /\ seq \in Int
      /\ wnd.snd_una \in Nat /\ wnd.ack_win \in Windows /\ wnd.fast_rec_th <= wnd.tx_nxt
  BY WndFields DEF SegInv, Sane
<1>3. /\ k \in 0..m /\ r \in Nat /\ r >= wnd.snd_una /\ r <= wnd.tx_nxt
      /\ k = m => r = wnd.tx_nxt
      /\ k < m => segs[k + 1].seq = r
      /\ dup => k < m
  <2>1. /\ k \in 0..m /\ ClearedLen(k) \in Nat /\ r <= wnd.tx_nxt
        /\ k = m => r = wnd.tx_nxt
        /\ k < m => segs[k + 1].seq = r
        /\ ack_len = 0 /\ segs # <<>> => k < m
    <3> HIDE DEF ack_len, seq
    <3> QED BY <1>1, <1>2, ClearedFacts
  <2> QED BY <1>2, <2>1
<1>4. /\ w \in Wnd /\ Sane(w) /\ w.tx_nxt = wnd.tx_nxt /\ w.snd_una = r
      /\ r >= wnd.fast_rec_th => ~w.fast_recovery
  <2>1. MaxOf(wnd.snd_una, r) = r
    BY <1>2, <1>3 DEF MaxOf
  <2>2. r \in Int
    BY <1>3
  <2> HIDE DEF r
  <2>3. w = TxAck(wnd, r, wnd.ack_win)
    BY DEF r
  <2> HIDE DEF w, W
  <2> QED BY <1>2, <1>3, <2>1, <2>2, <2>3, TxAckFacts
<1>5. /\ wnd' \in Wnd /\ Sane(wnd') /\ wnd'.tx_nxt = wnd.tx_nxt /\ wnd'.snd_una = r
  <2> DEFINE v == IF rexmit THEN AlertFastRexmit(w) ELSE w
  <2>1. v \in Wnd /\ Sane(v) /\ v.tx_nxt = wnd.tx_nxt /\ v.snd_una = r
    <3> HIDE DEF w, r, rexmit
    <3> QED BY <1>4, AlertFacts
  <2>2. wnd' = [v EXCEPT !.ack_serviced = TRUE]
    BY <1>1
  <2> HIDE DEF v, r
  <2>3. wnd' \in Wnd /\ wnd'.tx_nxt = v.tx_nxt /\ wnd'.snd_una = v.snd_una
        /\ wnd'.fast_rec_th = v.fast_rec_th /\ wnd'.cwnd = v.cwnd
        /\ wnd'.fast_recovery = v.fast_recovery /\ wnd'.ssthresh = v.ssthresh
    BY <2>1, <2>2 DEF Wnd
  <2> QED BY <2>1, <2>3 DEF Sane
<1>6. /\ m \in Nat /\ DOMAIN segs = 1..m /\ segs \in Seq(Seg)
      /\ \A i \in 1..m : segs[i] \in Seg
      /\ segs = <<>> <=> m = 0
  BY LenProperties, ElementOfSeq, EmptySeq DEF SegInv
<1> HIDE DEF m, r, w, rexmit, ack_len, seq, dup, W, Counts, Rexmit
<1>7. /\ segs' \in Seq(Seg) /\ Len(segs') = m - k /\ DOMAIN segs' = 1..(m - k)
      /\ \A i \in 1..(m - k) : segs'[i] = segs[k + i] /\ k + i \in 1..m
      /\ segs' = <<>> <=> k = m
  <2>1. \A i \in (k + 1)..m : segs[i] \in Seg
    BY <1>3, <1>6
  <2>2. /\ segs' \in Seq(Seg) /\ Len(segs') = IF k + 1 <= m THEN m - (k + 1) + 1 ELSE 0
        /\ \A i \in 1..(m - (k + 1) + 1) : segs'[i] = segs[(k + 1) + i - 1]
    BY <1>1, <1>3, <1>6, <2>1, SubSeqProperties
  <2>3. Len(segs') = m - k /\ m - (k + 1) + 1 = m - k
    BY <1>3, <1>6, <2>2
  <2>4. \A i \in 1..(m - k) : (k + 1) + i - 1 = k + i /\ k + i \in 1..m
    BY <1>3, <1>6
  <2>5. DOMAIN segs' = 1..(m - k)
    BY <2>2, <2>3, LenProperties
  <2>6. segs' = <<>> <=> m - k = 0
    BY <2>2, <2>3, EmptySeq
  <2> QED BY <1>3, <1>6, <2>2, <2>3, <2>4, <2>5, <2>6
<1>8. SegsOrdered'
  <2>1. /\ \A i \in 1..m : SeqLen(segs[i]) >= 1 /\ SeqEnd(segs[i]) <= wnd.tx_nxt
        /\ \A i, j \in 1..m : i < j => SeqEnd(segs[i]) <= segs[j].seq
    BY <1>6 DEF SegInv, SegsOrdered
  <2>2. \A i \in 1..(m - k) : SeqLen(segs'[i]) >= 1 /\ SeqEnd(segs'[i]) <= wnd'.tx_nxt
    BY <1>5, <1>7, <2>1
  <2>3. ASSUME NEW i \in 1..(m - k), NEW j \in 1..(m - k), i < j
        PROVE  SeqEnd(segs'[i]) <= segs'[j].seq
    <3>1. k + i \in 1..m /\ k + j \in 1..m /\ k + i < k + j
      BY <1>3, <1>7, <2>3
    <3> QED BY <1>7, <2>1, <3>1
  <2> QED BY <1>7, <2>2, <2>3 DEF SegsOrdered
<1>9. SegsTile'
  <2>1. /\ segs # <<>> => SeqEnd(segs[m]) = wnd.tx_nxt
        /\ \A i \in 1..(m - 1) : segs[i + 1].seq = SeqEnd(segs[i])
    BY DEF SegInv, SegsTile, m
  <2>2. segs' = <<>> => wnd'.snd_una = wnd'.tx_nxt
    BY <1>3, <1>5, <1>7
  <2>3. ASSUME segs' # <<>> PROVE segs'[1].seq = wnd'.snd_una /\ SeqEnd(segs'[m - k]) = wnd'.tx_nxt
    <3>1. k < m /\ segs # <<>>
      BY <1>3, <1>6, <1>7, <2>3
    <3>2. segs'[1] = segs[k + 1] /\ segs'[m - k] = segs[m]
      <4>1. 1 \in 1..(m - k) /\ m - k \in 1..(m - k) /\ k + (m - k) = m
        BY <1>3, <1>6, <3>1
      <4> QED BY <1>7, <4>1
    <3> QED BY <1>3, <1>5, <2>1, <3>1, <3>2
  <2>4. ASSUME NEW i \in 1..((m - k) - 1) PROVE segs'[i + 1].seq = SeqEnd(segs'[i])
    <3>1. i \in 1..(m - k) /\ i + 1 \in 1..(m - k) /\ k + i \in 1..(m - 1)
          /\ k + (i + 1) = (k + i) + 1
      BY <1>3, <1>6
    <3> QED BY <1>7, <2>1, <3>1
  <2> QED BY <1>7, <2>2, <2>3, <2>4 DEF SegsTile
<1>10. wire' \in Seq(Seg)
  <2>1. CASE rexmit /\ segs' # <<>>
    <3>1. segs'[1] \in Seg
      BY <1>7, <2>1, ElementOfSeq, EmptySeq, LenProperties
    <3>2. [segs'[1] EXCEPT !.seq = seq] \in Seg
      BY <1>2, <3>1, SegFields
    <3>3. wire' = <<[segs'[1] EXCEPT !.seq = seq]>>
      BY <1>1, <2>1 DEF rexmit
    <3> QED BY <3>2, <3>3, OneValue
  <2>2. CASE ~(rexmit /\ segs' # <<>>)
    BY <1>1, <2>2 DEF SegInv, rexmit
  <2> QED BY <2>1, <2>2
<1>11. rto' \in {"take", "put"}
  <2>1. ~(rexmit /\ segs' = <<>>)
    <3> SUFFICES ASSUME segs' = <<>> PROVE ~rexmit
      OBVIOUS
    <3>1. k = m /\ r = wnd.tx_nxt
      BY <1>3, <1>7
    <3>2. ~dup
      BY <1>3, <1>6, <3>1
    <3>3. ~w.fast_recovery
      BY <1>2, <1>4, <3>1, WndFields
    <3> QED BY <3>2, <3>3 DEF rexmit, Rexmit, Counts, w
  <2> QED BY <1>1, <2>1 DEF rexmit
<1>12. dup_acks' \in 0..4
  BY <1>1 DEF CountDup, MinOf
<1>13. TimerArmed' /\ timer' \in [running : BOOLEAN, seq : Int]
  <2>1. segs' # <<>> => segs # <<>>
    BY <1>3, <1>6, <1>7
  <2>2. Retransmits' <=> Retransmits
    BY DEF Retransmits
  <2> QED BY <2>1, <2>2 DEF SegInv, TimerArmed
<1>14. wnd'.tx_nxt = wnd.tx_nxt /\ wnd'.snd_una >= wnd.snd_una
  BY <1>3, <1>5
<1> QED BY <1>5, <1>7, <1>8, <1>9, <1>10, <1>11, <1>12, <1>13, <1>14 DEF SegInv

LEMMA ResetSegsKeeps ==
    ASSUME SegInv, state.name = "Reset", ResetSegs, UNCHANGED <<timer, state>>
    PROVE  SegInv' /\ rto' \in {"take", "put"}
<1>1. segs' = <<>> /\ wnd' = [wnd EXCEPT !.ack_serviced = TRUE] /\ wire' = wire
  BY DEF ResetSegs
<1>2. wnd' \in Wnd /\ Sane(wnd')
  BY <1>1 DEF SegInv, Wnd, Sane
<1>3. segs' \in Seq(Seg) /\ SegsOrdered'
  BY <1>1, EmptySeq DEF SegsOrdered
<1>4. SegsTile' /\ TimerArmed'
  BY <1>1 DEF SegsTile, TimerArmed
<1>5. rto' \in {"take", "put"}
  BY DEF ResetSegs
<1> QED BY <1>1, <1>2, <1>3, <1>4, <1>5 DEF SegInv

LEMMA RtoAckStep == ASSUME IInv, RtoAck PROVE IInv'
<1>1. /\ tx_ack.handed # <<>>
      /\ tx_ack' = IF rto' = "take" THEN Take(Consume(tx_ack)) ELSE Consume(tx_ack)
      /\ UNCHANGED <<appVars, timer, stVars>>
      /\ (state.name = "Reset" /\ ResetSegs) \/ (state.name # "Reset" /\ ServiceAck)
  BY DEF RtoAck
<1>2. UNCHANGED <<timer, state>>
  BY <1>1 DEF stVars
<1>3. SegInv' /\ rto' \in {"take", "put"} /\ dup_acks' \in 0..4
  <2>1. CASE state.name = "Reset" /\ ResetSegs
    BY <1>2, <2>1, ResetSegsKeeps DEF IInv, ResetSegs
  <2>2. CASE state.name # "Reset" /\ ServiceAck
    BY <1>2, <2>2, ServiceAckKeeps DEF IInv
  <2> QED BY <1>1, <2>1, <2>2
<1>4. tx_wnd_update' = Put(tx_wnd_update, "wnd")
  BY <1>3 DEF RtoAck
<1>5. IsMvar(tx_wnd_update', {"wnd"})
  BY <1>4, PutEffect DEF IInv, AckInv
<1>6. /\ IsMvar(Consume(tx_ack), {"ack"}) /\ Consume(tx_ack).handed = <<>>
      /\ Consume(tx_ack).reading = tx_ack.reading
  BY ConsumeEffect DEF IInv, AckInv
<1>7. ~tx_ack.reading
  BY <1>1 DEF IInv, AckInv, IsMvar
<1>8. AckInv'
  <2>1. CASE rto' = "take"
    <3>1. IsMvar(tx_ack', {"ack"})
      BY <1>1, <1>6, <2>1, TakeEffect
    <3> QED BY <1>5, <2>1, <3>1 DEF AckInv, RtoAgrees
  <2>2. CASE rto' = "put"
    BY <1>1, <1>5, <1>6, <1>7, <2>2 DEF AckInv, RtoAgrees
  <2> QED BY <1>3, <2>1, <2>2
<1>9. AppInv' /\ StInv'
  BY <1>1 DEF appVars, stVars, IInv, AppInv, StInv, StateOpen, Chain
<1> QED BY <1>3, <1>8, <1>9 DEF IInv

-----------------------------------------------------------------------------
(* User_buffer.Tx.                                                         *)

\* Threads that wait and where they are.
Queued == waiters \in Seq(Writers \cup Closers) /\ pc \in [Threads -> Places]

LEMMA MovedType ==
    ASSUME pc \in [Threads -> Places], NEW t \in Threads, NEW place \in Places
    PROVE  Moved(t, place) \in [Threads -> Places]
  BY DEF Moved

LEMMA InformKeeps ==
    ASSUME AckInv, Queued, InformAndTake
    PROVE  AckInv' /\ Queued'
<1>1. Queued'
  <2>1. waiters # <<>> => Tail(waiters) \in Seq(Writers \cup Closers)
    BY HeadTailProperties DEF Queued
  <2>2. waiters' \in Seq(Writers \cup Closers)
    BY <2>1, EmptySeq DEF InformAndTake
  <2>3. pc' \in [Threads -> Places]
    BY DEF InformAndTake, Informed, Queued, Places
  <2> QED BY <2>2, <2>3 DEF Queued
<1>2. IsMvar(tx_wnd_update', {"wnd"})
  <2>1. IsMvar(Consume(tx_wnd_update), {"wnd"}) /\ Consume(tx_wnd_update).handed = <<>>
    BY ConsumeEffect DEF AckInv
  <2>2. tx_wnd_update' = Take(Consume(tx_wnd_update))
    BY DEF InformAndTake
  <2> QED BY <2>1, <2>2, TakeEffect
<1>3. CASE rto = "put"
  <2>1. rto' = "take" /\ tx_ack' = Take(tx_ack)
    BY <1>3 DEF InformAndTake
  <2>2. IsMvar(tx_ack', {"ack"})
    BY <1>3, <2>1, TakeEffect DEF AckInv, RtoAgrees
  <2> QED BY <1>1, <1>2, <2>1, <2>2 DEF AckInv, RtoAgrees
<1>4. CASE rto # "put"
  BY <1>1, <1>2, <1>4 DEF InformAndTake, AckInv, RtoAgrees
<1> QED BY <1>3, <1>4

LEMMA ClearedKeeps ==
    ASSUME AckInv, Queued, NEW t \in Threads, Cleared(t)
    PROVE  AckInv' /\ Queued'
<1>1. CASE t = "wnd"
  BY <1>1, InformKeeps DEF Cleared
<1>2. CASE t # "wnd"
  <2>1. pc' = Moved(t, "ready") /\ waiters' = waiters /\ UNCHANGED ackVars
    BY <1>2 DEF Cleared
  <2>2. "ready" \in Places
    BY DEF Places
  <2> QED BY <2>1, <2>2, MovedType DEF Queued, AckInv, RtoAgrees, ackVars
<1> QED BY <1>1, <1>2

\* A chain after its first k chunks have been sent.
LEMMA ChainTail ==
    ASSUME NEW buf \in Seq(Chunk), NEW end \in Nat, NEW bytes \in Nat, Chain(buf, end, bytes),
           NEW k \in 1..Len(buf)
    PROVE  /\ Length(buf, k) \in Nat /\ Length(buf, k) >= 1 /\ buf[1] \in Chunk
           /\ bytes - Length(buf, k) \in Nat
           /\ SubSeq(buf, k + 1, Len(buf)) \in Seq(Chunk)
           /\ Chain(SubSeq(buf, k + 1, Len(buf)), end, bytes - Length(buf, k))
<1> DEFINE m == Len(buf)
           rest == SubSeq(buf, k + 1, m)
           len == Length(buf, k)
<1>1. /\ m \in Nat /\ DOMAIN buf = 1..m /\ buf # <<>> /\ k \in 1..m
      /\ \A i \in 1..m : buf[i] \in Chunk /\ buf[i].pos \in Int /\ buf[i].len \in Nat
  <2>1. m \in Nat /\ DOMAIN buf = 1..m /\ k \in 1..m
    BY LenProperties
  <2>2. buf # <<>>
    BY <2>1, EmptySeq
  <2>3. \A i \in 1..m : buf[i] \in Chunk
    BY ElementOfSeq
  <2>4. \A i \in 1..m : buf[i].pos \in Int /\ buf[i].len \in Nat
    BY <2>3 DEF Chunk
  <2> QED BY <2>1, <2>2, <2>3, <2>4
<1>2. /\ \A i \in 1..m : buf[i].len >= 1
      /\ \A i, j \in 1..m : j = i + 1 => ChunkEnd(buf[i]) = buf[j].pos
      /\ \A i, j \in 1..m : i < j => ChunkEnd(buf[i]) <= buf[j].pos
      /\ ChunkEnd(buf[m]) = end /\ bytes >= end - buf[1].pos
  BY <1>1 DEF Chain
<1>3. len = ChunkEnd(buf[k]) - buf[1].pos
  <2>1. 1 \in 1..m /\ k \in 1..m
    BY <1>1
  <2>2. buf[k].pos \in Int /\ buf[k].len \in Nat /\ buf[1].pos \in Int
    BY <1>1, <2>1
  <2> QED BY <2>2 DEF Length, ChunkEnd
<1> HIDE DEF m, len
<1>4. ASSUME NEW i \in 1..m
      PROVE  ChunkEnd(buf[i]) \in Int /\ ChunkEnd(buf[i]) >= buf[i].pos + 1
  <2>1. buf[i].pos \in Int /\ buf[i].len \in Nat
    BY <1>1
  <2>2. buf[i].len >= 1
    BY <1>2
  <2>3. ChunkEnd(buf[i]) = buf[i].pos + buf[i].len
    BY DEF ChunkEnd
  <2> QED BY <2>1, <2>2, <2>3
<1>5. 1 \in 1..m /\ m \in 1..m
  BY <1>1
<1>6. ChunkEnd(buf[k]) >= buf[1].pos + 1
  <2>1. k = 1 \/ ChunkEnd(buf[1]) <= buf[k].pos
    BY <1>1, <1>2, <1>5
  <2>2. /\ buf[1].pos \in Int /\ buf[k].pos \in Int
        /\ ChunkEnd(buf[1]) \in Int /\ ChunkEnd(buf[1]) >= buf[1].pos + 1
        /\ ChunkEnd(buf[k]) \in Int /\ ChunkEnd(buf[k]) >= buf[k].pos + 1
    BY <1>1, <1>4, <1>5
  <2>3. CASE k = 1
    BY <2>2, <2>3
  <2>4. CASE ChunkEnd(buf[1]) <= buf[k].pos
    BY <2>2, <2>4
  <2> QED BY <2>1, <2>3, <2>4
<1>7. len \in Nat /\ len >= 1
  <2>1. ChunkEnd(buf[k]) \in Int /\ buf[1].pos \in Int
    BY <1>1, <1>4, <1>5
  <2> QED BY <1>3, <1>6, <2>1
<1>8. ChunkEnd(buf[k]) <= end
  <2>1. k = m \/ ChunkEnd(buf[k]) <= buf[m].pos
    BY <1>1, <1>2, <1>5
  <2>2. /\ ChunkEnd(buf[k]) \in Int /\ buf[m].pos \in Int
        /\ ChunkEnd(buf[m]) >= buf[m].pos + 1 /\ ChunkEnd(buf[m]) = end
    BY <1>1, <1>2, <1>4, <1>5
  <2>3. CASE k = m
    BY <2>2, <2>3
  <2>4. CASE ChunkEnd(buf[k]) <= buf[m].pos
    BY <2>2, <2>4
  <2> QED BY <2>1, <2>3, <2>4
<1>9. bytes - len \in Nat
  <2>1. buf[1].pos \in Int /\ ChunkEnd(buf[k]) \in Int /\ bytes >= end - buf[1].pos
    BY <1>1, <1>2, <1>4, <1>5
  <2> QED BY <1>3, <1>7, <1>8, <2>1
<1>10. /\ rest \in Seq(Chunk) /\ Len(rest) = m - k /\ DOMAIN rest = 1..(m - k)
       /\ \A i \in 1..(m - k) : rest[i] = buf[k + i] /\ k + i \in 1..m
  <2>1. \A i \in (k + 1)..m : buf[i] \in Chunk
    BY <1>1
  <2>2. /\ rest \in Seq(Chunk) /\ Len(rest) = IF k + 1 <= m THEN m - (k + 1) + 1 ELSE 0
        /\ \A i \in 1..(m - (k + 1) + 1) : rest[i] = buf[(k + 1) + i - 1]
    BY <1>1, <2>1, SubSeqProperties
  <2>3. Len(rest) = m - k /\ m - (k + 1) + 1 = m - k
    BY <1>1, <2>2
  <2>4. \A i \in 1..(m - k) : (k + 1) + i - 1 = k + i /\ k + i \in 1..m
    BY <1>1
  <2> QED BY <2>2, <2>3, <2>4, LenProperties
<1> HIDE DEF rest
<1>11. Chain(rest, end, bytes - len)
  <2>1. \A i \in 1..(m - k) : rest[i].len >= 1
    BY <1>2, <1>10
  <2>2. ASSUME NEW i \in 1..(m - k), NEW j \in 1..(m - k)
        PROVE  /\ j = i + 1 => ChunkEnd(rest[i]) = rest[j].pos
               /\ i < j => ChunkEnd(rest[i]) <= rest[j].pos
    <3>1. /\ k + i \in 1..m /\ k + j \in 1..m
          /\ j = i + 1 => k + j = (k + i) + 1
          /\ i < j => k + i < k + j
      BY <1>1, <1>10
    <3>2. rest[i] = buf[k + i] /\ rest[j] = buf[k + j]
      BY <1>10
    <3>3. j = i + 1 => ChunkEnd(buf[k + i]) = buf[k + j].pos
      BY <1>2, <3>1
    <3>4. i < j => ChunkEnd(buf[k + i]) <= buf[k + j].pos
      BY <1>2, <3>1
    <3> QED BY <3>2, <3>3, <3>4
  <2>3. ASSUME rest # <<>>
        PROVE  ChunkEnd(rest[Len(rest)]) = end /\ bytes - len >= end - rest[1].pos
    <3>1. m - k >= 1
      BY <1>1, <1>10, <2>3, EmptySeq
    <3>2. 1 \in 1..(m - k) /\ m - k \in 1..(m - k) /\ k + (m - k) = m /\ k + 1 \in 1..m
      BY <1>1, <3>1
    <3>3. rest[1] = buf[k + 1] /\ rest[m - k] = buf[m]
      BY <1>10, <3>2
    <3>4. ChunkEnd(buf[k]) = rest[1].pos
      BY <1>1, <1>2, <3>2, <3>3
    <3>5. bytes - len >= end - rest[1].pos
      <4>1. buf[1].pos \in Int /\ ChunkEnd(buf[k]) \in Int /\ bytes >= end - buf[1].pos
        BY <1>1, <1>2, <1>4, <1>5
      <4> QED BY <1>3, <1>7, <3>4, <4>1
    <3> QED BY <1>2, <1>10, <3>3, <3>5
  <2> QED BY <1>10, <2>1, <2>2, <2>3 DEF Chain
<1> QED BY <1>1, <1>5, <1>7, <1>9, <1>10, <1>11 DEF len, rest, m

\* clear_buffer sends what fills a segment, or returns.
LEMMA ClearBufferKeeps ==
    ASSUME SegInv, AckInv, Queued, NEW t \in Threads, NEW buf \in Seq(Chunk), NEW bytes \in Nat,
           NEW end \in Nat, Chain(buf, end, bytes), ClearBuffer(t, buf, bytes), state' = state
    PROVE  /\ SegInv' /\ AckInv' /\ Queued'
           /\ buffer' \in Seq(Chunk) /\ bufbytes' \in Nat /\ Chain(buffer', end, bufbytes')
<1>1. CASE /\ buffer' = buf /\ bufbytes' = bytes
           /\ Cleared(t)
           /\ UNCHANGED segVars
  BY <1>1, ClearedKeeps, SegKeep DEF Retransmits
<1>2. CASE /\ buf # <<>>
           /\ \E k \in 1..Len(buf) :
                /\ buffer' = SubSeq(buf, k + 1, Len(buf))
                /\ bufbytes' = bytes - Length(buf, k)
                /\ Output([pos |-> buf[1].pos, len |-> Length(buf, k)], FALSE)
           /\ pc' = Moved(t, "clearing")
           /\ tx_wnd_update' = IF t = "wnd" THEN Consume(tx_wnd_update) ELSE tx_wnd_update
           /\ UNCHANGED <<waiters, tx_ack, rto>>
  <2>1. PICK k \in 1..Len(buf) :
          /\ buffer' = SubSeq(buf, k + 1, Len(buf))
          /\ bufbytes' = bytes - Length(buf, k)
          /\ Output([pos |-> buf[1].pos, len |-> Length(buf, k)], FALSE)
    BY <1>2
  <2>2. /\ Length(buf, k) \in Nat /\ Length(buf, k) >= 1 /\ buf[1] \in Chunk
        /\ bytes - Length(buf, k) \in Nat
        /\ SubSeq(buf, k + 1, Len(buf)) \in Seq(Chunk)
        /\ Chain(SubSeq(buf, k + 1, Len(buf)), end, bytes - Length(buf, k))
    BY ChainTail
  <2> DEFINE data == [pos |-> buf[1].pos, len |-> Length(buf, k)]
  <2>3. data \in Chunk /\ data.len >= 1
    BY <2>2 DEF Chunk
  <2>4. Output(data, FALSE)
    BY <2>1
  <2> HIDE DEF data
  <2>5. SegInv'
    BY <2>3, <2>4, OutputKeeps
  <2>6. AckInv'
    BY <1>2, ConsumeEffect DEF AckInv, RtoAgrees
  <2>7. Queued'
    BY <1>2, MovedType DEF Queued, Places
  <2> QED BY <2>1, <2>2, <2>5, <2>6, <2>7
<1> QED BY <1>1, <1>2 DEF ClearBuffer

\* A write puts its bytes at the end of the chain.
LEMMA ChainAppend ==
    ASSUME NEW buf \in Seq(Chunk), NEW end \in Nat, NEW bytes \in Nat, Chain(buf, end, bytes),
           NEW n \in Nat, n >= 1, NEW c \in Chunk, c.pos = end, c.len = n
    PROVE  Append(buf, c) \in Seq(Chunk) /\ Chain(Append(buf, c), end + n, bytes + n)
<1> DEFINE m   == Len(buf)
           all == Append(buf, c)
<1>1. /\ m \in Nat /\ DOMAIN buf = 1..m
      /\ all \in Seq(Chunk) /\ Len(all) = m + 1 /\ DOMAIN all = 1..(m + 1) /\ all # <<>>
      /\ \A i \in 1..m : all[i] = buf[i]
      /\ all[m + 1] = c
  BY AppendProperties, LenProperties
<1>2. \A i \in 1..m : buf[i] \in Chunk /\ buf[i].pos \in Int /\ buf[i].len \in Nat
  <2>1. \A i \in 1..m : buf[i] \in Chunk
    BY ElementOfSeq
  <2> QED BY <2>1 DEF Chunk
<1>3. /\ \A i \in 1..m : buf[i].len >= 1
      /\ \A i, j \in 1..m : j = i + 1 => ChunkEnd(buf[i]) = buf[j].pos
      /\ \A i, j \in 1..m : i < j => ChunkEnd(buf[i]) <= buf[j].pos
      /\ m > 0 => ChunkEnd(buf[m]) = end /\ bytes >= end - buf[1].pos
  <2>1. m > 0 => buf # <<>>
    BY EmptySeq
  <2> QED BY <1>1, <2>1 DEF Chain
<1>4. \A i \in 1..m : ChunkEnd(buf[i]) \in Int /\ ChunkEnd(buf[i]) >= buf[i].pos + 1
  BY <1>2, <1>3 DEF ChunkEnd
<1> HIDE DEF m, all
<1>5. \A i \in 1..m : ChunkEnd(buf[i]) <= end
  <2> SUFFICES ASSUME NEW i \in 1..m PROVE ChunkEnd(buf[i]) <= end
    OBVIOUS
  <2>1. m \in 1..m /\ ChunkEnd(buf[m]) = end /\ (i = m \/ ChunkEnd(buf[i]) <= buf[m].pos)
    BY <1>1, <1>3
  <2> QED BY <1>2, <1>4, <2>1
<1>6. \A i \in 1..(m + 1) : all[i].len >= 1
  BY <1>1, <1>3
<1>7. ASSUME NEW i \in 1..(m + 1), NEW j \in 1..(m + 1), i < j
      PROVE  /\ j = i + 1 => ChunkEnd(all[i]) = all[j].pos
             /\ ChunkEnd(all[i]) <= all[j].pos
  <2>1. i \in 1..m /\ all[i] = buf[i]
    BY <1>1, <1>7
  <2>2. CASE j \in 1..m
    BY <1>1, <1>3, <1>7, <2>1, <2>2
  <2>3. CASE j = m + 1
    <3>1. j = i + 1 => i = m /\ m > 0
      BY <1>1, <2>1, <2>3
    <3> QED BY <1>1, <1>3, <1>5, <2>1, <2>3, <3>1
  <2> QED BY <1>1, <2>2, <2>3
<1>8. ChunkEnd(all[Len(all)]) = end + n /\ bytes + n >= (end + n) - all[1].pos
  <2>1. ChunkEnd(c) = end + n
    BY DEF ChunkEnd
  <2>2. CASE m = 0
    BY <1>1, <2>1, <2>2
  <2>3. CASE m > 0
    <3>1. all[1] = buf[1] /\ 1 \in 1..m
      BY <1>1, <2>3
    <3>2. bytes >= end - buf[1].pos /\ buf[1].pos \in Int
      BY <1>2, <1>3, <2>3, <3>1
    <3> QED BY <1>1, <2>1, <3>1, <3>2
  <2> QED BY <1>1, <2>2, <2>3
<1>9. \A i, j \in 1..(m + 1) : j = i + 1 => ChunkEnd(all[i]) = all[j].pos
  <2> SUFFICES ASSUME NEW i \in 1..(m + 1), NEW j \in 1..(m + 1), j = i + 1
               PROVE  ChunkEnd(all[i]) = all[j].pos
    OBVIOUS
  <2>1. i < j
    BY <1>1
  <2> QED BY <1>7, <2>1
<1>10. \A i, j \in 1..(m + 1) : i < j => ChunkEnd(all[i]) <= all[j].pos
  BY <1>7
<1>11. Chain(all, end + n, bytes + n)
  BY <1>1, <1>6, <1>8, <1>9, <1>10 DEF Chain
<1> QED BY <1>1, <1>11 DEF all

-----------------------------------------------------------------------------
(* The application.                                                        *)

LEMMA UtxWriteKeeps ==
    ASSUME SegInv, AckInv, AppInv, NEW w \in Writers, NEW n \in Nat, n >= 1, UtxWrite(w, n),
           state' = state
    PROVE  /\ SegInv' /\ AckInv' /\ Queued'
           /\ buffer' \in Seq(Chunk) /\ bufbytes' \in Nat /\ Chain(buffer', written + n, bufbytes')
<1> DEFINE chunk == [pos |-> written, len |-> n]
           bytes == bufbytes + n
<1>1. /\ buffer \in Seq(Chunk) /\ bufbytes \in Nat /\ written \in Nat
      /\ Chain(buffer, written, bufbytes) /\ Queued /\ w \in Threads /\ bytes \in Nat
      /\ written + n \in Nat
  BY DEF AppInv, Queued, Threads
<1>2. chunk \in Chunk /\ chunk.pos = written /\ chunk.len = n
  BY <1>1 DEF Chunk
<1>3. Append(buffer, chunk) \in Seq(Chunk) /\ Chain(Append(buffer, chunk), written + n, bytes)
  BY <1>1, <1>2, ChainAppend
<1>4. CASE /\ Eager(w, n) /\ Output(chunk, FALSE) /\ pc' = Moved(w, "direct")
           /\ UNCHANGED <<buffer, bufbytes, waiters, ackVars>>
  <2>1. SegInv'
    BY <1>2, <1>4, OutputKeeps
  <2>2. buffer' = <<>>
    BY <1>4 DEF Eager
  <2>3. Chain(buffer', written + n, bufbytes')
    BY <2>2 DEF Chain
  <2>4. AckInv' /\ Queued'
    BY <1>1, <1>4, MovedType DEF AckInv, RtoAgrees, ackVars, Queued, Places
  <2> QED BY <1>1, <1>4, <2>1, <2>3, <2>4
<1>5. CASE /\ buffer' = Append(buffer, chunk) /\ bufbytes' = bytes
           /\ pc' = Moved(w, "ready")
           /\ UNCHANGED <<segVars, waiters, ackVars>>
  <2>1. SegInv'
    BY <1>5, SegKeep DEF Retransmits
  <2>2. AckInv' /\ Queued'
    BY <1>1, <1>5, MovedType DEF AckInv, RtoAgrees, ackVars, Queued, Places
  <2> QED BY <1>1, <1>3, <1>5, <2>1, <2>2
<1>6. CASE ClearBuffer(w, Append(buffer, chunk), bytes)
  <2> HIDE DEF chunk, bytes
  <2> QED BY <1>1, <1>3, <1>6, ClearBufferKeeps
<1> QED BY <1>4, <1>5, <1>6 DEF UtxWrite

LEMMA WriteStep == ASSUME IInv, NEW w \in Writers, Write(w) PROVE IInv'
<1>1. PICK n \in 1..MinOf(left[w], MinOf(Mss, Available)) :
        UtxWrite(w, n) /\ left' = [left EXCEPT ![w] = @ - n] /\ written' = written + n
  BY DEF Write
<1>2. left[w] \in Nat /\ left[w] > 0 /\ Available > 0 /\ UNCHANGED <<stVars, dup_acks>>
  BY DEF Write, IInv, AppInv
<1>3. n \in Nat /\ n >= 1 /\ n <= left[w]
  <2>1. Available \in Int
    BY TransmitAssumption DEF Available, IInv, AppInv
  <2> QED BY <1>2, <2>1, WindowsNat DEF MinOf
<1>4. /\ SegInv' /\ AckInv' /\ Queued'
      /\ buffer' \in Seq(Chunk) /\ bufbytes' \in Nat /\ Chain(buffer', written + n, bufbytes')
  BY <1>1, <1>2, <1>3, UtxWriteKeeps DEF IInv, stVars
<1>5. left' \in [Writers -> Nat] /\ written' \in Nat
  BY <1>1, <1>2, <1>3 DEF IInv, AppInv
<1>6. AppInv'
  BY <1>1, <1>4, <1>5 DEF AppInv, Queued
<1>7. StInv' /\ dup_acks' \in 0..4
  BY <1>2 DEF stVars, IInv, StInv, StateOpen
<1> QED BY <1>4, <1>6, <1>7 DEF IInv

\* A step that only moves a thread, which may join those that wait.
LEMMA MoveKeeps ==
    ASSUME IInv, NEW t \in Threads, NEW place \in Places, pc' = Moved(t, place),
           waiters' = waiters \/ (t \in Writers \cup Closers /\ waiters' = Append(waiters, t)),
           UNCHANGED <<buffer, bufbytes, left, written, ackVars, segVars, stVars, dup_acks>>
    PROVE  IInv'
<1>1. waiters \in Seq(Writers \cup Closers) /\ pc \in [Threads -> Places]
  BY DEF IInv, AppInv
<1>2. waiters' \in Seq(Writers \cup Closers)
  BY <1>1, QueueOps
<1>3. pc' \in [Threads -> Places]
  BY <1>1, MovedType
<1>4. StInv' /\ AckInv' /\ dup_acks' \in 0..4
  BY DEF IInv, StInv, StateOpen, stVars, AckInv, RtoAgrees, ackVars
<1>5. SegInv'
  BY SegKeep DEF IInv, stVars, Retransmits
<1>6. AppInv'
  BY <1>2, <1>3 DEF IInv, AppInv, Chain
<1> QED BY <1>4, <1>5, <1>6 DEF IInv

LEMMA WriterStep ==
    ASSUME IInv, NEW w \in Writers, WriteWaits(w) \/ WriteFails(w)
    PROVE  IInv'
<1>1. w \in Threads /\ {"waiting", "failed"} \subseteq Places
  BY DEF Threads, Places
<1>2. CASE WriteWaits(w)
  BY <1>1, <1>2, MoveKeeps DEF WriteWaits, Waits
<1>3. CASE WriteFails(w)
  BY <1>1, <1>3, MoveKeeps DEF WriteFails
<1> QED BY <1>2, <1>3

LEMMA CloserStep ==
    ASSUME IInv, NEW c \in Closers, CloseWaits(c) \/ CloseSends(c)
    PROVE  IInv'
<1>1. c \in Threads /\ {"waiting", "fin"} \subseteq Places
  BY DEF Threads, Places
<1>2. CASE CloseWaits(c)
  BY <1>1, <1>2, MoveKeeps DEF CloseWaits, Waits
<1>3. CASE CloseSends(c)
  <2> DEFINE i    == ActSeq("Send_fin", wnd.tx_nxt)
             data == [pos |-> written, len |-> 0]
  <2>1. /\ Ticks(i) /\ Output(data, TRUE) /\ pc' = Moved(c, "fin")
        /\ UNCHANGED <<peer_fin, buffer, bufbytes, waiters, left, written, ackVars, dup_acks>>
    BY <1>3 DEF CloseSends
  <2>2. i.n \in Int /\ i.name \in Inputs
    BY WndFields DEF ActSeq, Inputs, IInv, SegInv
  <2>3. data \in Chunk
    BY DEF Chunk, IInv, AppInv
  <2> HIDE DEF i, data
  <2>4. /\ state' \in State /\ finwait2' \in Seq(Int) /\ timewait' \in BOOLEAN /\ StateOpen'
        /\ state.name = "Reset" => state'.name = "Reset"
    BY <2>1, <2>2, TicksKeep DEF IInv
  <2>5. SegInv'
    BY <2>1, <2>3, <2>4, OutputKeeps DEF IInv
  <2>6. AckInv' /\ dup_acks' \in 0..4
    BY <2>1 DEF IInv, AckInv, RtoAgrees, ackVars
  <2>7. pc' \in [Threads -> Places]
    BY <1>1, <2>1, MovedType DEF IInv, AppInv
  <2>8. AppInv'
    BY <2>1, <2>7 DEF IInv, AppInv, Chain
  <2>9. StInv'
    BY <2>1, <2>4 DEF IInv, StInv
  <2> QED BY <2>5, <2>6, <2>8, <2>9 DEF IInv
<1> QED BY <1>2, <1>3

LEMMA OutputReturnsStep == ASSUME IInv, NEW t \in Threads, OutputReturns(t) PROVE IInv'
<1>1. UNCHANGED <<left, written, stVars, dup_acks>> /\ {"ready", "done"} \subseteq Places
  BY DEF OutputReturns, Places
<1>2. CASE \E place \in {"ready", "done"} :
             pc' = Moved(t, place) /\ UNCHANGED <<segVars, buffer, bufbytes, waiters, ackVars>>
  BY <1>1, <1>2, MoveKeeps
<1>3. CASE ClearBuffer(t, buffer, bufbytes)
  <2>1. /\ SegInv' /\ AckInv' /\ Queued'
        /\ buffer' \in Seq(Chunk) /\ bufbytes' \in Nat /\ Chain(buffer', written, bufbytes')
    BY <1>1, <1>3, ClearBufferKeeps DEF IInv, AppInv, Queued, stVars
  <2>2. AppInv'
    BY <1>1, <2>1 DEF IInv, AppInv, Queued
  <2>3. StInv' /\ dup_acks' \in 0..4
    BY <1>1 DEF stVars, IInv, StInv, StateOpen
  <2> QED BY <2>1, <2>2, <2>3 DEF IInv
<1> QED BY <1>2, <1>3 DEF OutputReturns

-----------------------------------------------------------------------------
(* Flow.Wnd.thread.                                                        *)

LEMMA WndThreadStep == ASSUME IInv, WndThread PROVE IInv'
<1>1. UNCHANGED <<left, written, stVars, dup_acks>> /\ state' = state
  BY DEF WndThread, WndFree, WndReset, stVars
<1>2. StInv' /\ dup_acks' \in 0..4
  BY <1>1 DEF stVars, IInv, StInv, StateOpen
<1>3. CASE WndFree
  <2>1. ClearBuffer("wnd", buffer, bufbytes) /\ "wnd" \in Threads
    BY <1>3 DEF WndFree, Threads
  <2>2. /\ SegInv' /\ AckInv' /\ Queued'
        /\ buffer' \in Seq(Chunk) /\ bufbytes' \in Nat /\ Chain(buffer', written, bufbytes')
    BY <1>1, <2>1, ClearBufferKeeps DEF IInv, AppInv, Queued
  <2> QED BY <1>1, <1>2, <2>2 DEF IInv, AppInv, Queued
<1>4. CASE WndReset
  <2>1. buffer' = <<>> /\ InformAndTake /\ UNCHANGED <<bufbytes, segVars>>
    BY <1>4 DEF WndReset
  <2>2. AckInv' /\ Queued'
    BY <2>1, InformKeeps DEF IInv, AppInv, Queued
  <2>3. Chain(buffer', written', bufbytes') /\ buffer' \in Seq(Chunk)
    BY <2>1, EmptySeq DEF Chain
  <2>4. SegInv'
    BY <1>1, <2>1, SegKeep DEF IInv, Retransmits
  <2> QED BY <1>1, <1>2, <2>1, <2>2, <2>3, <2>4 DEF IInv, AppInv, Queued
<1> QED BY <1>3, <1>4 DEF WndThread

-----------------------------------------------------------------------------
(* Segments that come in, and the timers.                                  *)

\* A put into tx_ack.
LEMMA TxAckPut ==
    ASSUME AckInv, tx_ack' \in {tx_ack, Put(tx_ack, "ack")}, UNCHANGED <<rto, tx_wnd_update>>
    PROVE  AckInv'
  BY PutEffect DEF AckInv, RtoAgrees

LEMMA InputAckStep ==
    ASSUME IInv, NEW a \in 0..wnd.tx_nxt, NEW win \in Windows, InputAck(a, win)
    PROVE  IInv'
<1> DEFINE i == ActSeq("Recv_ack", a)
<1>1. /\ Ticks(i)
      /\ wnd' = [wnd EXCEPT !.ack_seq = a, !.ack_win = win,
                            !.ack_serviced = @ /\ ~Alerts(a, win)]
      /\ tx_ack' \in {tx_ack, Put(tx_ack, "ack")}
      /\ UNCHANGED <<peer_fin, appVars, rto, tx_wnd_update, segs, timer, wire, dup_acks>>
  BY DEF InputAck
<1>2. wnd \in Wnd /\ Sane(wnd) /\ a \in Nat
  BY WndFields DEF IInv, SegInv
<1>3. i.n \in Int /\ i.name \in Inputs
  BY <1>2 DEF ActSeq, Inputs
<1> HIDE DEF i
<1>4. /\ state' \in State /\ finwait2' \in Seq(Int) /\ timewait' \in BOOLEAN /\ StateOpen'
      /\ state.name = "Reset" => state'.name = "Reset"
      /\ Retransmits' => Retransmits
  BY <1>1, <1>3, TicksKeep DEF IInv
<1>5. (wnd.ack_serviced /\ ~Alerts(a, win)) \in BOOLEAN
  OBVIOUS
<1>6. /\ wnd' \in Wnd
      /\ wnd'.tx_nxt = wnd.tx_nxt /\ wnd'.snd_una = wnd.snd_una /\ wnd'.cwnd = wnd.cwnd
      /\ wnd'.fast_rec_th = wnd.fast_rec_th /\ wnd'.fast_recovery = wnd.fast_recovery
      /\ wnd'.ssthresh = wnd.ssthresh
  <2> DEFINE s == wnd.ack_serviced /\ ~Alerts(a, win)
  <2>1. s \in BOOLEAN /\ wnd' = [wnd EXCEPT !.ack_seq = a, !.ack_win = win, !.ack_serviced = s]
    BY <1>1
  <2> HIDE DEF s
  <2> QED BY <1>2, <2>1 DEF Wnd
<1>7. SegInv'
  BY <1>1, <1>2, <1>4, <1>6 DEF IInv, SegInv, Sane, SegsOrdered, SegsTile, TimerArmed
<1>8. AckInv'
  BY <1>1, TxAckPut DEF IInv
<1>9. AppInv' /\ dup_acks' \in 0..4
  BY <1>1 DEF appVars, IInv, AppInv, Chain
<1> QED BY <1>1, <1>4, <1>7, <1>8, <1>9 DEF IInv, StInv

\* A step of the state machine that leaves the segments alone.
LEMMA StateKeeps ==
    ASSUME IInv, StInv', UNCHANGED <<appVars, segVars, dup_acks>>, AckInv',
           state.name = "Reset" => state'.name = "Reset", Retransmits' => Retransmits
    PROVE  IInv'
  BY SegKeep DEF IInv, appVars, AppInv, Chain

LEMMA InputStep == ASSUME IInv, InputReset \/ InputFin PROVE IInv'
<1> DEFINE rst == Act("Recv_rst")
           fin == Act("Recv_fin")
<1>1. rst.n \in Int /\ rst.name \in Inputs /\ fin.n \in Int /\ fin.name \in Inputs
  BY DEF Act, Inputs
<1>2. UNCHANGED <<appVars, segVars, dup_acks>> /\ (Ticks(rst) \/ Ticks(fin))
  BY DEF InputReset, InputFin, ackVars
<1> HIDE DEF rst, fin
<1>3. /\ state' \in State /\ finwait2' \in Seq(Int) /\ timewait' \in BOOLEAN /\ StateOpen'
      /\ state.name = "Reset" => state'.name = "Reset"
      /\ Retransmits' => Retransmits
  BY <1>1, <1>2, TicksKeep DEF IInv
<1>4. peer_fin' \in BOOLEAN
  BY DEF InputReset, InputFin, IInv, StInv
<1>5. AckInv'
  <2>1. tx_ack' \in {tx_ack, Put(tx_ack, "ack")} /\ UNCHANGED <<rto, tx_wnd_update>>
    BY DEF InputReset, InputFin, ackVars
  <2> QED BY <2>1, TxAckPut DEF IInv
<1> QED BY <1>2, <1>3, <1>4, <1>5, StateKeeps DEF StInv

LEMMA TimerStateStep == ASSUME IInv, Finwait2timer \/ Timewait PROVE IInv'
<1>1. UNCHANGED <<peer_fin, appVars, ackVars, segVars, dup_acks>>
  BY DEF Finwait2timer, Timewait
<1>2. AckInv'
  BY <1>1 DEF IInv, AckInv, RtoAgrees, ackVars
<1>3. St("Closed") \in State /\ St("Closed").name = "Closed"
  BY DEF St, State, StateNames
<1>4. state \in State /\ state.n \in Int /\ finwait2 \in Seq(Int) /\ StateOpen
  BY DEF IInv, StInv, State
<1>5. CASE Timewait
  <2>1. timewait /\ timewait' = FALSE /\ state' = St("Closed") /\ finwait2' = finwait2
    BY <1>5 DEF Timewait
  <2>2. StInv'
    BY <1>1, <1>3, <2>1 DEF IInv, StInv, StateOpen
  <2>3. state.name # "Reset" /\ ~Retransmits'
    BY <1>3, <1>4, <2>1 DEF StateOpen, Retransmits
  <2> QED BY <1>1, <1>2, <2>2, <2>3, StateKeeps
<1>6. CASE Finwait2timer
  <2>1. timewait' = timewait /\ (state' = state \/ (state.name = "Fin_wait_2" /\ state' = St("Closed")))
    BY <1>6 DEF Finwait2timer
  <2>2. StInv'
    <3>1. finwait2' \in Seq(Int)
      BY <1>4, <1>6, EmptySeq, OneValue DEF Finwait2timer
    <3> QED BY <1>1, <1>3, <2>1, <3>1 DEF IInv, StInv, StateOpen
  <2>3. (state.name = "Reset" => state'.name = "Reset") /\ (Retransmits' => Retransmits)
    BY <1>3, <2>1 DEF Retransmits
  <2> QED BY <1>1, <1>2, <2>2, <2>3, StateKeeps
<1> QED BY <1>5, <1>6

\* Segment.Tx.ontimer.
LEMMA OntimerStep == ASSUME IInv, Ontimer PROVE IInv'
<1>1. /\ wnd \in Wnd /\ Sane(wnd) /\ segs \in Seq(Seg)
      /\ timer \in [running : BOOLEAN, seq : Int] /\ timer.seq \in Int
  BY DEF IInv, SegInv
<1>2. UNCHANGED <<peer_fin, appVars, ackVars, segs, dup_acks>>
  BY DEF Ontimer, TimerStops, TimerMoves, TimerRexmits, TimerGivesUp, stVars
<1>3. AckInv' /\ AppInv' /\ dup_acks' \in 0..4
  BY <1>2 DEF IInv, AckInv, RtoAgrees, ackVars, AppInv, Chain, appVars
<1>4. segs # <<>> => segs[1] \in Seg /\ segs[1].seq \in Int
  BY <1>1, SegFields
<1>5. CASE TimerStops \/ TimerMoves
  <2>1. UNCHANGED <<wnd, segs, wire, stVars>>
    BY <1>5 DEF TimerStops, TimerMoves
  <2>2. timer' \in [running : BOOLEAN, seq : Int] /\ TimerArmed'
    <3>1. CASE TimerStops
      <4>1. timer' = [timer EXCEPT !.running = FALSE] /\ (~Retransmits \/ segs = <<>>)
        BY <3>1 DEF TimerStops
      <4> QED BY <1>1, <2>1, <4>1 DEF TimerArmed, Retransmits, stVars
    <3>2. CASE TimerMoves
      <4>1. timer' = [timer EXCEPT !.seq = segs[1].seq] /\ timer.running /\ segs # <<>>
        BY <3>2 DEF TimerMoves
      <4> QED BY <1>1, <1>4, <4>1 DEF TimerArmed
    <3> QED BY <1>5, <3>1, <3>2
  <2>3. SegInv'
    BY <2>1, <2>2 DEF IInv, SegInv, SegsOrdered, SegsTile, stVars
  <2>4. StInv'
    BY <2>1 DEF IInv, StInv, StateOpen, stVars
  <2> QED BY <1>3, <2>3, <2>4 DEF IInv
<1>6. CASE TimerRexmits
  <2> DEFINE a == AlertFastRexmit(wnd)
  <2>1. /\ segs # <<>> /\ wnd.backoff_count <= MaxRexmits
        /\ wire' = <<[segs[1] EXCEPT !.seq = timer.seq]>>
        /\ wnd' = [a EXCEPT !.backoff_count = @ + 1]
        /\ UNCHANGED <<segs, timer, stVars>>
    BY <1>6 DEF TimerRexmits
  <2>2. /\ a \in Wnd /\ Sane(a) /\ a.tx_nxt = wnd.tx_nxt /\ a.snd_una = wnd.snd_una
        /\ a.backoff_count = wnd.backoff_count
    BY <1>1, AlertFacts
  <2> HIDE DEF a
  <2>3. a.backoff_count + 1 \in 0..(MaxRexmits + 1)
    <3>1. wnd.backoff_count <= MaxRexmits /\ wnd.backoff_count \in 0..(MaxRexmits + 1)
      BY <1>1, <2>1, WndFields
    <3>2. MaxRexmits \in Nat
      BY TransmitAssumption
    <3> QED BY <2>2, <3>1, <3>2
  <2>4. /\ wnd' \in Wnd /\ wnd'.tx_nxt = wnd.tx_nxt /\ wnd'.snd_una = wnd.snd_una
        /\ wnd'.fast_rec_th = a.fast_rec_th /\ wnd'.cwnd = a.cwnd
        /\ wnd'.fast_recovery = a.fast_recovery /\ wnd'.ssthresh = a.ssthresh
    BY <2>1, <2>2, <2>3 DEF Wnd
  <2>5. Sane(wnd')
    BY <2>2, <2>4 DEF Sane
  <2>6. wire' \in Seq(Seg)
    BY <1>1, <1>4, <2>1, SegFields, OneValue
  <2>7. SegsOrdered' /\ SegsTile' /\ TimerArmed'
    <3>1. SegsOrdered /\ SegsTile /\ TimerArmed /\ state' = state
      BY <2>1 DEF IInv, SegInv, stVars
    <3> QED BY <2>1, <2>4, <3>1 DEF SegsOrdered, SegsTile, TimerArmed, Retransmits
  <2>8. SegInv'
    BY <1>1, <2>1, <2>4, <2>5, <2>6, <2>7 DEF SegInv
  <2>9. StInv'
    BY <2>1 DEF IInv, StInv, StateOpen, stVars
  <2> QED BY <1>3, <2>8, <2>9 DEF IInv
<1>7. CASE TimerGivesUp
  <2> DEFINE i == Act("Timeout")
  <2>1. /\ Retransmits /\ Ticks(i) /\ timer' = [timer EXCEPT !.running = FALSE]
        /\ UNCHANGED <<wnd, segs, wire, peer_fin>>
    BY <1>7 DEF TimerGivesUp
  <2>2. i.n \in Int /\ i.name \in Inputs /\ i.name = "Timeout"
    BY DEF Act, Inputs
  <2> HIDE DEF i
  <2>3. /\ state' \in State /\ finwait2' \in Seq(Int) /\ timewait' \in BOOLEAN /\ StateOpen'
        /\ state.name = "Reset" => state'.name = "Reset"
        /\ ~Retransmits'
    BY <2>1, <2>2, TicksKeep DEF IInv
  <2>4. SegInv'
    BY <1>1, <2>1, <2>3 DEF IInv, SegInv, SegsOrdered, SegsTile, TimerArmed
  <2>5. StInv'
    BY <2>1, <2>3 DEF IInv, StInv
  <2> QED BY <1>3, <2>4, <2>5 DEF IInv
<1> QED BY <1>5, <1>6, <1>7 DEF Ontimer

-----------------------------------------------------------------------------
(* The theorems.                                                           *)

LEMMA InitIInv == Init => IInv
<1> SUFFICES ASSUME Init PROVE IInv
  OBVIOUS
<1>1. PICK w \in Windows, v \in Windows :
        LET new == [tx_nxt |-> 0, snd_una |-> 0, tx_wnd |-> w, cwnd |-> MinOf(2 * Mss, CwndCap),
                    ssthresh |-> w, fast_recovery |-> FALSE, fast_rec_th |-> 0, backoff_count |-> 0,
                    ack_serviced |-> TRUE, ack_seq |-> 0, ack_win |-> v]
        IN  wnd \in {new, Grow(new, CwndIncr(new))}
  BY DEF Init
<1> DEFINE new == [tx_nxt |-> 0, snd_una |-> 0, tx_wnd |-> w, cwnd |-> MinOf(2 * Mss, CwndCap),
                   ssthresh |-> w, fast_recovery |-> FALSE, fast_rec_th |-> 0, backoff_count |-> 0,
                   ack_serviced |-> TRUE, ack_seq |-> 0, ack_win |-> v]
<1>2. new \in Wnd /\ Sane(new) /\ new.tx_nxt = 0 /\ new.snd_una = 0 /\ new.cwnd >= 1
  <2>1. MinOf(2 * Mss, CwndCap) \in Nat /\ MinOf(2 * Mss, CwndCap) >= 1
    BY WindowsNat DEF MinOf
  <2>2. w \in Nat /\ 0 \in 0..(MaxRexmits + 1)
    BY WindowsNat, TransmitAssumption
  <2> QED BY <2>1, <2>2 DEF Wnd, Sane
<1> HIDE DEF new
<1>3. wnd \in Wnd /\ Sane(wnd) /\ wnd.tx_nxt = 0 /\ wnd.snd_una = 0
  <2>1. wnd = new \/ wnd = Grow(new, CwndIncr(new))
    BY <1>1 DEF new
  <2>2. /\ Grow(new, CwndIncr(new)) \in Wnd /\ Grow(new, CwndIncr(new)).cwnd >= 1
        /\ Grow(new, CwndIncr(new)) = [new EXCEPT !.cwnd = Grow(new, CwndIncr(new)).cwnd]
    BY <1>2, CwndIncrNat, GrowFacts
  <2> DEFINE g == Grow(new, CwndIncr(new))
  <2> HIDE DEF g
  <2>3. g = [new EXCEPT !.cwnd = g.cwnd] /\ g.cwnd >= 1
    BY <2>2 DEF g
  <2>4. Sane(g) /\ g.tx_nxt = 0 /\ g.snd_una = 0
    BY <1>2, <2>3 DEF Wnd, Sane
  <2> QED BY <1>2, <2>1, <2>2, <2>4 DEF g
<1>4. SegInv
  BY <1>3, EmptySeq DEF Init, SegInv, SegsOrdered, SegsTile, TimerArmed
<1>5. AckInv
  BY AwaitedType DEF Init, AckInv, RtoAgrees
<1>6. AppInv
  <2>1. pc \in [Threads -> Places]
    BY DEF Init, Places
  <2>2. left \in [Writers -> Nat]
    BY TransmitAssumption DEF Init
  <2> QED BY <2>1, <2>2, EmptySeq DEF Init, AppInv, Chain
<1>7. StInv
  <2>1. state = St("Established") /\ finwait2 = <<>> /\ timewait = FALSE /\ peer_fin = FALSE
    BY DEF Init
  <2>2. St("Established") \in State /\ St("Established").name = "Established"
    BY DEF St, State, StateNames
  <2> QED BY <2>1, <2>2, EmptySeq DEF StInv, StateOpen
<1> QED BY <1>4, <1>5, <1>6, <1>7 DEF Init, IInv

LEMMA StepIInv == IInv /\ [Next]_vars => IInv'
<1> SUFFICES ASSUME IInv, [Next]_vars PROVE IInv'
  OBVIOUS
<1>1. ASSUME NEW t \in Threads, App(t) PROVE IInv'
  BY <1>1, WriteStep, WriterStep, CloserStep DEF App
<1>2. ASSUME NEW t \in Threads, OutputReturns(t) PROVE IInv'
  BY <1>2, OutputReturnsStep
<1>3. CASE WndThread \/ RtoAck \/ Ontimer
  BY <1>3, WndThreadStep, RtoAckStep, OntimerStep
<1>4. ASSUME NEW a \in 0..wnd.tx_nxt, NEW win \in Windows, InputAck(a, win) PROVE IInv'
  BY <1>4, InputAckStep
<1>5. CASE InputReset \/ InputFin
  BY <1>5, InputStep
<1>6. CASE Finwait2timer \/ Timewait
  BY <1>6, TimerStateStep
<1>7. CASE UNCHANGED vars
  <2>1. UNCHANGED <<appVars, ackVars, segVars, stVars, dup_acks>>
    BY <1>7 DEF vars
  <2>2. AckInv' /\ StInv'
    BY <2>1 DEF IInv, AckInv, RtoAgrees, ackVars, StInv, StateOpen, stVars
  <2> QED BY <2>1, <2>2, StateKeeps DEF stVars, Retransmits
<1> QED BY <1>1, <1>2, <1>3, <1>4, <1>5, <1>6, <1>7 DEF Next

\* Every behaviour keeps the inductive invariant.
LEMMA Inductive == Spec => []IInv
  BY InitIInv, StepIInv, PTL DEF Spec

\* The variables of the transmitting half (Segment.Tx, User_buffer.Tx, Window,
\* State) keep their types: no segment or chunk gets a negative length, the
\* window stays a window, and backoff_count stops at one more than its maximum.
THEOREM TransmitTypes == Spec => []TypeOK
<1>1. IInv => TypeOK
  BY DEF IInv, SegInv, AckInv, AppInv, StInv, TypeOK
<1> QED BY <1>1, Inductive, PTL

\* Segment.Tx: clearsegs and tx_ack never come apart, whatever ACKs arrive, of
\* whole segments or of parts of them, and whenever rto_t gets to service them:
\* the queue always tiles the sequence numbers from snd_una to tx_nxt.
THEOREM SegmentsTile == Spec => []SegsTile
<1>1. IInv => SegsTile
  BY DEF IInv, SegInv
<1> QED BY <1>1, Inductive, PTL

\* Segment.Tx.rto_t: when duplicate ACKs or fast recovery call for a
\* retransmission the queue holds a segment, so that peek_l does not fail.
THEOREM RtoNeverFails == Spec => []RtoAlive
<1>1. IInv => RtoAlive
  BY DEF IInv, AckInv, RtoAlive
<1> QED BY <1>1, Inductive, PTL

\* Segment.Tx.ontimer: whatever was transmitted and is not acknowledged has a
\* running timer, in the states in which the timer retransmits.
THEOREM TimerKeepsRunning == Spec => []TimerArmed
<1>1. IInv => TimerArmed
  BY DEF IInv, SegInv
<1> QED BY <1>1, Inductive, PTL

-----------------------------------------------------------------------------
(* clearsegs as a loop.                                                    *)

\* What the first k segments take up, as the sum that the loop makes.
LEMMA ClearedGrows ==
    ASSUME SegInv, state.name # "Reset", NEW k \in 0..(Len(segs) - 1)
    PROVE  /\ ClearedLen(k) \in Int /\ segs[k + 1] \in Seg /\ SeqLen(segs[k + 1]) \in Nat \ {0}
           /\ ClearedLen(k + 1) = ClearedLen(k) + SeqLen(segs[k + 1])
<1> DEFINE m == Len(segs)
<1>1. m \in Nat /\ k + 1 \in 1..m /\ 1 \in 1..m
  BY LenProperties DEF SegInv
<1>2. \A i \in 1..m : segs[i] \in Seg /\ SeqLen(segs[i]) >= 1
  BY LenProperties, ElementOfSeq DEF SegInv, SegsOrdered
<1>3. /\ segs[k + 1].seq \in Int /\ segs[1].seq \in Int
      /\ SeqLen(segs[k + 1]) \in Nat \ {0}
      /\ SeqEnd(segs[k + 1]) = segs[k + 1].seq + SeqLen(segs[k + 1])
  BY <1>1, <1>2, SegFields
<1>4. ClearedLen(k + 1) = SeqEnd(segs[k + 1]) - segs[1].seq
  BY <1>1 DEF ClearedLen
<1>5. CASE k = 0
  BY <1>1, <1>2, <1>3, <1>4, <1>5 DEF ClearedLen
<1>6. CASE k # 0
  <2>1. k \in 1..(m - 1) /\ k \in 1..m
    BY <1>1, <1>6
  <2>2. segs[k + 1].seq = SeqEnd(segs[k]) /\ SeqEnd(segs[k]) \in Int
    BY <1>2, <2>1, SegFields DEF SegInv, SegsTile
  <2>3. ClearedLen(k) = SeqEnd(segs[k]) - segs[1].seq
    BY <1>6 DEF ClearedLen
  <2> QED BY <1>1, <1>2, <1>3, <1>4, <2>2, <2>3
<1> QED BY <1>5, <1>6

\* The sums grow with the number of segments.
LEMMA ClearedMonotonic ==
    ASSUME SegInv, state.name # "Reset", NEW i \in 0..Len(segs), NEW j \in i..Len(segs)
    PROVE  /\ ClearedLen(i) \in Int /\ ClearedLen(j) \in Int
           /\ i < j => ClearedLen(i) < ClearedLen(j)
<1> DEFINE m == Len(segs)
           S == {d \in Nat : i + d <= m => /\ ClearedLen(i + d) \in Int
                                           /\ 0 < d => ClearedLen(i) < ClearedLen(i + d)}
<1>1. m \in Nat
  BY LenProperties DEF SegInv
<1>2. ClearedLen(i) \in Int
  <2>1. CASE i = 0
    BY <2>1 DEF ClearedLen
  <2>2. CASE i # 0
    <3>1. i - 1 \in 0..(m - 1) /\ (i - 1) + 1 = i
      BY <1>1, <2>2
    <3>2. /\ ClearedLen(i - 1) \in Int /\ SeqLen(segs[(i - 1) + 1]) \in Nat \ {0}
          /\ ClearedLen((i - 1) + 1) = ClearedLen(i - 1) + SeqLen(segs[(i - 1) + 1])
      BY <3>1, ClearedGrows
    <3> QED BY <3>1, <3>2
  <2> QED BY <2>1, <2>2
<1>3. 0 \in S
  BY <1>2
<1>4. ASSUME NEW d \in Nat, d \in S
      PROVE  d + 1 \in S
  <2> SUFFICES ASSUME i + (d + 1) <= m
               PROVE  ClearedLen(i + (d + 1)) \in Int /\ ClearedLen(i) < ClearedLen(i + (d + 1))
    OBVIOUS
  <2>1. i + d \in 0..(m - 1) /\ (i + d) + 1 = i + (d + 1)
    BY <1>1
  <2>2. ClearedLen(i + d) \in Int /\ (0 < d => ClearedLen(i) < ClearedLen(i + d))
    BY <1>4, <2>1
  <2>3. /\ SeqLen(segs[(i + d) + 1]) \in Nat \ {0}
        /\ ClearedLen((i + d) + 1) = ClearedLen(i + d) + SeqLen(segs[(i + d) + 1])
    BY <2>1, ClearedGrows
  <2>4. d = 0 \/ 0 < d
    OBVIOUS
  <2> QED BY <1>2, <2>1, <2>2, <2>3, <2>4
<1>5. j - i \in S
  <2>1. j - i \in Nat
    BY <1>1
  <2> HIDE DEF S
  <2>2. Nat \subseteq S
    BY <1>3, <1>4, SetInduction
  <2> QED BY <2>1, <2>2
<1> QED BY <1>1, <1>2, <1>5

\* Where the loop stops is where ClearSegs says, and nowhere else.
LEMMA ClearLoopFacts ==
    ASSUME SegInv, state.name # "Reset", NEW n \in Nat
    PROVE  /\ ClearLoop(n).taken \in 0..Len(segs)
           /\ ClearLoop(n).left = n - ClearedLen(ClearLoop(n).taken)
           /\ ClearLoop(n).taken \in ClearSegs(n)
<1> DEFINE m == Len(segs)
           A == [taken : Nat, left : Nat]
           start == [taken |-> 0, left |-> n]
           next(acc, k) ==
               IF acc.taken = k - 1 /\ acc.left > 0 /\ SeqLen(segs[k]) <= acc.left
               THEN [taken |-> k, left |-> acc.left - SeqLen(segs[k])] ELSE acc
           step == [k \in 1..m |-> [acc \in A |-> next(acc, k)]]
           Solves(f) == f = [k \in 0..m |-> IF k = 0 THEN start ELSE next(f[k - 1], k)]
           loop == CHOOSE f : Solves(f)
<1>1. m \in Nat /\ \A k \in 1..m : SeqLen(segs[k]) \in Nat
  <2>1. m \in Nat
    BY LenProperties DEF SegInv
  <2>2. \A k \in 1..m : segs[k] \in Seg
    BY ElementOfSeq DEF SegInv
  <2> QED BY <2>1, <2>2, SegFields
<1>2. ClearLoop(n) = loop[m]
  BY DEF ClearLoop
<1>3. start \in A /\ \A k \in 1..m, acc \in A : next(acc, k) \in A
  BY <1>1
<1> HIDE DEF A, start, next
<1>4. \E f : Solves(f)
  <2>1. step \in [1..m -> [A -> A]]
    BY <1>3
  <2>2. \A k \in 1..m, acc \in A : step[k][acc] = next(acc, k)
    OBVIOUS
  <2>3. m \in Nat /\ start \in A
    BY <1>1, <1>3
  <2> HIDE DEF step, m, A, start
  <2>4. PICK f \in [0..m -> A] : f[0] = start /\ \A k \in 1..m : f[k] = step[k][f[k - 1]]
    BY <2>1, <2>3, LoopExists
  <2>5. ASSUME NEW k \in 0..m
        PROVE  f[k] = IF k = 0 THEN start ELSE next(f[k - 1], k)
    <3>1. CASE k = 0
      BY <2>4, <3>1
    <3>2. CASE k # 0
      <4>1. k \in 1..m /\ k - 1 \in 0..m
        BY <1>1, <3>2
      <4>2. f[k - 1] \in A /\ step[k][f[k - 1]] = next(f[k - 1], k)
        BY <2>4, <2>2, <4>1
      <4>3. f[k] = step[k][f[k - 1]]
        BY <2>4, <4>1
      <4> QED BY <3>2, <4>2, <4>3
    <3> QED BY <3>1, <3>2
  <2>6. Solves(f)
    BY <2>4, <2>5
  <2> HIDE DEF Solves
  <2> QED BY <2>6
<1>5. Solves(loop)
  <2> HIDE DEF Solves
  <2> QED BY <1>4
<1> HIDE DEF loop
<1>6. /\ loop[0] = start
      /\ \A k \in 1..m : loop[k] = next(loop[k - 1], k)
  BY <1>1, <1>5
\* After k segments: those taken, what they take up, and why it stopped before.
<1> DEFINE Right(k) ==
        /\ loop[k].taken \in 0..k /\ loop[k].left = n - ClearedLen(loop[k].taken)
        /\ ClearedLen(loop[k].taken) <= n
        /\ loop[k].taken < k => ClearedLen(loop[k].taken + 1) > n
           S == {k \in Nat : k <= m => Right(k)}
<1>7. 0 \in S
  <2>1. start.taken = 0 /\ start.left = n /\ ClearedLen(0) = 0
    BY DEF start, ClearedLen
  <2> QED BY <1>6, <2>1
<1>8. ASSUME NEW k \in Nat, k \in S
      PROVE  k + 1 \in S
  <2> SUFFICES ASSUME k + 1 <= m
               PROVE  Right(k + 1)
    OBVIOUS
  <2>1. Right(k) /\ k \in 0..(m - 1)
    BY <1>1, <1>8
  <2>2. loop[k + 1] = next(loop[k], k + 1)
    <3>1. k + 1 \in 1..m /\ (k + 1) - 1 = k
      BY <1>1
    <3>2. loop[k + 1] = next(loop[(k + 1) - 1], k + 1)
      BY <1>6, <3>1
    <3> QED BY <3>1, <3>2
  <2> DEFINE t == loop[k].taken
             l == SeqLen(segs[k + 1])
  <2>3. /\ ClearedLen(k) \in Int /\ l \in Nat \ {0} /\ ClearedLen(k + 1) = ClearedLen(k) + l
    BY <2>1, ClearedGrows
  <2>4. CASE t = k /\ loop[k].left > 0 /\ l <= loop[k].left
    <3>1. loop[k + 1].taken = k + 1 /\ loop[k + 1].left = loop[k].left - l
      BY <2>2, <2>4 DEF next
    <3> QED BY <2>1, <2>3, <2>4, <3>1
  <2>5. CASE ~(t = k /\ loop[k].left > 0 /\ l <= loop[k].left)
    <3>1. loop[k + 1] = loop[k]
      BY <2>2, <2>5 DEF next
    <3>2. t = k => ClearedLen(k + 1) > n
      BY <2>1, <2>3, <2>5
    <3> QED BY <2>1, <3>1, <3>2
  <2> QED BY <2>4, <2>5
<1>9. Right(m)
  <2> HIDE DEF S
  <2>1. Nat \subseteq S
    BY <1>7, <1>8, SetInduction
  <2> QED BY <1>1, <2>1 DEF S
<1> QED BY <1>1, <1>2, <1>9 DEF ClearSegs

\* Segment.Tx.clearsegs: for every ACK of what is in flight, or of a part of it, the
\* code's loop over the queue takes the segments that ClearSegs says, and no other
\* number of segments fits what ClearSegs says; the ACK less what they take up is
\* what it returns, from which tx_ack computes snd_una.
THEOREM ClearSegsLoops == Spec => []ClearSegsIsLoop
<1>1. ASSUME SegInv, state.name # "Reset", NEW n \in Nat
      PROVE  ClearSegs(n) = {ClearLoop(n).taken}
  <2>1. ClearLoop(n).taken \in ClearSegs(n)
    BY <1>1, ClearLoopFacts
  <2>2. ASSUME NEW i \in ClearSegs(n), NEW j \in ClearSegs(n), i < j
        PROVE  FALSE
    <3>1. /\ Len(segs) \in Nat /\ i \in 0..Len(segs) /\ j \in 0..Len(segs)
          /\ ClearedLen(i + 1) > n /\ ClearedLen(j) <= n
      BY <2>2, <1>1, LenProperties DEF ClearSegs, SegInv
    <3>2. i + 1 \in 0..Len(segs) /\ j \in (i + 1)..Len(segs)
      BY <2>2, <3>1
    <3>3. /\ ClearedLen(i + 1) \in Int /\ ClearedLen(j) \in Int
          /\ i + 1 < j => ClearedLen(i + 1) < ClearedLen(j)
      BY <1>1, <3>2, ClearedMonotonic
    <3>4. i + 1 = j \/ i + 1 < j
      BY <2>2, <3>1
    <3> QED BY <3>1, <3>3, <3>4
  <2>3. \A i \in ClearSegs(n) : i \in Int
    BY <1>1, LenProperties DEF ClearSegs, SegInv
  <2>4. \A i, j \in ClearSegs(n) : i = j
    BY <2>2, <2>3
  <2> QED BY <2>1, <2>4
<1>2. IInv => ClearSegsIsLoop
  BY <1>1, ClearLoopFacts DEF IInv, ClearSegsIsLoop
<1> QED BY <1>2, Inductive, PTL
=============================================================================
