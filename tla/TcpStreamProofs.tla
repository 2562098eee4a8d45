--------------------------- MODULE TcpStreamProofs --------------------------
(***************************************************************************)
(* Theorems about what TcpTransmit sends: that the bytes the writes have   *)
(* taken are in the stream once and in their order, with the FIN last,     *)
(* that what is on the wire under a sequence number belongs there, and     *)
(* that a connection is past its FIN only if the peer has it.  They hold   *)
(* when one thread closes the connection; the second, when the peer        *)
(* acknowledges whole segments.                                            *)
(***************************************************************************)
EXTENDS TcpTransmitProofs

OneCloser == \A c, d \in Closers : c = d

(* The inductive invariant, beside that of TcpTransmitProofs.              *)

\* A thread is in the queue of waiters once, and waits.
WaitersWait ==
    /\ \A i \in DOMAIN waiters : pc[waiters[i]] = "waiting"
    /\ \A i, j \in DOMAIN waiters : waiters[i] = waiters[j] => i = j

\* The number the FIN takes up.
Sent == IF FinSent THEN 1 ELSE 0

\* A buffer that begins where the numbers sent end, if the data ends at end.
Flows(buf, bytes, end, nxt, sent, name) ==
    /\ buf # <<>> => buf[1].pos = nxt /\ sent = 0
    /\ name # "Reset" =>
        /\ buf = <<>> => nxt = end + sent
        /\ bytes = (IF buf = <<>> THEN 0 ELSE end - buf[1].pos)
        /\ bytes <= MaxSize

BufferFlows == Flows(buffer, bufbytes, written, wnd.tx_nxt, Sent, state.name)

NothingAfterFin ==
    /\ CanSend => ~FinSent
    /\ \A i \in DOMAIN segs : segs[i].fin => FinSent /\ segs[i].pos = written

\* The state machine carries the number of the FIN, which is the last.
FinNumbered ==
    /\ state.name \in {"Fin_wait_1", "Closing"} => FinSent /\ state.n = written
    /\ state.name \in {"Fin_wait_2", "Time_wait"} => FinSent /\ wnd.ack_seq = written + 1

SegsAligned == state.name # "Reset" => \A i \in DOMAIN segs : segs[i].pos = segs[i].seq

\* The last ACK is for the data before some segment.
AckOnEdge ==
    ~MidAcks /\ state.name # "Reset" =>
        wnd.ack_seq = wnd.snd_una \/ \E i \in DOMAIN segs : SeqEnd(segs[i]) = wnd.ack_seq

WireInv == ~MidAcks => WireAligned

StreamInv ==
    /\ WaitersWait /\ BufferFlows /\ NothingAfterFin /\ FinNumbered
    /\ SegsAligned /\ AckOnEdge /\ WireInv

-----------------------------------------------------------------------------
(* The threads.                                                            *)

LEMMA WaiterFacts ==
    ASSUME Queued
    PROVE  /\ DOMAIN waiters = 1..Len(waiters) /\ Len(waiters) \in Nat
           /\ \A i \in 1..Len(waiters) : waiters[i] \in Writers \cup Closers /\ waiters[i] # "wnd"
           /\ waiters # <<>> => Len(waiters) >= 1 /\ Head(waiters) = waiters[1]
<1>1. waiters \in Seq(Writers \cup Closers)
  BY DEF Queued
<1>2. \A i \in 1..Len(waiters) : waiters[i] \in Writers \cup Closers
  BY <1>1, ElementOfSeq
<1>3. waiters # <<>> => Len(waiters) >= 1 /\ Head(waiters) = waiters[1]
  BY <1>1, EmptySeq
<1>4. "wnd" \notin Writers \cup Closers
  BY TransmitAssumption
<1> QED BY <1>1, <1>2, <1>3, <1>4, LenProperties

\* A thread that does not wait moves to a place where it does not.
LEMMA MoveWaiters ==
    ASSUME Queued, WaitersWait, NEW t \in Threads, NEW place, pc' = Moved(t, place),
           waiters' = waiters, pc[t] # "waiting" \/ t = "wnd"
    PROVE  WaitersWait'
<1>1. \A i \in DOMAIN waiters : waiters[i] # t /\ waiters[i] \in Threads
  BY WaiterFacts DEF WaitersWait, Threads
<1>2. \A u \in Threads \ {t} : pc'[u] = pc[u]
  BY DEF Moved, Queued
<1> QED BY <1>1, <1>2 DEF WaitersWait

\* A thread begins to wait.
LEMMA JoinWaiters ==
    ASSUME Queued, WaitersWait, NEW t \in Writers \cup Closers, Waits(t), pc[t] # "waiting"
    PROVE  WaitersWait'
<1> DEFINE n == Len(waiters)
<1>1. /\ n \in Nat /\ DOMAIN waiters = 1..n
      /\ DOMAIN waiters' = 1..(n + 1) /\ waiters'[n + 1] = t
      /\ \A i \in 1..n : waiters'[i] = waiters[i]
  BY AppendProperties, LenProperties DEF Waits, Queued
<1>2. /\ pc'[t] = "waiting"
      /\ \A u \in Threads \ {t} : pc'[u] = pc[u]
  BY DEF Waits, Moved, Queued, Threads
<1>3. \A i \in 1..n : waiters[i] # t /\ waiters[i] \in Threads /\ pc[waiters[i]] = "waiting"
  BY <1>1, WaiterFacts DEF WaitersWait, Threads
<1> HIDE DEF n
<1>4. ASSUME NEW i \in 1..(n + 1), NEW j \in 1..(n + 1), waiters'[i] = waiters'[j]
      PROVE  i = j
  <2>1. \A k, l \in 1..n : waiters[k] = waiters[l] => k = l
    BY <1>1 DEF WaitersWait
  <2>2. (i \in 1..n \/ i = n + 1) /\ (j \in 1..n \/ j = n + 1)
    BY <1>1
  <2> QED BY <1>1, <1>3, <1>4, <2>1, <2>2
<1>5. ASSUME NEW i \in 1..(n + 1) PROVE pc'[waiters'[i]] = "waiting"
  <2>1. CASE i \in 1..n
    BY <1>1, <1>2, <1>3, <2>1
  <2>2. CASE i = n + 1
    BY <1>1, <1>2, <2>2
  <2> QED BY <1>1, <2>1, <2>2
<1> QED BY <1>1, <1>4, <1>5 DEF WaitersWait

\* inform_app takes the first from the queue.
LEMMA InformWaiters ==
    ASSUME Queued, WaitersWait, InformAndTake
    PROVE  WaitersWait' /\ (FinSent' <=> FinSent)
<1> DEFINE n == Len(waiters)
<1>1. /\ pc' = Informed("take") /\ waiters' = IF waiters = <<>> THEN <<>> ELSE Tail(waiters)
      /\ pc \in [Threads -> Places]
  BY DEF InformAndTake, Queued
<1>2. /\ n \in Nat /\ DOMAIN waiters = 1..n
      /\ \A i \in 1..n : waiters[i] \in Writers \cup Closers /\ waiters[i] \in Threads /\ waiters[i] # "wnd"
      /\ waiters # <<>> => n >= 1 /\ Head(waiters) = waiters[1]
  BY WaiterFacts DEF Threads
<1>3. \A t \in Threads : pc'[t] = IF t = "wnd" THEN "take"
                                  ELSE IF waiters # <<>> /\ t = Head(waiters) THEN "woken" ELSE pc[t]
  BY <1>1 DEF Informed
<1>4. FinSent' <=> FinSent
  <2>1. \A c \in Closers : c \in Threads /\ c # "wnd"
    BY TransmitAssumption DEF Threads
  <2>2. waiters # <<>> => pc[Head(waiters)] = "waiting"
    BY <1>2 DEF WaitersWait
  <2>3. \A c \in Closers : pc'[c] \in {"fin", "done"} <=> pc[c] \in {"fin", "done"}
    BY <1>3, <2>1, <2>2
  <2> QED BY <2>3 DEF FinSent
<1>5. CASE waiters = <<>>
  BY <1>1, <1>4, <1>5 DEF WaitersWait
<1>6. CASE waiters # <<>>
  <2>1. /\ waiters' \in Seq(Writers \cup Closers) /\ Len(waiters') = n - 1
        /\ \A i \in 1..(n - 1) : waiters'[i] = waiters[i + 1]
    BY <1>1, <1>6, HeadTailProperties DEF Queued
  <2>2. DOMAIN waiters' = 1..(n - 1)
    BY <2>1, LenProperties
  <2> HIDE DEF n
  <2>3. /\ \A i \in 1..n : pc[waiters[i]] = "waiting"
        /\ \A i, j \in 1..n : waiters[i] = waiters[j] => i = j
    BY <1>2 DEF WaitersWait
  <2>4. ASSUME NEW i \in 1..(n - 1) PROVE pc'[waiters'[i]] = "waiting"
    <3>1. i + 1 \in 1..n /\ 1 \in 1..n /\ i + 1 # 1
      BY <1>2, <1>6
    <3>2. waiters[i + 1] # Head(waiters)
      BY <1>2, <1>6, <2>3, <3>1
    <3> QED BY <1>2, <1>3, <2>1, <2>3, <3>1, <3>2
  <2>5. ASSUME NEW i \in 1..(n - 1), NEW j \in 1..(n - 1), waiters'[i] = waiters'[j]
        PROVE  i = j
    <3>1. i + 1 \in 1..n /\ j + 1 \in 1..n
      BY <1>2
    <3>2. i + 1 = j + 1
      BY <2>1, <2>3, <2>5, <3>1
    <3> QED BY <3>2
  <2> QED BY <1>4, <2>2, <2>4, <2>5 DEF WaitersWait
<1> QED BY <1>5, <1>6

\* A move that is not from or to the sending of a FIN.
LEMMA MoveFin ==
    ASSUME pc \in [Threads -> Places], NEW t \in Threads, NEW place, pc' = Moved(t, place),
           t \in Closers => (pc[t] \in {"fin", "done"} <=> place \in {"fin", "done"})
    PROVE  FinSent' <=> FinSent
<1>1. \A c \in Closers : c \in Threads /\ (pc'[c] \in {"fin", "done"} <=> pc[c] \in {"fin", "done"})
  BY DEF Moved, Threads
<1> QED BY <1>1 DEF FinSent

-----------------------------------------------------------------------------
(* The buffer.                                                             *)

\* A buffer after its first k chunks have been sent.
LEMMA FlowsTail ==
    ASSUME NEW buf \in Seq(Chunk), NEW end \in Nat, NEW bytes \in Nat, Chain(buf, end, bytes),
           NEW k \in 1..Len(buf), NEW nxt \in Nat, NEW name, Flows(buf, bytes, end, nxt, 0, name)
    PROVE  Flows(SubSeq(buf, k + 1, Len(buf)), bytes - Length(buf, k), end,
                 nxt + Length(buf, k), 0, name)
<1> DEFINE m == Len(buf)
           rest == SubSeq(buf, k + 1, m)
           len == Length(buf, k)
<1>1. /\ m \in Nat /\ DOMAIN buf = 1..m /\ buf # <<>> /\ k \in 1..m
      /\ \A i \in 1..m : buf[i].pos \in Int /\ buf[i].len \in Nat
  <2>1. \A i \in 1..m : buf[i] \in Chunk
    BY ElementOfSeq
  <2> QED BY <2>1, LenProperties, EmptySeq DEF Chunk
<1>2. /\ len \in Nat /\ len >= 1 /\ rest \in Seq(Chunk)
      /\ Chain(rest, end, bytes - len) /\ bytes - len \in Nat
  BY ChainTail
<1>3. len = ChunkEnd(buf[k]) - buf[1].pos
  <2>1. buf[k].pos \in Int /\ buf[k].len \in Nat /\ buf[1].pos \in Int
    BY <1>1
  <2> QED BY <2>1 DEF Length, ChunkEnd
<1>4. Len(rest) = m - k /\ (k < m => rest[1] = buf[k + 1])
  <2>1. \A i \in (k + 1)..m : buf[i] \in Chunk
    BY <1>1, ElementOfSeq
  <2>2. /\ Len(rest) = IF k + 1 <= m THEN m - (k + 1) + 1 ELSE 0
        /\ \A i \in 1..(m - (k + 1) + 1) : rest[i] = buf[(k + 1) + i - 1]
    BY <1>1, <2>1, SubSeqProperties
  <2>3. k < m => 1 \in 1..(m - (k + 1) + 1) /\ (k + 1) + 1 - 1 = k + 1
    BY <1>1
  <2>4. k < m => rest[1] = buf[(k + 1) + 1 - 1]
    BY <2>2, <2>3
  <2> HIDE DEF m, rest
  <2>5. Len(rest) = m - k
    BY <1>1, <2>2
  <2> QED BY <2>3, <2>4, <2>5
<1>5. buf[1].pos = nxt /\ (name # "Reset" => bytes = end - nxt /\ bytes <= MaxSize)
  BY <1>1 DEF Flows
<1> HIDE DEF rest, len
<1>6. /\ k < m => ChunkEnd(buf[k]) = buf[k + 1].pos
      /\ k = m => ChunkEnd(buf[k]) = end
      /\ ChunkEnd(buf[k]) \in Int
  <2>1. k < m => k + 1 \in 1..m
    BY <1>1
  <2>2. k < m => ChunkEnd(buf[k]) = buf[k + 1].pos
    BY <1>1, <2>1 DEF Chain
  <2>3. k = m => ChunkEnd(buf[k]) = end
    BY <1>1 DEF Chain
  <2>4. ChunkEnd(buf[k]) \in Int
    BY <1>1 DEF ChunkEnd
  <2> QED BY <2>2, <2>3, <2>4
<1> HIDE DEF m
<1>7. ASSUME rest # <<>> PROVE rest[1].pos = nxt + len
  <2>1. k < m
    BY <1>1, <1>2, <1>4, <1>7, EmptySeq
  <2>2. buf[k + 1].pos \in Int /\ nxt \in Int
    BY <1>1, <2>1
  <2>3. rest[1].pos = ChunkEnd(buf[k])
    BY <1>4, <1>6, <2>1
  <2>4. len = ChunkEnd(buf[k]) - nxt /\ ChunkEnd(buf[k]) \in Int
    BY <1>3, <1>5, <1>6
  <2> QED BY <2>2, <2>3, <2>4
<1>8. ASSUME rest = <<>> PROVE nxt + len = end
  <2>1. k = m
    BY <1>1, <1>2, <1>4, <1>8, EmptySeq
  <2> QED BY <1>2, <1>3, <1>5, <1>6, <2>1
<1>9. name # "Reset" => /\ bytes - len = (IF rest = <<>> THEN 0 ELSE end - rest[1].pos)
                        /\ bytes - len <= MaxSize
  <2>1. MaxSize \in Nat
    BY TransmitAssumption
  <2> QED BY <1>2, <1>5, <1>7, <1>8, <2>1
<1>10. Flows(rest, bytes - len, end, nxt + len, 0, name)
  BY <1>7, <1>8, <1>9 DEF Flows
<1> QED BY <1>10 DEF m, rest, len

\* A buffer with one more chunk.
LEMMA FlowsAppend ==
    ASSUME NEW buf \in Seq(Chunk), NEW end \in Nat, NEW bytes \in Nat,
           NEW nxt \in Nat, NEW name, name # "Reset", Flows(buf, bytes, end, nxt, 0, name),
           NEW n \in Nat, bytes + n <= MaxSize, NEW c \in Chunk, c.pos = end
    PROVE  Flows(Append(buf, c), bytes + n, end + n, nxt, 0, name)
<1> DEFINE all == Append(buf, c)
<1>1. all # <<>> /\ (buf = <<>> => all[1] = c) /\ (buf # <<>> => all[1] = buf[1])
  <2>1. Len(all) = Len(buf) + 1 /\ all[Len(buf) + 1] = c /\ \A i \in 1..Len(buf) : all[i] = buf[i]
    BY AppendProperties
  <2>2. Len(buf) \in Nat /\ (buf = <<>> <=> Len(buf) = 0) /\ all # <<>>
    BY EmptySeq, LenProperties, AppendProperties
  <2> QED BY <2>1, <2>2
<1>2. buf # <<>> => buf[1].pos \in Int
  <2>1. buf # <<>> => buf[1] \in Chunk
    BY ElementOfSeq, EmptySeq, LenProperties
  <2> QED BY <2>1 DEF Chunk
<1> HIDE DEF all
<1>3. all[1].pos = nxt
  BY <1>1 DEF Flows
<1>4. bytes + n = (end + n) - nxt
  BY <1>2 DEF Flows
<1>5. Flows(all, bytes + n, end + n, nxt, 0, name)
  BY <1>1, <1>3, <1>4 DEF Flows
<1> QED BY <1>5 DEF all

-----------------------------------------------------------------------------
(* Segments.                                                               *)

\* What output does to the window and the queue.
LEMMA OutputFacts ==
    ASSUME SegInv, NEW data \in Chunk, NEW fin \in BOOLEAN, Output(data, fin)
    PROVE  LET n   == Len(segs)
               out == [seq |-> wnd.tx_nxt, pos |-> data.pos, len |-> data.len, fin |-> fin]
           IN  /\ wnd'.tx_nxt = wnd.tx_nxt + data.len + (IF fin THEN 1 ELSE 0)
               /\ wnd'.snd_una = wnd.snd_una /\ wnd'.ack_seq = wnd.ack_seq
               /\ n \in Nat /\ DOMAIN segs = 1..n /\ DOMAIN segs' = 1..(n + 1)
               /\ \A i \in 1..n : segs'[i] = segs[i]
               /\ segs'[n + 1] = out /\ wire' = <<out>>
<1> DEFINE n   == Len(segs)
           out == [seq |-> wnd.tx_nxt, pos |-> data.pos, len |-> data.len, fin |-> fin]
<1>1. wnd' = [wnd EXCEPT !.tx_nxt = @ + SeqLen(out)] /\ segs' = Append(segs, out) /\ wire' = <<out>>
  BY DEF Output
<1>2. out \in Seg /\ SeqLen(out) = data.len + (IF fin THEN 1 ELSE 0) /\ wnd \in Wnd
  BY WndFields DEF Seg, Chunk, SeqLen, SegInv
<1> HIDE DEF out
<1>3. /\ wnd'.tx_nxt = wnd.tx_nxt + SeqLen(out)
      /\ wnd'.snd_una = wnd.snd_una /\ wnd'.ack_seq = wnd.ack_seq
  BY <1>1, <1>2 DEF Wnd
<1>4. /\ n \in Nat /\ DOMAIN segs = 1..n /\ DOMAIN segs' = 1..(n + 1)
      /\ \A i \in 1..n : segs'[i] = segs[i]
      /\ segs'[n + 1] = out
  BY <1>1, <1>2, AppendProperties, LenProperties DEF SegInv
<1>5. wnd.tx_nxt \in Nat /\ data.len \in Nat
  BY <1>2, WndFields DEF Chunk
<1>6. wnd'.tx_nxt = wnd.tx_nxt + data.len + (IF fin THEN 1 ELSE 0)
  BY <1>2, <1>3, <1>5
<1> QED BY <1>1, <1>3, <1>4, <1>6 DEF out, n

\* What a step of the application or of Flow.Wnd.thread sends: nothing, or the
\* next data.
SendsData ==
    \/ UNCHANGED segVars
    \/ \E d \in Chunk : Output(d, FALSE) /\ d.pos = wnd.tx_nxt /\ ~FinSent

LEMMA DataSent ==
    ASSUME SegInv, NothingAfterFin, SegsAligned, AckOnEdge, WireInv, SendsData,
           state' = state, FinSent' <=> FinSent, written' = written \/ ~FinSent
    PROVE  NothingAfterFin' /\ SegsAligned' /\ AckOnEdge' /\ WireInv'
           /\ wnd'.ack_seq = wnd.ack_seq
<1>1. CanSend' => ~FinSent'
  BY DEF NothingAfterFin, CanSend
<1>2. \A i \in DOMAIN segs : segs[i].fin => FinSent' /\ segs[i].pos = written'
  BY DEF NothingAfterFin
<1>3. CASE UNCHANGED segVars
  <2>1. wnd' = wnd /\ segs' = segs /\ wire' = wire
    BY <1>3 DEF segVars
  <2> QED BY <1>1, <1>2, <2>1 DEF NothingAfterFin, SegsAligned, AckOnEdge, WireInv, WireAligned
<1>4. ASSUME NEW d \in Chunk, Output(d, FALSE), d.pos = wnd.tx_nxt
      PROVE  NothingAfterFin' /\ SegsAligned' /\ AckOnEdge' /\ WireInv' /\ wnd'.ack_seq = wnd.ack_seq
  <2> DEFINE n   == Len(segs)
             out == [seq |-> wnd.tx_nxt, pos |-> d.pos, len |-> d.len, fin |-> FALSE]
  <2>1. /\ wnd'.snd_una = wnd.snd_una /\ wnd'.ack_seq = wnd.ack_seq
        /\ n \in Nat /\ DOMAIN segs = 1..n /\ DOMAIN segs' = 1..(n + 1)
        /\ \A i \in 1..n : segs'[i] = segs[i]
        /\ segs'[n + 1] = out /\ wire' = <<out>>
    BY <1>4, OutputFacts
  <2>2. out.seq = out.pos /\ ~out.fin
    BY <1>4
  <2> HIDE DEF n, out
  <2>3. \A i \in 1..(n + 1) : i \in 1..n \/ i = n + 1
    BY <2>1
  <2>4. NothingAfterFin'
    <3>1. \A i \in 1..(n + 1) : segs'[i].fin => FinSent' /\ segs'[i].pos = written'
      BY <1>2, <2>1, <2>2, <2>3
    <3> QED BY <1>1, <2>1, <3>1 DEF NothingAfterFin
  <2>5. SegsAligned'
    <3>1. state.name # "Reset" => \A i \in 1..(n + 1) : segs'[i].pos = segs'[i].seq
      BY <2>1, <2>2, <2>3 DEF SegsAligned
    <3> QED BY <2>1, <3>1 DEF SegsAligned
  <2>6. AckOnEdge'
    <3>1. \A i \in 1..n : i \in 1..(n + 1)
      BY <2>1
    <3>2. \A i \in 1..n : SeqEnd(segs'[i]) = SeqEnd(segs[i])
      BY <2>1
    <3> QED BY <2>1, <3>1, <3>2 DEF AckOnEdge
  <2>7. WireInv'
    <3>1. DOMAIN wire' = {1} /\ wire'[1] = out
      BY <2>1
    <3> QED BY <2>2, <3>1 DEF WireInv, WireAligned
  <2> QED BY <2>1, <2>4, <2>5, <2>6, <2>7
<1> QED BY <1>3, <1>4 DEF SendsData

\* A step that changes neither the segments nor the window and ticks nothing.
LEMMA FinNumberedKeeps ==
    ASSUME FinNumbered, state' = state, FinSent' <=> FinSent, wnd'.ack_seq = wnd.ack_seq,
           written' = written \/ CanSend
    PROVE  FinNumbered'
  BY DEF FinNumbered, CanSend

\* The next n bytes as a segment.
NextData(n) == [seq |-> wnd.tx_nxt, pos |-> wnd.tx_nxt, len |-> n, fin |-> FALSE]

\* A step that transmits no data behind byte end, and nothing after the FIN.
SendsUpTo(end) ==
    /\ wnd'.snd_una = wnd.snd_una
    /\ \/ wnd'.tx_nxt = wnd.tx_nxt /\ segs' = segs /\ wire' = wire
       \/ \E n \in 1..(end - wnd.tx_nxt) :
             /\ ~FinSent
             /\ wnd'.tx_nxt = wnd.tx_nxt + n
             /\ segs' = Append(segs, NextData(n)) /\ wire' = <<NextData(n)>>

LEMMA OutputSends ==
    ASSUME SegInv, ~FinSent, NEW n \in Nat, n >= 1, NEW end \in Int, wnd.tx_nxt + n <= end,
           Output([pos |-> wnd.tx_nxt, len |-> n], FALSE)
    PROVE  SendsUpTo(end)
<1> DEFINE d == [pos |-> wnd.tx_nxt, len |-> n]
<1>1. wnd.tx_nxt \in Nat
  BY WndFields DEF SegInv
<1>2. d \in Chunk /\ d.len = n /\ d.pos = wnd.tx_nxt
  BY <1>1 DEF Chunk
<1>3. segs' = Append(segs, NextData(n)) /\ wire' = <<NextData(n)>>
  BY DEF Output, NextData
<1>4. Output(d, FALSE)
  OBVIOUS
<1> HIDE DEF d
<1>5. wnd'.tx_nxt = wnd.tx_nxt + d.len + 0 /\ wnd'.snd_una = wnd.snd_una
  BY <1>2, <1>4, OutputFacts
<1>6. wnd'.tx_nxt = wnd.tx_nxt + n /\ n \in 1..(end - wnd.tx_nxt)
  BY <1>1, <1>2, <1>5
<1> QED BY <1>3, <1>5, <1>6 DEF SendsUpTo

\* The first chunks of a buffer end before it does.
LEMMA WithinChain ==
    ASSUME NEW buf \in Seq(Chunk), NEW bytes \in Nat, NEW end \in Nat, Chain(buf, end, bytes),
           NEW k \in 1..Len(buf)
    PROVE  buf[1].pos + Length(buf, k) <= end /\ Length(buf, k) >= 1
<1> DEFINE n == Len(buf)
<1>1. n \in Nat /\ DOMAIN buf = 1..n /\ buf # <<>> /\ k \in 1..n /\ 1 \in 1..n /\ n \in 1..n
  BY LenProperties, EmptySeq
<1>2. \A i \in 1..n : buf[i].pos \in Int /\ buf[i].len \in Nat /\ buf[i].len >= 1
  <2>1. \A i \in 1..n : buf[i] \in Chunk
    BY ElementOfSeq
  <2>2. \A i \in 1..n : buf[i].len >= 1
    BY <1>1 DEF Chain
  <2> QED BY <2>1, <2>2 DEF Chunk
<1>3. \A i, j \in 1..n : i < j => buf[i].pos + buf[i].len <= buf[j].pos
  BY <1>1 DEF Chain, ChunkEnd
<1>4. buf[n].pos + buf[n].len = end
  BY <1>1 DEF Chain, ChunkEnd
<1> HIDE DEF n
<1>5. buf[k].pos + buf[k].len <= end
  <2>1. k = n \/ buf[k].pos + buf[k].len <= buf[n].pos
    BY <1>1, <1>3
  <2> QED BY <1>1, <1>2, <1>4, <2>1
<1>6. buf[1].pos <= buf[k].pos
  <2>1. k = 1 \/ buf[1].pos + buf[1].len <= buf[k].pos
    BY <1>1, <1>3
  <2> QED BY <1>1, <1>2, <2>1
<1> QED BY <1>1, <1>2, <1>5, <1>6 DEF Length

-----------------------------------------------------------------------------
(* clear_buffer.                                                           *)

LEMMA ClearBufferSends ==
    ASSUME SegInv, Queued, WaitersWait,
           NEW t \in Threads, pc[t] \notin {"waiting", "fin", "done"} \/ t = "wnd",
           NEW buf \in Seq(Chunk), NEW bytes \in Nat, NEW end \in Nat, Chain(buf, end, bytes),
           Flows(buf, bytes, end, wnd.tx_nxt, Sent, state.name), ClearBuffer(t, buf, bytes)
    PROVE  /\ WaitersWait' /\ (FinSent' <=> FinSent) /\ SendsData /\ SendsUpTo(end)
           /\ Flows(buffer', bufbytes', end, wnd'.tx_nxt, Sent, state.name)
<1>0. "wnd" \notin Closers /\ pc \in [Threads -> Places] /\ wnd.tx_nxt \in Nat
  BY TransmitAssumption, WndFields DEF Queued, SegInv
<1>1. CASE buffer' = buf /\ bufbytes' = bytes /\ Cleared(t) /\ UNCHANGED segVars
  <2>1. WaitersWait' /\ (FinSent' <=> FinSent)
    <3>1. CASE t = "wnd"
      BY <1>1, <3>1, InformWaiters DEF Cleared
    <3>2. CASE t # "wnd"
      <4>1. pc' = Moved(t, "ready") /\ waiters' = waiters
        BY <1>1, <3>2 DEF Cleared
      <4> QED BY <1>0, <3>2, <4>1, MoveWaiters, MoveFin
    <3> QED BY <3>1, <3>2
  <2>2. wnd' = wnd /\ SendsData /\ SendsUpTo(end)
    BY <1>1 DEF SendsData, SendsUpTo, segVars
  <2> QED BY <1>1, <2>1, <2>2
<1>2. CASE /\ buf # <<>>
           /\ \E k \in 1..Len(buf) :
                /\ buffer' = SubSeq(buf, k + 1, Len(buf))
                /\ bufbytes' = bytes - Length(buf, k)
                /\ Output([pos |-> buf[1].pos, len |-> Length(buf, k)], FALSE)
           /\ pc' = Moved(t, "clearing") /\ waiters' = waiters
  <2>1. PICK k \in 1..Len(buf) :
          /\ buffer' = SubSeq(buf, k + 1, Len(buf))
          /\ bufbytes' = bytes - Length(buf, k)
          /\ Output([pos |-> buf[1].pos, len |-> Length(buf, k)], FALSE)
    BY <1>2
  <2>2. Length(buf, k) \in Nat /\ buf[1] \in Chunk
    BY ChainTail
  <2> DEFINE d == [pos |-> buf[1].pos, len |-> Length(buf, k)]
  <2>3. buf[1].pos = wnd.tx_nxt /\ Sent = 0 /\ ~FinSent
    BY <1>2 DEF Flows, Sent
  <2>4. d \in Chunk /\ d.pos = wnd.tx_nxt /\ d.len = Length(buf, k)
    BY <2>2, <2>3 DEF Chunk
  <2>5. Output(d, FALSE)
    BY <2>1
  <2> HIDE DEF d
  <2>6. SendsData
    BY <2>3, <2>4, <2>5 DEF SendsData
  <2>7. wnd'.tx_nxt = wnd.tx_nxt + d.len + 0
    BY <2>4, <2>5, OutputFacts
  <2>8. wnd'.tx_nxt = wnd.tx_nxt + Length(buf, k)
    BY <1>0, <2>2, <2>4, <2>7
  <2>9. Flows(buffer', bufbytes', end, wnd'.tx_nxt, Sent, state.name)
    BY <1>0, <2>1, <2>3, <2>8, FlowsTail
  <2>10. WaitersWait' /\ (FinSent' <=> FinSent)
    BY <1>0, <1>2, MoveWaiters, MoveFin
  <2>11. SendsUpTo(end)
    <3>1. wnd.tx_nxt + Length(buf, k) <= end /\ Length(buf, k) >= 1
      BY <2>3, WithinChain
    <3>2. Output([pos |-> wnd.tx_nxt, len |-> Length(buf, k)], FALSE)
      BY <2>1, <2>3
    <3> HIDE DEF d
    <3>3. Length(buf, k) \in Nat /\ end \in Int
      BY <2>2
    <3> QED BY <2>3, <3>1, <3>2, <3>3, OutputSends
  <2> QED BY <2>6, <2>9, <2>10, <2>11
<1> QED BY <1>1, <1>2 DEF ClearBuffer

-----------------------------------------------------------------------------
(* State.tick.                                                             *)

\* The moves that matter to what is sent.
CloseMoves(s, i, to) ==
    /\ to.name \in {"Established", "Close_wait"} =>
           s.name \in {"Established", "Close_wait"} /\ i.name # "Send_fin"
    /\ to.name = "Fin_wait_1" => s.name = "Established" /\ i.name = "Send_fin" /\ to.n = i.n
    /\ to.name = "Closing" => s.name = "Fin_wait_1" /\ to.n = s.n
    /\ to.name = "Fin_wait_2" => s.name = "Fin_wait_1" /\ i.name = "Recv_ack" /\ i.n = s.n + 1
    /\ to.name = "Time_wait" =>
           \/ s.name = "Fin_wait_2" /\ i.name = "Recv_fin"
           \/ s.name = "Closing" /\ i.name = "Recv_ack" /\ i.n = s.n + 1
    /\ to.name = "Reset" => i.name = "Recv_rst"

LEMMA CloseMoveFacts ==
    ASSUME NEW s \in State, NEW i, i.n \in Int, i.name \in Inputs, NEW name \in StateNames,
           <<s.name, i.name, name>> \in MovesOf(s, i),
           s.name \notin {"Listen", "Syn_rcvd", "Syn_sent"}
    PROVE  CloseMoves(s, i, [name |-> name, n |-> Carried(s, i, name)])
<1> DEFINE to == [name |-> name, n |-> Carried(s, i, name)]
<1>1. /\ to.name = name /\ to.n = Carried(s, i, name)
      /\ name = "Fin_wait_1" => Carried(s, i, name) = i.n
      /\ name = "Closing" => Carried(s, i, name) = s.n
  BY DEF Carried
<1> HIDE DEF to
<1>2. CASE <<s.name, i.name, name>> \in Moves
  BY <1>1, <1>2 DEF Moves, Inputs, CloseMoves
<1>3. CASE <<s.name, i.name, name>> \in AckMoves /\ i.n = s.n + 1
  BY <1>1, <1>3 DEF AckMoves, Inputs, CloseMoves
<1> QED BY <1>2, <1>3 DEF MovesOf, to

LEMMA SendFinMoves ==
    ASSUME NEW s, NEW i, i.name = "Send_fin", s.name \in {"Established", "Close_wait"}
    PROVE  \E name \in StateNames : <<s.name, i.name, name>> \in MovesOf(s, i)
<1>1. <<s.name, i.name, "Fin_wait_1">> \in Moves \/ <<s.name, i.name, "Last_ack">> \in Moves
  BY DEF Moves
<1> QED BY <1>1 DEF MovesOf, StateNames

\* A tick of an open connection moves in one of these ways, counts an ACK in
\* Fin_wait_2, or does nothing; a Send_fin is not ignored in an open state.
LEMMA TickStream ==
    ASSUME NEW s \in State, NEW i, i.n \in Int, i.name \in Inputs,
           s.name \notin {"Listen", "Syn_rcvd", "Syn_sent"}
    PROVE  \/ CloseMoves(s, i, Tick(s, i))
           \/ /\ s.name = "Fin_wait_2" /\ Tick(s, i).name = "Fin_wait_2"
              /\ i.name = "Recv_ack"
           \/ /\ Tick(s, i) = s
              /\ ~(i.name = "Send_fin" /\ s.name \in {"Established", "Close_wait"})
<1>1. CASE s.name = "Fin_wait_2" /\ i.name = "Recv_ack"
  <2>1. Tick(s, i) = [s EXCEPT !.n = @ + 1]
    BY <1>1 DEF Tick
  <2>2. Tick(s, i).name = s.name
    BY <2>1 DEF State
  <2> QED BY <1>1, <2>2
<1>2. CASE ~(s.name = "Fin_wait_2" /\ i.name = "Recv_ack")
           /\ \E name \in StateNames : <<s.name, i.name, name>> \in MovesOf(s, i)
  <2> DEFINE to == CHOOSE name \in StateNames : <<s.name, i.name, name>> \in MovesOf(s, i)
  <2>1. to \in StateNames /\ <<s.name, i.name, to>> \in MovesOf(s, i)
    BY <1>2
  <2>2. Tick(s, i) = [name |-> to, n |-> Carried(s, i, to)]
    BY <1>2 DEF Tick
  <2> HIDE DEF to
  <2> QED BY <2>1, <2>2, CloseMoveFacts
<1>3. CASE ~(s.name = "Fin_wait_2" /\ i.name = "Recv_ack")
           /\ ~\E name \in StateNames : <<s.name, i.name, name>> \in MovesOf(s, i)
  <2>1. Tick(s, i) = s
    BY <1>3 DEF Tick
  <2> QED BY <1>3, <2>1, SendFinMoves
<1> QED BY <1>1, <1>2, <1>3

\* A tick other than that of a FIN, when nothing is sent.
LEMMA InputStream ==
    ASSUME IInv, StreamInv, NEW i, i.n \in Int, i.name \in Inputs \ {"Send_fin"}, Ticks(i),
           UNCHANGED <<appVars, segs, wire>>,
           wnd'.tx_nxt = wnd.tx_nxt, wnd'.snd_una = wnd.snd_una,
           IF i.name = "Recv_ack" THEN wnd'.ack_seq = i.n ELSE wnd'.ack_seq = wnd.ack_seq,
           i.name = "Recv_ack" =>
               /\ i.n \in wnd.ack_seq..wnd.tx_nxt
               /\ MidAcks \/ i.n = wnd.ack_seq \/ \E j \in DOMAIN segs : SeqEnd(segs[j]) = i.n
    PROVE  StreamInv'
<1>1. /\ buffer' = buffer /\ bufbytes' = bufbytes /\ waiters' = waiters /\ pc' = pc
      /\ written' = written /\ segs' = segs /\ wire' = wire
  BY DEF appVars
<1>2. FinSent' <=> FinSent
  BY <1>1 DEF FinSent
<1>3. Sent' = Sent
  BY <1>2 DEF Sent
<1>4. /\ state \in State /\ state' = Tick(state, i)
      /\ state.name \notin {"Listen", "Syn_rcvd", "Syn_sent"}
  BY DEF IInv, StInv, StateOpen, Ticks
<1>5. \/ CloseMoves(state, i, state')
      \/ state.name = "Fin_wait_2" /\ state'.name = "Fin_wait_2" /\ i.name = "Recv_ack"
      \/ state' = state
  BY <1>4, TickStream
<1>6. state.name = "Reset" => state'.name = "Reset"
  BY TicksKeep DEF IInv
<1>7. CanSend' => CanSend
  BY <1>5 DEF CanSend, CloseMoves
<1>8. WaitersWait'
  BY <1>1 DEF StreamInv, WaitersWait
<1>9. BufferFlows'
  BY <1>1, <1>3, <1>6 DEF StreamInv, BufferFlows, Flows
<1>10. NothingAfterFin'
  BY <1>1, <1>2, <1>7 DEF StreamInv, NothingAfterFin
<1>11. SegsAligned' /\ AckOnEdge' /\ WireInv'
  <2>1. SegsAligned'
    BY <1>1, <1>6 DEF StreamInv, SegsAligned
  <2>2. AckOnEdge'
    BY <1>1, <1>6 DEF StreamInv, AckOnEdge
  <2>3. WireInv'
    BY <1>1, <1>6 DEF StreamInv, WireInv, WireAligned
  <2> QED BY <2>1, <2>2, <2>3
<1>12. FinNumbered'
  <2>1. FinSent /\ state.name # "Reset" => wnd.tx_nxt = written + 1
    BY DEF StreamInv, BufferFlows, Flows, Sent
  <2>2. wnd.tx_nxt \in Nat /\ wnd.ack_seq \in Nat
    BY WndFields DEF IInv, SegInv
  <2>3. FinNumbered
    BY DEF StreamInv
  <2>4. ASSUME state'.name \in {"Fin_wait_1", "Closing"} PROVE FinSent /\ state'.n = written
    BY <1>5, <2>3, <2>4 DEF FinNumbered, CloseMoves
  <2>5. ASSUME state'.name \in {"Fin_wait_2", "Time_wait"} PROVE FinSent /\ wnd'.ack_seq = written + 1
    <3>1. CASE state.name \in {"Fin_wait_2", "Time_wait"}
      <4>1. FinSent /\ wnd.ack_seq = written + 1 /\ wnd.tx_nxt = written + 1
        BY <2>1, <2>3, <3>1 DEF FinNumbered
      <4> QED BY <2>2, <4>1
    <3>2. CASE state.name \notin {"Fin_wait_2", "Time_wait"}
      <4>1. state.name \in {"Fin_wait_1", "Closing"} /\ i.name = "Recv_ack" /\ i.n = state.n + 1
        BY <1>5, <2>5, <3>2 DEF CloseMoves
      <4> QED BY <2>3, <4>1 DEF FinNumbered
    <3> QED BY <3>1, <3>2
  <2> QED BY <1>1, <1>2, <2>4, <2>5 DEF FinNumbered
<1> QED BY <1>8, <1>9, <1>10, <1>11, <1>12 DEF StreamInv

LEMMA InputAckStream ==
    ASSUME IInv, StreamInv, NEW a \in 0..wnd.tx_nxt, NEW win \in Windows, InputAck(a, win)
    PROVE  StreamInv' /\ wnd'.tx_nxt = wnd.tx_nxt /\ wnd'.snd_una = wnd.snd_una
<1> DEFINE i == ActSeq("Recv_ack", a)
<1>1. /\ Ticks(i) /\ a \in AckPoints
      /\ wnd' = [wnd EXCEPT !.ack_seq = a, !.ack_win = win,
                            !.ack_serviced = @ /\ ~Alerts(a, win)]
      /\ UNCHANGED <<appVars, segs, wire>>
  BY DEF InputAck
<1>2. wnd \in Wnd /\ a \in Nat /\ wnd.ack_seq \in Nat /\ wnd.tx_nxt \in Nat
  BY WndFields DEF IInv, SegInv
<1>3. i.n = a /\ i.name = "Recv_ack" /\ i.name \in Inputs \ {"Send_fin"}
  BY DEF ActSeq, Inputs
<1> HIDE DEF i
<1>4. wnd'.tx_nxt = wnd.tx_nxt /\ wnd'.snd_una = wnd.snd_una /\ wnd'.ack_seq = a
  <2> DEFINE s == wnd.ack_serviced /\ ~Alerts(a, win)
  <2>1. wnd' = [wnd EXCEPT !.ack_seq = a, !.ack_win = win, !.ack_serviced = s]
    BY <1>1
  <2> HIDE DEF s
  <2> QED BY <1>2, <2>1 DEF Wnd
<1>5. MidAcks \/ a = wnd.ack_seq \/ \E j \in DOMAIN segs : SeqEnd(segs[j]) = a
  BY <1>1 DEF AckPoints
<1>6. a \in wnd.ack_seq..wnd.tx_nxt
  <2>1. a >= wnd.ack_seq /\ a <= wnd.tx_nxt
    BY <1>1, <1>2 DEF AckPoints
  <2> QED BY <1>2, <2>1
<1> QED BY <1>1, <1>2, <1>3, <1>4, <1>5, <1>6, InputStream

LEMMA OtherInputStream ==
    ASSUME IInv, StreamInv, InputReset \/ InputFin \/ TimerGivesUp
    PROVE  StreamInv'
<1> DEFINE rst == Act("Recv_rst")
           fin == Act("Recv_fin")
           out == Act("Timeout")
<1>1. \A i \in {rst, fin, out} : i.n \in Int /\ i.name \in Inputs \ {"Send_fin"} /\ i.name # "Recv_ack"
  BY DEF Act, Inputs
<1>2. UNCHANGED <<appVars, wnd, segs, wire>> /\ (Ticks(rst) \/ Ticks(fin) \/ Ticks(out))
  BY DEF InputReset, InputFin, TimerGivesUp, segVars
<1> HIDE DEF rst, fin, out
<1> QED BY <1>1, <1>2, InputStream

\* The timers end in Closed.
LEMMA TimerStateStream ==
    ASSUME IInv, StreamInv, Finwait2timer \/ Timewait
    PROVE  StreamInv'
<1>1. /\ buffer' = buffer /\ bufbytes' = bufbytes /\ waiters' = waiters /\ pc' = pc
      /\ written' = written /\ segs' = segs /\ wire' = wire /\ wnd' = wnd
  BY DEF Finwait2timer, Timewait, appVars, segVars
<1>2. FinSent' <=> FinSent
  BY <1>1 DEF FinSent
<1>3. state' = state \/ (state'.name = "Closed" /\ state.name # "Reset")
  BY DEF Finwait2timer, Timewait, St, IInv, StInv, StateOpen
<1>4. WaitersWait' /\ NothingAfterFin' /\ FinNumbered'
  BY <1>1, <1>2, <1>3 DEF StreamInv, WaitersWait, NothingAfterFin, FinNumbered, CanSend
<1>5. BufferFlows'
  BY <1>1, <1>2, <1>3 DEF StreamInv, BufferFlows, Flows, Sent
<1>6. SegsAligned' /\ AckOnEdge' /\ WireInv'
  BY <1>1, <1>3 DEF StreamInv, SegsAligned, AckOnEdge, WireInv, WireAligned
<1> QED BY <1>4, <1>5, <1>6 DEF StreamInv

-----------------------------------------------------------------------------
(* The application and Flow.Wnd.thread.                                    *)

\* A thread moves, and perhaps joins those that wait.
LEMMA MoveKeepsStream ==
    ASSUME IInv, StreamInv, NEW t \in Threads, NEW place, pc[t] # "waiting", pc' = Moved(t, place),
           t \in Closers => (pc[t] \in {"fin", "done"} <=> place \in {"fin", "done"}),
           waiters' = waiters \/ (t \in Writers \cup Closers /\ Waits(t)),
           UNCHANGED <<buffer, bufbytes, written, segVars, state>>
    PROVE  StreamInv'
<1>1. wnd' = wnd /\ segs' = segs /\ wire' = wire
  BY DEF segVars
<1>2. Queued
  BY DEF IInv, AppInv, Queued
<1>3. FinSent' <=> FinSent
  BY <1>2, MoveFin DEF Queued
<1>4. WaitersWait'
  BY <1>2, MoveWaiters, JoinWaiters DEF StreamInv
<1>5. BufferFlows'
  BY <1>1, <1>3 DEF StreamInv, BufferFlows, Flows, Sent
<1>6. NothingAfterFin' /\ FinNumbered'
  BY <1>1, <1>3 DEF StreamInv, NothingAfterFin, FinNumbered, CanSend
<1>7. SegsAligned' /\ AckOnEdge' /\ WireInv'
  BY <1>1 DEF StreamInv, SegsAligned, AckOnEdge, WireInv, WireAligned
<1> QED BY <1>4, <1>5, <1>6, <1>7 DEF StreamInv

\* A step that sends the next data, or none.
LEMMA SendsStream ==
    ASSUME IInv, StreamInv, SendsData, WaitersWait', FinSent' <=> FinSent, state' = state,
           written' = written \/ CanSend,
           Flows(buffer', bufbytes', written', wnd'.tx_nxt, Sent, state.name)
    PROVE  StreamInv'
<1>1. written' = written \/ ~FinSent
  BY DEF StreamInv, NothingAfterFin
<1>2. NothingAfterFin' /\ SegsAligned' /\ AckOnEdge' /\ WireInv' /\ wnd'.ack_seq = wnd.ack_seq
  BY <1>1, DataSent DEF StreamInv, IInv
<1>3. FinNumbered'
  BY <1>2, FinNumberedKeeps DEF StreamInv
<1>4. Sent' = Sent
  BY DEF Sent
<1>5. BufferFlows'
  BY <1>4 DEF BufferFlows
<1> QED BY <1>2, <1>3, <1>5 DEF StreamInv

\* A write takes bytes while no FIN has been sent, and may send data up to them.
LEMMA WriteSends ==
    ASSUME IInv, StreamInv, NEW w \in Writers, Write(w)
    PROVE  /\ CanSend /\ ~FinSent /\ state.name # "Reset" /\ state' = state
           /\ written' \in Nat /\ written' > written
           /\ WaitersWait' /\ (FinSent' <=> FinSent) /\ SendsData /\ SendsUpTo(written')
           /\ Flows(buffer', bufbytes', written', wnd'.tx_nxt, Sent, state.name)
<1>1. PICK n \in 1..MinOf(left[w], MinOf(Mss, Available)) :
        UtxWrite(w, n) /\ written' = written + n
  BY DEF Write
<1>2. CanSend /\ left[w] > 0 /\ Available > 0 /\ pc[w] \in {"ready", "woken"} /\ state' = state
  BY DEF Write, stVars
<1>3. /\ buffer \in Seq(Chunk) /\ bufbytes \in Nat /\ written \in Nat /\ left[w] \in Nat
      /\ Chain(buffer, written, bufbytes) /\ Queued /\ SegInv /\ WaitersWait
      /\ wnd.tx_nxt \in Nat /\ MaxSize \in Nat /\ Mss \in Nat \ {0}
  BY WndFields, TransmitAssumption DEF IInv, AppInv, Queued, SegInv, StreamInv
<1>4. n \in Nat /\ n >= 1 /\ bufbytes + n <= MaxSize
  <2>1. Available = MaxSize - bufbytes
    BY <1>2 DEF Available
  <2>2. Available \in Int /\ n <= Available /\ n \in Nat /\ n >= 1
    BY <1>3, <2>1 DEF MinOf
  <2> QED BY <1>3, <2>1, <2>2
<1>5. ~FinSent /\ Sent = 0 /\ state.name # "Reset"
  BY <1>2 DEF StreamInv, NothingAfterFin, CanSend, Sent
<1>6. Flows(buffer, bufbytes, written, wnd.tx_nxt, 0, state.name)
  BY <1>5 DEF StreamInv, BufferFlows
<1>7. w \in Threads /\ w \notin Closers
  BY TransmitAssumption DEF Threads
<1> DEFINE chunk == [pos |-> written, len |-> n]
           bytes == bufbytes + n
           all   == Append(buffer, chunk)
<1>8. chunk \in Chunk /\ chunk.pos = written /\ chunk.len = n
  BY <1>3, <1>4 DEF Chunk
<1>9. UtxWrite(w, n) /\ bytes \in Nat /\ bytes <= MaxSize /\ written + n \in Nat
  BY <1>1, <1>3, <1>4
<1>10. /\ all \in Seq(Chunk) /\ Chain(all, written + n, bytes)
       /\ Flows(all, bytes, written + n, wnd.tx_nxt, 0, state.name)
  <2> HIDE DEF chunk
  <2>1. all \in Seq(Chunk) /\ Chain(all, written + n, bytes)
    BY <1>3, <1>4, <1>8, ChainAppend
  <2>2. Flows(all, bytes, written + n, wnd.tx_nxt, 0, state.name)
    BY <1>3, <1>4, <1>5, <1>6, <1>8, FlowsAppend
  <2> QED BY <2>1, <2>2
<1>11. /\ WaitersWait' /\ (FinSent' <=> FinSent) /\ SendsData /\ SendsUpTo(written + n)
       /\ Flows(buffer', bufbytes', written + n, wnd'.tx_nxt, 0, state.name)
  <2>1. CASE /\ Eager(w, n) /\ Output(chunk, FALSE) /\ pc' = Moved(w, "direct")
             /\ UNCHANGED <<buffer, bufbytes, waiters>>
    <3>1. buffer = <<>> /\ wnd.tx_nxt = written /\ bufbytes = 0
      BY <1>3, <1>5, <1>6, <2>1 DEF Eager, Flows
    <3>2. SendsData
      BY <1>5, <1>8, <2>1, <3>1 DEF SendsData
    <3>3. wnd'.tx_nxt = wnd.tx_nxt + n + 0
      <4> HIDE DEF chunk
      <4> QED BY <1>3, <1>8, <2>1, OutputFacts
    <3>4. Flows(buffer', bufbytes', written + n, wnd'.tx_nxt, 0, state.name)
      BY <1>3, <1>4, <2>1, <3>1, <3>3 DEF Flows
    <3>5. WaitersWait' /\ (FinSent' <=> FinSent)
      BY <1>2, <1>3, <1>7, <2>1, MoveWaiters, MoveFin DEF Queued
    <3>6. SendsUpTo(written + n)
      <4>1. Output([pos |-> wnd.tx_nxt, len |-> n], FALSE)
        BY <2>1, <3>1
      <4>2. wnd.tx_nxt + n <= written + n
        BY <1>3, <1>4, <3>1
      <4>3. written + n \in Int
        BY <1>9
      <4> HIDE DEF chunk, bytes, all
      <4> QED BY <1>3, <1>4, <1>5, <4>1, <4>2, <4>3, OutputSends
    <3> QED BY <3>2, <3>4, <3>5, <3>6
  <2>2. CASE /\ buffer' = all /\ bufbytes' = bytes /\ pc' = Moved(w, "ready")
             /\ UNCHANGED <<segVars, waiters>>
    <3>1. wnd' = wnd /\ SendsData /\ SendsUpTo(written + n)
      BY <2>2 DEF SendsData, SendsUpTo, segVars
    <3>2. WaitersWait' /\ (FinSent' <=> FinSent)
      BY <1>2, <1>3, <1>7, <2>2, MoveWaiters, MoveFin DEF Queued
    <3> QED BY <1>10, <2>2, <3>1, <3>2
  <2>3. CASE ClearBuffer(w, all, bytes)
    <3> HIDE DEF chunk, bytes, all
    <3>1. Flows(all, bytes, written + n, wnd.tx_nxt, Sent, state.name)
      BY <1>5, <1>10
    <3>2. pc[w] \notin {"waiting", "fin", "done"}
      BY <1>2
    <3>3. /\ WaitersWait' /\ (FinSent' <=> FinSent) /\ SendsData /\ SendsUpTo(written + n)
          /\ Flows(buffer', bufbytes', written + n, wnd'.tx_nxt, Sent, state.name)
      BY <1>3, <1>7, <1>9, <1>10, <2>3, <3>1, <3>2, ClearBufferSends
    <3> QED BY <1>5, <3>3
  <2> QED BY <1>9, <2>1, <2>2, <2>3 DEF UtxWrite
<1> HIDE DEF chunk, bytes, all
<1>12. written' = written + n /\ written' \in Nat /\ written' > written
  BY <1>1, <1>3, <1>4, <1>9
<1> QED BY <1>2, <1>5, <1>11, <1>12

LEMMA WriteStream == ASSUME IInv, StreamInv, NEW w \in Writers, Write(w) PROVE StreamInv'
  BY WriteSends, SendsStream

LEMMA WaitStream ==
    ASSUME IInv, StreamInv, NEW t \in Threads,
           \/ t \in Writers /\ (WriteWaits(t) \/ WriteFails(t))
           \/ t \in Closers /\ CloseWaits(t)
    PROVE  StreamInv'
<1>1. UNCHANGED <<buffer, bufbytes, written, segVars, state>>
  BY DEF WriteWaits, WriteFails, CloseWaits, stVars
<1>2. Writers \cap Closers = {}
  BY TransmitAssumption
<1>3. CASE t \in Writers /\ WriteWaits(t)
  BY <1>1, <1>2, <1>3, MoveKeepsStream DEF WriteWaits, Waits
<1>4. CASE t \in Writers /\ WriteFails(t)
  BY <1>1, <1>2, <1>4, MoveKeepsStream DEF WriteFails
<1>5. CASE t \in Closers /\ CloseWaits(t)
  BY <1>1, <1>2, <1>5, MoveKeepsStream DEF CloseWaits, Closes, Waits
<1> QED BY <1>3, <1>4, <1>5

\* The FIN goes out behind all the data, unless the connection was reset.
FinSegment == [seq |-> wnd.tx_nxt, pos |-> written, len |-> 0, fin |-> TRUE]

FinGoes ==
    /\ ~FinSent /\ FinSent' /\ written' = written
    /\ segs' = Append(segs, FinSegment) /\ wire' = <<FinSegment>>
    /\ wnd'.tx_nxt = wnd.tx_nxt + 1 /\ wnd'.snd_una = wnd.snd_una
    /\ state.name = "Reset" <=> state'.name = "Reset"
    /\ state.name # "Reset" => wnd.tx_nxt = written

LEMMA CloseStream ==
    ASSUME OneCloser, IInv, StreamInv, NEW c \in Closers, CloseSends(c)
    PROVE  StreamInv' /\ FinGoes
<1> DEFINE i    == ActSeq("Send_fin", wnd.tx_nxt)
           data == [pos |-> written, len |-> 0]
           n    == Len(segs)
           out  == [seq |-> wnd.tx_nxt, pos |-> data.pos, len |-> data.len, fin |-> TRUE]
<1>1. /\ Ticks(i) /\ Output(data, TRUE) /\ pc' = Moved(c, "fin") /\ Closes(c) /\ buffer = <<>>
      /\ buffer' = buffer /\ bufbytes' = bufbytes /\ waiters' = waiters /\ written' = written
  BY DEF CloseSends
<1>2. /\ written \in Nat /\ wnd.tx_nxt \in Nat /\ SegInv /\ Queued /\ pc \in [Threads -> Places]
      /\ state \in State /\ state.name \notin {"Listen", "Syn_rcvd", "Syn_sent"} /\ c \in Threads
      /\ bufbytes \in Nat
  BY WndFields DEF IInv, AppInv, SegInv, StInv, StateOpen, Queued, Threads
<1>3. data \in Chunk /\ data.pos = written /\ data.len = 0
  BY <1>2 DEF Chunk
<1>4. i.n = wnd.tx_nxt /\ i.n \in Int /\ i.name = "Send_fin" /\ i.name \in Inputs
  BY <1>2 DEF ActSeq, Inputs
<1>5. out.seq = wnd.tx_nxt /\ out.pos = written /\ out.len = 0 /\ out.fin
  BY <1>3
<1> HIDE DEF i, data
<1>6. /\ wnd'.tx_nxt = wnd.tx_nxt + 1
      /\ wnd'.snd_una = wnd.snd_una /\ wnd'.ack_seq = wnd.ack_seq
      /\ n \in Nat /\ DOMAIN segs = 1..n /\ DOMAIN segs' = 1..(n + 1)
      /\ \A j \in 1..n : segs'[j] = segs[j]
      /\ segs'[n + 1] = out /\ wire' = <<out>>
  <2>1. /\ wnd'.tx_nxt = wnd.tx_nxt + data.len + (IF TRUE THEN 1 ELSE 0)
        /\ wnd'.snd_una = wnd.snd_una /\ wnd'.ack_seq = wnd.ack_seq
        /\ n \in Nat /\ DOMAIN segs = 1..n /\ DOMAIN segs' = 1..(n + 1)
        /\ \A j \in 1..n : segs'[j] = segs[j]
        /\ segs'[n + 1] = out /\ wire' = <<out>>
    BY <1>1, <1>2, <1>3, OutputFacts
  <2>2. wnd'.tx_nxt = wnd.tx_nxt + 1
    BY <1>2, <1>3, <2>1
  <2> QED BY <2>1, <2>2
<1> HIDE DEF out, n
<1>7. \A j \in 1..(n + 1) : j \in 1..n \/ j = n + 1
  BY <1>6
<1>8. ~FinSent /\ FinSent'
  <2>1. pc[c] \notin {"fin", "done"}
    BY <1>1 DEF Closes
  <2>2. pc'[c] = "fin"
    BY <1>1, <1>2 DEF Moved
  <2>3. \A d \in Closers : d = c
    BY DEF OneCloser
  <2>4. \A d \in Closers : pc[d] \notin {"fin", "done"}
    BY <2>1, <2>3
  <2> QED BY <2>2, <2>4 DEF FinSent
<1>9. Sent = 0 /\ Sent' = 1
  BY <1>8 DEF Sent
<1>10. /\ state' = Tick(state, i)
       /\ CloseMoves(state, i, state') \/ (state' = state /\ ~CanSend)
  <2>1. state' = Tick(state, i)
    BY <1>1 DEF Ticks
  <2> QED BY <1>2, <1>4, <2>1, TickStream DEF CanSend
<1>11. /\ state.name = "Reset" <=> state'.name = "Reset"
       /\ ~CanSend'
  <2>1. state.name = "Reset" => state'.name = "Reset"
    BY <1>1, <1>4, TicksKeep DEF IInv
  <2> QED BY <1>4, <1>10, <2>1 DEF CanSend, CloseMoves
<1>12. state.name # "Reset" => wnd.tx_nxt = written /\ bufbytes = 0
  BY <1>1, <1>2, <1>9 DEF StreamInv, BufferFlows, Flows
<1>13. WaitersWait'
  BY <1>1, <1>2, MoveWaiters DEF StreamInv, Closes
<1>14. BufferFlows'
  <2>1. MaxSize \in Nat
    BY TransmitAssumption
  <2> QED BY <1>1, <1>2, <1>6, <1>9, <1>11, <1>12, <2>1 DEF BufferFlows, Flows
<1>15. NothingAfterFin'
  <2>1. \A j \in 1..n : ~segs[j].fin
    BY <1>6, <1>8 DEF StreamInv, NothingAfterFin
  <2>2. \A j \in 1..(n + 1) : segs'[j].fin => FinSent' /\ segs'[j].pos = written'
    BY <1>1, <1>5, <1>6, <1>7, <1>8, <2>1
  <2> QED BY <1>6, <1>11, <2>2 DEF NothingAfterFin
<1>16. FinNumbered'
  <2>1. state.name \notin {"Fin_wait_1", "Closing", "Fin_wait_2", "Time_wait"}
    BY <1>8 DEF StreamInv, FinNumbered
  <2>2. state'.name \in {"Fin_wait_1", "Closing"} => state'.n = written
    BY <1>4, <1>10, <1>12, <2>1 DEF CloseMoves
  <2>3. state'.name \notin {"Fin_wait_2", "Time_wait"}
    BY <1>4, <1>10, <2>1 DEF CloseMoves
  <2> QED BY <1>1, <1>8, <2>2, <2>3 DEF FinNumbered
<1>17. SegsAligned'
  <2>1. state.name # "Reset" => \A j \in 1..n : segs[j].pos = segs[j].seq
    BY <1>6 DEF StreamInv, SegsAligned
  <2>2. state'.name # "Reset" => \A j \in 1..(n + 1) : segs'[j].pos = segs'[j].seq
    BY <1>5, <1>6, <1>7, <1>11, <1>12, <2>1
  <2> QED BY <1>6, <2>2 DEF SegsAligned
<1>18. AckOnEdge'
  <2>1. \A j \in 1..n : j \in 1..(n + 1) /\ SeqEnd(segs'[j]) = SeqEnd(segs[j])
    BY <1>6
  <2> QED BY <1>6, <1>11, <2>1 DEF StreamInv, AckOnEdge
<1>19. WireInv'
  <2>1. DOMAIN wire' = {1} /\ wire'[1] = out
    BY <1>6
  <2> QED BY <1>5, <1>11, <1>12, <2>1 DEF WireInv, WireAligned
<1>20. FinGoes
  <2>1. segs' = Append(segs, FinSegment) /\ wire' = <<FinSegment>>
    BY DEF CloseSends, Output, FinSegment
  <2> QED BY <1>1, <1>6, <1>8, <1>11, <1>12, <2>1 DEF FinGoes
<1> QED BY <1>13, <1>14, <1>15, <1>16, <1>17, <1>18, <1>19, <1>20 DEF StreamInv

LEMMA OutputReturnsStream ==
    ASSUME IInv, StreamInv, NEW t \in Threads, OutputReturns(t)
    PROVE  StreamInv'
<1>1. written' = written /\ state' = state
  BY DEF OutputReturns, stVars
<1>2. CASE \E place \in {"ready", "done"} :
             /\ pc[t] = (IF place = "ready" THEN "direct" ELSE "fin") /\ pc' = Moved(t, place)
             /\ UNCHANGED <<segVars, buffer, bufbytes, waiters>>
  BY <1>1, <1>2, MoveKeepsStream
<1>3. CASE pc[t] = "clearing" /\ ClearBuffer(t, buffer, bufbytes)
  <2>1. /\ buffer \in Seq(Chunk) /\ bufbytes \in Nat /\ written \in Nat
        /\ Chain(buffer, written, bufbytes) /\ Queued /\ SegInv /\ WaitersWait
        /\ Flows(buffer, bufbytes, written, wnd.tx_nxt, Sent, state.name)
    BY DEF IInv, AppInv, Queued, StreamInv, BufferFlows
  <2>2. /\ WaitersWait' /\ (FinSent' <=> FinSent) /\ SendsData
        /\ Flows(buffer', bufbytes', written, wnd'.tx_nxt, Sent, state.name)
    BY <1>3, <2>1, ClearBufferSends
  <2> QED BY <1>1, <2>2, SendsStream
<1> QED BY <1>2, <1>3 DEF OutputReturns

LEMMA WndThreadStream == ASSUME IInv, StreamInv, WndThread PROVE StreamInv'
<1>1. written' = written /\ state' = state
  BY DEF WndThread, WndFree, WndReset, stVars
<1>2. /\ buffer \in Seq(Chunk) /\ bufbytes \in Nat /\ written \in Nat
      /\ Chain(buffer, written, bufbytes) /\ Queued /\ SegInv /\ WaitersWait
      /\ Flows(buffer, bufbytes, written, wnd.tx_nxt, Sent, state.name)
  BY DEF IInv, AppInv, Queued, StreamInv, BufferFlows
<1>3. CASE WndFree
  <2>1. ClearBuffer("wnd", buffer, bufbytes) /\ "wnd" \in Threads
    BY <1>3 DEF WndFree, Threads
  <2>2. /\ WaitersWait' /\ (FinSent' <=> FinSent) /\ SendsData
        /\ Flows(buffer', bufbytes', written, wnd'.tx_nxt, Sent, state.name)
    BY <1>2, <2>1, ClearBufferSends
  <2> QED BY <1>1, <2>2, SendsStream
<1>4. CASE WndReset
  <2>1. buffer' = <<>> /\ InformAndTake /\ state.name = "Reset" /\ UNCHANGED segVars
    BY <1>4 DEF WndReset
  <2>2. WaitersWait' /\ (FinSent' <=> FinSent)
    BY <1>2, <2>1, InformWaiters
  <2>3. SendsData
    BY <2>1 DEF SendsData
  <2>4. Flows(buffer', bufbytes', written, wnd'.tx_nxt, Sent, state.name)
    BY <2>1 DEF Flows
  <2> QED BY <1>1, <2>2, <2>3, <2>4, SendsStream
<1> QED BY <1>3, <1>4 DEF WndThread

-----------------------------------------------------------------------------
(* rto_t and the retransmission timer.                                     *)

\* An ACK for whole segments clears up to the data it asks for.
LEMMA ClearsToAck ==
    ASSUME SegInv, state.name # "Reset", ~MidAcks, AckOnEdge,
           NEW k \in ClearSegs(wnd.ack_seq - wnd.snd_una)
    PROVE  wnd.snd_una + ClearedLen(k) = wnd.ack_seq
<1> DEFINE m == Len(segs)
           n == wnd.ack_seq - wnd.snd_una
<1>1. /\ k \in 0..m /\ ClearedLen(k) <= n /\ (k < m => ClearedLen(k + 1) > n) /\ m \in Nat
      /\ DOMAIN segs = 1..m
  BY LenProperties DEF ClearSegs, SegInv
<1>2. /\ \A i \in 1..m : segs[i] \in Seg /\ SeqLen(segs[i]) >= 1
      /\ \A i, j \in 1..m : i < j => SeqEnd(segs[i]) <= segs[j].seq
  BY LenProperties, ElementOfSeq DEF SegInv, SegsOrdered
<1>3. segs # <<>> => segs[1].seq = wnd.snd_una
  BY DEF SegInv, SegsTile
<1>4. wnd.snd_una \in Nat /\ wnd.ack_seq \in Nat /\ n \in Int
  BY WndFields DEF SegInv
<1>5. segs = <<>> <=> m = 0
  BY EmptySeq DEF SegInv
<1> HIDE DEF m
<1>6. \A i \in 1..m : /\ segs[i].seq \in Int /\ SeqEnd(segs[i]) \in Int
                      /\ SeqEnd(segs[i]) >= segs[i].seq + 1
  BY <1>2, SegFields
<1>7. \A i \in 1..m : ClearedLen(i) = SeqEnd(segs[i]) - wnd.snd_una
  BY <1>1, <1>3, <1>5 DEF ClearedLen
<1>8. \A i, j \in 1..m : i < j => SeqEnd(segs[i]) < SeqEnd(segs[j])
  <2> SUFFICES ASSUME NEW i \in 1..m, NEW j \in 1..m, i < j
               PROVE  SeqEnd(segs[i]) < SeqEnd(segs[j])
    OBVIOUS
  <2>1. SeqEnd(segs[i]) <= segs[j].seq /\ SeqEnd(segs[j]) >= segs[j].seq + 1
    BY <1>2, <1>6
  <2> QED BY <1>6, <2>1
<1>9. \A i \in 1..m : SeqEnd(segs[i]) >= wnd.snd_una + 1
  <2> SUFFICES ASSUME NEW i \in 1..m PROVE SeqEnd(segs[i]) >= wnd.snd_una + 1
    OBVIOUS
  <2>1. 1 \in 1..m /\ segs[1].seq = wnd.snd_una
    BY <1>1, <1>3, <1>5
  <2>2. SeqEnd(segs[1]) >= wnd.snd_una + 1 /\ (i = 1 \/ SeqEnd(segs[1]) < SeqEnd(segs[i]))
    BY <1>6, <1>8, <2>1
  <2> QED BY <1>4, <1>6, <2>1, <2>2
<1>10. CASE wnd.ack_seq = wnd.snd_una
  <2>1. n = 0
    BY <1>4, <1>10
  <2>2. k = 0
    <3> SUFFICES ASSUME k # 0 PROVE FALSE
      OBVIOUS
    <3>1. k \in 1..m
      BY <1>1
    <3>2. ClearedLen(k) = SeqEnd(segs[k]) - wnd.snd_una /\ SeqEnd(segs[k]) >= wnd.snd_una + 1
          /\ SeqEnd(segs[k]) \in Int
      BY <1>6, <1>7, <1>9, <3>1
    <3> QED BY <1>1, <1>4, <2>1, <3>2
  <2>3. ClearedLen(k) = 0
    BY <2>2 DEF ClearedLen
  <2> QED BY <1>4, <1>10, <2>3
<1>11. ASSUME NEW i \in 1..m, SeqEnd(segs[i]) = wnd.ack_seq
       PROVE  wnd.snd_una + ClearedLen(k) = wnd.ack_seq
  <2>1. n = ClearedLen(i)
    BY <1>7, <1>11
  <2>2. ~(i < k)
    <3> SUFFICES ASSUME i < k PROVE FALSE
      OBVIOUS
    <3>1. k \in 1..m
      BY <1>1
    <3>2. SeqEnd(segs[i]) < SeqEnd(segs[k]) /\ SeqEnd(segs[k]) \in Int
      BY <1>6, <1>8, <3>1
    <3>3. ClearedLen(k) = SeqEnd(segs[k]) - wnd.snd_una
      BY <1>7, <3>1
    <3> QED BY <1>1, <1>4, <1>11, <3>2, <3>3
  <2>3. ~(k < i)
    <3> SUFFICES ASSUME k < i PROVE FALSE
      OBVIOUS
    <3>1. k + 1 \in 1..m /\ k < m
      BY <1>1
    <3>2. SeqEnd(segs[k + 1]) <= SeqEnd(segs[i]) /\ SeqEnd(segs[k + 1]) \in Int
      <4>1. k + 1 = i \/ k + 1 < i
        BY <1>1
      <4>2. k + 1 < i => SeqEnd(segs[k + 1]) < SeqEnd(segs[i])
        BY <1>8, <3>1
      <4> QED BY <1>6, <3>1, <4>1, <4>2
    <3>3. ClearedLen(k + 1) = SeqEnd(segs[k + 1]) - wnd.snd_una
      BY <1>7, <3>1
    <3> QED BY <1>1, <1>4, <1>11, <3>1, <3>2, <3>3
  <2>4. k = i
    BY <1>1, <2>2, <2>3
  <2> QED BY <1>4, <1>7, <1>11, <2>4
<1> QED BY <1>1, <1>10, <1>11 DEF AckOnEdge

\* What is left of the queue keeps its place in it.
LEMMA TailSegs ==
    ASSUME segs \in Seq(Seg), NEW k \in 0..Len(segs), segs' = SubSeq(segs, k + 1, Len(segs))
    PROVE  \A i \in DOMAIN segs' : \E j \in DOMAIN segs : segs'[i] = segs[j]
<1> DEFINE m == Len(segs)
<1>1. m \in Nat /\ DOMAIN segs = 1..m /\ k \in 0..m
  BY LenProperties
<1>2. \A i \in (k + 1)..m : segs[i] \in Seg
  BY <1>1, ElementOfSeq
<1>3. /\ segs' \in Seq(Seg) /\ Len(segs') = IF k + 1 <= m THEN m - (k + 1) + 1 ELSE 0
      /\ \A i \in 1..(m - (k + 1) + 1) : segs'[i] = segs[(k + 1) + i - 1]
  BY <1>1, <1>2, SubSeqProperties
<1>4. DOMAIN segs' = 1..(m - k)
  <2>1. DOMAIN segs' = 1..Len(segs')
    BY <1>3, LenProperties
  <2> HIDE DEF m
  <2>2. Len(segs') = m - k
    BY <1>1, <1>3
  <2> QED BY <2>1, <2>2
<1> HIDE DEF m
<1>5. \A i \in 1..(m - k) : i \in 1..(m - (k + 1) + 1) /\ (k + 1) + i - 1 \in 1..m
  BY <1>1
<1> QED BY <1>1, <1>3, <1>4, <1>5

LEMMA RtoAckStream == ASSUME IInv, StreamInv, IInv', RtoAck PROVE StreamInv'
<1>1. /\ buffer' = buffer /\ bufbytes' = bufbytes /\ waiters' = waiters /\ pc' = pc
      /\ written' = written /\ state' = state
  BY DEF RtoAck, appVars, stVars
<1>2. FinSent' <=> FinSent
  BY <1>1 DEF FinSent
<1>3. SegInv /\ wnd \in Wnd /\ segs \in Seq(Seg)
  BY DEF IInv, SegInv
<1>4. CASE state.name = "Reset" /\ ResetSegs
  <2>1. segs' = <<>> /\ wire' = wire /\ wnd' = [wnd EXCEPT !.ack_serviced = TRUE]
    BY <1>4 DEF ResetSegs
  <2>2. wnd'.tx_nxt = wnd.tx_nxt /\ wnd'.ack_seq = wnd.ack_seq
    BY <1>3, <2>1 DEF Wnd
  <2>3. WaitersWait' /\ NothingAfterFin' /\ FinNumbered'
    BY <1>1, <1>2, <2>1, <2>2 DEF StreamInv, WaitersWait, NothingAfterFin, FinNumbered, CanSend
  <2>4. BufferFlows'
    BY <1>1, <1>2, <2>2 DEF StreamInv, BufferFlows, Flows, Sent
  <2>5. SegsAligned' /\ AckOnEdge' /\ WireInv'
    BY <1>1, <1>4, <2>1 DEF StreamInv, SegsAligned, AckOnEdge, WireInv, WireAligned
  <2> QED BY <2>3, <2>4, <2>5 DEF StreamInv
<1>5. CASE state.name # "Reset" /\ ServiceAck
  <2> DEFINE seq     == wnd.ack_seq
             ack_len == seq - wnd.snd_una
             dup     == ack_len = 0 /\ wnd.tx_wnd = wnd.ack_win /\ segs # <<>>
             W(k)      == TxAck(wnd, wnd.snd_una + ClearedLen(k), wnd.ack_win)
             Counts(k) == dup \/ W(k).fast_recovery
             Rexmit(k) == Counts(k) /\ (CountDup = 3 \/ ack_len > 0)
             m       == Len(segs)
  <2>1. PICK k \in ClearSegs(ack_len) :
           /\ segs' = SubSeq(segs, k + 1, m)
           /\ wnd' = [(IF Rexmit(k) THEN AlertFastRexmit(W(k)) ELSE W(k)) EXCEPT !.ack_serviced = TRUE]
           /\ wire' = IF Rexmit(k) /\ segs' # <<>> THEN <<[segs'[1] EXCEPT !.seq = seq]>> ELSE wire
    BY <1>5 DEF ServiceAck
  <2> DEFINE r == wnd.snd_una + ClearedLen(k)
             w == W(k)
             rexmit == Rexmit(k)
  <2>2. /\ wnd \in Wnd /\ Sane(wnd) /\ ack_len \in Int /\ seq \in Nat
        /\ wnd.snd_una \in Nat /\ wnd.ack_win \in Windows
    BY <1>3, WndFields DEF SegInv
  <2>3. k \in 0..m /\ r \in Nat /\ r >= wnd.snd_una /\ r <= wnd.tx_nxt
    <3>1. k \in 0..m /\ ClearedLen(k) \in Nat /\ r <= wnd.tx_nxt
      <4> HIDE DEF ack_len, seq
      <4> QED BY <1>3, <1>5, <2>1, <2>2, ClearedFacts
    <3> QED BY <2>2, <3>1
  <2>4. /\ w \in Wnd /\ Sane(w) /\ w.tx_nxt = wnd.tx_nxt /\ w.snd_una = r
        /\ w.ack_seq = seq
    <3>1. MaxOf(wnd.snd_una, r) = r /\ r \in Int
      BY <2>2, <2>3 DEF MaxOf
    <3> HIDE DEF r
    <3>2. w = TxAck(wnd, r, wnd.ack_win)
      BY DEF r
    <3> HIDE DEF w, W
    <3>3. w \in Wnd /\ Sane(w) /\ w.tx_nxt = wnd.tx_nxt /\ w.snd_una = r
      BY <2>2, <2>3, <3>1, <3>2, TxAckFacts
    <3>4. w.ack_seq = wnd.ack_seq
      BY <2>2, <3>2 DEF TxAck, Grow, Wnd
    <3> QED BY <3>3, <3>4
  <2>5. /\ wnd'.tx_nxt = wnd.tx_nxt /\ wnd'.snd_una = r /\ wnd'.ack_seq = seq
    <3> DEFINE v == IF rexmit THEN AlertFastRexmit(w) ELSE w
    <3>1. v \in Wnd /\ v.tx_nxt = wnd.tx_nxt /\ v.snd_una = r /\ v.ack_seq = seq
      <4> HIDE DEF w, r, rexmit, seq
      <4>1. /\ AlertFastRexmit(w) \in Wnd /\ AlertFastRexmit(w).tx_nxt = wnd.tx_nxt
            /\ AlertFastRexmit(w).snd_una = r
        BY <2>4, AlertFacts
      <4>2. AlertFastRexmit(w).ack_seq = seq
        BY <2>4 DEF AlertFastRexmit, Wnd
      <4> QED BY <2>4, <4>1, <4>2
    <3>2. wnd' = [v EXCEPT !.ack_serviced = TRUE]
      BY <2>1
    <3> HIDE DEF v, r, seq
    <3> QED BY <3>1, <3>2 DEF Wnd
  <2>6. \A i \in DOMAIN segs' : \E j \in DOMAIN segs : segs'[i] = segs[j]
    BY <1>3, <2>1, <2>3, TailSegs
  <2>7. segs' # <<>> => segs'[1].seq = wnd'.snd_una /\ 1 \in DOMAIN segs'
    <3>1. segs' # <<>> => segs'[1].seq = wnd'.snd_una
      BY <1>1, <1>5 DEF IInv, SegInv, SegsTile
    <3>2. segs' \in Seq(Seg)
      BY DEF IInv, SegInv
    <3> QED BY <3>1, <3>2, EmptySeq, LenProperties
  <2>8. ~MidAcks => r = seq
    <3> SUFFICES ASSUME ~MidAcks PROVE r = seq
      OBVIOUS
    <3>1. AckOnEdge
      BY DEF StreamInv
    <3> QED BY <1>3, <1>5, <2>1, <3>1, ClearsToAck
  <2>9. wire' = wire \/ (segs' # <<>> /\ wire' = <<[segs'[1] EXCEPT !.seq = seq]>>)
    BY <2>1
  <2> HIDE DEF r, w, rexmit, ack_len, seq, dup, W, Counts, Rexmit, m
  <2>10. WaitersWait' /\ FinNumbered'
    BY <1>1, <1>2, <2>5 DEF StreamInv, WaitersWait, FinNumbered, seq
  <2>11. NothingAfterFin'
    BY <1>1, <1>2, <2>6 DEF StreamInv, NothingAfterFin, CanSend
  <2>12. BufferFlows'
    BY <1>1, <1>2, <2>5 DEF StreamInv, BufferFlows, Flows, Sent
  <2>13. SegsAligned'
    BY <1>1, <2>6 DEF StreamInv, SegsAligned
  <2>14. AckOnEdge'
    BY <2>5, <2>8 DEF AckOnEdge
  <2>15. WireInv'
    <3>1. CASE wire' = wire
      BY <1>1, <3>1 DEF StreamInv, WireInv, WireAligned
    <3>2. CASE segs' # <<>> /\ wire' = <<[segs'[1] EXCEPT !.seq = seq]>>
      <4> SUFFICES ASSUME ~MidAcks PROVE WireAligned'
        BY DEF WireInv
      <4>1. segs'[1].pos = segs'[1].seq /\ segs'[1].seq = seq
        BY <1>1, <1>5, <2>5, <2>7, <2>8, <2>13, <3>2 DEF SegsAligned
      <4>2. segs'[1] \in Seg
        <5>1. segs' \in Seq(Seg)
          BY DEF IInv, SegInv
        <5> QED BY <3>2, <5>1, EmptySeq, LenProperties, ElementOfSeq
      <4>3. DOMAIN wire' = {1} /\ wire'[1] = [segs'[1] EXCEPT !.seq = seq]
        BY <3>2
      <4>4. wire'[1].pos = wire'[1].seq
        BY <4>1, <4>2, <4>3 DEF Seg
      <4> QED BY <4>3, <4>4 DEF WireAligned
    <3> QED BY <2>9, <3>1, <3>2
  <2> QED BY <2>10, <2>11, <2>12, <2>13, <2>14, <2>15 DEF StreamInv
<1> QED BY <1>4, <1>5 DEF RtoAck

LEMMA TimerStream ==
    ASSUME IInv, StreamInv, TimerStops \/ TimerMoves \/ TimerRexmits
    PROVE  StreamInv'
<1>1. /\ buffer' = buffer /\ bufbytes' = bufbytes /\ waiters' = waiters /\ pc' = pc
      /\ written' = written /\ state' = state /\ segs' = segs
  BY DEF TimerStops, TimerMoves, TimerRexmits, appVars, stVars
<1>2. FinSent' <=> FinSent
  BY <1>1 DEF FinSent
<1>3. wnd \in Wnd /\ Sane(wnd) /\ segs \in Seq(Seg)
  BY DEF IInv, SegInv
<1>4. wnd'.tx_nxt = wnd.tx_nxt /\ wnd'.snd_una = wnd.snd_una /\ wnd'.ack_seq = wnd.ack_seq
  <2>1. CASE TimerStops \/ TimerMoves
    BY <2>1 DEF TimerStops, TimerMoves
  <2>2. CASE TimerRexmits
    <3> DEFINE a == AlertFastRexmit(wnd)
    <3>1. a \in Wnd /\ a.tx_nxt = wnd.tx_nxt /\ a.snd_una = wnd.snd_una
      BY <1>3, AlertFacts
    <3>2. a.ack_seq = wnd.ack_seq
      BY <1>3 DEF AlertFastRexmit, Wnd
    <3>3. wnd' = [a EXCEPT !.backoff_count = @ + 1]
      BY <2>2 DEF TimerRexmits
    <3> HIDE DEF a
    <3> QED BY <3>1, <3>2, <3>3 DEF Wnd
  <2> QED BY <2>1, <2>2
<1>5. WaitersWait' /\ NothingAfterFin' /\ FinNumbered'
  BY <1>1, <1>2, <1>4 DEF StreamInv, WaitersWait, NothingAfterFin, FinNumbered, CanSend
<1>6. BufferFlows'
  BY <1>1, <1>2, <1>4 DEF StreamInv, BufferFlows, Flows, Sent
<1>7. SegsAligned' /\ AckOnEdge'
  BY <1>1, <1>4 DEF StreamInv, SegsAligned, AckOnEdge
<1>8. WireInv'
  <2>1. CASE wire' = wire
    BY <1>1, <2>1 DEF StreamInv, WireInv, WireAligned
  <2>2. CASE TimerRexmits
    <3>1. /\ segs # <<>> /\ segs[1].seq = timer.seq /\ state.name # "Reset"
          /\ wire' = <<[segs[1] EXCEPT !.seq = timer.seq]>>
      BY <2>2 DEF TimerRexmits, Retransmits
    <3>2. 1 \in DOMAIN segs /\ segs[1] \in Seg
      BY <1>3, <3>1, EmptySeq, LenProperties, ElementOfSeq
    <3>3. segs[1].pos = segs[1].seq
      BY <3>1, <3>2 DEF StreamInv, SegsAligned
    <3>4. DOMAIN wire' = {1} /\ wire'[1] = [segs[1] EXCEPT !.seq = timer.seq]
      BY <3>1
    <3>5. wire'[1].pos = wire'[1].seq
      BY <3>1, <3>2, <3>3, <3>4 DEF Seg
    <3> QED BY <3>4, <3>5 DEF WireInv, WireAligned
  <2> QED BY <2>1, <2>2 DEF TimerStops, TimerMoves
<1> QED BY <1>5, <1>6, <1>7, <1>8 DEF StreamInv

-----------------------------------------------------------------------------
(* The theorems.                                                           *)

\* Nothing has been sent.
LEMMA InitSent ==
    ASSUME Init
    PROVE  wnd.tx_nxt = 0 /\ wnd.ack_seq = 0 /\ wnd.snd_una = 0 /\ ~FinSent
<1>1. wnd.tx_nxt = 0 /\ wnd.ack_seq = 0 /\ wnd.snd_una = 0
  <2>1. PICK w \in Windows, v \in Windows :
          LET new == [tx_nxt |-> 0, snd_una |-> 0, tx_wnd |-> w, cwnd |-> MinOf(2 * Mss, CwndCap),
                      ssthresh |-> w, fast_recovery |-> FALSE, fast_rec_th |-> 0, backoff_count |-> 0,
                      ack_serviced |-> TRUE, ack_seq |-> 0, ack_win |-> v]
          IN  wnd \in {new, Grow(new, CwndIncr(new))}
    BY DEF Init
  <2> QED BY <2>1 DEF Grow
<1>2. ~FinSent
  <2>1. \A c \in Closers : c \in Threads /\ c # "wnd"
    BY TransmitAssumption DEF Threads
  <2>2. \A c \in Closers : pc[c] = "idle"
    BY <2>1 DEF Init
  <2> QED BY <2>2 DEF FinSent
<1> QED BY <1>1, <1>2

LEMMA InitStream == Init => StreamInv
<1> SUFFICES ASSUME Init PROVE StreamInv
  OBVIOUS
<1>1. IInv
  BY InitIInv
<1>2. /\ segs = <<>> /\ buffer = <<>> /\ bufbytes = 0 /\ waiters = <<>> /\ written = 0
      /\ state = St("Established") /\ wire = <<>>
      /\ pc = [t \in Threads |-> CASE t = "wnd" -> "take" [] t \in Closers -> "idle" [] OTHER -> "ready"]
  BY DEF Init
<1>3. wnd.tx_nxt = 0 /\ wnd.ack_seq = 0 /\ wnd.snd_una = 0 /\ ~FinSent
  BY InitSent
<1>4. state.name = "Established" /\ MaxSize \in Nat
  BY <1>2, TransmitAssumption DEF St
<1>5. WaitersWait /\ NothingAfterFin /\ FinNumbered
  BY <1>2, <1>3, <1>4 DEF WaitersWait, NothingAfterFin, FinNumbered
<1>6. BufferFlows
  BY <1>2, <1>3, <1>4 DEF BufferFlows, Flows, Sent
<1>7. SegsAligned /\ AckOnEdge /\ WireInv
  BY <1>2, <1>3 DEF SegsAligned, AckOnEdge, WireInv, WireAligned
<1> QED BY <1>5, <1>6, <1>7 DEF StreamInv

LEMMA StepStream ==
    ASSUME OneCloser
    PROVE  IInv /\ StreamInv /\ [Next]_vars => StreamInv'
<1> SUFFICES ASSUME IInv, StreamInv, [Next]_vars PROVE StreamInv'
  OBVIOUS
<1>1. ASSUME NEW t \in Threads, App(t) PROVE StreamInv'
  BY <1>1, WriteStream, WaitStream, CloseStream DEF App
<1>2. ASSUME NEW t \in Threads, OutputReturns(t) PROVE StreamInv'
  BY <1>2, OutputReturnsStream
<1>3. CASE WndThread
  BY <1>3, WndThreadStream
<1>4. CASE RtoAck
  BY <1>4, RtoAckStep, RtoAckStream
<1>5. CASE Ontimer
  BY <1>5, TimerStream, OtherInputStream DEF Ontimer
<1>6. ASSUME NEW a \in 0..wnd.tx_nxt, NEW win \in Windows, InputAck(a, win) PROVE StreamInv'
  BY <1>6, InputAckStream
<1>7. CASE InputReset \/ InputFin
  BY <1>7, OtherInputStream
<1>8. CASE Finwait2timer \/ Timewait
  BY <1>8, TimerStateStream
<1>9. CASE UNCHANGED vars
  <2>1. UNCHANGED <<appVars, segVars, state>>
    BY <1>9 DEF vars, stVars
  <2>2. /\ buffer' = buffer /\ bufbytes' = bufbytes /\ waiters' = waiters /\ pc' = pc
        /\ written' = written /\ state' = state /\ wnd' = wnd /\ segs' = segs /\ wire' = wire
    BY <2>1 DEF appVars, segVars
  <2>3. WaitersWait' /\ NothingAfterFin' /\ FinNumbered'
    BY <2>2 DEF StreamInv, WaitersWait, NothingAfterFin, FinNumbered, CanSend, FinSent
  <2>4. BufferFlows'
    BY <2>2 DEF StreamInv, BufferFlows, Sent, FinSent
  <2>5. SegsAligned' /\ AckOnEdge' /\ WireInv'
    BY <2>2 DEF StreamInv, SegsAligned, AckOnEdge, WireInv, WireAligned
  <2> QED BY <2>3, <2>4, <2>5 DEF StreamInv
<1> QED BY <1>1, <1>2, <1>3, <1>4, <1>5, <1>6, <1>7, <1>8, <1>9 DEF Next

LEMMA StreamInductive ==
    ASSUME OneCloser
    PROVE  Spec => []StreamInv
<1>1. IInv /\ StreamInv /\ [Next]_vars => StreamInv'
  BY StepStream
<1> QED BY <1>1, Inductive, InitStream, PTL DEF Spec

\* The bytes that writes have taken are sent once and in order, by whichever thread
\* sends them, and the FIN of the one thread that closes is the last; bufbytes is the length
\* of the buffer and within its limit (Flow.write, User_buffer.Tx, Flow.close).
THEOREM StreamIsInOrder ==
    ASSUME OneCloser
    PROVE  Spec => []StreamInOrder
<1>1. IInv /\ StreamInv => StreamInOrder
  <2> SUFFICES ASSUME IInv, StreamInv, state.name # "Reset"
               PROVE  /\ buffer = <<>> => wnd.tx_nxt = written + (IF FinSent THEN 1 ELSE 0)
                      /\ buffer # <<>> => buffer[1].pos = wnd.tx_nxt /\ ~FinSent
                      /\ \A i \in DOMAIN buffer : buffer[i].pos + buffer[i].len =
                             IF i = Len(buffer) THEN written ELSE buffer[i + 1].pos
                      /\ \A i \in DOMAIN segs : segs[i].fin => segs[i].pos = written
                      /\ bufbytes = (IF buffer = <<>> THEN 0 ELSE written - buffer[1].pos)
                      /\ bufbytes <= MaxSize
    BY DEF StreamInOrder
  <2>1. /\ buffer = <<>> => wnd.tx_nxt = written + Sent
        /\ buffer # <<>> => buffer[1].pos = wnd.tx_nxt /\ Sent = 0
        /\ bufbytes = (IF buffer = <<>> THEN 0 ELSE written - buffer[1].pos)
        /\ bufbytes <= MaxSize
    BY DEF StreamInv, BufferFlows, Flows
  <2>2. \A i \in DOMAIN segs : segs[i].fin => segs[i].pos = written
    BY DEF StreamInv, NothingAfterFin
  <2>3. ASSUME NEW i \in DOMAIN buffer
        PROVE  buffer[i].pos + buffer[i].len = IF i = Len(buffer) THEN written ELSE buffer[i + 1].pos
    <3>1. DOMAIN buffer = 1..Len(buffer) /\ Len(buffer) \in Nat /\ buffer # <<>>
      BY LenProperties, EmptySeq DEF IInv, AppInv
    <3>2. i # Len(buffer) => i + 1 \in DOMAIN buffer
      BY <3>1
    <3> QED BY <3>1, <3>2 DEF IInv, AppInv, Chain, ChunkEnd
  <2> QED BY <2>1, <2>2, <2>3 DEF Sent
<1> QED BY <1>1, Inductive, StreamInductive, PTL

\* With a peer that acknowledges whole segments, every transmission and every
\* retransmission, by the timer or on duplicate ACKs, carries the bytes that belong under
\* its sequence number (Segment.Tx.output, ontimer, rto_t).
THEOREM WireIsAligned ==
    ASSUME OneCloser, ~MidAcks
    PROVE  Spec => []WireAligned
<1>1. StreamInv => WireAligned
  BY DEF StreamInv, WireInv
<1> QED BY <1>1, StreamInductive, PTL

\* The state machine gets past its FIN only by the ACK of all the data and the FIN,
\* in a simultaneous close too (State.tick, Flow.close).
THEOREM FinIsReceived ==
    ASSUME OneCloser
    PROVE  Spec => []FinReceived
<1>1. StreamInv => FinReceived
  BY DEF StreamInv, FinNumbered, FinReceived
<1> QED BY <1>1, StreamInductive, PTL
-----------------------------------------------------------------------------
(* TcpTransmit implements ByteSource.                                      *)

\* The segments that wait for an ACK carry bytes that writes have taken.
DataTaken == \A i \in DOMAIN segs : ~segs[i].fin => segs[i].pos + segs[i].len <= written

\* The first of them is what belongs after snd_una.
FirstBelongs ==
    state.name # "Reset" /\ segs # <<>> =>
        /\ segs[1] \in Seg /\ segs[1].seq = wnd.snd_una /\ segs[1].pos = wnd.snd_una
        /\ wnd.snd_una + segs[1].len <= wnd.tx_nxt - Sent
        /\ segs[1].fin => FinSent /\ wnd.snd_una + segs[1].len = written

LEMMA FirstFacts == IInv /\ StreamInv /\ DataTaken => FirstBelongs
<1> SUFFICES ASSUME IInv, StreamInv, DataTaken, state.name # "Reset", segs # <<>>
             PROVE  /\ segs[1] \in Seg /\ segs[1].seq = wnd.snd_una /\ segs[1].pos = wnd.snd_una
                    /\ wnd.snd_una + segs[1].len <= wnd.tx_nxt - Sent
                    /\ segs[1].fin => FinSent /\ wnd.snd_una + segs[1].len = written
  BY DEF FirstBelongs
<1> DEFINE s == segs[1]
<1>1. 1 \in DOMAIN segs /\ s \in Seg
  BY LenProperties, EmptySeq, ElementOfSeq DEF IInv, SegInv
<1>2. s.seq = wnd.snd_una /\ s.pos = wnd.snd_una
  BY <1>1 DEF IInv, SegInv, SegsTile, StreamInv, SegsAligned
<1>3. SeqEnd(s) <= wnd.tx_nxt
  BY <1>1 DEF IInv, SegInv, SegsOrdered
<1>4. /\ s.fin => FinSent /\ s.pos = written
      /\ ~s.fin => s.pos + s.len <= written
  BY <1>1 DEF StreamInv, NothingAfterFin, DataTaken
<1>5. FinSent => wnd.tx_nxt = written + 1
  BY DEF StreamInv, BufferFlows, Flows, Sent
<1>6. wnd.tx_nxt \in Nat /\ wnd.snd_una \in Nat /\ written \in Nat /\ s.len \in Nat
  BY <1>1, WndFields DEF IInv, SegInv, AppInv, Seg
<1> HIDE DEF s
<1>7. CASE s.fin
  <2>1. SeqEnd(s) = s.seq + (s.len + 1)
    BY <1>7 DEF SeqEnd, SeqLen
  <2>2. Sent = 1 /\ FinSent
    BY <1>4, <1>7 DEF Sent
  <2>3. s.len = 0 /\ wnd.snd_una = written
    BY <1>2, <1>3, <1>4, <1>5, <1>6, <1>7, <2>1, <2>2
  <2>4. wnd.snd_una + s.len <= wnd.tx_nxt - Sent
    BY <1>5, <1>6, <2>2, <2>3
  <2> QED BY <1>1, <1>2, <1>6, <2>2, <2>3, <2>4 DEF s
<1>8. CASE ~s.fin
  <2>1. SeqEnd(s) = s.seq + (s.len + 0)
    BY <1>8 DEF SeqEnd, SeqLen
  <2>2. CASE FinSent
    <3>1. Sent = 1
      BY <2>2 DEF Sent
    <3>2. wnd.snd_una + s.len <= wnd.tx_nxt - Sent
      BY <1>2, <1>4, <1>5, <1>6, <1>8, <2>2, <3>1
    <3> QED BY <1>1, <1>2, <1>8, <3>2 DEF s
  <2>3. CASE ~FinSent
    <3>1. Sent = 0
      BY <2>3 DEF Sent
    <3>2. wnd.snd_una + s.len <= wnd.tx_nxt - Sent
      BY <1>2, <1>3, <1>6, <2>1, <3>1
    <3> QED BY <1>1, <1>2, <1>8, <3>2 DEF s
  <2> QED BY <2>2, <2>3
<1> QED BY <1>7, <1>8

\* What a step has to show.
SourceStep == DataTaken' /\ [Source!Next]_(Source!sourceVars)

\* The segments are some of those before.
LEMMA FewerTaken ==
    ASSUME IInv, DataTaken, written' = written,
           \A i \in DOMAIN segs' : \E j \in DOMAIN segs : segs'[i] = segs[j]
    PROVE  DataTaken'
  BY DEF DataTaken

\* There is one more.
LEMMA MoreTaken ==
    ASSUME IInv, DataTaken, written' \in Nat, written' >= written,
           NEW s \in Seg, segs' = Append(segs, s), ~s.fin => s.pos + s.len <= written'
    PROVE  DataTaken'
<1> DEFINE n == Len(segs)
<1>1. /\ n \in Nat /\ DOMAIN segs = 1..n /\ DOMAIN segs' = 1..(n + 1)
      /\ \A i \in 1..n : segs'[i] = segs[i]
      /\ segs'[n + 1] = s
  BY AppendProperties, LenProperties DEF IInv, SegInv
<1>2. \A i \in 1..n : segs[i].pos \in Int /\ segs[i].len \in Nat
  <2>1. \A i \in 1..n : segs[i] \in Seg
    BY ElementOfSeq DEF IInv, SegInv
  <2> QED BY <2>1 DEF Seg
<1>3. written \in Nat
  BY DEF IInv, AppInv
<1> HIDE DEF n
<1>4. \A i \in 1..(n + 1) : i \in 1..n \/ i = n + 1
  BY <1>1
<1>5. ASSUME NEW i \in 1..n, ~segs[i].fin PROVE segs[i].pos + segs[i].len <= written'
  <2>1. segs[i].pos + segs[i].len <= written
    BY <1>1, <1>5 DEF DataTaken
  <2> QED BY <1>2, <1>3, <2>1
<1>6. \A i \in 1..(n + 1) : ~segs'[i].fin => segs'[i].pos + segs'[i].len <= written'
  BY <1>1, <1>4, <1>5
<1> QED BY <1>1, <1>6 DEF DataTaken

\* A step that neither takes nor sends a byte, nor is told of one that arrived.
Quiet ==
    /\ written' = written /\ (FinSent' <=> FinSent)
    /\ wnd'.tx_nxt = wnd.tx_nxt /\ wnd'.snd_una = wnd.snd_una /\ wire' = wire
    /\ \A i \in DOMAIN segs' : \E j \in DOMAIN segs : segs'[i] = segs[j]

StaysReset == state.name = "Reset" => state'.name = "Reset"

LEMMA QuietStep ==
    ASSUME IInv, DataTaken, Quiet, StaysReset
    PROVE  SourceStep
<1>1. FinSent' = FinSent
  BY DEF Quiet, FinSent
<1>2. DataTaken'
  BY FewerTaken DEF Quiet
<1>3. CASE state.name # "Reset" /\ state'.name = "Reset"
  <2>1. ~(state.name = "Reset") /\ (state.name = "Reset")' = TRUE
    BY <1>3
  <2>2. Source!Abort
    BY <1>1, <2>1 DEF Source!Abort, Quiet
  <2> QED BY <1>2, <2>2 DEF SourceStep, Source!Next
<1>4. CASE ~(state.name # "Reset" /\ state'.name = "Reset")
  <2>1. (state.name = "Reset")' = (state.name = "Reset")
    BY <1>4 DEF StaysReset
  <2> QED BY <1>1, <1>2, <2>1 DEF SourceStep, Source!sourceVars, Quiet
<1> QED BY <1>3, <1>4

\* The number before that of the FIN, as long as there is no FIN.
LEMMA SentNothing ==
    ASSUME ~FinSent, wnd.tx_nxt \in Nat
    PROVE  wnd.tx_nxt - (IF FinSent THEN 1 ELSE 0) = wnd.tx_nxt
<1>1. Sent = 0
  BY DEF Sent
<1>2. wnd.tx_nxt - Sent = wnd.tx_nxt
  BY <1>1
<1> QED BY <1>2 DEF Sent

\* A step of a thread that sends data which has been taken.
LEMMA SendStep ==
    ASSUME IInv, DataTaken, SendsUpTo(written), FinSent' <=> FinSent, written' = written, state' = state
    PROVE  SourceStep
<1>1. FinSent' = FinSent /\ (state.name = "Reset")' = (state.name = "Reset")
  BY DEF FinSent
<1>2. wnd.tx_nxt \in Nat /\ written \in Nat
  BY WndFields DEF IInv, SegInv, AppInv
<1>3. CASE wnd'.tx_nxt = wnd.tx_nxt /\ segs' = segs /\ wire' = wire
  BY <1>3, QuietStep DEF Quiet, StaysReset, SendsUpTo
<1>4. ASSUME NEW n \in 1..(written - wnd.tx_nxt), ~FinSent, wnd'.tx_nxt = wnd.tx_nxt + n,
             segs' = Append(segs, NextData(n)), wire' = <<NextData(n)>>
      PROVE  SourceStep
  <2>1. n \in Nat /\ n >= 1 /\ wnd.tx_nxt + n <= written /\ wnd'.tx_nxt \in Nat
    BY <1>2, <1>4
  <2>2. DataTaken'
    <3>1. NextData(n) \in Seg /\ NextData(n).pos + NextData(n).len <= written'
      BY <1>2, <2>1 DEF NextData, Seg
    <3> QED BY <1>2, <1>4, <3>1, MoreTaken
  <2>3. wnd.tx_nxt - (IF FinSent THEN 1 ELSE 0) = wnd.tx_nxt
    BY <1>2, <1>4, SentNothing
  <2>4. (wnd.tx_nxt - (IF FinSent THEN 1 ELSE 0))' = wnd'.tx_nxt
    <3>1. Sent' = 0
      BY <1>4 DEF Sent
    <3>2. wnd'.tx_nxt - Sent' = wnd'.tx_nxt
      BY <2>1, <3>1
    <3> QED BY <3>2 DEF Sent
  <2>5. wnd'.tx_nxt \in (wnd.tx_nxt + 1)..written /\ wnd'.tx_nxt - wnd.tx_nxt = n
    BY <1>2, <1>4, <2>1
  <2>6. Source!Send
    BY <1>1, <1>4, <2>3, <2>4, <2>5 DEF Source!Send, Source!Carries, SendsUpTo, NextData
  <2> QED BY <2>2, <2>6 DEF SourceStep, Source!Next
<1> QED BY <1>3, <1>4 DEF SendsUpTo

LEMMA WriteIsSource ==
    ASSUME IInv, StreamInv, DataTaken, NEW w \in Writers, Write(w)
    PROVE  SourceStep
<1>1. /\ ~FinSent /\ state.name # "Reset" /\ state' = state
      /\ written' \in Nat /\ written' > written /\ (FinSent' <=> FinSent) /\ SendsUpTo(written')
  BY WriteSends
<1>2. FinSent' = FinSent /\ (state.name = "Reset")' = (state.name = "Reset")
  BY <1>1 DEF FinSent
<1>3. wnd.tx_nxt \in Nat /\ written \in Nat
  BY WndFields DEF IInv, SegInv, AppInv
<1>4. wnd.tx_nxt - (IF FinSent THEN 1 ELSE 0) = wnd.tx_nxt
  BY <1>1, <1>3, SentNothing
<1>5. wnd'.tx_nxt \in Nat => (wnd.tx_nxt - (IF FinSent THEN 1 ELSE 0))' = wnd'.tx_nxt
  <2>1. Sent' = 0
    BY <1>1 DEF Sent
  <2>2. wnd'.tx_nxt \in Nat => wnd'.tx_nxt - Sent' = wnd'.tx_nxt
    BY <2>1
  <2> QED BY <2>2 DEF Sent
<1>6. CASE wnd'.tx_nxt = wnd.tx_nxt /\ segs' = segs /\ wire' = wire
  <2>1. DataTaken'
    <3>1. \A i \in DOMAIN segs : segs[i].pos \in Int /\ segs[i].len \in Nat
      <4>1. \A i \in DOMAIN segs : segs[i] \in Seg
        BY ElementOfSeq, LenProperties DEF IInv, SegInv
      <4> QED BY <4>1 DEF Seg
    <3> QED BY <1>1, <1>3, <1>6, <3>1 DEF DataTaken
  <2>2. Source!Write
    BY <1>1, <1>2, <1>3, <1>4, <1>5, <1>6 DEF Source!Write, SendsUpTo
  <2> QED BY <2>1, <2>2 DEF SourceStep, Source!Next
<1>7. ASSUME NEW n \in 1..(written' - wnd.tx_nxt), wnd'.tx_nxt = wnd.tx_nxt + n,
             segs' = Append(segs, NextData(n)), wire' = <<NextData(n)>>
      PROVE  SourceStep
  <2>1. n \in Nat /\ n >= 1 /\ wnd.tx_nxt + n <= written' /\ wnd'.tx_nxt \in Nat
    BY <1>1, <1>3, <1>7
  <2>2. DataTaken'
    <3>1. NextData(n) \in Seg /\ NextData(n).pos + NextData(n).len <= written'
      BY <1>3, <2>1 DEF NextData, Seg
    <3> QED BY <1>1, <1>3, <1>7, <3>1, MoreTaken
  <2>3. wnd'.tx_nxt \in (wnd.tx_nxt + 1)..written' /\ wnd'.tx_nxt - wnd.tx_nxt = n
    BY <1>1, <1>3, <1>7, <2>1
  <2>4. (wnd.tx_nxt - (IF FinSent THEN 1 ELSE 0))' = wnd'.tx_nxt
    BY <1>5, <2>1
  <2>5. Source!Write
    BY <1>1, <1>2, <1>4, <1>7, <2>3, <2>4 DEF Source!Write, Source!Carries, SendsUpTo, NextData
  <2> QED BY <2>2, <2>5 DEF SourceStep, Source!Next
<1> QED BY <1>1, <1>6, <1>7 DEF SendsUpTo

\* The FIN is the end of the stream.
LEMMA CloseIsSource ==
    ASSUME OneCloser, IInv, StreamInv, DataTaken, NEW c \in Closers, CloseSends(c)
    PROVE  SourceStep
<1>1. FinGoes
  BY CloseStream
<1>2. FinSent' = TRUE /\ ~FinSent /\ (state.name = "Reset")' = (state.name = "Reset")
  BY <1>1 DEF FinGoes, FinSent
<1>3. wnd.tx_nxt \in Nat /\ written \in Nat
  BY WndFields DEF IInv, SegInv, AppInv
<1>4. DataTaken'
  <2>1. FinSegment \in Seg /\ FinSegment.fin
    BY <1>3 DEF FinSegment, Seg
  <2> QED BY <1>1, <1>3, <2>1, MoreTaken DEF FinGoes
<1>5. wnd.tx_nxt - (IF FinSent THEN 1 ELSE 0) = wnd.tx_nxt
  BY <1>2, <1>3, SentNothing
<1>6. (wnd.tx_nxt - (IF FinSent THEN 1 ELSE 0))' = wnd.tx_nxt
  <2>1. Sent' = 1 /\ wnd'.tx_nxt = wnd.tx_nxt + 1
    BY <1>1, <1>2 DEF Sent, FinGoes
  <2>2. wnd'.tx_nxt - Sent' = wnd.tx_nxt
    BY <1>3, <2>1
  <2> QED BY <2>2 DEF Sent
<1>7. Source!Finish
  BY <1>1, <1>2, <1>5, <1>6 DEF Source!Finish, Source!Carries, FinGoes, FinSegment
<1> QED BY <1>4, <1>7 DEF SourceStep, Source!Next

\* clear_buffer, by a thread that has transmitted or by Flow.Wnd.thread.
LEMMA ClearIsSource ==
    ASSUME IInv, StreamInv, DataTaken,
           \/ WndThread
           \/ \E t \in Threads : OutputReturns(t)
    PROVE  SourceStep
<1>1. /\ buffer \in Seq(Chunk) /\ bufbytes \in Nat /\ written \in Nat
      /\ Chain(buffer, written, bufbytes) /\ Queued /\ SegInv /\ WaitersWait
      /\ Flows(buffer, bufbytes, written, wnd.tx_nxt, Sent, state.name)
  BY DEF IInv, AppInv, Queued, StreamInv, BufferFlows
<1>2. written' = written /\ state' = state
  BY DEF WndThread, WndFree, WndReset, OutputReturns, stVars
<1>3. ASSUME NEW t \in Threads, ClearBuffer(t, buffer, bufbytes), pc[t] \notin {"waiting", "fin", "done"} \/ t = "wnd"
      PROVE  SourceStep
  <2>1. (FinSent' <=> FinSent) /\ SendsUpTo(written)
    BY <1>1, <1>3, ClearBufferSends
  <2> QED BY <1>2, <2>1, SendStep
<1>4. ASSUME UNCHANGED segVars, FinSent' <=> FinSent PROVE SourceStep
  <2>1. wnd' = wnd /\ segs' = segs /\ wire' = wire
    BY <1>4 DEF segVars
  <2> QED BY <1>2, <1>4, <2>1, QuietStep DEF Quiet, StaysReset
<1>5. CASE WndFree
  BY <1>3, <1>5 DEF WndFree, Threads
<1>6. CASE WndReset
  <2>1. InformAndTake /\ UNCHANGED segVars
    BY <1>6 DEF WndReset
  <2> QED BY <1>1, <1>4, <2>1, InformWaiters
<1>7. ASSUME NEW t \in Threads, OutputReturns(t) PROVE SourceStep
  <2>1. CASE pc[t] = "clearing" /\ ClearBuffer(t, buffer, bufbytes)
    BY <1>3, <2>1
  <2>2. CASE \E place \in {"ready", "done"} :
               /\ pc[t] = (IF place = "ready" THEN "direct" ELSE "fin") /\ pc' = Moved(t, place)
               /\ UNCHANGED segVars
    <3>1. FinSent' <=> FinSent
      BY <1>1, <2>2, MoveFin DEF Queued
    <3> QED BY <1>4, <2>2, <3>1
  <2> QED BY <1>7, <2>1, <2>2 DEF OutputReturns
<1> QED BY <1>5, <1>6, <1>7 DEF WndThread

\* A thread that waits or gives up has sent nothing.
LEMMA WaitIsSource ==
    ASSUME IInv, DataTaken, NEW t \in Threads,
           \/ t \in Writers /\ (WriteWaits(t) \/ WriteFails(t))
           \/ t \in Closers /\ CloseWaits(t)
    PROVE  SourceStep
<1>1. written' = written /\ wnd' = wnd /\ state' = state /\ segs' = segs /\ wire' = wire
  BY DEF WriteWaits, WriteFails, CloseWaits, segVars, stVars
<1>2. Writers \cap Closers = {} /\ pc \in [Threads -> Places]
  BY TransmitAssumption DEF IInv, AppInv
<1>3. \E place \in {"waiting", "failed"} :
        /\ pc' = Moved(t, place)
        /\ t \in Closers => pc[t] \notin {"fin", "done"}
  BY <1>2 DEF WriteWaits, WriteFails, CloseWaits, Closes, Waits
<1>4. FinSent' <=> FinSent
  BY <1>2, <1>3, MoveFin
<1> QED BY <1>1, <1>4, QuietStep DEF Quiet, StaysReset

\* What the sender repeats is what belongs there.
LEMMA AgainFacts ==
    ASSUME NEW s \in Seg, NEW from \in Nat, s.seq = from, s.pos = from, wnd.tx_nxt \in Nat,
           from + s.len <= wnd.tx_nxt - Sent, s.fin => FinSent /\ from + s.len = written,
           wire' = <<s>>
    PROVE  Source!Again(from)
<1>1. s.len \in 0..((wnd.tx_nxt - (IF FinSent THEN 1 ELSE 0)) - from)
  <2>1. s.len \in Nat /\ Sent \in {0, 1}
    BY DEF Seg, Sent
  <2>2. s.len \in 0..((wnd.tx_nxt - Sent) - from)
    BY <2>1
  <2> QED BY <2>2 DEF Sent
<1>2. s.fin \in BOOLEAN /\ s = [seq |-> from, pos |-> from, len |-> s.len, fin |-> s.fin]
  BY DEF Seg
<1>3. CASE s.fin
  <2>1. s = [seq |-> from, pos |-> from, len |-> s.len, fin |-> TRUE]
    BY <1>2, <1>3
  <2> QED BY <1>1, <1>3, <2>1 DEF Source!Again, Source!Carries
<1>4. CASE ~s.fin
  <2>1. s = [seq |-> from, pos |-> from, len |-> s.len, fin |-> FALSE]
    BY <1>2, <1>4
  <2> QED BY <1>1, <2>1 DEF Source!Again, Source!Carries
<1> QED BY <1>3, <1>4

LEMMA ServiceAckSends ==
    ASSUME ServiceAck
    PROVE  \E k \in ClearSegs(wnd.ack_seq - wnd.snd_una) :
              /\ segs' = SubSeq(segs, k + 1, Len(segs))
              /\ wire' = wire \/ (segs' # <<>> /\ wire' = <<[segs'[1] EXCEPT !.seq = wnd.ack_seq]>>)
<1> DEFINE seq     == wnd.ack_seq
           ack_len == seq - wnd.snd_una
           dup     == ack_len = 0 /\ wnd.tx_wnd = wnd.ack_win /\ segs # <<>>
           W(k)      == TxAck(wnd, wnd.snd_una + ClearedLen(k), wnd.ack_win)
           Counts(k) == dup \/ W(k).fast_recovery
           Rexmit(k) == Counts(k) /\ (CountDup = 3 \/ ack_len > 0)
<1>1. PICK k \in ClearSegs(ack_len) :
        /\ segs' = SubSeq(segs, k + 1, Len(segs))
        /\ wire' = IF Rexmit(k) /\ segs' # <<>> THEN <<[segs'[1] EXCEPT !.seq = seq]>> ELSE wire
  BY DEF ServiceAck
<1> HIDE DEF W, Counts, Rexmit, dup
<1> QED BY <1>1

\* An ACK moves snd_una on, as far as what was transmitted; rto_t may transmit
\* again what begins there.
LEMMA AckIsSource ==
    ASSUME ~MidAcks, IInv, StreamInv, DataTaken, IInv', StreamInv', RtoAck
    PROVE  SourceStep
<1>1. written' = written /\ pc' = pc /\ state' = state /\ timer' = timer
  BY DEF RtoAck, appVars, stVars
<1>2. FinSent' = FinSent /\ (FinSent' <=> FinSent) /\ (state.name = "Reset")' = (state.name = "Reset")
  BY <1>1 DEF FinSent
<1>3. wnd'.tx_nxt = wnd.tx_nxt /\ wnd'.snd_una >= wnd.snd_una
  <2>1. CASE state.name = "Reset" /\ ResetSegs
    <3>1. wnd' = [wnd EXCEPT !.ack_serviced = TRUE] /\ wnd \in Wnd
      BY <2>1 DEF ResetSegs, IInv, SegInv
    <3> QED BY <3>1, WndFields DEF Wnd
  <2>2. CASE state.name # "Reset" /\ ServiceAck
    BY <1>1, <2>2, ServiceAckKeeps DEF IInv
  <2> QED BY <2>1, <2>2 DEF RtoAck
<1>4. /\ wnd.tx_nxt \in Nat /\ wnd.snd_una \in Nat /\ wnd'.snd_una \in Nat
      /\ wnd'.snd_una <= wnd.tx_nxt
  BY <1>3, WndFields DEF IInv, SegInv, Wnd, Sane
<1>5. /\ \A i \in DOMAIN segs' : \E j \in DOMAIN segs : segs'[i] = segs[j]
      /\ \/ wire' = wire
         \/ /\ state.name # "Reset" /\ segs' # <<>>
            /\ wire' = <<[segs'[1] EXCEPT !.seq = wnd.ack_seq]>>
  <2>1. CASE state.name = "Reset" /\ ResetSegs
    BY <2>1 DEF ResetSegs
  <2>2. CASE state.name # "Reset" /\ ServiceAck
    <3>1. PICK k \in ClearSegs(wnd.ack_seq - wnd.snd_una) :
            /\ segs' = SubSeq(segs, k + 1, Len(segs))
            /\ wire' = wire \/ (segs' # <<>> /\ wire' = <<[segs'[1] EXCEPT !.seq = wnd.ack_seq]>>)
      BY <2>2, ServiceAckSends
    <3>2. \A i \in DOMAIN segs' : \E j \in DOMAIN segs : segs'[i] = segs[j]
      BY <3>1, TailSegs DEF ClearSegs, IInv, SegInv
    <3> QED BY <2>2, <3>1, <3>2
  <2> QED BY <2>1, <2>2 DEF RtoAck
<1>6. DataTaken'
  BY <1>1, <1>5, FewerTaken
<1>7. (wnd.tx_nxt - (IF FinSent THEN 1 ELSE 0))' = wnd.tx_nxt - (IF FinSent THEN 1 ELSE 0)
  <2>1. Sent' = Sent
    BY <1>2 DEF Sent
  <2>2. wnd'.tx_nxt - Sent' = wnd.tx_nxt - Sent
    BY <1>3, <2>1
  <2> QED BY <2>2 DEF Sent
<1>8. ASSUME wnd'.snd_una # wnd.snd_una, wire' = wire \/ Source!Again(wnd'.snd_una)
      PROVE  Source!Acknowledge
  <2>1. (wnd.tx_nxt - Sent) + Sent = wnd.tx_nxt
    BY <1>4 DEF Sent
  <2>2. wnd'.snd_una \in (wnd.snd_una + 1)..((wnd.tx_nxt - Sent) + Sent)
    BY <1>3, <1>4, <1>8, <2>1
  <2>3. wnd'.snd_una \in (wnd.snd_una + 1)
            ..((wnd.tx_nxt - (IF FinSent THEN 1 ELSE 0)) + (IF FinSent THEN 1 ELSE 0))
    BY <2>2 DEF Sent
  <2> QED BY <1>1, <1>2, <1>7, <1>8, <2>3 DEF Source!Acknowledge
<1>9. CASE wire' = wire
  <2>1. CASE wnd'.snd_una = wnd.snd_una
    BY <1>1, <1>2, <1>3, <1>5, <1>9, <2>1, QuietStep DEF Quiet, StaysReset
  <2>2. CASE wnd'.snd_una # wnd.snd_una
    BY <1>6, <1>8, <1>9, <2>2 DEF SourceStep, Source!Next
  <2> QED BY <2>1, <2>2
<1>10. CASE /\ state.name # "Reset" /\ segs' # <<>>
            /\ wire' = <<[segs'[1] EXCEPT !.seq = wnd.ack_seq]>>
  <2> DEFINE s == segs'[1]
  <2>1. FirstBelongs'
    BY <1>6, FirstFacts, PTL
  <2>2. /\ s \in Seg /\ s.seq = wnd'.snd_una /\ s.pos = wnd'.snd_una
        /\ wnd'.snd_una + s.len <= wnd'.tx_nxt - Sent'
        /\ s.fin => FinSent' /\ wnd'.snd_una + s.len = written'
    BY <1>1, <1>10, <2>1 DEF FirstBelongs
  <2>3. Sent' = Sent
    BY <1>2 DEF Sent
  <2>4. wire' = <<s>>
    <3>1. WireAligned'
      BY DEF StreamInv, WireInv
    <3>2. wire' = <<[s EXCEPT !.seq = wnd.ack_seq]>>
      BY <1>10
    <3> HIDE DEF s
    <3>3. 1 \in DOMAIN wire' /\ wire'[1] = [s EXCEPT !.seq = wnd.ack_seq]
      BY <3>2
    <3>4. wire'[1].pos = wire'[1].seq
      BY <1>1, <1>10, <3>1, <3>3 DEF WireAligned
    <3>5. s.seq = wnd.ack_seq
      BY <2>2, <3>3, <3>4 DEF Seg
    <3>6. [s EXCEPT !.seq = wnd.ack_seq] = s
      BY <2>2, <3>5 DEF Seg
    <3> QED BY <3>2, <3>6
  <2> HIDE DEF s
  <2>5. Source!Again(wnd'.snd_una)
    BY <1>1, <1>2, <1>3, <1>4, <2>2, <2>3, <2>4, AgainFacts
  <2>6. CASE wnd'.snd_una = wnd.snd_una
    <3>1. Source!Repeat
      BY <1>1, <1>2, <1>7, <2>5, <2>6 DEF Source!Repeat
    <3> QED BY <1>6, <3>1 DEF SourceStep, Source!Next
  <2>7. CASE wnd'.snd_una # wnd.snd_una
    BY <1>6, <1>8, <2>5, <2>7 DEF SourceStep, Source!Next
  <2> QED BY <2>6, <2>7
<1> QED BY <1>5, <1>9, <1>10

\* The timer transmits the first segment again.
LEMMA RexmitIsSource ==
    ASSUME IInv, StreamInv, DataTaken, TimerRexmits
    PROVE  SourceStep
<1>1. /\ written' = written /\ pc' = pc /\ state' = state /\ segs' = segs
      /\ segs # <<>> /\ state.name # "Reset" /\ segs[1].seq = timer.seq
      /\ wnd' = [AlertFastRexmit(wnd) EXCEPT !.backoff_count = @ + 1]
      /\ wire' = <<[segs[1] EXCEPT !.seq = timer.seq]>>
  BY DEF TimerRexmits, Retransmits, appVars, stVars
<1>2. FinSent' = FinSent /\ (state.name = "Reset")' = (state.name = "Reset")
  BY <1>1 DEF FinSent
<1>3. wnd'.tx_nxt = wnd.tx_nxt /\ wnd'.snd_una = wnd.snd_una
  <2>1. wnd \in Wnd /\ Sane(wnd)
    BY DEF IInv, SegInv
  <2>2. /\ AlertFastRexmit(wnd) \in Wnd /\ AlertFastRexmit(wnd).tx_nxt = wnd.tx_nxt
        /\ AlertFastRexmit(wnd).snd_una = wnd.snd_una
    BY <2>1, AlertFacts
  <2> QED BY <1>1, <2>2 DEF Wnd
<1>4. wnd.tx_nxt \in Nat /\ wnd.snd_una \in Nat
  BY WndFields DEF IInv, SegInv
<1>5. (wnd.tx_nxt - (IF FinSent THEN 1 ELSE 0))' = wnd.tx_nxt - (IF FinSent THEN 1 ELSE 0)
  <2>1. Sent' = Sent
    BY <1>2 DEF Sent
  <2>2. wnd'.tx_nxt - Sent' = wnd.tx_nxt - Sent
    BY <1>3, <2>1
  <2> QED BY <2>2 DEF Sent
<1>6. DataTaken'
  BY <1>1 DEF DataTaken
<1> DEFINE s == segs[1]
<1>7. /\ s \in Seg /\ s.seq = wnd.snd_una /\ s.pos = wnd.snd_una
      /\ wnd.snd_una + s.len <= wnd.tx_nxt - Sent
      /\ s.fin => FinSent /\ wnd.snd_una + s.len = written
  BY <1>1, FirstFacts DEF FirstBelongs
<1>8. wire' = <<s>>
  <2>1. wire' = <<[s EXCEPT !.seq = timer.seq]>> /\ s.seq = timer.seq
    BY <1>1
  <2> HIDE DEF s
  <2>2. [s EXCEPT !.seq = timer.seq] = s
    BY <1>7, <2>1 DEF Seg
  <2> QED BY <2>1, <2>2
<1> HIDE DEF s
<1>9. Source!Again(wnd.snd_una)
  BY <1>4, <1>7, <1>8, AgainFacts
<1>10. Source!Repeat
  BY <1>1, <1>2, <1>3, <1>5, <1>9 DEF Source!Repeat
<1> QED BY <1>6, <1>10 DEF SourceStep, Source!Next

\* The inputs and the other steps of the timers: the state alone changes, or what
\* the peer said last.
LEMMA InputIsSource ==
    ASSUME IInv, StreamInv, DataTaken,
           \/ \E a \in 0..wnd.tx_nxt, win \in Windows : InputAck(a, win)
           \/ InputReset \/ InputFin \/ Finwait2timer \/ Timewait
           \/ TimerStops \/ TimerMoves \/ TimerGivesUp
    PROVE  SourceStep
<1>1. written' = written /\ pc' = pc /\ segs' = segs /\ wire' = wire
  BY DEF InputAck, InputReset, InputFin, Finwait2timer, Timewait, TimerStops, TimerMoves,
         TimerGivesUp, appVars, segVars
<1>2. FinSent' <=> FinSent
  BY <1>1 DEF FinSent
<1>3. wnd'.tx_nxt = wnd.tx_nxt /\ wnd'.snd_una = wnd.snd_una
  <2>1. CASE \E a \in 0..wnd.tx_nxt, win \in Windows : InputAck(a, win)
    BY <2>1, InputAckStream
  <2>2. CASE InputReset \/ InputFin \/ Finwait2timer \/ Timewait \/ TimerStops \/ TimerMoves \/ TimerGivesUp
    BY <2>2 DEF InputReset, InputFin, Finwait2timer, Timewait, TimerStops, TimerMoves, TimerGivesUp, segVars
  <2> QED BY <2>1, <2>2
<1>4. StaysReset
  <2>1. CASE \E i : i.n \in Int /\ i.name \in Inputs /\ Ticks(i)
    BY <2>1, TicksKeep DEF IInv, StaysReset
  <2>2. CASE \E a \in 0..wnd.tx_nxt, win \in Windows : InputAck(a, win)
    <3>1. PICK a \in 0..wnd.tx_nxt : Ticks(ActSeq("Recv_ack", a))
      BY <2>2 DEF InputAck
    <3>2. ActSeq("Recv_ack", a).n \in Int /\ ActSeq("Recv_ack", a).name \in Inputs
      BY WndFields DEF ActSeq, Inputs
    <3> QED BY <2>1, <3>1, <3>2
  <2>3. CASE InputReset \/ InputFin \/ TimerGivesUp
    <3>1. \A name \in Inputs : Act(name).n \in Int /\ Act(name).name \in Inputs
      BY DEF Act
    <3> QED BY <2>1, <2>3, <3>1 DEF InputReset, InputFin, TimerGivesUp, Inputs
  <2>4. CASE Finwait2timer \/ Timewait
    BY <2>4 DEF Finwait2timer, Timewait, St, IInv, StInv, StateOpen, StaysReset
  <2>5. CASE TimerStops \/ TimerMoves
    BY <2>5 DEF TimerStops, TimerMoves, stVars, StaysReset
  <2> QED BY <2>2, <2>3, <2>4, <2>5
<1> QED BY <1>1, <1>2, <1>3, <1>4, QuietStep DEF Quiet

LEMMA StepIsSource ==
    ASSUME OneCloser, ~MidAcks, IInv, StreamInv, DataTaken, IInv', StreamInv', [Next]_vars
    PROVE  SourceStep
<1>1. ASSUME NEW t \in Threads, App(t) PROVE SourceStep
  BY <1>1, WriteIsSource, WaitIsSource, CloseIsSource DEF App
<1>2. CASE Ontimer
  BY <1>2, RexmitIsSource, InputIsSource DEF Ontimer
<1>3. CASE UNCHANGED vars
  <2>1. written' = written /\ pc' = pc /\ wnd' = wnd /\ state' = state /\ segs' = segs /\ wire' = wire
    BY <1>3 DEF vars, appVars, segVars, stVars
  <2> QED BY <2>1, QuietStep DEF Quiet, StaysReset, FinSent
<1> QED BY <1>1, <1>2, <1>3, ClearIsSource, AckIsSource, InputIsSource DEF Next

\* With one thread that closes and a peer that acknowledges whole segments, what writes
\* take goes out as ByteSource promises: new bytes once and in order under their numbers,
\* the FIN behind the last of them unless the connection was reset, nothing new after it,
\* and again only what begins where the ACKs end; snd_una never goes back nor past what
\* was sent (Flow.write, Flow.close, User_buffer.Tx, Segment.Tx).  TcpTransmit
\* implements ByteSource.
THEOREM WritesByteSource ==
    ASSUME OneCloser, ~MidAcks
    PROVE  Spec => ImplementsByteSource
<1>1. Init => Source!Init /\ DataTaken
  <2> SUFFICES ASSUME Init PROVE Source!Init /\ DataTaken
    OBVIOUS
  <2>1. written = 0 /\ state.name # "Reset" /\ wire = <<>> /\ segs = <<>>
    BY DEF Init, St
  <2>2. wnd.tx_nxt = 0 /\ wnd.snd_una = 0 /\ ~FinSent
    BY InitSent
  <2>3. FinSent = FALSE /\ (state.name = "Reset") = FALSE
    BY <2>1, <2>2
  <2>4. wnd.tx_nxt - (IF FinSent THEN 1 ELSE 0) = 0
    BY <2>2, SentNothing
  <2>5. DataTaken
    BY <2>1 DEF DataTaken
  <2> QED BY <2>1, <2>2, <2>3, <2>4, <2>5 DEF Source!Init
<1>2. /\ IInv /\ StreamInv /\ DataTaken /\ IInv' /\ StreamInv' /\ [Next]_vars
      => DataTaken' /\ [Source!Next]_(Source!sourceVars)
  BY StepIsSource DEF SourceStep
<1> QED BY <1>1, <1>2, Inductive, StreamInductive, PTL DEF Spec, ImplementsByteSource, Source!Spec
=============================================================================
