-------------------------- MODULE TcpReceiveProofs --------------------------
(***************************************************************************)
(* Theorems about TcpReceive, for every value of its constants: that its   *)
(* variables keep their types, that its threads agree with its mvars, that *)
(* Ack.Immediate loses no ACK, and that reassembly is the walk over the    *)
(* ordered set that the code writes.                                       *)
(***************************************************************************)
EXTENDS TcpReceive, LwtMvarProofs, NaturalSets

\* The inductive invariant.  AckRequested needs both of the others: a put into
\* send_ack leaves a request behind only in an mvar that put and take have made,
\* and send_empty_ack can take none away that it has not looked at.
IInv == TypeOK /\ ThreadsAgree /\ AckRequested

-----------------------------------------------------------------------------
(* Values.                                                                 *)

LEMMA WrapInt == ASSUME NEW x \in Int PROVE Wrap(x) \in Int
  BY HalfRangeAssumption DEF Wrap

LEMMA PeerSegType ==
    ASSUME NEW s \in PeerSegs
    PROVE  /\ s \in Segment /\ s.seq \in Int /\ s.len \in Nat /\ s.fin \in BOOLEAN
           /\ SegLen(s) \in Nat
  BY ReceiveAssumption DEF Segment, SegLen

LEMMA FirstInt == First \in Int /\ FinSeq \in Int /\ Eof \in Item
  BY ReceiveAssumption DEF First, FinSeq, Eof, Item

LEMMA ValueType == EofValue \in RxValue /\ ChallengeValue \in RxValue
<1>1. /\ EofValue.ack /\ EofValue.adv = 0
      /\ EofValue \in [data : SUBSET Item, eof : BOOLEAN, ack : BOOLEAN, adv : Int, fin : BOOLEAN]
  BY DEF EofValue
<1>2. /\ ChallengeValue.ack /\ ChallengeValue.adv = 0
      /\ ChallengeValue \in [data : SUBSET Item, eof : BOOLEAN, ack : BOOLEAN, adv : Int, fin : BOOLEAN]
  BY DEF ChallengeValue
<1> QED BY <1>1, <1>2 DEF RxValue

LEMMA AddType ==
    ASSUME segs \subseteq PeerSegs, NEW s \in PeerSegs
    PROVE  Add(s, segs) \subseteq PeerSegs
  BY DEF Add

LEMMA AdvanceType ==
    ASSUME NEW ready, ready \subseteq PeerSegs, NEW n \in Int, NEW adv \in Advances(ready, n)
    PROVE  adv \in Int
<1>1. CASE ready = {}
  BY <1>1 DEF Advances
<1>2. CASE ready # {}
  <2>1. PICK s \in LastOf(ready) : adv = Wrap(s.seq + SegLen(s) - n)
    BY <1>2 DEF Advances
  <2>2. s \in PeerSegs
    BY <2>1 DEF LastOf
  <2> QED BY <2>1, <2>2, PeerSegType, WrapInt
<1> QED BY <1>1, <1>2

LEMMA PayloadType ==
    ASSUME NEW ready, ready \subseteq PeerSegs
    PROVE  Payloads(ready) \in SUBSET Item
  BY PeerSegType DEF Payloads, Slice, Item

LEMMA WndType == ASSUME NEW n \in Int PROVE WndFor(n) \in Nat
  BY ReceiveAssumption DEF WndFor, MaxOf

\* add_r keeps the types of what it changes.
LEMMA AddRType ==
    ASSUME TypeOK, NEW item \in Item, NEW owner \in {"rx", "keepalive"}, AddR(item, owner)
    PROVE  /\ urx' \in [q : Seq(Item), writers : Seq(UrxWriter), readers : Nat, cur_size : Int]
           /\ rx_wnd' \in Nat
           /\ received' \in Seq(Item)
<1> DEFINE w == [owner |-> owner, item |-> item]
           size == urx.cur_size + item.len
<1>1. /\ w \in UrxWriter /\ size \in Int /\ WndFor(size) \in Nat
      /\ Append(urx.writers, w) \in Seq(UrxWriter)
      /\ Append(urx.q, item) \in Seq(Item) /\ Append(received, item) \in Seq(Item)
  <2>1. w \in UrxWriter /\ size \in Int
    BY DEF UrxWriter, TypeOK, Item
  <2>2. urx.writers \in Seq(UrxWriter) /\ urx.q \in Seq(Item) /\ received \in Seq(Item)
    BY DEF TypeOK
  <2> QED BY <2>1, <2>2, WndType, QueueOps
<1> HIDE DEF w, size
<1>2. CASE AddBlocks
  <2>1. /\ urx' = [urx EXCEPT !.writers = Append(@, w), !.cur_size = size]
        /\ rx_wnd' = WndFor(size) /\ received' = received
    BY <1>2 DEF AddR, w, size
  <2> QED BY <1>1, <2>1 DEF TypeOK
<1>3. CASE ~AddBlocks /\ urx.readers > 0
  <2>1. /\ urx' = [urx EXCEPT !.readers = @ - 1]
        /\ rx_wnd' = rx_wnd /\ received' = Append(received, item)
    BY <1>3 DEF AddR
  <2>2. urx.readers - 1 \in Nat
    BY <1>3 DEF TypeOK
  <2> QED BY <1>1, <2>1, <2>2 DEF TypeOK
<1>4. CASE ~AddBlocks /\ urx.readers = 0
  <2>1. /\ urx' = [urx EXCEPT !.q = Append(@, item), !.cur_size = size]
        /\ rx_wnd' = WndFor(size) /\ received' = received
    BY <1>4 DEF AddR, size
  <2> QED BY <1>1, <2>1 DEF TypeOK
<1> QED BY <1>2, <1>3, <1>4 DEF AddR

\* A thread that blocks in add_r is the only Flow.Rx.thread among the writers if
\* it came from elsewhere.
LEMMA AddRWriters ==
    ASSUME TypeOK, WritersAgree, NEW item \in Item, NEW owner \in {"rx", "keepalive"},
           AddR(item, owner),
           owner = "rx" => rx.pc # "blocked" /\ (AddBlocks => rx'.pc = "blocked"),
           owner # "rx" => rx'.pc = rx.pc
    PROVE  WritersAgree'
<1> DEFINE w == [owner |-> owner, item |-> item]
<1>1. urx.writers \in Seq(UrxWriter)
  BY DEF TypeOK
<1>2. CASE AddBlocks
  <2>1. urx'.writers = Append(urx.writers, w)
    BY <1>2 DEF AddR, TypeOK
  <2>2. w \in UrxWriter /\ w.owner = owner
    BY DEF UrxWriter
  <2> HIDE DEF w
  <2>3. /\ DOMAIN urx'.writers = DOMAIN urx.writers \cup {Len(urx.writers) + 1}
        /\ Len(urx.writers) + 1 \notin DOMAIN urx.writers
        /\ \A i \in DOMAIN urx.writers : urx'.writers[i] = urx.writers[i]
        /\ urx'.writers[Len(urx.writers) + 1] = w
    BY <1>1, <2>1, <2>2
  <2>4. CASE owner = "rx"
    BY <1>2, <2>2, <2>3, <2>4 DEF WritersAgree
  <2>5. CASE owner # "rx"
    BY <2>2, <2>3, <2>5 DEF WritersAgree
  <2> QED BY <2>4, <2>5
<1>3. CASE ~AddBlocks
  <2>1. urx'.writers = urx.writers
    BY <1>3 DEF AddR, TypeOK
  <2> QED BY <2>1 DEF WritersAgree
<1> QED BY <1>2, <1>3

-----------------------------------------------------------------------------
(* The actions, in the order of Next.                                      *)

LEMMA InitIInv == Init => IInv
<1> SUFFICES ASSUME Init PROVE IInv
  OBVIOUS
<1>1. TypeOK
  <2>1. /\ IsMvar(rx_data, RxValue) /\ IsMvar(send_ack, {"ack"}) /\ IsMvar(rx_ack, {"ack"})
    BY AwaitedType DEF Init
  <2>2. /\ urx \in [q : Seq(Item), writers : Seq(UrxWriter), readers : Nat, cur_size : Int]
        /\ received \in Seq(Item)
    BY EmptySeq DEF Init
  <2>3. rx \in [pc : {"take", "ack", "queue", "blocked", "done"}, rest : SUBSET Item]
    BY DEF Init
  <2> QED BY <2>1, <2>2, <2>3, FirstInt, ReceiveAssumption DEF Init, TypeOK
<1>2. ThreadsAgree
  BY DEF Init, ThreadsAgree, WritersAgree, AwaitedMvar
<1>3. AckRequested
  BY DEF Init, AckRequested
<1> QED BY <1>1, <1>2, <1>3 DEF IInv

\* An action that leaves the threads of the ACK path alone, and puts at most
\* twice into rx_data while Flow.Rx.thread stays where it is, keeps what IInv
\* says of them.
LEMMA PutTwice ==
    ASSUME TypeOK, ThreadsAgree, NEW v \in RxValue, NEW w \in RxValue,
           rx_data' \in {rx_data, Put(rx_data, v), Put(Put(rx_data, v), w)},
           rx' = rx
    PROVE  /\ IsMvar(rx_data', RxValue)
           /\ rx'.pc # "take" => ~rx_data'.reading /\ rx_data'.handed = <<>>
<1> DEFINE p == Put(rx_data, v)
<1>1. IsMvar(rx_data, RxValue)
  BY DEF TypeOK
<1>2. IsMvar(p, RxValue) /\ (~rx_data.reading => ~p.reading /\ p.handed = rx_data.handed)
  BY <1>1, PutEffect
<1>3. IsMvar(Put(p, w), RxValue) /\ (~p.reading => ~Put(p, w).reading /\ Put(p, w).handed = p.handed)
  <2> HIDE DEF p
  <2> QED BY <1>2, PutEffect
<1> HIDE DEF p
<1>4. rx_data' \in {rx_data, p, Put(p, w)}
  BY DEF p
<1> QED BY <1>1, <1>2, <1>3, <1>4 DEF ThreadsAgree

\* The writers of the buffer stay as they are while it does, unless
\* Flow.Rx.thread leaves.
LEMMA WritersKeep ==
    ASSUME WritersAgree, urx' = urx, rx.pc = "blocked" => rx'.pc = "blocked"
    PROVE  WritersAgree'
  BY DEF WritersAgree

\* What the ACK path relies on holds after a step that leaves it alone.
LEMMA RxSideKeeps ==
    ASSUME IInv, UNCHANGED ackVars, rx_nxt' = rx_nxt, WritersAgree',
           rx'.pc = "ack" <=> rx.pc = "ack",
           rx'.pc # "take" => ~rx_data'.reading /\ rx_data'.handed = <<>>
    PROVE  ThreadsAgree' /\ AckRequested'
  BY DEF IInv, ThreadsAgree, AckRequested, ackVars

LEMMA InputOkStep == ASSUME IInv, NEW s \in PeerSegs, InputOk(s) PROVE IInv'
<1>1. PICK ready \in SUBSET Add(s, segs) :
        \E winadv \in Advances(ready, rx_nxt_inseq) :
          LET set   == Add(s, segs)
              ack   == set # ready \/ winadv > 0
              value == [data |-> Payloads(ready), eof |-> FALSE, ack |-> ack,
                        adv |-> IF ack THEN winadv ELSE 0, fin |-> Fin(ready)]
              first == Put(rx_data, value)
          IN  /\ segs' = Waiting(set, ready, rx_nxt_inseq)
              /\ rx_nxt_inseq' = rx_nxt_inseq + winadv
              /\ rx_data' = IF Fin(ready) /\ ~PutBlocks(rx_data)
                            THEN Put(first, EofValue) ELSE first
  BY DEF InputOk
<1>2. PICK winadv \in Advances(ready, rx_nxt_inseq) :
          LET set   == Add(s, segs)
              ack   == set # ready \/ winadv > 0
              value == [data |-> Payloads(ready), eof |-> FALSE, ack |-> ack,
                        adv |-> IF ack THEN winadv ELSE 0, fin |-> Fin(ready)]
              first == Put(rx_data, value)
          IN  /\ segs' = Waiting(set, ready, rx_nxt_inseq)
              /\ rx_nxt_inseq' = rx_nxt_inseq + winadv
              /\ rx_data' = IF Fin(ready) /\ ~PutBlocks(rx_data)
                            THEN Put(first, EofValue) ELSE first
  BY <1>1
<1> DEFINE ack   == Add(s, segs) # ready \/ winadv > 0
           value == [data |-> Payloads(ready), eof |-> FALSE, ack |-> ack,
                     adv |-> IF ack THEN winadv ELSE 0, fin |-> Fin(ready)]
<1>3. ready \subseteq PeerSegs /\ Add(s, segs) \subseteq PeerSegs
  BY AddType DEF IInv, TypeOK
<1>4. winadv \in Int
  BY <1>3, AdvanceType DEF IInv, TypeOK
<1>5. value \in RxValue
  <2>1. Fin(ready) \in BOOLEAN /\ ack \in BOOLEAN
    BY DEF Fin
  <2>2. Payloads(ready) \in SUBSET Item
    BY <1>3, PayloadType
  <2>3. (IF ack THEN winadv ELSE 0) \in Int
    BY <1>4
  <2> HIDE DEF ack
  <2> QED BY <2>1, <2>2, <2>3 DEF RxValue
<1>6. rx_data' \in {Put(rx_data, value), Put(Put(rx_data, value), EofValue)} /\ rx' = rx
  BY <1>2 DEF InputOk
<1>7. /\ IsMvar(rx_data', RxValue)
      /\ rx'.pc # "take" => ~rx_data'.reading /\ rx_data'.handed = <<>>
  <2> HIDE DEF value
  <2> QED BY <1>5, <1>6, ValueType, PutTwice DEF IInv
<1>8. segs' \subseteq PeerSegs /\ rx_nxt_inseq' \in Int
  BY <1>2, <1>3, <1>4 DEF Waiting, IInv, TypeOK
<1>9. TypeOK'
  BY <1>7, <1>8 DEF InputOk, IInv, TypeOK, ackVars
<1>10. ThreadsAgree' /\ AckRequested'
  BY <1>6, <1>7, RxSideKeeps, WritersKeep DEF InputOk, IInv, ThreadsAgree
<1> QED BY <1>9, <1>10 DEF IInv

LEMMA InputChallengeStep == ASSUME IInv, NEW s \in PeerSegs, InputChallenge(s) PROVE IInv'
<1>1. /\ IsMvar(rx_data', RxValue)
      /\ rx'.pc # "take" => ~rx_data'.reading /\ rx_data'.handed = <<>>
  BY ValueType, PutTwice DEF InputChallenge, IInv
<1>2. TypeOK'
  BY <1>1 DEF InputChallenge, IInv, TypeOK, ackVars
<1>3. ThreadsAgree' /\ AckRequested'
  BY <1>1, RxSideKeeps, WritersKeep DEF InputChallenge, IInv, ThreadsAgree
<1> QED BY <1>2, <1>3 DEF IInv

LEMMA InputResetStep == ASSUME IInv, NEW s \in PeerSegs, InputReset(s) PROVE IInv'
<1>1. /\ IsMvar(rx_data', RxValue)
      /\ rx'.pc # "take" => ~rx_data'.reading /\ rx_data'.handed = <<>>
  BY ValueType, PutTwice DEF InputReset, IInv
<1>2. TypeOK'
  BY <1>1 DEF InputReset, IInv, TypeOK, ackVars
<1>3. ThreadsAgree' /\ AckRequested'
  BY <1>1, RxSideKeeps, WritersKeep DEF InputReset, IInv, ThreadsAgree
<1> QED BY <1>2, <1>3 DEF IInv

LEMMA PutEofStep == ASSUME IInv, PutEof PROVE IInv'
<1>1. /\ IsMvar(rx_data', RxValue)
      /\ rx'.pc # "take" => ~rx_data'.reading /\ rx_data'.handed = <<>>
  BY ValueType, PutTwice DEF PutEof, IInv
<1>2. eof_puts' \in Nat
  BY DEF PutEof, IInv, TypeOK
<1>3. TypeOK'
  BY <1>1, <1>2 DEF PutEof, IInv, TypeOK, ackVars
<1>4. ThreadsAgree' /\ AckRequested'
  BY <1>1, RxSideKeeps, WritersKeep DEF PutEof, IInv, ThreadsAgree
<1> QED BY <1>3, <1>4 DEF IInv

\* What Flow.Rx.thread does to its place and to urx keeps their types.
LEMMA RxType ==
    ASSUME TypeOK
    PROVE  /\ \A pc \in {"take", "ack", "queue", "blocked", "done"} :
                [rx EXCEPT !.pc = pc] \in [pc : {"take", "ack", "queue", "blocked", "done"},
                                          rest : SUBSET Item]
           /\ \A pc \in STRING : [rx EXCEPT !.pc = pc].pc = pc
  BY DEF TypeOK

LEMMA RxDataStep == ASSUME IInv, RxData PROVE IInv'
<1> DEFINE v    == Head(rx_data.handed)
           push == AckWanted(v)
<1>1. IsMvar(rx_data, RxValue) /\ IsMvar(send_ack, {"ack"})
  BY DEF IInv, TypeOK
<1>2. v \in RxValue
  <2>1. rx_data.handed \in Seq(RxValue) /\ rx_data.handed # <<>>
    BY <1>1 DEF RxData, IsMvar, MvarRecord
  <2> QED BY <2>1, HeadTailProperties
<1>3. v.data \in SUBSET Item /\ v.adv \in Int /\ (~v.ack => v.adv = 0)
  BY <1>2 DEF RxValue
<1>4. IsMvar(rx_data', RxValue) /\ ~rx_data.reading /\ ~rx_data'.reading /\ rx_data'.handed = <<>>
  <2>1. rx_data' = Consume(rx_data) /\ rx_data.handed # <<>>
    BY DEF RxData
  <2>2. ~rx_data.reading
    BY <1>1, <2>1 DEF IsMvar
  <2> QED BY <1>1, <2>1, <2>2, ConsumeEffect
<1>5. send_ack.writers = <<>> /\ rx.pc = "take"
  BY DEF RxData, IInv, ThreadsAgree
<1> DEFINE pc == IF push /\ PutBlocks(send_ack) THEN "ack" ELSE "queue"
<1>6. /\ rx' = [pc |-> pc, rest |-> v.data] /\ rx_nxt' = rx_nxt + v.adv
      /\ push => pushpending' = TRUE /\ send_ack' = Put(send_ack, "ack")
      /\ ~push => pushpending' = pushpending /\ send_ack' = send_ack
  BY DEF RxData
<1>7. pc \in {"ack", "queue"} /\ (pc = "ack" <=> push /\ PutBlocks(send_ack))
  OBVIOUS
<1>8. push \/ v.adv = 0 \/ pushpending
  BY <1>3 DEF AckWanted
<1> HIDE DEF v, push, pc
<1>9. rx'.pc = pc /\ rx' \in [pc : {"take", "ack", "queue", "blocked", "done"}, rest : SUBSET Item]
  BY <1>3, <1>6, <1>7
<1>10. rx_nxt \in Int /\ rx_nxt' \in Int
  BY <1>3, <1>6 DEF IInv, TypeOK
<1>11. WritersAgree'
  BY <1>5, WritersKeep DEF RxData, IInv, ThreadsAgree
<1>12. CASE push
  <2> DEFINE p == Put(send_ack, "ack")
  <2>1. /\ IsMvar(p, {"ack"})
        /\ ~send_ack.reading => ~p.reading /\ p.handed = send_ack.handed
        /\ p.contents # <<>> \/ p.handed # <<>>
        /\ p.writers = IF PutBlocks(send_ack) THEN Append(<<>>, "ack") ELSE <<>>
    BY <1>1, <1>5, PutEffect
  <2>2. send_ack' = p /\ pushpending' = TRUE
    BY <1>6, <1>12
  <2>3. xmitting => ~p.reading /\ p.handed = <<>>
    BY <2>1 DEF IInv, ThreadsAgree
  <2>4. Append(<<>>, "ack") = <<"ack">>
    OBVIOUS
  <2> HIDE DEF p
  <2>5. TypeOK'
    BY <1>4, <1>9, <1>10, <2>1, <2>2 DEF RxData, IInv, TypeOK
  <2>6. ThreadsAgree'
    BY <1>4, <1>7, <1>9, <1>11, <1>12, <2>1, <2>2, <2>3, <2>4 DEF RxData, ThreadsAgree
  <2>7. AckRequested'
    BY <2>1, <2>2 DEF AckRequested
  <2> QED BY <2>5, <2>6, <2>7 DEF IInv
<1>13. CASE ~push
  <2>1. send_ack' = send_ack /\ pushpending' = pushpending /\ rx'.pc = "queue"
    BY <1>6, <1>7, <1>9, <1>13
  <2>2. TypeOK'
    BY <1>4, <1>9, <1>10, <2>1 DEF RxData, IInv, TypeOK
  <2>3. ThreadsAgree'
    BY <1>4, <1>5, <1>11, <2>1 DEF RxData, IInv, ThreadsAgree
  <2>4. rx_nxt' = rx_nxt \/ pushpending
    BY <1>6, <1>8, <1>10, <1>13
  <2>5. AckRequested'
    BY <2>1, <2>4 DEF RxData, IInv, AckRequested
  <2> QED BY <2>2, <2>3, <2>5 DEF IInv
<1> QED BY <1>12, <1>13

LEMMA RxQueueStep == ASSUME IInv, RxQueue PROVE IInv'
<1>1. PICK hd \in rx.rest :
        /\ AddR(hd, "rx")
        /\ rx' = [pc |-> IF AddBlocks THEN "blocked" ELSE "queue", rest |-> rx.rest \ {hd}]
  BY DEF RxQueue
<1>2. hd \in Item /\ rx.pc = "queue" /\ rx.rest \subseteq Item
  BY DEF RxQueue, IInv, TypeOK
<1>3. /\ rx' \in [pc : {"take", "ack", "queue", "blocked", "done"}, rest : SUBSET Item]
      /\ rx'.pc = IF AddBlocks THEN "blocked" ELSE "queue"
  BY <1>1, <1>2
<1>4. TypeOK'
  BY <1>1, <1>2, <1>3, AddRType DEF RxQueue, IInv, TypeOK, ackVars
<1>5. WritersAgree'
  BY <1>1, <1>2, <1>3, AddRWriters DEF IInv, ThreadsAgree
<1>6. ThreadsAgree' /\ AckRequested'
  BY <1>2, <1>3, <1>5, RxSideKeeps DEF RxQueue, IInv, ThreadsAgree
<1> QED BY <1>4, <1>6 DEF IInv

LEMMA RxLoopStep == ASSUME IInv, RxLoop PROVE IInv'
<1>1. rx_data' = Take(rx_data) /\ rx_data.handed = <<>> /\ IsMvar(rx_data, RxValue)
  BY DEF RxLoop, IInv, TypeOK, ThreadsAgree
<1>2. IsMvar(rx_data', RxValue)
  BY <1>1, TakeEffect
<1>3. /\ rx' \in [pc : {"take", "ack", "queue", "blocked", "done"}, rest : SUBSET Item]
      /\ rx'.pc = "take"
  BY RxType DEF RxLoop, IInv
<1>4. eof_puts' \in Nat
  BY DEF RxLoop, IInv, TypeOK
<1>5. TypeOK'
  BY <1>2, <1>3, <1>4 DEF RxLoop, IInv, TypeOK, ackVars
<1>6. WritersAgree'
  BY WritersKeep DEF RxLoop, IInv, ThreadsAgree
<1>7. ThreadsAgree' /\ AckRequested'
  BY <1>3, <1>6, RxSideKeeps DEF RxLoop
<1> QED BY <1>5, <1>7 DEF IInv

LEMMA RxEofStep == ASSUME IInv, RxEof PROVE IInv'
<1>1. IsMvar(rx_data', RxValue) /\ ~rx_data'.reading /\ rx_data'.handed = <<>>
  <2>1. IsMvar(rx_data, RxValue) /\ rx_data' = Consume(rx_data) /\ rx_data.handed # <<>>
    BY DEF RxEof, IInv, TypeOK
  <2>2. ~rx_data.reading
    BY <2>1 DEF IsMvar
  <2> QED BY <2>1, <2>2, ConsumeEffect
<1>2. AddR(Eof, "rx") /\ Eof \in Item /\ rx.pc = "take"
  BY FirstInt DEF RxEof
<1>3. /\ rx' \in [pc : {"take", "ack", "queue", "blocked", "done"}, rest : SUBSET Item]
      /\ rx'.pc = IF AddBlocks THEN "blocked" ELSE "done"
  BY RxType DEF RxEof, IInv, TypeOK
<1>4. state' \in {"Established", "Close_wait", "Reset"}
  BY DEF RxEof, IInv, TypeOK
<1>5. TypeOK'
  BY <1>1, <1>2, <1>3, <1>4, AddRType DEF RxEof, IInv, TypeOK, ackVars
<1>6. WritersAgree'
  BY <1>2, <1>3, AddRWriters DEF IInv, ThreadsAgree
<1>7. ThreadsAgree' /\ AckRequested'
  BY <1>1, <1>2, <1>3, <1>6, RxSideKeeps DEF RxEof
<1> QED BY <1>5, <1>7 DEF IInv

LEMMA KeepaliveCloseStep == ASSUME IInv, KeepaliveClose PROVE IInv'
<1>1. AddR(Eof, "keepalive") /\ Eof \in Item
  BY FirstInt DEF KeepaliveClose
<1>2. TypeOK'
  BY <1>1, AddRType DEF KeepaliveClose, IInv, TypeOK, ackVars
<1>3. WritersAgree'
  BY <1>1, AddRWriters DEF KeepaliveClose, IInv, ThreadsAgree
<1>4. ThreadsAgree' /\ AckRequested'
  BY <1>3, RxSideKeeps DEF KeepaliveClose, IInv, ThreadsAgree
<1> QED BY <1>2, <1>4 DEF IInv

LEMMA ReadWaitsStep == ASSUME IInv, ReadWaits PROVE IInv'
<1>1. urx' \in [q : Seq(Item), writers : Seq(UrxWriter), readers : Nat, cur_size : Int]
  BY DEF ReadWaits, IInv, TypeOK
<1>2. urx'.writers = urx.writers
  BY DEF ReadWaits, IInv, TypeOK
<1>3. TypeOK'
  BY <1>1 DEF ReadWaits, IInv, TypeOK, ackVars
<1>4. WritersAgree'
  BY <1>2 DEF ReadWaits, IInv, ThreadsAgree, WritersAgree
<1>5. ThreadsAgree' /\ AckRequested'
  BY <1>4, RxSideKeeps DEF ReadWaits, IInv, ThreadsAgree
<1> QED BY <1>3, <1>5 DEF IInv

LEMMA CancelReadStep == ASSUME IInv, CancelRead PROVE IInv'
<1>1. urx' \in [q : Seq(Item), writers : Seq(UrxWriter), readers : Nat, cur_size : Int]
  <2>1. urx.readers - 1 \in Nat
    BY DEF CancelRead, IInv, TypeOK
  <2> QED BY <2>1 DEF CancelRead, IInv, TypeOK
<1>2. urx'.writers = urx.writers
  BY DEF CancelRead, IInv, TypeOK
<1>3. TypeOK'
  BY <1>1 DEF CancelRead, IInv, TypeOK, ackVars
<1>4. WritersAgree'
  BY <1>2 DEF CancelRead, IInv, ThreadsAgree, WritersAgree
<1>5. ThreadsAgree' /\ AckRequested'
  BY <1>4, RxSideKeeps DEF CancelRead, IInv, ThreadsAgree
<1> QED BY <1>3, <1>5 DEF IInv

\* The first blocked writer goes on, and no other.
LEMMA ReadTakesStep == ASSUME IInv, ReadTakes PROVE IInv'
<1> DEFINE size == urx.cur_size - Head(urx.q).len
           w    == Head(urx.writers)
           PCs  == {"take", "ack", "queue", "blocked", "done"}
<1>1. /\ urx \in [q : Seq(Item), writers : Seq(UrxWriter), readers : Nat, cur_size : Int]
      /\ rx \in [pc : PCs, rest : SUBSET Item] /\ received \in Seq(Item)
  BY DEF IInv, TypeOK
<1>2. Head(urx.q) \in Item /\ Tail(urx.q) \in Seq(Item) /\ size \in Int
  <2>1. urx.q \in Seq(Item) /\ urx.q # <<>> /\ urx.cur_size \in Int
    BY <1>1 DEF ReadTakes
  <2>2. Head(urx.q) \in Item /\ Tail(urx.q) \in Seq(Item)
    BY <2>1, QueueOps
  <2> QED BY <2>1, <2>2 DEF Item
<1>3. received' \in Seq(Item) /\ rx_wnd' \in Nat
  <2>1. received' = Append(received, Head(urx.q)) /\ rx_wnd' = WndFor(size)
    BY DEF ReadTakes
  <2> HIDE DEF size
  <2> QED BY <1>1, <1>2, <2>1, QueueOps, WndType
<1>4. CASE WakesWriter(size)
  <2>1. /\ urx' = [urx EXCEPT !.q = Append(Tail(@), w.item), !.writers = Tail(@), !.cur_size = size]
        /\ rx' = IF w.owner = "rx"
                 THEN [rx EXCEPT !.pc = IF w.item = Eof THEN "done" ELSE "queue"]
                 ELSE rx
    BY <1>4 DEF ReadTakes
  <2>2. w \in UrxWriter /\ Tail(urx.writers) \in Seq(UrxWriter) /\ urx.writers # <<>>
    BY <1>1, <1>4, QueueOps DEF WakesWriter
  <2>3. w.item \in Item /\ Append(Tail(urx.q), w.item) \in Seq(Item)
    BY <1>2, <2>2, QueueOps DEF UrxWriter
  <2>4. /\ urx' \in [q : Seq(Item), writers : Seq(UrxWriter), readers : Nat, cur_size : Int]
        /\ urx'.writers = Tail(urx.writers)
    <3> HIDE DEF w, size
    <3> QED BY <1>1, <1>2, <2>1, <2>2, <2>3
  <2>5. /\ rx' \in [pc : PCs, rest : SUBSET Item]
        /\ w.owner = "rx" => rx'.pc \in {"done", "queue"}
        /\ w.owner # "rx" => rx' = rx
    <3> HIDE DEF w
    <3> QED BY <1>1, <2>1
  <2>6. /\ 1 \in DOMAIN urx.writers /\ urx.writers[1] = w
        /\ \A i \in DOMAIN urx'.writers :
             /\ i + 1 \in DOMAIN urx.writers /\ i + 1 # 1 /\ i \in Nat
             /\ urx'.writers[i] = urx.writers[i + 1]
    <3>1. /\ Len(urx.writers) \in Nat /\ Len(urx.writers) > 0
          /\ DOMAIN urx.writers = 1..Len(urx.writers)
          /\ DOMAIN Tail(urx.writers) = 1..(Len(urx.writers) - 1)
          /\ \A i \in DOMAIN Tail(urx.writers) : Tail(urx.writers)[i] = urx.writers[i + 1]
      BY <1>1, <2>2
    <3> QED BY <2>4, <3>1
  <2> HIDE DEF w
  <2>7. WritersAgree /\ (w.owner = "rx" => rx.pc = "blocked")
    BY <2>6 DEF WritersAgree, IInv, ThreadsAgree
  <2>8. WritersAgree'
    <3>1. CASE w.owner = "rx"
      <4>1. \A i \in DOMAIN urx'.writers : urx'.writers[i].owner # "rx"
        BY <2>6, <2>7, <3>1 DEF WritersAgree
      <4> QED BY <4>1 DEF WritersAgree
    <3>2. CASE w.owner # "rx"
      <4>1. ASSUME NEW i \in DOMAIN urx'.writers, urx'.writers[i].owner = "rx"
            PROVE  /\ rx'.pc = "blocked"
                   /\ \A j \in DOMAIN urx'.writers : urx'.writers[j].owner = "rx" => j = i
        BY <2>5, <2>6, <2>7, <3>2, <4>1 DEF WritersAgree
      <4> QED BY <4>1 DEF WritersAgree
    <3> QED BY <3>1, <3>2
  <2>9. rx.pc = "take" \/ rx.pc = "ack" => rx' = rx
    BY <2>5, <2>7
  <2>10. rx'.pc \in {"take", "ack"} => rx' = rx
    BY <2>5
  <2>11. TypeOK'
    BY <1>3, <2>4, <2>5 DEF ReadTakes, IInv, TypeOK, ackVars
  <2>12. ThreadsAgree' /\ AckRequested'
    BY <2>8, <2>9, <2>10, RxSideKeeps DEF ReadTakes, IInv, ThreadsAgree
  <2> QED BY <2>11, <2>12 DEF IInv
<1>5. CASE ~WakesWriter(size)
  <2>1. urx' = [urx EXCEPT !.q = Tail(@), !.cur_size = size] /\ rx' = rx
    BY <1>5 DEF ReadTakes
  <2> HIDE DEF size
  <2>2. /\ urx' \in [q : Seq(Item), writers : Seq(UrxWriter), readers : Nat, cur_size : Int]
        /\ urx'.writers = urx.writers
    BY <1>1, <1>2, <2>1
  <2>3. TypeOK'
    BY <1>3, <2>1, <2>2 DEF ReadTakes, IInv, TypeOK, ackVars
  <2>4. WritersAgree'
    BY <2>1, <2>2 DEF IInv, ThreadsAgree, WritersAgree
  <2>5. ThreadsAgree' /\ AckRequested'
    BY <2>1, <2>4, RxSideKeeps DEF ReadTakes, IInv, ThreadsAgree
  <2> QED BY <2>3, <2>5 DEF IInv
<1> QED BY <1>4, <1>5

LEMMA SendEmptyAckStep == ASSUME IInv, SendEmptyAck PROVE IInv'
<1> DEFINE c == Consume(send_ack)
<1>1. /\ IsMvar(c, {"ack"}) /\ c.handed = <<>> /\ c.reading = send_ack.reading
      /\ c.writers = send_ack.writers
  BY ConsumeEffect DEF IInv, TypeOK
<1>2. send_ack' = c /\ ~send_ack.reading
  BY DEF SendEmptyAck, IInv, TypeOK, IsMvar
<1> HIDE DEF c
<1>3. TypeOK'
  BY <1>1, <1>2 DEF SendEmptyAck, rxVars, IInv, TypeOK
<1>4. ThreadsAgree'
  BY <1>1, <1>2, WritersKeep DEF SendEmptyAck, rxVars, IInv, ThreadsAgree
<1>5. AckRequested'
  BY DEF SendEmptyAck, rxVars, AckRequested
<1> QED BY <1>3, <1>4, <1>5 DEF IInv

\* A request that was in contents is handed over; the one that waits takes its
\* place, and Flow.Rx.thread goes on.
LEMMA EmptyAckSentStep == ASSUME IInv, EmptyAckSent PROVE IInv'
<1> DEFINE t == Take(send_ack)
<1>1. /\ IsMvar(t, {"ack"}) /\ t.handed = send_ack.contents
      /\ t.writers = IF send_ack.writers = <<>> THEN <<>> ELSE Tail(send_ack.writers)
      /\ send_ack.handed = <<>>
  BY TakeEffect DEF EmptyAckSent, IInv, TypeOK, ThreadsAgree
<1>2. t.writers = <<>>
  <2>1. send_ack.writers \in {<<>>, <<"ack">>}
    BY DEF IInv, ThreadsAgree
  <2>2. Tail(<<"ack">>) = <<>>
    OBVIOUS
  <2> QED BY <1>1, <2>1, <2>2
<1>3. /\ rx' \in [pc : {"take", "ack", "queue", "blocked", "done"}, rest : SUBSET Item]
      /\ rx.pc = "ack" => rx'.pc = "queue"
      /\ rx.pc # "ack" => rx' = rx
  BY RxType DEF EmptyAckSent, IInv, TypeOK
<1>4. send_ack' = t /\ ~xmitting'
  BY DEF EmptyAckSent
<1> HIDE DEF t
<1>5. TypeOK'
  BY <1>1, <1>3, <1>4 DEF EmptyAckSent, rxVars, IInv, TypeOK
<1>6. WritersAgree'
  BY <1>3, WritersKeep DEF EmptyAckSent, rxVars, IInv, ThreadsAgree
<1>7. ThreadsAgree'
  BY <1>2, <1>3, <1>4, <1>6 DEF EmptyAckSent, rxVars, IInv, ThreadsAgree
<1>8. AckRequested'
  BY <1>1, <1>4 DEF EmptyAckSent, rxVars, IInv, AckRequested
<1> QED BY <1>5, <1>7, <1>8 DEF IInv

\* notify clears pushpending, which asks for nothing; the ACK numbers stay.
LEMMA NotifyStep == ASSUME IInv, Notify PROVE IInv'
<1>1. IsMvar(rx_ack', {"ack"})
  <2> DEFINE c == Consume(rx_ack)
  <2>1. IsMvar(c, {"ack"}) /\ c.handed = <<>>
    BY ConsumeEffect DEF IInv, TypeOK
  <2>2. rx_ack' = Take(c)
    BY DEF Notify
  <2> HIDE DEF c
  <2> QED BY <2>1, <2>2, TakeEffect
<1>2. TypeOK'
  BY <1>1 DEF Notify, rxVars, IInv, TypeOK
<1>3. ThreadsAgree'
  BY WritersKeep DEF Notify, rxVars, IInv, ThreadsAgree
<1>4. AckRequested'
  BY DEF Notify, rxVars, IInv, AckRequested
<1> QED BY <1>2, <1>3, <1>4 DEF IInv

\* A segment that carries the ACK number tells the peer all there is to tell.
LEMMA TransmitStep == ASSUME IInv, Output \/ OutputSent \/ Retransmit PROVE IInv'
<1>1. CASE Output
  <2>1. TypeOK'
    BY <1>1 DEF Output, rxVars, IInv, TypeOK
  <2>2. ThreadsAgree'
    BY <1>1, WritersKeep DEF Output, rxVars, IInv, ThreadsAgree
  <2>3. AckRequested'
    BY <1>1 DEF Output, rxVars, IInv, AckRequested
  <2> QED BY <2>1, <2>2, <2>3 DEF IInv
<1>2. CASE OutputSent
  <2>1. IsMvar(rx_ack', {"ack"})
    BY <1>2, PutEffect DEF OutputSent, IInv, TypeOK
  <2>2. outputs' \in Nat
    BY <1>2 DEF OutputSent, IInv, TypeOK
  <2>3. TypeOK'
    BY <1>2, <2>1, <2>2 DEF OutputSent, rxVars, IInv, TypeOK
  <2>4. ThreadsAgree'
    BY <1>2, WritersKeep DEF OutputSent, rxVars, IInv, ThreadsAgree
  <2>5. AckRequested'
    BY <1>2 DEF OutputSent, rxVars, IInv, AckRequested
  <2> QED BY <2>3, <2>4, <2>5 DEF IInv
<1>3. CASE Retransmit
  <2>1. TypeOK'
    BY <1>3 DEF Retransmit, rxVars, IInv, TypeOK
  <2>2. ThreadsAgree'
    BY <1>3, WritersKeep DEF Retransmit, rxVars, IInv, ThreadsAgree
  <2>3. AckRequested'
    BY <1>3 DEF Retransmit, rxVars, IInv, AckRequested
  <2> QED BY <2>1, <2>2, <2>3 DEF IInv
<1> QED BY <1>1, <1>2, <1>3

-----------------------------------------------------------------------------
(* The theorems.                                                           *)

LEMMA StepIInv == IInv /\ [Next]_vars => IInv'
<1> SUFFICES ASSUME IInv, [Next]_vars PROVE IInv'
  OBVIOUS
<1>1. CASE \E s \in PeerSegs : Input(s)
  <2>1. PICK s \in PeerSegs : InputOk(s) \/ InputChallenge(s) \/ InputReset(s)
    BY <1>1 DEF Input
  <2> QED BY <2>1, InputOkStep, InputChallengeStep, InputResetStep
<1>2. CASE PutEof
  BY <1>2, PutEofStep
<1>3. CASE RxThread
  BY <1>3, RxDataStep, RxQueueStep, RxLoopStep, RxEofStep DEF RxThread
<1>4. CASE TxThread
  BY <1>4, SendEmptyAckStep, EmptyAckSentStep, NotifyStep DEF TxThread
<1>5. CASE Transmit
  BY <1>5, TransmitStep DEF Transmit
<1>6. CASE App
  BY <1>6, ReadWaitsStep, ReadTakesStep, CancelReadStep DEF App
<1>7. CASE KeepaliveClose
  BY <1>7, KeepaliveCloseStep
<1>8. CASE UNCHANGED vars
  BY <1>8 DEF vars, IInv, TypeOK, ThreadsAgree, WritersAgree, AckRequested
<1> QED BY <1>1, <1>2, <1>3, <1>4, <1>5, <1>6, <1>7, <1>8 DEF Next

\* Every behaviour keeps the inductive invariant.
LEMMA Inductive == Spec => []IInv
  BY InitIInv, StepIInv, PTL DEF Spec

\* The variables of the receiving half (Segment.Rx, Flow.Rx, Ack.Immediate,
\* User_buffer.Rx) keep their types, and its mvars stay in states that Lwt_mvar
\* can be in.
THEOREM TypeCorrect == Spec => []TypeOK
<1>1. IInv => TypeOK
  BY DEF IInv
<1> QED BY <1>1, Inductive, PTL

\* No thread of the receiving half (Flow.Rx.thread, send_empty_ack) is anywhere
\* else than the queues it waits in say it is.
THEOREM ThreadsCorrect == Spec => []ThreadsAgree
<1>1. IInv => ThreadsAgree
  BY DEF IInv
<1> QED BY <1>1, Inductive, PTL

\* Ack.Immediate loses no ACK: whatever the peer sends and in whatever order the
\* threads run, an ACK number the peer has not been told of is asked for.
THEOREM NoAckLost == Spec => []AckRequested
<1>1. IInv => AckRequested
  BY DEF IInv
<1> QED BY <1>1, Inductive, PTL

-----------------------------------------------------------------------------
(* Sequence numbers.                                                       *)

LEMMA DivMod ==
    ASSUME NEW a \in Int, NEW b \in Nat \ {0}
    PROVE  /\ a \div b \in Int /\ a = b * (a \div b) + (a % b)
           /\ 0 <= a % b /\ a % b < b
  BY Z3

\* Wrap takes off a multiple of the size of an int32.
LEMMA WrapShape ==
    ASSUME NEW x \in Int
    PROVE  /\ \E k \in Int : Wrap(x) = x - (2 * HalfRange) * k
           /\ Wrap(x) \in Int /\ -HalfRange <= Wrap(x) /\ Wrap(x) < HalfRange
<1>1. 2 * HalfRange \in Nat \ {0} /\ HalfRange \in Nat
  BY HalfRangeAssumption
<1> DEFINE b == 2 * HalfRange
           k == (x + HalfRange) \div b
<1>2. k \in Int /\ x + HalfRange = b * k + ((x + HalfRange) % b) /\ 0 <= (x + HalfRange) % b /\ (x + HalfRange) % b < b
  <2>1. b \in Nat \ {0} /\ x + HalfRange \in Int
    BY <1>1
  <2> HIDE DEF b
  <2> QED BY <2>1, DivMod
<1>3. Wrap(x) = ((x + HalfRange) % b) - HalfRange
  BY DEF Wrap
<1> HIDE DEF k
<1>4. Wrap(x) = x - b * k /\ Wrap(x) \in Int /\ -HalfRange <= Wrap(x) /\ Wrap(x) < HalfRange
  BY <1>1, <1>2, <1>3
<1> QED BY <1>2, <1>4

LEMMA NoMultiple ==
    ASSUME NEW b \in Nat \ {0}, NEW m \in Int, -b < b * m, b * m < b
    PROVE  m = 0
  OBVIOUS

\* Two numbers less than half the range apart have different int32 values, and if
\* the values are in the order of the numbers, they are as far apart.
LEMMA WrapNear ==
    ASSUME NEW x \in Int, NEW y \in Int, -HalfRange < x - y, x - y < HalfRange
    PROVE  /\ Wrap(x) = Wrap(y) => x = y
           /\ y <= x /\ Wrap(y) <= Wrap(x) => Wrap(x) - Wrap(y) = x - y
<1> DEFINE b == 2 * HalfRange
<1>1. b \in Nat \ {0} /\ HalfRange \in Nat
  BY HalfRangeAssumption
<1>2. PICK k \in Int : Wrap(x) = x - b * k
  BY WrapShape
<1>3. PICK l \in Int : Wrap(y) = y - b * l
  BY WrapShape
<1>4. b * (k - l) = b * k - b * l /\ k - l \in Int
  BY <1>1
<1>5. /\ Wrap(x) \in Int /\ -HalfRange <= Wrap(x) /\ Wrap(x) < HalfRange
      /\ Wrap(y) \in Int /\ -HalfRange <= Wrap(y) /\ Wrap(y) < HalfRange
  BY WrapShape
<1> DEFINE m == k - l
<1>6. x - y = Wrap(x) - Wrap(y) + b * m /\ m \in Int /\ b * m \in Int
  BY <1>1, <1>2, <1>3, <1>4
<1>7. ASSUME -b < b * m, b * m < b PROVE b * m = 0
  <2>1. m = 0
    <3> HIDE DEF m, b
    <3> QED BY <1>1, <1>6, <1>7, NoMultiple
  <2> QED BY <1>1, <2>1
<1> HIDE DEF m
<1>8. Wrap(x) = Wrap(y) => x = y
  BY <1>1, <1>5, <1>6, <1>7
<1>9. y <= x /\ Wrap(y) <= Wrap(x) => Wrap(x) - Wrap(y) = x - y
  BY <1>1, <1>5, <1>6, <1>7
<1> QED BY <1>8, <1>9

\* Numbers that are small are their int32 values.
LEMMA WrapSmall ==
    ASSUME NEW x \in Int, -HalfRange <= x, x < HalfRange
    PROVE  Wrap(x) = x
<1> DEFINE b == 2 * HalfRange
<1>1. b \in Nat \ {0} /\ HalfRange \in Nat
  BY HalfRangeAssumption
<1>2. PICK k \in Int : Wrap(x) = x - b * k
  BY WrapShape
<1>3. Wrap(x) \in Int /\ -HalfRange <= Wrap(x) /\ Wrap(x) < HalfRange
  BY WrapShape
<1>4. b * k \in Int /\ -b < b * k /\ b * k < b
  BY <1>1, <1>2, <1>3
<1>5. k = 0
  <2> HIDE DEF b
  <2> QED BY <1>1, <1>4, NoMultiple
<1> QED BY <1>1, <1>2, <1>5

LEMMA CompareOrder ==
    ASSUME NEW x \in Int, NEW y \in Int
    PROVE  /\ Compare(x, y) < 0 <=> Wrap(x) < Wrap(y)
           /\ Compare(x, y) >= 0 <=> Wrap(y) <= Wrap(x)
           /\ Compare(x, y) = 0 <=> Wrap(x) = Wrap(y)
           /\ Wrap(x) \in Int
  BY WrapShape DEF Compare

\* Numbers a multiple of the size apart are the same int32.
LEMMA WrapSame ==
    ASSUME NEW x \in Int, NEW y \in Int, NEW k \in Int, x = y + (2 * HalfRange) * k
    PROVE  Wrap(x) = Wrap(y)
<1> DEFINE b == 2 * HalfRange
<1>1. b \in Nat \ {0} /\ HalfRange \in Nat
  BY HalfRangeAssumption
<1>2. PICK i \in Int : Wrap(x) = x - b * i
  BY WrapShape
<1>3. PICK j \in Int : Wrap(y) = y - b * j
  BY WrapShape
<1>4. /\ Wrap(x) \in Int /\ -HalfRange <= Wrap(x) /\ Wrap(x) < HalfRange
      /\ Wrap(y) \in Int /\ -HalfRange <= Wrap(y) /\ Wrap(y) < HalfRange
  BY WrapShape
<1> DEFINE m == k - i + j
<1>5. m \in Int /\ b * m = b * k - b * i + b * j /\ b * k \in Int /\ b * i \in Int /\ b * j \in Int
  <2> HIDE DEF b
  <2> QED BY <1>1
<1>6. Wrap(x) - Wrap(y) = b * m
  <2>1. x = y + b * k
    OBVIOUS
  <2> HIDE DEF b, m
  <2> QED BY <1>1, <1>2, <1>3, <1>5, <2>1
<1>7. -b < b * m /\ b * m < b
  <2> HIDE DEF m
  <2> QED BY <1>1, <1>4, <1>6
<1>8. m = 0
  <2> HIDE DEF b, m
  <2> QED BY <1>1, <1>5, <1>7, NoMultiple
<1>9. b * m = 0
  BY <1>1, <1>8
<1> QED BY <1>4, <1>6, <1>9

\* Wrapping commutes with addition, and what one adds to n to get to x may be wrapped.
LEMMA WrapAdd ==
    ASSUME NEW x \in Int, NEW y \in Int, NEW l \in Int
    PROVE  /\ Wrap(x) = Wrap(y) => Wrap(x + l) = Wrap(y + l)
           /\ Wrap(y + Wrap(x - y)) = Wrap(x)
<1> DEFINE b == 2 * HalfRange
<1>1. b \in Nat \ {0}
  BY HalfRangeAssumption
<1>2. ASSUME Wrap(x) = Wrap(y) PROVE Wrap(x + l) = Wrap(y + l)
  <2>1. PICK i \in Int : Wrap(x) = x - b * i
    BY WrapShape
  <2>2. PICK j \in Int : Wrap(y) = y - b * j
    BY WrapShape
  <2> DEFINE k == i - j
  <2>3. k \in Int /\ b * k = b * i - b * j /\ b * i \in Int /\ b * j \in Int
    <3> HIDE DEF b
    <3> QED BY <1>1
  <2>4. x + l = (y + l) + b * k
    <3> HIDE DEF b, k
    <3>1. x - b * i = y - b * j
      BY <1>2, <2>1, <2>2
    <3>2. \A u, v, w \in Int : x - u = y - v /\ w = u - v => x + l = (y + l) + w
      OBVIOUS
    <3>3. b * k \in Int
      BY <1>1, <2>3
    <3> QED BY <2>3, <3>1, <3>2, <3>3
  <2>5. x + l \in Int /\ y + l \in Int
    OBVIOUS
  <2> HIDE DEF k
  <2> QED BY <2>3, <2>4, <2>5, WrapSame
<1>3. Wrap(y + Wrap(x - y)) = Wrap(x)
  <2>1. PICK i \in Int : Wrap(x - y) = (x - y) - b * i
    <3>1. x - y \in Int
      OBVIOUS
    <3> QED BY <3>1, WrapShape
  <2>2. b * i \in Int /\ b * (-i) = -(b * i) /\ -i \in Int
    <3> HIDE DEF b
    <3> QED BY <1>1
  <2>3. Wrap(x - y) \in Int
    BY WrapInt
  <2>4. y + Wrap(x - y) = x + b * (-i) /\ y + Wrap(x - y) \in Int
    <3> HIDE DEF b
    <3> QED BY <1>1, <2>1, <2>2, <2>3
  <2> QED BY <2>2, <2>4, WrapSame
<1> QED BY <1>2, <1>3

-----------------------------------------------------------------------------
(* Reassembly.                                                             *)

\* The int32 a segment begins at, and the one behind its end.
Key(s)    == Wrap(s.seq)
EndKey(s) == Wrap(s.seq + SegLen(s))

\* What the ordered set of the code can hold.
Distinct(set) == IsFiniteSet(set) /\ \A s, t \in set : Key(s) = Key(t) => s = t

LEMMA KeyType ==
    ASSUME NEW s \in PeerSegs
    PROVE  Key(s) \in Int /\ EndKey(s) \in Int /\ -HalfRange <= Key(s) /\ Key(s) < HalfRange
<1>1. s.seq \in Int /\ s.seq + SegLen(s) \in Int
  BY PeerSegType
<1> QED BY <1>1, WrapShape DEF Key, EndKey

\* IsReady, Waiting and Before on those numbers.
ReadyIn(ready, set, c) ==
    ready = {s \in set : /\ c <= Key(s)
                         /\ Key(s) = c \/ \E r \in ready : Key(r) < Key(s) /\ EndKey(r) = Key(s)}

WaitingIn(set, ready, c) ==
    {s \in set \ ready : c < Key(s) /\ \A r \in ready : Key(r) < Key(s) => EndKey(r) < Key(s)}

LEMMA BeforeKey ==
    ASSUME NEW s \in PeerSegs, NEW t \in PeerSegs
    PROVE  /\ Before(s, t) <=> Key(s) < Key(t)
           /\ Compare(s.seq + SegLen(s), t.seq) = 0 <=> EndKey(s) = Key(t)
           /\ Compare(s.seq + SegLen(s), t.seq) < 0 <=> EndKey(s) < Key(t)
<1>1. s.seq \in Int /\ t.seq \in Int /\ s.seq + SegLen(s) \in Int
  BY PeerSegType
<1> QED BY <1>1, CompareOrder DEF Before, Key, EndKey

LEMMA CompareKey ==
    ASSUME NEW s \in PeerSegs, NEW n \in Int
    PROVE  /\ Compare(s.seq, n) >= 0 <=> Wrap(n) <= Key(s)
           /\ Compare(s.seq, n) = 0 <=> Key(s) = Wrap(n)
           /\ Compare(s.seq, n) < 0 <=> Key(s) < Wrap(n)
           /\ Compare(s.seq, n) > 0 <=> Wrap(n) < Key(s)
<1>1. s.seq \in Int
  BY PeerSegType
<1> QED BY <1>1, CompareOrder, WrapInt DEF Compare, Key

LEMMA ReadyKeys ==
    ASSUME NEW set, set \subseteq PeerSegs, NEW n \in Int, NEW ready, ready \subseteq set
    PROVE  /\ IsReady(ready, set, n) <=> ReadyIn(ready, set, Wrap(n))
           /\ Waiting(set, ready, n) = WaitingIn(set, ready, Wrap(n))
<1>1. ASSUME NEW s \in set, NEW r \in ready
      PROVE  /\ Before(r, s) <=> Key(r) < Key(s)
             /\ Compare(r.seq + SegLen(r), s.seq) = 0 <=> EndKey(r) = Key(s)
             /\ Compare(r.seq + SegLen(r), s.seq) < 0 <=> EndKey(r) < Key(s)
  BY BeforeKey
<1>2. ASSUME NEW s \in set
      PROVE  /\ Compare(s.seq, n) >= 0 <=> Wrap(n) <= Key(s)
             /\ Compare(s.seq, n) = 0 <=> Key(s) = Wrap(n)
             /\ Compare(s.seq, n) > 0 <=> Wrap(n) < Key(s)
  BY CompareKey
<1>3. {s \in set : /\ Compare(s.seq, n) >= 0
                   /\ \/ Compare(s.seq, n) = 0
                      \/ \E r \in ready : Before(r, s) /\ Compare(r.seq + SegLen(r), s.seq) = 0}
      = {s \in set : /\ Wrap(n) <= Key(s)
                     /\ Key(s) = Wrap(n) \/ \E r \in ready : Key(r) < Key(s) /\ EndKey(r) = Key(s)}
  BY <1>1, <1>2
<1>4. Waiting(set, ready, n) = WaitingIn(set, ready, Wrap(n))
  BY <1>1, <1>2 DEF Waiting, WaitingIn
<1> QED BY <1>3, <1>4 DEF IsReady, ReadyIn

\* The ready segments end at e: the last of them does, and each of the others where
\* one of them begins.
ChainEnds(ready, e, c) ==
    /\ \A r \in ready : c <= Key(r)
    /\ ready = {} => e = c
    /\ ready # {} => \E l \in ready :
          /\ EndKey(l) = e
          /\ \A r \in ready \ {l} : Key(r) < Key(l) /\ \E t \in ready : EndKey(r) = Key(t)

\* Whether the segment behind all the others is ready, when the ones in ready are.
Follows(s, ready, c) == c <= Key(s) /\ (Key(s) = c \/ \E r \in ready : EndKey(r) = Key(s))

\* A segment behind the others makes none of them ready, so the sets that fit ReadyIn
\* go on being one.
LEMMA ReadyNext ==
    ASSUME NEW S, S \subseteq PeerSegs, NEW s \in PeerSegs, \A t \in S : Key(t) < Key(s),
           NEW c \in Int, NEW ready, ready \subseteq S,
           \A r \in SUBSET S : ReadyIn(r, S, c) <=> r = ready,
           NEW r \in SUBSET (S \cup {s})
    PROVE  ReadyIn(r, S \cup {s}, c) <=>
              r = IF Follows(s, ready, c) THEN ready \cup {s} ELSE ready
<1> DEFINE T == S \cup {s}
           q == r \ {s}
<1>1. /\ s \notin S /\ Key(s) \in Int /\ \A t \in S : Key(t) \in Int
      /\ q \in SUBSET S /\ \A t \in q : Key(t) < Key(s)
  BY KeyType
<1>2. ASSUME NEW t \in S
      PROVE  (\E u \in r : Key(u) < Key(t) /\ EndKey(u) = Key(t))
                <=> \E u \in q : Key(u) < Key(t) /\ EndKey(u) = Key(t)
  BY <1>1
<1>3. (\E u \in r : Key(u) < Key(s) /\ EndKey(u) = Key(s)) <=> \E u \in q : EndKey(u) = Key(s)
  BY <1>1
<1>4. ReadyIn(r, T, c) <=>
         /\ \A t \in S : t \in q <=>
               c <= Key(t) /\ (Key(t) = c \/ \E u \in q : Key(u) < Key(t) /\ EndKey(u) = Key(t))
         /\ s \in r <=> Follows(s, q, c)
  <2>1. ReadyIn(r, T, c) <=>
           \A t \in T : t \in r <=>
              c <= Key(t) /\ (Key(t) = c \/ \E u \in r : Key(u) < Key(t) /\ EndKey(u) = Key(t))
    BY DEF ReadyIn
  <2>2. \A t \in S : t \in r <=> t \in q
    BY <1>1
  <2> QED BY <1>1, <1>2, <1>3, <2>1, <2>2 DEF Follows
<1>5. ReadyIn(q, S, c) <=>
         \A t \in S : t \in q <=>
               c <= Key(t) /\ (Key(t) = c \/ \E u \in q : Key(u) < Key(t) /\ EndKey(u) = Key(t))
  BY <1>1 DEF ReadyIn
<1>6. ReadyIn(r, T, c) <=> q = ready /\ (s \in r <=> Follows(s, q, c))
  BY <1>1, <1>4, <1>5
<1>7. CASE Follows(s, ready, c)
  BY <1>1, <1>6, <1>7
<1>8. CASE ~Follows(s, ready, c)
  BY <1>1, <1>6, <1>8
<1> QED BY <1>7, <1>8

\* It is ready if it begins where the ready ones end: where another of them ends, one
\* of them begins.
LEMMA FollowsEnd ==
    ASSUME NEW ready, ready \subseteq PeerSegs, NEW s \in PeerSegs, \A t \in ready : Key(t) < Key(s),
           NEW c \in Int, NEW e \in Int, ChainEnds(ready, e, c)
    PROVE  /\ Follows(s, ready, c) <=> Key(s) = e
           /\ Key(s) > e => c < Key(s) /\ \A r \in ready : EndKey(r) < Key(s)
           /\ Key(s) < e => (ready = {} /\ Key(s) < c) \/ \E r \in ready : Key(s) < EndKey(r)
<1>1. /\ Key(s) \in Int
      /\ \A t \in ready : Key(t) \in Int /\ EndKey(t) \in Int /\ c <= Key(t)
  BY KeyType DEF ChainEnds
<1>2. CASE ready = {}
  BY <1>1, <1>2 DEF ChainEnds, Follows
<1>3. CASE ready # {}
  <2>1. PICK l \in ready :
          /\ EndKey(l) = e
          /\ \A r \in ready \ {l} : Key(r) < Key(l) /\ \E t \in ready : EndKey(r) = Key(t)
    BY <1>3 DEF ChainEnds
  <2>2. c < Key(s)
    BY <1>1, <2>1
  <2>3. ASSUME NEW r \in ready, r # l
        PROVE  EndKey(r) < Key(s)
    <3>1. PICK t \in ready : EndKey(r) = Key(t)
      BY <2>1, <2>3
    <3> QED BY <3>1
  <2> QED BY <1>1, <1>3, <2>1, <2>2, <2>3 DEF Follows
<1> QED BY <1>2, <1>3

\* What the walk has found in the set S when it is at the number acc.n.
Right(S, acc, c) ==
    /\ acc.ready \subseteq S
    /\ acc.waiting = WaitingIn(S, acc.ready, c)
    /\ acc.force <=> S # acc.ready
    /\ \A r \in SUBSET S : ReadyIn(r, S, c) <=> r = acc.ready
    /\ ChainEnds(acc.ready, Wrap(acc.n), c)

Accs(set) == [n : Int, ready : SUBSET set, waiting : SUBSET set, force : BOOLEAN]

LEMMA WalkStepType ==
    ASSUME NEW set, set \subseteq PeerSegs, NEW s \in set, NEW acc \in Accs(set)
    PROVE  WalkStep(acc, s) \in Accs(set)
<1>1. acc.n + SegLen(s) \in Int /\ acc.ready \cup {s} \in SUBSET set /\ acc.waiting \cup {s} \in SUBSET set
  <2>1. SegLen(s) \in Nat
    BY PeerSegType
  <2> QED BY <2>1 DEF Accs
<1>2. [acc EXCEPT !.force = TRUE] \in Accs(set)
  BY DEF Accs
<1>3. [acc EXCEPT !.n = @ + SegLen(s), !.ready = @ \cup {s}] \in Accs(set)
  BY <1>1 DEF Accs
<1>4. [acc EXCEPT !.force = TRUE, !.waiting = @ \cup {s}] \in Accs(set)
  BY <1>1 DEF Accs
<1> QED BY <1>2, <1>3, <1>4 DEF WalkStep

\* One step of the walk, to the segment behind those it has seen.
LEMMA WalkOne ==
    ASSUME NEW S, S \subseteq PeerSegs, NEW s \in PeerSegs, \A t \in S : Key(t) < Key(s),
           NEW c \in Int, NEW acc \in Accs(S), Right(S, acc, c)
    PROVE  Right(S \cup {s}, WalkStep(acc, s), c)
<1> DEFINE T     == S \cup {s}
           e     == Wrap(acc.n)
           ready == acc.ready
           next  == WalkStep(acc, s)
<1> SUFFICES Right(T, next, c)
  OBVIOUS
<1>1. /\ acc.n \in Int /\ e \in Int /\ ready \subseteq S /\ s \notin S
      /\ Key(s) \in Int /\ EndKey(s) \in Int
      /\ \A t \in S : Key(t) \in Int /\ EndKey(t) \in Int
      /\ \A t \in ready : Key(t) < Key(s)
  BY KeyType, WrapInt DEF Accs, Right
<1>2. /\ acc.waiting = WaitingIn(S, ready, c) /\ ChainEnds(ready, e, c)
      /\ \A r \in SUBSET S : ReadyIn(r, S, c) <=> r = ready
  BY DEF Right
<1>3. /\ Follows(s, ready, c) <=> Key(s) = e
      /\ Key(s) > e => c < Key(s) /\ \A r \in ready : EndKey(r) < Key(s)
      /\ Key(s) < e => (ready = {} /\ Key(s) < c) \/ \E r \in ready : Key(s) < EndKey(r)
  BY <1>1, <1>2, FollowsEnd
<1>4. \A r \in SUBSET T : ReadyIn(r, T, c) <=> r = IF Key(s) = e THEN ready \cup {s} ELSE ready
  <2>1. \A r \in SUBSET T :
           ReadyIn(r, T, c) <=> r = IF Follows(s, ready, c) THEN ready \cup {s} ELSE ready
    BY <1>1, <1>2, ReadyNext
  <2> QED BY <1>3, <2>1
<1>5. /\ Compare(s.seq, acc.n) < 0 <=> Key(s) < e
      /\ Compare(s.seq, acc.n) = 0 <=> Key(s) = e
  BY <1>1, CompareKey
<1>6. CASE Key(s) < e
  <2>1. /\ next.n = acc.n /\ next.ready = ready /\ next.waiting = acc.waiting /\ next.force = TRUE
    BY <1>1, <1>5, <1>6 DEF WalkStep, Accs
  <2>2. WaitingIn(T, ready, c) = WaitingIn(S, ready, c)
    <3>1. ~(c < Key(s) /\ \A r \in ready : Key(r) < Key(s) => EndKey(r) < Key(s))
      BY <1>1, <1>3, <1>6
    <3> QED BY <1>1, <3>1 DEF WaitingIn
  <2>3. T # ready
    BY <1>1
  <2>4. \A r \in SUBSET T : ReadyIn(r, T, c) <=> r = ready
    <3>1. Key(s) # e
      BY <1>1, <1>6
    <3> QED BY <1>4, <3>1
  <2>5. ready \subseteq T
    BY <1>1
  <2>6. next.force <=> T # next.ready
    BY <2>1, <2>3
  <2> HIDE DEF T, next, ready, e
  <2>9. next.ready \subseteq T /\ next.waiting = WaitingIn(T, next.ready, c)
    BY <1>2, <2>1, <2>2, <2>5
  <2>10. ChainEnds(next.ready, Wrap(next.n), c)
    BY <1>2, <2>1 DEF e
  <2>11. \A r \in SUBSET T : ReadyIn(r, T, c) <=> r = next.ready
    BY <2>1, <2>4
  <2> QED BY <2>9, <2>10, <2>11, <2>6 DEF Right
<1>7. CASE Key(s) = e
  <2>1. /\ next.n = acc.n + SegLen(s) /\ next.ready = ready \cup {s} /\ next.waiting = acc.waiting
        /\ next.force = acc.force
    <3>1. ~(Compare(s.seq, acc.n) < 0) /\ Compare(s.seq, acc.n) = 0
      BY <1>1, <1>5, <1>7
    <3>2. next = [acc EXCEPT !.n = @ + SegLen(s), !.ready = @ \cup {s}]
      BY <3>1 DEF WalkStep
    <3> HIDE DEF next
    <3> QED BY <3>2 DEF Accs
  <2>2. WaitingIn(T, ready \cup {s}, c) = WaitingIn(S, ready, c)
    <3>1. \A t \in S : ~(Key(s) < Key(t))
      BY <1>1
    <3> QED BY <1>1, <3>1 DEF WaitingIn
  <2>3. T # ready \cup {s} <=> S # ready
    BY <1>1
  <2>4. Wrap(acc.n + SegLen(s)) = EndKey(s)
    <3>1. s.seq \in Int /\ SegLen(s) \in Int /\ Wrap(s.seq) = Wrap(acc.n)
      BY <1>7, PeerSegType DEF Key
    <3> QED BY <1>1, <3>1, WrapAdd DEF EndKey
  <2>5. ChainEnds(ready \cup {s}, EndKey(s), c)
    <3>1. \A r \in ready \cup {s} : c <= Key(r)
      BY <1>2, <1>3, <1>7 DEF ChainEnds, Follows
    <3>2. ASSUME NEW r \in ready
          PROVE  \E t \in ready \cup {s} : EndKey(r) = Key(t)
      BY <1>2, <1>7 DEF ChainEnds
    <3>3. \A r \in (ready \cup {s}) \ {s} : Key(r) < Key(s) /\ \E t \in ready \cup {s} : EndKey(r) = Key(t)
      BY <1>1, <3>2
    <3> QED BY <3>1, <3>3 DEF ChainEnds
  <2>6. \A r \in SUBSET T : ReadyIn(r, T, c) <=> r = ready \cup {s}
    BY <1>1, <1>4, <1>7
  <2>7. (acc.force <=> S # ready) /\ ready \cup {s} \subseteq T
    BY <1>1 DEF Right
  <2>8. next.force <=> T # next.ready
    BY <2>1, <2>3, <2>7
  <2> HIDE DEF T, next, ready
  <2>9. next.ready \subseteq T /\ next.waiting = WaitingIn(T, next.ready, c)
    BY <1>2, <2>1, <2>2, <2>7
  <2>10. ChainEnds(next.ready, Wrap(next.n), c)
    BY <1>2, <2>1, <2>4, <2>5
  <2>11. \A r \in SUBSET T : ReadyIn(r, T, c) <=> r = next.ready
    BY <2>1, <2>6
  <2> QED BY <2>9, <2>10, <2>11, <2>8 DEF Right
<1>8. CASE Key(s) > e
  <2>1. /\ next.n = acc.n /\ next.ready = ready /\ next.waiting = acc.waiting \cup {s}
        /\ next.force = TRUE
    BY <1>1, <1>5, <1>8 DEF WalkStep, Accs
  <2>2. WaitingIn(T, ready, c) = WaitingIn(S, ready, c) \cup {s}
    <3>1. c < Key(s) /\ \A r \in ready : EndKey(r) < Key(s)
      BY <1>3, <1>8
    <3> QED BY <1>1, <3>1 DEF WaitingIn
  <2>3. T # ready
    BY <1>1
  <2>4. \A r \in SUBSET T : ReadyIn(r, T, c) <=> r = ready
    BY <1>1, <1>4, <1>8
  <2>5. ready \subseteq T
    BY <1>1
  <2>6. next.force <=> T # next.ready
    BY <2>1, <2>3
  <2> HIDE DEF T, next, ready, e
  <2>9. next.ready \subseteq T /\ next.waiting = WaitingIn(T, next.ready, c)
    BY <1>2, <2>1, <2>2, <2>5
  <2>10. ChainEnds(next.ready, Wrap(next.n), c)
    BY <1>2, <2>1 DEF e
  <2>11. \A r \in SUBSET T : ReadyIn(r, T, c) <=> r = next.ready
    BY <2>1, <2>4
  <2> QED BY <2>9, <2>10, <2>11, <2>6 DEF Right
<1> QED BY <1>1, <1>6, <1>7, <1>8

\* A set the code can hold has a last segment.
LEMMA LastExists ==
    ASSUME NEW S, S \subseteq PeerSegs, Distinct(S), S # {}
    PROVE  /\ LastOf(S) # {} /\ LastOf(S) \subseteq S
           /\ \A s \in LastOf(S) : \A t \in S \ {s} : Key(t) < Key(s)
<1>1. \A s \in S : Key(s) \in Int /\ Key(s) < HalfRange
  BY KeyType
<1>2. HalfRange \in Nat
  BY HalfRangeAssumption
<1> DEFINE below == {HalfRange - Key(s) : s \in S}
<1>3. PICK k \in below : \A m \in below : k <= m
  <2>1. below \subseteq Nat /\ below # {}
    BY <1>1, <1>2
  <2> HIDE DEF below
  <2> QED BY <2>1, LeastNat
<1>4. PICK s \in S : k = HalfRange - Key(s)
  BY <1>3
<1>5. ASSUME NEW t \in S \ {s}
      PROVE  Before(t, s)
  <2>1. HalfRange - Key(s) <= HalfRange - Key(t)
    BY <1>3, <1>4
  <2>2. Key(t) # Key(s)
    BY DEF Distinct
  <2>3. Key(t) < Key(s)
    BY <1>1, <1>2, <2>1, <2>2
  <2> QED BY <2>3, BeforeKey
<1>6. s \in LastOf(S)
  BY <1>5 DEF LastOf
<1> QED BY <1>6, BeforeKey DEF LastOf

\* f is the walk over the set from n: it follows WalkStep from each subset to the next.
IsWalk(f, set, n) ==
    /\ f[set] = Walk(set, n)
    /\ f[{}] = [n |-> n, ready |-> {}, waiting |-> {}, force |-> FALSE]
    /\ \A S \in (SUBSET set) \ {{}} :
          \E s \in LastOf(S) : s \in S /\ f[S] = WalkStep(f[S \ {s}], s)

LEMMA WalkUnfolds ==
    ASSUME NEW set, set \subseteq PeerSegs, Distinct(set), NEW n \in Int
    PROVE  \E f : IsWalk(f, set, n)
<1> DEFINE A == Accs(set)
           start == [n |-> n, ready |-> {}, waiting |-> {}, force |-> FALSE]
           Some == (SUBSET set) \ {{}}
           pick(S) == CHOOSE t \in LastOf(S) : TRUE
           last == [S \in Some |-> pick(S)]
           step == [s \in set |-> [acc \in A |-> WalkStep(acc, s)]]
           Solves(f) == f = [S \in SUBSET set |->
                                IF S = {} THEN start ELSE WalkStep(f[S \ {pick(S)}], pick(S))]
           walk == CHOOSE f : Solves(f)
<1>1. Walk(set, n) = walk[set]
  BY DEF Walk
<1>2. ASSUME NEW S \in Some
      PROVE  pick(S) \in LastOf(S) /\ pick(S) \in S
  <2>1. S \subseteq PeerSegs /\ Distinct(S) /\ S # {}
    BY FS_Subset DEF Distinct
  <2> QED BY <2>1, LastExists
<1>3. start \in A
  BY DEF Accs
<1>4. \A s \in set, acc \in A : WalkStep(acc, s) \in A
  BY WalkStepType
<1> HIDE DEF A, start, pick
<1>5. PICK f : WalksOver(f, set, A, start, last, step)
  <2>1. IsFiniteSet(set)
    BY DEF Distinct
  <2>2. \A S \in (SUBSET set) \ {{}} : last[S] \in S
    BY <1>2
  <2>3. step \in [set -> [A -> A]]
    BY <1>4
  <2> HIDE DEF step, last
  <2> QED BY <1>3, <2>1, <2>2, <2>3, WalkExists
<1>6. ASSUME NEW S \in Some
      PROVE  f[S] = WalkStep(f[S \ {pick(S)}], pick(S))
  <2>1. last[S] = pick(S) /\ pick(S) \in set /\ S \ {pick(S)} \in SUBSET set
    BY <1>2
  <2>2. f[S \ {pick(S)}] \in A
    BY <1>5, <2>1 DEF WalksOver
  <2>3. \A s \in set, acc \in A : step[s][acc] = WalkStep(acc, s)
    OBVIOUS
  <2>4. f[S] = step[pick(S)][f[S \ {pick(S)}]]
    <3> HIDE DEF step, last
    <3> QED BY <1>5, <2>1 DEF WalksOver
  <2> HIDE DEF step
  <2> QED BY <2>1, <2>2, <2>3, <2>4
<1>7. Solves(f)
  <2>1. f \in [SUBSET set -> A] /\ f[{}] = start
    <3> HIDE DEF step, last
    <3> QED BY <1>5 DEF WalksOver
  <2> QED BY <1>6, <2>1
<1>8. Solves(walk)
  <2> HIDE DEF Solves
  <2> QED BY <1>7
<1>9. walk[{}] = start /\ \A S \in Some : walk[S] = WalkStep(walk[S \ {pick(S)}], pick(S))
  <2> HIDE DEF walk
  <2> QED BY <1>8
<1> HIDE DEF walk, pick, Some
<1>10. \A S \in Some : \E s \in LastOf(S) : s \in S /\ walk[S] = WalkStep(walk[S \ {s}], s)
  BY <1>2, <1>9
<1>11. IsWalk(walk, set, n)
  BY <1>1, <1>9, <1>10 DEF IsWalk, start, Some
<1> QED BY <1>11

\* What the walk has found when it is through with the set.
LEMMA WalkRight ==
    ASSUME NEW set, set \subseteq PeerSegs, Distinct(set), NEW n \in Int
    PROVE  Walk(set, n) \in Accs(set) /\ Right(set, Walk(set, n), Wrap(n))
<1> DEFINE start == [n |-> n, ready |-> {}, waiting |-> {}, force |-> FALSE]
           c == Wrap(n)
<1>1. PICK f : IsWalk(f, set, n)
  BY WalkUnfolds
<1> DEFINE Good(S) == f[S] \in Accs(S) /\ Right(S, f[S], c)
           P == {k \in Nat : \A S \in SUBSET set : Cardinality(S) <= k => Good(S)}
<1>2. c \in Int
  BY WrapInt
<1>3. \A S \in SUBSET set : /\ IsFiniteSet(S) /\ Distinct(S) /\ S \subseteq PeerSegs
                            /\ Cardinality(S) \in Nat
  BY FS_Subset, FS_CardinalityType DEF Distinct
<1>4. Good({})
  <2>1. start \in Accs({}) /\ start.n = n /\ start.ready = {} /\ start.waiting = {}
    BY DEF Accs
  <2>2. start.force <=> {} # start.ready
    OBVIOUS
  <2>3. WaitingIn({}, {}, c) = {} /\ ChainEnds({}, c, c)
    BY DEF WaitingIn, ChainEnds
  <2>4. \A r \in SUBSET {} : ReadyIn(r, {}, c) <=> r = {}
    BY DEF ReadyIn
  <2> HIDE DEF start, c
  <2>5. Right({}, start, c)
    BY <2>1, <2>2, <2>3, <2>4 DEF Right, c
  <2>6. f[{}] = start
    BY <1>1 DEF IsWalk, start
  <2> QED BY <2>1, <2>5, <2>6
<1>5. 0 \in P
  <2>1. ASSUME NEW S \in SUBSET set, Cardinality(S) <= 0
        PROVE  Good(S)
    <3>1. Cardinality(S) = 0
      BY <1>3, <2>1
    <3>2. S = {}
      BY <1>3, <3>1, FS_EmptySet
    <3> HIDE DEF Good
    <3> QED BY <1>4, <3>2
  <2> HIDE DEF Good
  <2> QED BY <2>1
<1>6. ASSUME NEW k \in Nat, k \in P
      PROVE  k + 1 \in P
  <2>1. ASSUME NEW S \in (SUBSET set) \ {{}}, Cardinality(S) <= k + 1
        PROVE  Good(S)
    <3>1. PICK s \in LastOf(S) : s \in S /\ f[S] = WalkStep(f[S \ {s}], s)
      BY <1>1 DEF IsWalk
    <3> DEFINE rest == S \ {s}
    <3>2. rest \in SUBSET set /\ rest \cup {s} = S /\ rest \subseteq PeerSegs /\ s \in PeerSegs
      BY <3>1
    <3>3. Cardinality(rest) = Cardinality(S) - 1
      BY <1>3, <3>1, FS_RemoveElement
    <3>4. Good(rest)
      <4> HIDE DEF Good, rest
      <4> QED BY <1>3, <1>6, <2>1, <3>2, <3>3
    <3>5. \A t \in rest : Key(t) < Key(s)
      BY <1>3, <3>1, LastExists
    <3>6. f[rest] \in Accs(S)
      BY <3>4 DEF Accs
    <3>7. f[S] \in Accs(S)
      <4>1. S \subseteq PeerSegs
        BY <1>3
      <4> QED BY <3>1, <3>6, <4>1, WalkStepType
    <3>8. Right(rest \cup {s}, WalkStep(f[rest], s), c)
      <4> HIDE DEF rest, c
      <4> QED BY <1>2, <3>2, <3>4, <3>5, WalkOne
    <3>9. f[S] = WalkStep(f[rest], s)
      BY <3>1
    <3> HIDE DEF rest, c
    <3> QED BY <3>2, <3>7, <3>8, <3>9
  <2> HIDE DEF Good
  <2> QED BY <1>4, <2>1
<1>7. Good(set)
  <2>1. Nat \subseteq P
    <3> HIDE DEF P
    <3> QED BY <1>5, <1>6, SetInduction
  <2> HIDE DEF Good
  <2> QED BY <1>3, <2>1
<1> QED BY <1>1, <1>7 DEF IsWalk

\* So InputIsWalk holds of every set the code can hold, wherever the walk begins.
LEMMA WalkAgrees ==
    ASSUME NEW set, set \subseteq PeerSegs, Distinct(set), NEW n \in Int
    PROVE  LET walk == Walk(set, n)
           IN  /\ {r \in SUBSET set : IsReady(r, set, n)} = {walk.ready}
               /\ Waiting(set, walk.ready, n) = walk.waiting
               /\ \E adv \in Advances(walk.ready, n) : Compare(n + adv, walk.n) = 0
               /\ walk.force <=> set # walk.ready
<1> DEFINE walk == Walk(set, n)
           ready == walk.ready
<1>1. walk \in Accs(set) /\ Right(set, walk, Wrap(n))
  BY WalkRight
<1> HIDE DEF walk
<1>2. /\ ready \in SUBSET set /\ walk.n \in Int /\ ready \subseteq PeerSegs
      /\ walk.waiting = WaitingIn(set, ready, Wrap(n))
      /\ \A r \in SUBSET set : ReadyIn(r, set, Wrap(n)) <=> r = ready
      /\ ChainEnds(ready, Wrap(walk.n), Wrap(n))
  BY <1>1 DEF Accs, Right
<1>3. walk.force <=> set # walk.ready
  BY <1>1 DEF Right
<1>4. {r \in SUBSET set : IsReady(r, set, n)} = {walk.ready}
  <2>1. \A r \in SUBSET set : IsReady(r, set, n) <=> r = ready
    BY <1>2, ReadyKeys
  <2> HIDE DEF ready
  <2> QED BY <1>2, <2>1 DEF ready
<1>5. Waiting(set, walk.ready, n) = walk.waiting
  BY <1>2, ReadyKeys
<1>6. \E adv \in Advances(walk.ready, n) : Compare(n + adv, walk.n) = 0
  <2>1. CASE ready = {}
    <3>1. 0 \in Advances(ready, n)
      BY <2>1 DEF Advances
    <3>2. Wrap(n + 0) = Wrap(walk.n)
      BY <1>2, <2>1 DEF ChainEnds
    <3>3. Compare(n + 0, walk.n) = 0
      BY <1>2, <3>2, CompareOrder
    <3> QED BY <3>1, <3>3
  <2>2. CASE ready # {}
    <3>1. PICK l \in ready :
            /\ EndKey(l) = Wrap(walk.n)
            /\ \A r \in ready \ {l} : Key(r) < Key(l) /\ \E t \in ready : EndKey(r) = Key(t)
      BY <1>2, <2>2 DEF ChainEnds
    <3>2. l \in LastOf(ready)
      BY <1>2, <3>1, BeforeKey DEF LastOf
    <3> DEFINE x == l.seq + SegLen(l)
               adv == Wrap(x - n)
    <3>3. x \in Int
      BY <1>2, <3>1, PeerSegType
    <3>4. adv \in Advances(ready, n)
      <4>1. l.seq + SegLen(l) - n = x - n
        BY <1>2, <3>1, PeerSegType
      <4> HIDE DEF ready, x
      <4> QED BY <2>2, <3>2, <4>1 DEF Advances
    <3>5. Wrap(n + adv) = Wrap(walk.n)
      <4>1. Wrap(n + Wrap(x - n)) = Wrap(x)
        BY <3>3, WrapAdd
      <4> QED BY <3>1, <4>1 DEF EndKey
    <3>6. Compare(n + adv, walk.n) = 0
      <4>1. n + adv \in Int
        BY <3>3, WrapInt
      <4> HIDE DEF adv
      <4> QED BY <1>2, <3>5, <4>1, CompareOrder
    <3> QED BY <3>4, <3>6
  <2> QED BY <2>1, <2>2
<1> QED BY <1>3, <1>4, <1>5, <1>6 DEF walk

-----------------------------------------------------------------------------

\* S.add keeps one segment for a number.
LEMMA AddDistinct ==
    ASSUME Distinct(segs), segs \subseteq PeerSegs, NEW s \in PeerSegs
    PROVE  Distinct(Add(s, segs)) /\ Add(s, segs) \subseteq PeerSegs
<1>1. \A t \in PeerSegs : Compare(s.seq, t.seq) = 0 <=> Key(s) = Key(t)
  <2> SUFFICES ASSUME NEW t \in PeerSegs
               PROVE  Compare(s.seq, t.seq) = 0 <=> Key(s) = Key(t)
    OBVIOUS
  <2>1. s.seq \in Int /\ t.seq \in Int
    BY PeerSegType
  <2> QED BY <2>1, CompareOrder DEF Key
<1>2. CASE \E t \in segs : Compare(s.seq, t.seq) = 0
  BY <1>2 DEF Add
<1>3. CASE ~(\E t \in segs : Compare(s.seq, t.seq) = 0)
  <2>1. Add(s, segs) = segs \cup {s}
    BY <1>3 DEF Add
  <2>2. IsFiniteSet(segs \cup {s})
    BY FS_AddElement DEF Distinct
  <2>3. \A t \in segs : Key(s) # Key(t)
    BY <1>1, <1>3
  <2>4. \A t, u \in segs \cup {s} : Key(t) = Key(u) => t = u
    BY <2>3 DEF Distinct
  <2> QED BY <2>1, <2>2, <2>4 DEF Distinct
<1> QED BY <1>2, <1>3

\* An input keeps some of the segments there were and its own, and a reset none.
LEMMA SegsStep == ASSUME IInv, Distinct(segs), [Next]_vars PROVE Distinct(segs')
<1>1. ASSUME NEW s \in PeerSegs, InputOk(s) PROVE Distinct(segs')
  <2>1. segs' \subseteq Add(s, segs)
    BY <1>1 DEF InputOk, Waiting
  <2>2. Distinct(Add(s, segs))
    BY AddDistinct DEF IInv, TypeOK
  <2> QED BY <2>1, <2>2, FS_Subset DEF Distinct
<1>2. ASSUME ~(\E s \in PeerSegs : InputOk(s)) PROVE segs' = segs \/ segs' = {}
  <2>1. CASE \E s \in PeerSegs : InputChallenge(s) \/ InputReset(s)
    BY <2>1 DEF InputChallenge, InputReset
  <2>2. CASE PutEof
    BY <2>2 DEF PutEof
  <2>3. CASE RxThread
    BY <2>3 DEF RxThread, RxData, RxQueue, RxLoop, RxEof
  <2>4. CASE TxThread
    BY <2>4 DEF TxThread, SendEmptyAck, EmptyAckSent, Notify, rxVars
  <2>5. CASE Transmit
    BY <2>5 DEF Transmit, Output, OutputSent, Retransmit, rxVars
  <2>6. CASE App
    BY <2>6 DEF App, ReadWaits, ReadTakes, CancelRead
  <2>7. CASE KeepaliveClose
    BY <2>7 DEF KeepaliveClose
  <2>8. CASE UNCHANGED vars
    BY <2>8 DEF vars
  <2> QED BY <1>2, <2>1, <2>2, <2>3, <2>4, <2>5, <2>6, <2>7, <2>8 DEF Next, Input
<1>3. Distinct({})
  BY FS_EmptySet DEF Distinct
<1> QED BY <1>1, <1>2, <1>3

\* Segment.Rx.input: for every segment the peer may send next, the walk over the
\* ordered set as the code writes it finds the segments that IsReady, Waiting and
\* Advances say, and there is no other set that fits IsReady: the model's choice
\* of the ready segments is the code's.  No assumption on the peer or on how far
\* apart the numbers are.
THEOREM InputWalks == Spec => []InputIsWalk
<1>1. Init => Distinct(segs)
  BY FS_EmptySet DEF Init, Distinct
<1>2. IInv /\ Distinct(segs) /\ [Next]_vars => Distinct(segs)'
  BY SegsStep
<1>3. IInv /\ Distinct(segs) => InputIsWalk
  <2> SUFFICES ASSUME IInv, Distinct(segs), NEW s \in PeerSegs
               PROVE  LET set  == Add(s, segs)
                          walk == Walk(set, rx_nxt_inseq)
                      IN  /\ {r \in SUBSET set : IsReady(r, set, rx_nxt_inseq)} = {walk.ready}
                          /\ Waiting(set, walk.ready, rx_nxt_inseq) = walk.waiting
                          /\ \E adv \in Advances(walk.ready, rx_nxt_inseq) :
                                Compare(rx_nxt_inseq + adv, walk.n) = 0
                          /\ walk.force <=> set # walk.ready
    BY DEF InputIsWalk
  <2>1. rx_nxt_inseq \in Int
    BY DEF IInv, TypeOK
  <2>2. Add(s, segs) \subseteq PeerSegs /\ Distinct(Add(s, segs))
    BY AddDistinct DEF IInv, TypeOK
  <2> QED BY <2>1, <2>2, WalkAgrees
<1> QED BY <1>1, <1>2, <1>3, Inductive, PTL DEF Spec
=============================================================================
