-------------------------- MODULE TcpDeliverProofs --------------------------
(***************************************************************************)
(* Theorems about what TcpReceive passes on to the application: that every *)
(* byte in sequence is once and in its place on the way to it and advances *)
(* the ACK number once, that its buffer does not stall, that the end of    *)
(* the stream is not lost, and that what it reads is a ByteStream.         *)
(***************************************************************************)
EXTENDS TcpReceiveProofs, SequenceTheorems

(* What the theorems assume of the peer.                                   *)

\* The stream is less than half the sequence numbers long: about as long as
\* the order of Int32.compare makes sense.
ShortStream == StreamLen + 1 < HalfRange

\* The segments that are not turned down at once.
InPeer == {s \in PeerSegs : ~s.rst /\ ~s.syn}

\* After its FIN the peer sends ACKs, under the number behind the FIN.
PeerStops == \A s \in InPeer : s.seq <= FinSeq + 1

\* Not even those.
QuietAfterFin == \A s \in InPeer : s.seq <= FinSeq

\* A segment is smaller than the first receive window: 65535 in the code, and
\* less than that in a packet.
SmallSegs == MaxSize > 0 /\ \A s \in InPeer : s.len < MaxSize

-----------------------------------------------------------------------------
(* Sequence numbers.                                                       *)

\* The places in the stream and the number behind its FIN.
Places == First..(FinSeq + 1)

End(s) == s.seq + SegLen(s)

\* Within the stream two numbers are equal if Compare takes them for it, and if it
\* orders them as they are, their int32 values are as far apart as they are.
LEMMA CompareNear ==
    ASSUME ShortStream, NEW x \in Places, NEW y \in Places
    PROVE  /\ Compare(x, y) = 0 => x = y
           /\ y <= x /\ Compare(x, y) >= 0 => Wrap(x) - Wrap(y) = x - y
<1>1. x \in Int /\ y \in Int /\ -HalfRange < x - y /\ x - y < HalfRange
  BY FirstInt, ReceiveAssumption, HalfRangeAssumption DEF ShortStream, Places, FinSeq, First
<1>2. Wrap(x) \in Int /\ Wrap(y) \in Int
  BY <1>1, WrapShape
<1>3. /\ Compare(x, y) = 0 => Wrap(x) = Wrap(y)
      /\ Compare(x, y) >= 0 => Wrap(y) <= Wrap(x)
  BY <1>2 DEF Compare
<1> QED BY <1>1, <1>3, WrapNear

LEMMA PeerPlace ==
    ASSUME PeerStops, NEW s \in InPeer
    PROVE  /\ s \in PeerSegs /\ s.seq \in Places /\ s.seq \in Int /\ s.len \in Nat
           /\ s.fin \in BOOLEAN /\ SegLen(s) \in Nat
           /\ End(s) \in Places /\ s.seq <= End(s)
           /\ s.fin => s.seq + s.len = FinSeq /\ End(s) = FinSeq + 1
           /\ s.len > 0 => s.seq + s.len <= FinSeq
           /\ ~s.fin => End(s) = s.seq + s.len
<1>1. s \in PeerSegs /\ ~s.rst /\ ~s.syn /\ s.seq <= FinSeq + 1
  BY DEF InPeer, PeerStops
<1>2. s.seq \in Int /\ s.len \in Nat /\ s.fin \in BOOLEAN
  BY <1>1, PeerSegType
<1>3. /\ First <= s.seq
      /\ s.len > 0 => s.seq + s.len <= FinSeq
      /\ s.fin => s.seq + s.len = FinSeq
  BY <1>1, PeerAssumption
<1> QED BY <1>1, <1>2, <1>3, FirstInt DEF Places, End, SegLen

-----------------------------------------------------------------------------
(* Reassembly: the ready segments are a chain from n.                      *)

\* A set of segments, one for a number.
Single(set) ==
    /\ set \subseteq InPeer
    /\ \A s, t \in set : Compare(s.seq, t.seq) = 0 => s = t

\* No ready segment is behind n, although Compare may take it for one ahead.
LEMMA ReadyAhead ==
    ASSUME ShortStream, PeerStops, NEW set, set \subseteq InPeer, NEW n \in Places,
           NEW ready, IsReady(ready, set, n), NEW s \in ready
    PROVE  n <= s.seq
<1> DEFINE behind == {t \in ready : t.seq < n}
           keys   == {Wrap(t.seq) + HalfRange : t \in behind}
<1>1. \A t \in ready : t \in InPeer /\ t.seq \in Places /\ t.seq \in Int /\ End(t) \in Places
                         /\ t.seq <= End(t)
  BY PeerPlace DEF IsReady
<1>2. SUFFICES ASSUME behind # {} PROVE FALSE
  BY <1>1, FirstInt DEF Places
<1>3. keys \subseteq Nat /\ keys # {}
  BY <1>1, <1>2, WrapShape, HalfRangeAssumption
<1>4. PICK k \in keys : \A m \in keys : k <= m
  <2> HIDE DEF keys
  <2> QED BY <1>3, LeastNat
<1>5. PICK t \in behind : k = Wrap(t.seq) + HalfRange
  BY <1>4
<1>6. Compare(t.seq, n) # 0
  BY <1>1, <1>5, CompareNear, FirstInt DEF Places
<1>7. PICK r \in ready : Before(r, t) /\ Compare(End(r), t.seq) = 0
  BY <1>5, <1>6 DEF IsReady, End
<1>8. End(r) = t.seq
  BY <1>1, <1>5, <1>7, CompareNear
<1>9. r \in behind
  BY <1>1, <1>5, <1>7, <1>8, FirstInt DEF Places
<1>10. Wrap(r.seq) < Wrap(t.seq) /\ Wrap(r.seq) \in Int /\ Wrap(t.seq) \in Int
  BY <1>1, <1>5, <1>7, CompareOrder DEF Before
<1>11. Wrap(t.seq) + HalfRange <= Wrap(r.seq) + HalfRange
  BY <1>4, <1>5, <1>9
<1> QED BY <1>10, <1>11, HalfRangeAssumption

\* Among the ready segments Compare is the order of the stream.
LEMMA ReadyOrder ==
    ASSUME ShortStream, PeerStops, NEW set, set \subseteq InPeer, NEW n \in Places,
           NEW ready, IsReady(ready, set, n), NEW s \in ready, NEW t \in ready
    PROVE  Before(s, t) <=> s.seq < t.seq
<1>1. /\ s.seq \in Places /\ t.seq \in Places /\ n \in Int
      /\ n <= s.seq /\ n <= t.seq
      /\ Compare(s.seq, n) >= 0 /\ Compare(t.seq, n) >= 0
  BY PeerPlace, ReadyAhead, FirstInt DEF IsReady, Places
<1>2. Wrap(s.seq) - Wrap(n) = s.seq - n /\ Wrap(t.seq) - Wrap(n) = t.seq - n
  BY <1>1, CompareNear
<1>3. s.seq \in Int /\ t.seq \in Int /\ Wrap(s.seq) \in Int /\ Wrap(t.seq) \in Int /\ Wrap(n) \in Int
  BY <1>1, WrapShape, FirstInt DEF Places
<1> QED BY <1>1, <1>2, <1>3, CompareOrder DEF Before

\* What is left of IsReady once Compare is the order.
Chained(ready, n) ==
    /\ ready \subseteq InPeer
    /\ \A s \in ready : n <= s.seq
    /\ \A s \in ready : s.seq = n \/ \E r \in ready : r.seq < s.seq /\ End(r) = s.seq
    /\ \A s, t \in ready : s.seq = t.seq => s = t

LEMMA ReadyChained ==
    ASSUME ShortStream, PeerStops, NEW set, Single(set), NEW n \in Places,
           NEW ready, IsReady(ready, set, n)
    PROVE  Chained(ready, n)
<1>1. ready \subseteq set /\ set \subseteq InPeer
  BY DEF IsReady, Single
<1>2. \A s \in ready : n <= s.seq
  BY <1>1, ReadyAhead
<1>3. ASSUME NEW s \in ready
      PROVE  s.seq = n \/ \E r \in ready : r.seq < s.seq /\ End(r) = s.seq
  <2>1. s.seq \in Places /\ \A r \in ready : End(r) \in Places
    BY <1>1, PeerPlace
  <2>2. CASE Compare(s.seq, n) = 0
    BY <2>1, <2>2, CompareNear
  <2>3. CASE \E r \in ready : Before(r, s) /\ Compare(End(r), s.seq) = 0
    BY <1>1, <2>1, <2>3, CompareNear, ReadyOrder
  <2> QED BY <2>2, <2>3 DEF IsReady, End
<1>4. \A s, t \in ready : s.seq = t.seq => s = t
  <2> SUFFICES ASSUME NEW s \in ready, NEW t \in ready, s.seq = t.seq
               PROVE  s = t
    OBVIOUS
  <2>1. s.seq \in Int /\ t.seq \in Int
    BY <1>1, PeerPlace
  <2>2. Compare(s.seq, t.seq) = 0
    BY <2>1, CompareOrder
  <2> QED BY <1>1, <2>2 DEF Single
<1> QED BY <1>1, <1>2, <1>3, <1>4 DEF Chained

\* They do not overlap.
LEMMA ChainApart ==
    ASSUME PeerStops, NEW n \in Places, NEW ready, Chained(ready, n),
           NEW s \in ready, NEW t \in ready, s.seq < t.seq
    PROVE  End(s) <= t.seq
<1> DEFINE bad  == {u \in ready : \E v \in ready : v.seq < u.seq /\ u.seq < End(v)}
           keys == {u.seq - n : u \in bad}
<1>1. \A u \in ready : u.seq \in Int /\ End(u) \in Int /\ n <= u.seq
  BY PeerPlace, FirstInt DEF Chained, Places
<1>2. n \in Int
  BY FirstInt DEF Places
<1>3. SUFFICES ASSUME bad # {} PROVE FALSE
  BY <1>1
<1>4. keys \subseteq Nat /\ keys # {}
  BY <1>1, <1>2, <1>3
<1>5. PICK k \in keys : \A m \in keys : k <= m
  <2> HIDE DEF keys
  <2> QED BY <1>4, LeastNat
<1>6. PICK u \in bad : k = u.seq - n
  BY <1>5
<1>7. PICK v \in ready : v.seq < u.seq /\ u.seq < End(v)
  BY <1>6
<1>8. PICK r \in ready : r.seq < u.seq /\ End(r) = u.seq
  BY <1>1, <1>2, <1>6, <1>7 DEF Chained
<1>9. r \notin bad
  <2>1. ASSUME r \in bad PROVE r.seq - n \in keys
    BY <2>1
  <2>2. ASSUME r \in bad PROVE u.seq - n <= r.seq - n
    BY <1>5, <1>6, <2>1, <2>2
  <2> QED BY <1>1, <1>2, <1>6, <1>8, <2>2
<1>10. v \notin bad
  <2>1. ASSUME v \in bad PROVE v.seq - n \in keys
    BY <2>1
  <2>2. ASSUME v \in bad PROVE u.seq - n <= v.seq - n
    BY <1>5, <1>6, <2>1, <2>2
  <2> QED BY <1>1, <1>2, <1>6, <1>7, <2>2
<1>11. CASE r.seq < v.seq
  BY <1>1, <1>6, <1>7, <1>8, <1>10, <1>11
<1>12. CASE v.seq < r.seq
  BY <1>1, <1>6, <1>7, <1>8, <1>9, <1>12
<1>13. CASE r.seq = v.seq
  BY <1>1, <1>6, <1>7, <1>8, <1>13 DEF Chained
<1> QED BY <1>1, <1>11, <1>12, <1>13

\* Nor do they leave a gap.
LEMMA ChainCovers ==
    ASSUME PeerStops, NEW n \in Places, NEW ready, Chained(ready, n),
           NEW last \in ready, \A s \in ready : s.seq <= last.seq,
           NEW x \in n..(End(last) - 1)
    PROVE  \E s \in ready : s.seq <= x /\ x < End(s)
<1> DEFINE above == {u \in ready : x < u.seq}
           keys  == {u.seq - n : u \in above}
<1>1. \A u \in ready : u.seq \in Int /\ End(u) \in Int /\ n <= u.seq
  BY PeerPlace, FirstInt DEF Chained, Places
<1>2. n \in Int
  BY FirstInt DEF Places
<1>3. CASE above = {}
  <2>1. last.seq <= x /\ x < End(last)
    BY <1>1, <1>2, <1>3
  <2> QED BY <2>1
<1>4. CASE above # {}
  <2>1. keys \subseteq Nat /\ keys # {}
    <3>1. \A u \in ready : u.seq - n \in Nat
      BY <1>1, <1>2
    <3> QED BY <1>4, <3>1
  <2>2. PICK k \in keys : \A m \in keys : k <= m
    <3> HIDE DEF keys
    <3> QED BY <2>1, LeastNat
  <2>3. PICK u \in above : k = u.seq - n
    BY <2>2
  <2>4. PICK r \in ready : r.seq < u.seq /\ End(r) = u.seq
    BY <1>1, <1>2, <2>3 DEF Chained
  <2>5. r \notin above
    <3>1. ASSUME r \in above PROVE r.seq - n \in keys
      BY <3>1
    <3>2. ASSUME r \in above PROVE u.seq - n <= r.seq - n
      BY <2>2, <2>3, <3>1, <3>2
    <3> QED BY <1>1, <1>2, <2>3, <2>4, <3>2
  <2>6. r.seq <= x /\ x < End(r)
    BY <1>1, <1>2, <2>3, <2>4, <2>5
  <2> QED BY <2>6
<1> QED BY <1>3, <1>4

\* Before is the order of the places.
Ordered(items) == \A s, t \in items : Before(s, t) => s.seq < t.seq

LEMMA PayloadsOrdered ==
    ASSUME ShortStream, PeerStops, NEW set, Single(set), NEW n \in Places,
           NEW ready, IsReady(ready, set, n)
    PROVE  Ordered(Payloads(ready))
<1> SUFFICES ASSUME NEW i \in Payloads(ready), NEW j \in Payloads(ready), Before(i, j)
             PROVE  i.seq < j.seq
  BY DEF Ordered
<1>1. PICK s \in ready : i.seq = s.seq
  BY DEF Payloads, Slice
<1>2. PICK t \in ready : j.seq = t.seq
  BY DEF Payloads, Slice
<1>3. Before(s, t)
  BY <1>1, <1>2 DEF Before
<1> QED BY <1>1, <1>2, <1>3, ReadyOrder DEF Single

\* What an input finds ready is the bytes that it advances rx_nxt_inseq by, and
\* ends with the FIN if a FIN is in it, or if it comes to the end of the stream and
\* the peer is quiet after its FIN.
LEMMA InputAdvance ==
    ASSUME ShortStream, PeerStops, NEW set, Single(set), NEW n \in Places,
           NEW ready, IsReady(ready, set, n), NEW winadv \in Advances(ready, n)
    PROVE  /\ winadv \in Nat /\ n + winadv \in Places
           /\ Tiles(Payloads(ready), Bytes(n), Bytes(n + winadv))
           /\ Fin(ready) => n <= FinSeq /\ n + winadv = FinSeq + 1
           /\ QuietAfterFin /\ n <= FinSeq /\ n + winadv > FinSeq => Fin(ready)
           /\ \A i \in Payloads(ready) : \E s \in InPeer : i.len = s.len
<1>1. n \in Int /\ First \in Int /\ FinSeq \in Int /\ First <= n /\ n <= FinSeq + 1
  BY FirstInt DEF Places
<1>2. Chained(ready, n)
  BY ReadyChained
<1>3. \A s \in ready :
        /\ s \in InPeer /\ s.seq \in Int /\ s.len \in Nat /\ s.fin \in BOOLEAN
        /\ End(s) \in Int /\ First <= End(s) /\ End(s) <= FinSeq + 1
        /\ n <= s.seq /\ s.seq <= End(s)
        /\ s.fin => s.seq + s.len = FinSeq /\ End(s) = FinSeq + 1
        /\ s.len > 0 => s.seq + s.len <= FinSeq
        /\ ~s.fin => End(s) = s.seq + s.len
  BY <1>1, <1>2, PeerPlace DEF Chained, Places
<1>4. ASSUME NEW i \in Payloads(ready)
      PROVE  \E s \in ready : s.len > 0 /\ i.seq = s.seq /\ i.len = s.len
  BY DEF Payloads, Slice
<1>5. CASE ready = {}
  <2>1. winadv = 0 /\ Payloads(ready) = {} /\ ~Fin(ready)
    BY <1>5 DEF Advances, Payloads, Fin, LastOf
  <2>2. n + winadv = n
    BY <1>1, <2>1
  <2>3. Tiles({}, Bytes(n), Bytes(n))
    <3>1. Bytes(n) \in Int
      BY <1>1 DEF Bytes
    <3> QED BY <3>1 DEF Tiles
  <2> QED BY <1>1, <2>1, <2>2, <2>3
<1>6. CASE ready # {}
  <2>1. PICK last \in LastOf(ready) : winadv = Wrap(End(last) - n)
    <3>1. winadv \in {Wrap(s.seq + SegLen(s) - n) : s \in LastOf(ready)}
      BY <1>6 DEF Advances
    <3>2. PICK s \in LastOf(ready) : winadv = Wrap(s.seq + SegLen(s) - n)
      BY <3>1
    <3>3. s \in InPeer
      BY <1>3 DEF LastOf
    <3>4. s.seq + SegLen(s) - n = End(s) - n
      BY <1>1, <3>3, PeerPlace DEF End
    <3> QED BY <3>2, <3>4
  <2>2. last \in ready /\ \A s \in ready \ {last} : Before(s, last)
    BY <2>1 DEF LastOf
  <2>3. \A s \in ready : s.seq <= last.seq /\ End(s) <= End(last)
    <3> SUFFICES ASSUME NEW s \in ready, s # last
                 PROVE  s.seq <= last.seq /\ End(s) <= End(last)
      BY <1>3, <2>2
    <3>1. s.seq < last.seq
      BY <2>2, ReadyOrder DEF Single
    <3>2. End(s) <= last.seq
      BY <1>2, <2>2, <3>1, ChainApart
    <3> QED BY <1>3, <2>2, <3>1, <3>2
  <2>4. winadv = End(last) - n /\ winadv \in Nat
    <3>1. End(last) - n \in Int /\ 0 <= End(last) - n /\ End(last) - n < HalfRange
      BY <1>1, <1>3, <2>2, ReceiveAssumption, HalfRangeAssumption DEF ShortStream, FinSeq
    <3>2. -HalfRange <= End(last) - n
      BY <3>1, HalfRangeAssumption
    <3> QED BY <2>1, <3>1, <3>2, WrapSmall
  <2>5. n + winadv = End(last) /\ n + winadv \in Places
    BY <1>1, <1>3, <2>2, <2>4 DEF Places
  <2>6. Fin(ready) <=> last.fin
    <3>1. ASSUME NEW s \in LastOf(ready) PROVE s = last
      <4>1. s \in ready /\ (s # last => Before(s, last) /\ Before(last, s))
        BY <2>2, <3>1 DEF LastOf
      <4>2. s # last => s.seq < last.seq /\ last.seq < s.seq
        BY <2>2, <4>1, ReadyOrder DEF Single
      <4> QED BY <1>3, <2>2, <4>1, <4>2
    <3> QED BY <2>1, <3>1 DEF Fin
  <2>7. last.fin => n <= FinSeq /\ n + winadv = FinSeq + 1
    BY <1>1, <1>3, <2>2, <2>5
  <2>8. QuietAfterFin /\ n + winadv > FinSeq => last.fin
    BY <1>1, <1>3, <2>2, <2>5 DEF QuietAfterFin
  <2> DEFINE a == Bytes(n)
             b == Bytes(n + winadv)
  <2>9. /\ a \in Int /\ b \in Int /\ a <= b /\ a <= n /\ b <= FinSeq /\ b <= End(last)
        /\ n <= FinSeq => a = n
        /\ n + winadv <= FinSeq => b = n + winadv
        /\ n + winadv > FinSeq => b = FinSeq
        /\ n > FinSeq => a = FinSeq
    BY <1>1, <1>3, <2>2, <2>4, <2>5 DEF Bytes
  <2> HIDE DEF a, b
  <2>10. Tiles(Payloads(ready), a, b)
    <3>1. \A i \in Payloads(ready) : i.len > 0 /\ a <= i.seq /\ i.seq + i.len <= b
      <4> SUFFICES ASSUME NEW i \in Payloads(ready)
                   PROVE  i.len > 0 /\ a <= i.seq /\ i.seq + i.len <= b
        OBVIOUS
      <4>1. PICK s \in ready : s.len > 0 /\ i.seq = s.seq /\ i.len = s.len
        BY <1>4
      <4>2. s.seq + s.len <= End(s) /\ s.seq + s.len <= FinSeq
        BY <1>1, <1>3, <4>1
      <4>3. s.seq + s.len <= b
        BY <1>1, <1>3, <2>2, <2>3, <2>5, <2>9, <4>2
      <4> QED BY <1>1, <1>3, <2>9, <4>1, <4>3
    <3>2. ASSUME NEW x \in a..(b - 1)
          PROVE  \E i \in Payloads(ready) : i.seq <= x /\ x < i.seq + i.len
      <4>1. x \in n..(End(last) - 1) /\ x < FinSeq
        BY <1>1, <1>3, <2>2, <2>5, <2>9
      <4>2. PICK s \in ready : s.seq <= x /\ x < End(s)
        BY <1>2, <2>2, <2>3, <4>1, ChainCovers
      <4>3. s.len > 0 /\ x < s.seq + s.len
        BY <1>1, <1>3, <4>1, <4>2
      <4>4. Slice(s) \in Payloads(ready) /\ Slice(s).seq = s.seq /\ Slice(s).len = s.len
        BY <4>3 DEF Payloads, Slice
      <4> QED BY <4>2, <4>3, <4>4
    <3>3. ASSUME NEW i \in Payloads(ready), NEW j \in Payloads(ready)
          PROVE  i = j \/ i.seq + i.len <= j.seq \/ j.seq + j.len <= i.seq
      <4>1. PICK s \in ready : i = Slice(s)
        BY DEF Payloads
      <4>2. PICK t \in ready : j = Slice(t)
        BY DEF Payloads
      <4>3. /\ i.seq = s.seq /\ i.len = s.len /\ j.seq = t.seq /\ j.len = t.len
            /\ s.seq + s.len <= End(s) /\ t.seq + t.len <= End(t)
        BY <1>1, <1>3, <4>1, <4>2 DEF Slice
      <4>4. CASE s.seq = t.seq
        BY <1>2, <4>1, <4>2, <4>4 DEF Chained
      <4>5. CASE s.seq < t.seq
        <5>1. End(s) <= t.seq
          BY <1>2, <4>5, ChainApart
        <5> QED BY <1>3, <4>3, <5>1
      <4>6. CASE t.seq < s.seq
        <5>1. End(t) <= s.seq
          BY <1>2, <4>6, ChainApart
        <5> QED BY <1>3, <4>3, <5>1
      <4> QED BY <1>3, <4>4, <4>5, <4>6
    <3> QED BY <2>9, <3>1, <3>2, <3>3 DEF Tiles
  <2> QED BY <1>3, <1>4, <2>4, <2>5, <2>6, <2>7, <2>8, <2>10 DEF a, b
<1>7. \A i \in Payloads(ready) : \E s \in InPeer : i.len = s.len
  BY <1>3, <1>4
<1> QED BY <1>5, <1>6, <1>7

-----------------------------------------------------------------------------
(* Queues.                                                                 *)

LEMMA OneLong ==
    ASSUME NEW S, NEW q \in Seq(S), Len(q) > 0, Len(q) <= 1
    PROVE  q[1] \in S /\ q = <<q[1]>> /\ Head(q) = q[1]
<1>1. 1 = Len(q)
  OBVIOUS
<1> QED BY <1>1

LEMMA ConcatAppend ==
    ASSUME NEW S, NEW s \in Seq(S), NEW t \in Seq(S), NEW e \in S
    PROVE  s \o Append(t, e) = Append(s \o t, e)
<1>1. <<e>> \in Seq(S) /\ s \o t \in Seq(S)
  BY OneValue, ConcatProperties
<1>2. s \o Append(t, e) = s \o (t \o <<e>>)
  BY AppendIsConcat
<1>3. s \o (t \o <<e>>) = (s \o t) \o <<e>>
  BY <1>1, ConcatAssociative
<1> QED BY <1>1, <1>2, <1>3, AppendIsConcat

\* The first of a queue goes over to another: together they stay as they are.
LEMMA MoveHead ==
    ASSUME NEW S, NEW s \in Seq(S), NEW t \in Seq(S), t # <<>>
    PROVE  Append(s, Head(t)) \o Tail(t) = s \o t
<1> DEFINE l == Append(s, Head(t)) \o Tail(t)
           r == s \o t
<1>1. Head(t) \in S /\ Tail(t) \in Seq(S) /\ Len(Tail(t)) = Len(t) - 1 /\ Len(t) \in Nat
      /\ (\A i \in 1..Len(Tail(t)) : Tail(t)[i] = t[i + 1]) /\ Head(t) = t[1]
  BY HeadTailProperties, LenProperties
<1>2. /\ Append(s, Head(t)) \in Seq(S) /\ Len(Append(s, Head(t))) = Len(s) + 1 /\ Len(s) \in Nat
      /\ \A i \in 1..Len(s) : Append(s, Head(t))[i] = s[i]
      /\ Append(s, Head(t))[Len(s) + 1] = t[1]
  BY <1>1, AppendProperties, LenProperties
<1>3. /\ l \in Seq(S) /\ Len(l) = Len(s) + 1 + (Len(t) - 1)
      /\ \A i \in 1..(Len(s) + 1 + (Len(t) - 1)) :
           l[i] = IF i <= Len(s) + 1 THEN Append(s, Head(t))[i] ELSE Tail(t)[i - (Len(s) + 1)]
  BY <1>1, <1>2, ConcatProperties
<1>4. /\ r \in Seq(S) /\ Len(r) = Len(s) + Len(t)
      /\ \A i \in 1..(Len(s) + Len(t)) : r[i] = IF i <= Len(s) THEN s[i] ELSE t[i - Len(s)]
  BY ConcatProperties
<1> HIDE DEF l, r
<1>5. Len(l) = Len(r) /\ Len(l) = Len(s) + Len(t)
  BY <1>1, <1>2, <1>3, <1>4
<1>6. ASSUME NEW i \in 1..Len(l) PROVE l[i] = r[i]
  <2>1. i \in 1..(Len(s) + 1 + (Len(t) - 1)) /\ i \in 1..(Len(s) + Len(t))
    BY <1>1, <1>2, <1>5
  <2>2. CASE i <= Len(s)
    BY <1>2, <1>3, <1>4, <2>1, <2>2
  <2>3. CASE i = Len(s) + 1
    <3>1. l[i] = Append(s, Head(t))[i] /\ r[i] = t[i - Len(s)] /\ i - Len(s) = 1
      BY <1>2, <1>3, <1>4, <2>1, <2>3
    <3> QED BY <1>2, <2>3, <3>1
  <2>4. CASE i > Len(s) + 1
    <3>1. i - (Len(s) + 1) \in 1..Len(Tail(t)) /\ i - (Len(s) + 1) + 1 = i - Len(s)
      BY <1>1, <1>2, <2>1, <2>4
    <3>2. l[i] = Tail(t)[i - (Len(s) + 1)] /\ r[i] = t[i - Len(s)]
      BY <1>2, <1>3, <1>4, <2>1, <2>4
    <3> QED BY <1>1, <3>1, <3>2
  <2> QED BY <1>1, <1>2, <2>1, <2>2, <2>3, <2>4
<1>7. l = r
  BY <1>3, <1>4, <1>5, <1>6, SeqEqual
<1> QED BY <1>7 DEF l, r

\* The values on their way through an mvar.
Through(m) == m.handed \o m.contents \o m.writers

LEMMA ThroughType ==
    ASSUME NEW V, NEW m, IsMvar(m, V)
    PROVE  /\ m.handed \in Seq(V) /\ m.contents \in Seq(V) /\ m.writers \in Seq(V)
           /\ m.handed \o m.contents \in Seq(V) /\ Through(m) \in Seq(V)
<1>1. m.handed \in Seq(V) /\ m.contents \in Seq(V) /\ m.writers \in Seq(V)
  BY DEF IsMvar, MvarRecord
<1> QED BY <1>1, ConcatProperties DEF Through

LEMMA ThroughPut ==
    ASSUME NEW V, NEW m, IsMvar(m, V), NEW v \in V
    PROVE  Through(Put(m, v)) = Append(Through(m), v)
<1> DEFINE p == Put(m, v)
<1>1. /\ m \in MvarRecord(V)
      /\ m.handed \in Seq(V) /\ m.contents \in Seq(V) /\ m.writers \in Seq(V)
      /\ m.handed \o m.contents \in Seq(V)
  BY ThroughType DEF IsMvar
<1>2. CASE PutBlocks(m)
  <2>1. p.handed = m.handed /\ p.contents = m.contents /\ p.writers = Append(m.writers, v)
    BY <1>1, <1>2 DEF Put, MvarRecord
  <2>2. (m.handed \o m.contents) \o Append(m.writers, v) = Append((m.handed \o m.contents) \o m.writers, v)
    <3> DEFINE hc == m.handed \o m.contents
    <3>1. hc \in Seq(V)
      BY <1>1
    <3> HIDE DEF hc
    <3>2. hc \o Append(m.writers, v) = Append(hc \o m.writers, v)
      BY <1>1, <3>1, ConcatAppend
    <3> QED BY <3>2 DEF hc
  <2> HIDE DEF p
  <2> QED BY <2>1, <2>2 DEF Through, p
<1>3. CASE ~PutBlocks(m) /\ m.reading
  <2>1. p.handed = <<v>> /\ p.contents = <<>> /\ p.writers = <<>>
    BY <1>1, <1>3 DEF Put, PutBlocks, MvarRecord, IsMvar
  <2>2. m.handed = <<>> /\ m.contents = <<>> /\ m.writers = <<>>
    BY <1>3 DEF PutBlocks, IsMvar
  <2>3. <<v>> \o <<>> \o <<>> = <<v>> /\ <<>> \o <<>> \o <<>> = <<>> /\ Append(<<>>, v) = <<v>>
    OBVIOUS
  <2> HIDE DEF p
  <2> QED BY <2>1, <2>2, <2>3 DEF Through, p
<1>4. CASE ~PutBlocks(m) /\ ~m.reading
  <2>1. p.handed = m.handed /\ p.contents = <<v>> /\ p.writers = <<>>
    BY <1>1, <1>4 DEF Put, PutBlocks, MvarRecord, IsMvar
  <2>2. m.contents = <<>> /\ m.writers = <<>>
    BY <1>4 DEF PutBlocks, IsMvar
  <2>3. m.handed \o <<v>> \in Seq(V) /\ m.handed \o <<v>> = Append(m.handed, v)
    BY <1>1, OneValue, ConcatProperties, AppendIsConcat
  <2>4. (m.handed \o <<v>>) \o <<>> = Append(m.handed, v)
    BY <2>3, ConcatEmptySeq
  <2>5. (m.handed \o <<>>) \o <<>> = m.handed
    BY <1>1, ConcatEmptySeq
  <2> HIDE DEF p
  <2> QED BY <2>1, <2>2, <2>4, <2>5 DEF Through, p
<1> QED BY <1>2, <1>3, <1>4

LEMMA ThroughTake ==
    ASSUME NEW V, NEW m, IsMvar(m, V), m.handed = <<>>
    PROVE  Through(Take(m)) = Through(m)
<1> DEFINE t == Take(m)
<1>1. /\ m \in MvarRecord(V)
      /\ m.handed \in Seq(V) /\ m.contents \in Seq(V) /\ m.writers \in Seq(V)
      /\ m.handed \o m.contents \in Seq(V)
  BY ThroughType DEF IsMvar
<1>2. CASE m.contents = <<>>
  <2>1. t.handed = <<>> /\ t.contents = <<>> /\ t.writers = <<>>
        /\ m.writers = <<>>
    BY <1>1, <1>2 DEF Take, MvarRecord, IsMvar
  <2> HIDE DEF t
  <2> QED BY <1>2, <2>1 DEF Through, t
<1>3. CASE m.contents # <<>> /\ m.writers = <<>>
  <2>1. t.handed = m.contents /\ t.contents = <<>> /\ t.writers = <<>>
    BY <1>1, <1>3 DEF Take, MvarRecord, Admitted
  <2>2. (m.contents \o <<>>) \o <<>> = m.contents /\ (<<>> \o m.contents) \o <<>> = m.contents
    BY <1>1, ConcatEmptySeq
  <2> HIDE DEF t
  <2> QED BY <1>3, <2>1, <2>2 DEF Through, t
<1>4. CASE m.contents # <<>> /\ m.writers # <<>>
  <2>1. t.handed = m.contents /\ t.contents = <<Head(m.writers)>> /\ t.writers = Tail(m.writers)
    BY <1>1, <1>4 DEF Take, MvarRecord, Admitted
  <2>2. Head(m.writers) \in V
    BY <1>1, <1>4, HeadTailProperties
  <2>3. m.contents \o <<Head(m.writers)>> = Append(m.contents, Head(m.writers))
    BY <1>1, <2>2, AppendIsConcat
  <2>4. Append(m.contents, Head(m.writers)) \o Tail(m.writers) = m.contents \o m.writers
    BY <1>1, <1>4, MoveHead
  <2>5. <<>> \o m.contents = m.contents
    BY <1>1, ConcatEmptySeq
  <2> HIDE DEF t
  <2> QED BY <2>1, <2>3, <2>4, <2>5 DEF Through, t
<1> QED BY <1>2, <1>3, <1>4

LEMMA ThroughConsume ==
    ASSUME NEW V, NEW m, IsMvar(m, V), Len(m.handed) > 0
    PROVE  /\ Through(m) # <<>> /\ Through(m)[1] = Head(m.handed)
           /\ Through(Consume(m)) = Tail(Through(m))
<1> DEFINE c == Consume(m)
           rest == m.contents \o m.writers
           h == Head(m.handed)
<1>1. /\ m \in MvarRecord(V)
      /\ m.handed \in Seq(V) /\ m.contents \in Seq(V) /\ m.writers \in Seq(V)
      /\ Len(m.handed) <= 1
  BY ThroughType DEF IsMvar
<1>2. c.handed = <<>> /\ c.contents = m.contents /\ c.writers = m.writers
  BY ConsumeEffect
<1> HIDE DEF c, h, rest
<1>3. h \in V /\ m.handed = <<h>> /\ rest \in Seq(V)
  <2>1. m.handed[1] \in V /\ m.handed = <<m.handed[1]>> /\ Head(m.handed) = m.handed[1]
    BY <1>1, OneLong
  <2>2. h \in V /\ m.handed = <<h>>
    BY <2>1 DEF h
  <2>3. rest \in Seq(V)
    BY <1>1, ConcatProperties DEF rest
  <2> QED BY <2>2, <2>3
<1>4. Through(m) = <<h>> \o rest
  <2>1. <<h>> \in Seq(V)
    BY <1>3, OneValue
  <2>2. (<<h>> \o m.contents) \o m.writers = <<h>> \o rest
    <3>1. m.contents \in Seq(V) /\ m.writers \in Seq(V)
      BY <1>1
    <3>2. (<<h>> \o m.contents) \o m.writers = <<h>> \o (m.contents \o m.writers)
      <4> DEFINE s == <<h>>
                 t == m.contents
                 u == m.writers
      <4>1. s \in Seq(V) /\ t \in Seq(V) /\ u \in Seq(V)
        BY <2>1, <3>1
      <4> HIDE DEF s, t, u
      <4>2. (s \o t) \o u = s \o (t \o u)
        BY <4>1, ConcatAssociative
      <4> QED BY <4>2 DEF s, t, u
    <3> QED BY <3>2 DEF rest
  <2> QED BY <1>3, <2>2 DEF Through
<1>5. Through(c) = rest
  <2>1. <<>> \o m.contents = m.contents
    BY <1>1, ConcatEmptySeq
  <2> QED BY <1>2, <2>1 DEF Through, rest
<1>6. /\ <<h>> \in Seq(V) /\ Len(<<h>>) = 1 /\ <<h>>[1] = h
      /\ Len(rest) \in Nat
  BY <1>3, OneValue, LenProperties
<1>7. /\ Through(m) \in Seq(V) /\ Len(Through(m)) = 1 + Len(rest)
      /\ \A i \in 1..(1 + Len(rest)) : Through(m)[i] = IF i <= 1 THEN <<h>>[i] ELSE rest[i - 1]
  BY <1>3, <1>4, <1>6, ConcatProperties
<1>8. Through(m) # <<>> /\ Through(m)[1] = h
  <2>1. 1 \in 1..(1 + Len(rest))
    BY <1>6
  <2> QED BY <1>6, <1>7, <2>1, EmptySeq
<1>9. Tail(Through(m)) = rest
  <2>1. /\ Tail(Through(m)) \in Seq(V) /\ Len(Tail(Through(m))) = Len(rest)
        /\ \A i \in 1..Len(rest) : Tail(Through(m))[i] = Through(m)[i + 1]
    BY <1>6, <1>7, <1>8, HeadTailProperties
  <2>2. ASSUME NEW i \in 1..Len(rest) PROVE Through(m)[i + 1] = rest[i]
    <3>1. i + 1 \in 1..(1 + Len(rest)) /\ ~(i + 1 <= 1) /\ i + 1 - 1 = i
      BY <1>6
    <3> QED BY <1>7, <3>1
  <2>3. \A i \in 1..Len(Tail(Through(m))) : Tail(Through(m))[i] = rest[i]
    BY <2>1, <2>2
  <2> QED BY <1>3, <2>1, <2>3, SeqEqual DEF rest
<1> QED BY <1>5, <1>8, <1>9 DEF c, h

-----------------------------------------------------------------------------
(* The application's buffer does not stall.                                *)

\* n is the sum of the lengths of the items of q.
Summed(q, n) ==
    \E acc \in [0..Len(q) -> Int] :
        /\ acc[0] = 0 /\ acc[Len(q)] = n
        /\ \A i \in 1..Len(q) : acc[i] = acc[i - 1] + q[i].len

LEMMA SumEmpty == Summed(<<>>, 0) /\ \A n : Summed(<<>>, n) => n = 0
<1> DEFINE acc == [i \in 0..0 |-> 0]
<1>1. Len(<<>>) = 0 /\ acc \in [0..0 -> Int] /\ acc[0] = 0
  OBVIOUS
<1>2. Summed(<<>>, 0)
  <2> HIDE DEF acc
  <2> QED BY <1>1 DEF Summed
<1>3. \A n : Summed(<<>>, n) => n = 0
  BY DEF Summed
<1> QED BY <1>2, <1>3

LEMMA SumAppend ==
    ASSUME NEW q \in Seq(Item), NEW x \in Item, NEW n \in Int, Summed(q, n)
    PROVE  Summed(Append(q, x), n + x.len)
<1> DEFINE l == Len(q)
           r == Append(q, x)
<1>1. PICK acc \in [0..l -> Int] :
        /\ acc[0] = 0 /\ acc[l] = n
        /\ \A i \in 1..l : acc[i] = acc[i - 1] + q[i].len
  BY DEF Summed
<1>2. l \in Nat /\ x.len \in Nat
  BY LenProperties DEF Item
<1>3. Len(r) = l + 1 /\ (\A i \in 1..l : r[i] = q[i]) /\ r[l + 1] = x
  BY AppendProperties
<1> DEFINE new == [i \in 0..(l + 1) |-> IF i <= l THEN acc[i] ELSE n + x.len]
<1> HIDE DEF l, r
<1>4. /\ new \in [0..(l + 1) -> Int] /\ new[0] = 0 /\ new[l + 1] = n + x.len
      /\ \A i \in 0..l : new[i] = acc[i]
  BY <1>1, <1>2
<1> HIDE DEF new
<1>5. ASSUME NEW i \in 1..(l + 1) PROVE new[i] = new[i - 1] + r[i].len
  <2>1. CASE i \in 1..l
    <3>1. i \in 0..l /\ i - 1 \in 0..l
      BY <1>2, <2>1
    <3> QED BY <1>1, <1>3, <1>4, <2>1, <3>1
  <2>2. CASE i = l + 1
    <3>1. i - 1 = l /\ l \in 0..l
      BY <1>2, <2>2
    <3> QED BY <1>1, <1>3, <1>4, <2>2, <3>1
  <2> QED BY <1>2, <2>1, <2>2
<1>6. Summed(r, n + x.len)
  BY <1>3, <1>4, <1>5 DEF Summed
<1> QED BY <1>6 DEF r

LEMMA SumTail ==
    ASSUME NEW q \in Seq(Item), q # <<>>, NEW n \in Int, Summed(q, n)
    PROVE  Summed(Tail(q), n - Head(q).len)
<1> DEFINE l == Len(q)
           t == Tail(q)
           h == Head(q)
<1>1. PICK acc \in [0..l -> Int] :
        /\ acc[0] = 0 /\ acc[l] = n
        /\ \A i \in 1..l : acc[i] = acc[i - 1] + q[i].len
  BY DEF Summed
<1>2. l \in Nat /\ l > 0 /\ h = q[1] /\ h.len \in Nat /\ \A i \in 1..l : q[i] \in Item
  <2>1. l \in Nat /\ l > 0
    BY LenProperties, EmptySeq
  <2>2. \A i \in 1..l : q[i] \in Item
    BY ElementOfSeq
  <2>3. h = q[1]
    BY HeadTailProperties
  <2>4. h \in Item
    BY HeadTailProperties
  <2> HIDE DEF l, h
  <2> QED BY <2>1, <2>2, <2>3, <2>4 DEF Item
<1>3. Len(t) = l - 1 /\ \A i \in 1..(l - 1) : t[i] = q[i + 1]
  BY HeadTailProperties
<1> HIDE DEF l, t, h
<1> DEFINE new == [i \in 0..(l - 1) |-> acc[i + 1] - h.len]
<1>4. acc[1] = h.len /\ \A i \in 0..(l - 1) : i + 1 \in 0..l /\ acc[i + 1] \in Int
  <2>1. 1 \in 1..l /\ 1 - 1 = 0
    BY <1>2
  <2>2. acc[1] = acc[0] + q[1].len
    BY <1>1, <2>1
  <2>3. \A i \in 0..(l - 1) : i + 1 \in 0..l
    BY <1>2
  <2> QED BY <1>1, <1>2, <2>2, <2>3
<1>5. /\ new \in [0..(l - 1) -> Int] /\ new[0] = 0 /\ new[l - 1] = n - h.len
      /\ \A i \in 0..(l - 1) : new[i] = acc[i + 1] - h.len
  <2>1. new \in [0..(l - 1) -> Int] /\ \A i \in 0..(l - 1) : new[i] = acc[i + 1] - h.len
    BY <1>2, <1>4
  <2>2. 0 \in 0..(l - 1) /\ l - 1 \in 0..(l - 1) /\ l - 1 + 1 = l /\ 0 + 1 = 1
    BY <1>2
  <2> HIDE DEF new
  <2>3. new[0] = acc[1] - h.len /\ new[l - 1] = acc[l] - h.len
    BY <2>1, <2>2
  <2>4. acc[1] = h.len /\ acc[l] = n
    BY <1>1, <1>2, <1>4
  <2>5. new[0] = 0 /\ new[l - 1] = n - h.len
    BY <1>2, <1>4, <2>3, <2>4
  <2> QED BY <2>1, <2>5
<1> HIDE DEF new
<1>6. ASSUME NEW i \in 1..(l - 1) PROVE new[i] = new[i - 1] + t[i].len
  <2>1. i \in 0..(l - 1) /\ i - 1 \in 0..(l - 1) /\ i + 1 \in 1..l /\ i - 1 + 1 = i /\ i + 1 - 1 = i
        /\ i \in 0..l
    BY <1>2
  <2>2. new[i] = acc[i + 1] - h.len /\ new[i - 1] = acc[i] - h.len
    BY <1>5, <2>1
  <2>3. acc[i + 1] = acc[i] + q[i + 1].len /\ acc[i] \in Int
    BY <1>1, <2>1
  <2>4. q[i + 1].len \in Nat
    <3>1. q[i + 1] \in Item
      BY <1>2, <2>1
    <3> QED BY <3>1 DEF Item
  <2>5. acc[i + 1] \in Int /\ h.len \in Int
    BY <1>2, <1>4, <2>1
  <2>6. t[i].len = q[i + 1].len
    BY <1>3
  <2> QED BY <2>2, <2>3, <2>4, <2>5, <2>6
<1>7. Summed(t, n - h.len)
  BY <1>3, <1>5, <1>6 DEF Summed
<1> QED BY <1>7 DEF t, h

-----------------------------------------------------------------------------
(* The inputs.                                                             *)

\* An input that is passed on is of a segment of the stream.  What it does, as a
\* value that it puts.
LEMMA InputOkShape ==
    ASSUME TypeOK, NEW s \in PeerSegs, InputOk(s), segs \subseteq InPeer
    PROVE  /\ Add(s, segs) \subseteq InPeer
           /\ \E ready \in SUBSET Add(s, segs) :
                \E winadv \in Advances(ready, rx_nxt_inseq), v \in RxValue :
                    /\ IsReady(ready, Add(s, segs), rx_nxt_inseq)
                    /\ v.data = Payloads(ready) /\ ~v.eof /\ (v.fin <=> Fin(ready))
                    /\ winadv >= 0 => v.adv = winadv
                    /\ segs' = Waiting(Add(s, segs), ready, rx_nxt_inseq)
                    /\ rx_nxt_inseq' = rx_nxt_inseq + winadv
                    /\ rx_data' = IF Fin(ready) /\ ~PutBlocks(rx_data)
                                  THEN Put(Put(rx_data, v), EofValue) ELSE Put(rx_data, v)
<1>1. s \in InPeer
  BY DEF InputOk, CheckValidSegment, InPeer
<1>2. Add(s, segs) \subseteq InPeer
  BY <1>1 DEF Add
<1> DEFINE set == Add(s, segs)
           ack(r, w) == set # r \/ w > 0
           val(r, w) == [data |-> Payloads(r), eof |-> FALSE, ack |-> ack(r, w),
                         adv |-> IF ack(r, w) THEN w ELSE 0, fin |-> Fin(r)]
<1>3. PICK ready \in SUBSET set :
        \E winadv \in Advances(ready, rx_nxt_inseq) :
          LET value == val(ready, winadv)
              first == Put(rx_data, value)
          IN  /\ IsReady(ready, set, rx_nxt_inseq)
              /\ segs' = Waiting(set, ready, rx_nxt_inseq)
              /\ rx_nxt_inseq' = rx_nxt_inseq + winadv
              /\ rx_data' = IF Fin(ready) /\ ~PutBlocks(rx_data)
                            THEN Put(first, EofValue) ELSE first
  BY DEF InputOk
<1>4. PICK winadv \in Advances(ready, rx_nxt_inseq) :
          LET value == val(ready, winadv)
              first == Put(rx_data, value)
          IN  /\ IsReady(ready, set, rx_nxt_inseq)
              /\ segs' = Waiting(set, ready, rx_nxt_inseq)
              /\ rx_nxt_inseq' = rx_nxt_inseq + winadv
              /\ rx_data' = IF Fin(ready) /\ ~PutBlocks(rx_data)
                            THEN Put(first, EofValue) ELSE first
  BY <1>3
<1> DEFINE a == ack(ready, winadv)
           v == val(ready, winadv)
<1>5. ready \subseteq PeerSegs
  BY <1>2 DEF InPeer
<1>6. v \in RxValue
  <2>1. Fin(ready) \in BOOLEAN /\ a \in BOOLEAN
    BY DEF Fin
  <2>2. Payloads(ready) \in SUBSET Item
    BY <1>5, PayloadType
  <2>3. (IF a THEN winadv ELSE 0) \in Int
    BY <1>4, <1>5, AdvanceType DEF TypeOK
  <2>4. v = [data |-> Payloads(ready), eof |-> FALSE, ack |-> a,
             adv |-> IF a THEN winadv ELSE 0, fin |-> Fin(ready)]
    OBVIOUS
  <2> HIDE DEF a, v
  <2> QED BY <2>1, <2>2, <2>3, <2>4 DEF RxValue
<1>7. /\ v.data = Payloads(ready) /\ ~v.eof /\ (v.fin <=> Fin(ready))
      /\ winadv >= 0 => v.adv = winadv
  <2> DEFINE f == Fin(ready)
             w == IF a THEN winadv ELSE 0
  <2>1. v = [data |-> Payloads(ready), eof |-> FALSE, ack |-> a, adv |-> w, fin |-> f]
    OBVIOUS
  <2>2. winadv >= 0 => w = winadv
    <3>1. winadv \in Int
      BY <1>4, <1>5, AdvanceType DEF TypeOK
    <3>2. winadv > 0 => a
      OBVIOUS
    <3> HIDE DEF a
    <3> QED BY <3>1, <3>2
  <2> HIDE DEF a, v, w, f
  <2>3. v.data = Payloads(ready) /\ ~v.eof /\ v.fin = f /\ v.adv = w
    BY <2>1
  <2> QED BY <2>2, <2>3 DEF f
<1>8. rx_data' = IF Fin(ready) /\ ~PutBlocks(rx_data)
                 THEN Put(Put(rx_data, v), EofValue) ELSE Put(rx_data, v)
  BY <1>4
<1> HIDE DEF v
<1> QED BY <1>2, <1>3, <1>4, <1>6, <1>7, <1>8

\* What a read does to Flow.Rx.thread.
LEMMA ReadTakesRx ==
    ASSUME TypeOK, ReadTakes
    PROVE  /\ rx'.rest = rx.rest
           /\ rx' = rx \/ rx'.pc \in {"done", "queue"}
<1>1. \A w : [rx EXCEPT !.pc = IF w.item = Eof THEN "done" ELSE "queue"].rest = rx.rest
             /\ [rx EXCEPT !.pc = IF w.item = Eof THEN "done" ELSE "queue"].pc \in {"done", "queue"}
  BY DEF TypeOK
<1>2. \/ rx' = rx
      \/ \E w : rx' = [rx EXCEPT !.pc = IF w.item = Eof THEN "done" ELSE "queue"]
  BY DEF ReadTakes
<1> QED BY <1>1, <1>2

LEMMA WriterItem ==
    ASSUME urx.writers \in Seq(UrxWriter), NEW i \in DOMAIN urx.writers
    PROVE  urx.writers[i].item \in Item /\ urx.writers[i].item.len \in Nat
<1>1. urx.writers[i] \in UrxWriter
  OBVIOUS
<1> QED BY <1>1 DEF UrxWriter, Item

LEMMA ReadTakesRxOwner ==
    ASSUME TypeOK, WritersAgree, ReadTakes, rx.pc # "blocked"
    PROVE  rx' = rx
<1> DEFINE w == Head(urx.writers)
<1>1. \/ rx' = rx
      \/ urx.writers # <<>> /\ w.owner = "rx"
  BY DEF ReadTakes, WakesWriter
<1>2. ASSUME urx.writers # <<>>, w.owner = "rx" PROVE FALSE
  <2>1. urx.writers \in Seq(UrxWriter)
    BY DEF TypeOK
  <2>2. 1 \in DOMAIN urx.writers /\ w = urx.writers[1]
    BY <1>2, <2>1, HeadTailProperties
  <2> QED BY <1>2, <2>2 DEF WritersAgree
<1> QED BY <1>1, <1>2

-----------------------------------------------------------------------------
(* The application's buffer does not stall.                                *)

SmallItem  == {i \in Item : i.len < MaxSize}
SmallValue == {v \in RxValue : v.data \subseteq SmallItem}

\* The payloads on their way to the buffer are smaller than it.
SmallInv ==
    /\ segs \subseteq InPeer
    /\ IsMvar(rx_data, SmallValue)
    /\ rx.rest \subseteq SmallItem

\* cur_size counts what is queued, the payload that Flow.Rx.thread is blocked with,
\* and nothing else: what the keepalive timer is blocked with is empty.
Counted(n) ==
    /\ \A i \in DOMAIN urx.writers :
          urx.writers[i].owner = "rx" => urx.cur_size = n + urx.writers[i].item.len
    /\ (\A i \in DOMAIN urx.writers : urx.writers[i].owner # "rx") => urx.cur_size = n

UrxInv ==
    /\ NoStall
    /\ \A i \in DOMAIN urx.writers :
          /\ urx.writers[i].item.len < MaxSize
          /\ urx.writers[i].owner # "rx" => urx.writers[i].item.len = 0
    /\ \E n \in Int : Summed(urx.q, n) /\ Counted(n)

\* NoStall by itself is not inductive: that the item a reader takes is not the
\* last one while a writer stays blocked follows from what cur_size counts.
StallInv == SmallInv /\ UrxInv

LEMMA SmallTypes ==
    ASSUME SmallSegs
    PROVE  /\ Eof \in SmallItem /\ EofValue \in SmallValue /\ ChallengeValue \in SmallValue
           /\ Eof.len = 0
<1>1. Eof.len = 0 /\ Eof \in Item /\ 0 < MaxSize
  BY FirstInt DEF Eof, SmallSegs
<1>2. EofValue.data = {} /\ ChallengeValue.data = {}
  BY DEF EofValue, ChallengeValue
<1> QED BY <1>1, <1>2, ValueType DEF SmallItem, SmallValue

LEMMA SmallPayloads ==
    ASSUME SmallSegs, NEW ready, ready \subseteq InPeer
    PROVE  Payloads(ready) \subseteq SmallItem
<1> SUFFICES ASSUME NEW i \in Payloads(ready) PROVE i \in SmallItem
  OBVIOUS
<1>1. PICK s \in ready : i = Slice(s)
  BY DEF Payloads
<1>2. s.seq \in Int /\ s.len \in Nat /\ s.len < MaxSize
  BY PeerSegType DEF InPeer, SmallSegs
<1> QED BY <1>1, <1>2 DEF Slice, SmallItem, Item

LEMMA InitStall == SmallSegs /\ Init => StallInv
<1> SUFFICES ASSUME SmallSegs, Init PROVE StallInv
  OBVIOUS
<1>1. SmallInv
  BY AwaitedType DEF Init, SmallInv
<1>2. urx.q = <<>> /\ urx.writers = <<>> /\ urx.cur_size = 0 /\ urx.readers = 0
  BY DEF Init
<1>3. DOMAIN urx.writers = {}
  BY <1>2
<1>4. Summed(urx.q, 0) /\ Counted(0)
  BY <1>2, <1>3, SumEmpty DEF Counted
<1> QED BY <1>1, <1>2, <1>3, <1>4 DEF StallInv, UrxInv, NoStall

\* The actions that put into rx_data.
LEMMA SmallInputs ==
    ASSUME SmallSegs, TypeOK, SmallInv,
           (\E s \in PeerSegs : Input(s)) \/ PutEof
    PROVE  SmallInv'
<1>1. CASE \E s \in PeerSegs : InputOk(s)
  <2>1. PICK s \in PeerSegs : InputOk(s)
    BY <1>1
  <2> DEFINE set == Add(s, segs)
  <2>2. set \subseteq InPeer
    BY <2>1, InputOkShape DEF SmallInv
  <2>3. PICK ready \in SUBSET set, v \in RxValue :
          /\ v.data = Payloads(ready)
          /\ segs' = Waiting(set, ready, rx_nxt_inseq)
          /\ rx_data' \in {Put(rx_data, v), Put(Put(rx_data, v), EofValue)}
    BY <2>1, InputOkShape DEF SmallInv
  <2> HIDE DEF set
  <2>4. v \in SmallValue
    BY <2>2, <2>3, SmallPayloads DEF SmallValue
  <2>5. IsMvar(Put(rx_data, v), SmallValue)
    BY <2>4, PutEffect DEF SmallInv
  <2>6. IsMvar(Put(Put(rx_data, v), EofValue), SmallValue)
    <3> DEFINE p == Put(rx_data, v)
    <3>1. IsMvar(p, SmallValue)
      BY <2>5
    <3> HIDE DEF p
    <3>2. IsMvar(Put(p, EofValue), SmallValue)
      BY <3>1, SmallTypes, PutEffect
    <3> QED BY <3>2 DEF p
  <2>7. segs' \subseteq InPeer
    BY <2>2, <2>3 DEF Waiting
  <2>8. rx' = rx
    BY <2>1 DEF InputOk
  <2> QED BY <2>3, <2>5, <2>6, <2>7, <2>8 DEF SmallInv
<1>2. CASE \E s \in PeerSegs : InputChallenge(s)
  BY <1>2, SmallTypes, PutEffect DEF InputChallenge, SmallInv
<1>3. CASE \E s \in PeerSegs : InputReset(s)
  BY <1>3, SmallTypes, PutEffect DEF InputReset, SmallInv
<1>4. CASE PutEof
  BY <1>4, SmallTypes, PutEffect DEF PutEof, SmallInv
<1> QED BY <1>1, <1>2, <1>3, <1>4 DEF Input

\* The actions of the other threads.
LEMMA SmallSteps ==
    ASSUME TypeOK, ThreadsAgree, SmallInv,
           RxThread \/ TxThread \/ Transmit \/ App \/ KeepaliveClose \/ UNCHANGED vars
    PROVE  SmallInv'
<1>1. CASE RxData
  <2> DEFINE v == Head(rx_data.handed)
  <2>1. v \in SmallValue
    <3>1. rx_data.handed \in Seq(SmallValue) /\ rx_data.handed # <<>>
      BY <1>1 DEF RxData, SmallInv, IsMvar, MvarRecord
    <3> QED BY <3>1, HeadTailProperties
  <2>2. rx_data' = Consume(rx_data) /\ segs' = segs
        /\ rx'.rest = v.data
    BY <1>1 DEF RxData
  <2>3. IsMvar(rx_data', SmallValue)
    BY <2>2, ConsumeEffect DEF SmallInv
  <2> HIDE DEF v
  <2> QED BY <2>1, <2>2, <2>3 DEF SmallInv, SmallValue
<1>2. CASE RxQueue
  <2>1. rx'.rest \subseteq rx.rest /\ UNCHANGED <<segs, rx_data>>
    BY <1>2 DEF RxQueue
  <2> QED BY <2>1 DEF SmallInv
<1>3. CASE RxLoop
  <2>1. rx'.rest = rx.rest /\ rx_data' = Take(rx_data) /\ segs' = segs /\ rx_data.handed = <<>>
    BY <1>3 DEF RxLoop, ThreadsAgree, TypeOK
  <2> QED BY <2>1, TakeEffect DEF SmallInv
<1>4. CASE RxEof
  <2>1. rx'.rest = rx.rest /\ rx_data' = Consume(rx_data) /\ segs' = segs
    BY <1>4 DEF RxEof, TypeOK
  <2> QED BY <2>1, ConsumeEffect DEF SmallInv
<1>5. CASE SendEmptyAck \/ Notify \/ Transmit
  <2>1. UNCHANGED <<segs, rx_data, rx>>
    BY <1>5 DEF SendEmptyAck, Notify, Transmit, Output, OutputSent, Retransmit, rxVars
  <2> QED BY <2>1 DEF SmallInv
<1>6. CASE EmptyAckSent
  <2>1. UNCHANGED <<segs, rx_data>> /\ rx'.rest = rx.rest
    BY <1>6 DEF EmptyAckSent, rxVars, TypeOK
  <2> QED BY <2>1 DEF SmallInv
<1>7. CASE ReadTakes
  <2>1. UNCHANGED <<segs, rx_data>>
    BY <1>7 DEF ReadTakes
  <2>2. rx'.rest = rx.rest
    BY <1>7, ReadTakesRx
  <2> QED BY <2>1, <2>2 DEF SmallInv
<1>8. CASE ReadWaits \/ CancelRead \/ KeepaliveClose \/ UNCHANGED vars
  <2>1. UNCHANGED <<segs, rx_data, rx>>
    BY <1>8 DEF ReadWaits, CancelRead, KeepaliveClose, vars
  <2> QED BY <2>1 DEF SmallInv
<1> QED BY <1>1, <1>2, <1>3, <1>4, <1>5, <1>6, <1>7, <1>8 DEF RxThread, TxThread, App

\* A thread that adds an item to the buffer.
LEMMA AddRUrx ==
    ASSUME TypeOK, WritersAgree, UrxInv, SmallSegs,
           NEW item \in SmallItem, NEW owner \in {"rx", "keepalive"}, AddR(item, owner),
           owner = "rx" => rx.pc # "blocked", owner # "rx" => item.len = 0
    PROVE  UrxInv'
<1> DEFINE w == [owner |-> owner, item |-> item]
<1>1. /\ urx.writers \in Seq(UrxWriter) /\ urx.q \in Seq(Item) /\ urx.cur_size \in Int
      /\ urx.readers \in Nat
      /\ urx \in [q : Seq(Item), writers : Seq(UrxWriter), readers : Nat, cur_size : Int]
  BY DEF TypeOK
<1>2. w \in UrxWriter /\ w.owner = owner /\ w.item = item
      /\ item \in Item /\ item.len \in Nat /\ item.len < MaxSize
  BY DEF UrxWriter, SmallItem, Item
<1>3. PICK n \in Int : Summed(urx.q, n) /\ Counted(n)
  BY DEF UrxInv
<1>4. urx.q = <<>> => n = 0 /\ urx.writers = <<>> /\ urx.cur_size = 0
  <2> SUFFICES ASSUME urx.q = <<>> PROVE n = 0 /\ urx.writers = <<>> /\ urx.cur_size = 0
    OBVIOUS
  <2>1. n = 0 /\ urx.writers = <<>>
    BY <1>3, SumEmpty DEF UrxInv, NoStall
  <2>2. DOMAIN urx.writers = {}
    BY <2>1
  <2> QED BY <1>3, <2>1, <2>2 DEF Counted
<1>5. 0 <= MaxSize /\ MaxSize \in Nat
  BY ReceiveAssumption
<1>6. CASE AddBlocks
  <2>1. /\ urx'.writers = Append(urx.writers, w) /\ urx'.q = urx.q
        /\ urx'.cur_size = urx.cur_size + item.len /\ urx'.readers = urx.readers
    BY <1>1, <1>6 DEF AddR
  <2>2. urx.q # <<>>
    BY <1>4, <1>5, <1>6 DEF AddBlocks
  <2> HIDE DEF w
  <2>3. /\ DOMAIN urx'.writers = DOMAIN urx.writers \cup {Len(urx.writers) + 1}
        /\ \A i \in DOMAIN urx.writers : urx'.writers[i] = urx.writers[i]
        /\ urx'.writers[Len(urx.writers) + 1] = w
    BY <1>1, <1>2, <2>1
  <2>4. NoStall'
    BY <2>1, <2>2 DEF UrxInv, NoStall
  <2>5. \A i \in DOMAIN urx'.writers :
          /\ urx'.writers[i].item.len < MaxSize
          /\ urx'.writers[i].owner # "rx" => urx'.writers[i].item.len = 0
    BY <1>2, <2>3 DEF UrxInv
  <2>6. Counted(n)'
    <3>1. CASE owner = "rx"
      <4>1. \A i \in DOMAIN urx.writers : urx.writers[i].owner # "rx"
        BY <3>1 DEF WritersAgree
      <4>2. urx.cur_size = n
        BY <1>3, <4>1 DEF Counted
      <4>3. urx'.cur_size = n + item.len
        BY <2>1, <4>2
      <4> QED BY <1>2, <2>3, <3>1, <4>1, <4>3 DEF Counted
    <3>2. CASE owner # "rx"
      <4>1. urx'.cur_size = urx.cur_size
        BY <1>1, <2>1, <3>2
      <4> QED BY <1>2, <1>3, <2>3, <3>2, <4>1 DEF Counted
    <3> QED BY <3>1, <3>2
  <2> QED BY <1>3, <2>1, <2>4, <2>5, <2>6 DEF UrxInv
<1>7. CASE ~AddBlocks /\ urx.readers > 0
  <2>1. /\ urx'.writers = urx.writers /\ urx'.q = urx.q
        /\ urx'.cur_size = urx.cur_size /\ urx'.readers = urx.readers - 1
    BY <1>1, <1>7 DEF AddR
  <2>2. NoStall'
    BY <1>7, <2>1 DEF UrxInv, NoStall
  <2> QED BY <1>3, <2>1, <2>2 DEF UrxInv, Counted
<1>8. CASE ~AddBlocks /\ urx.readers = 0
  <2>1. /\ urx'.writers = urx.writers /\ urx'.q = Append(urx.q, item)
        /\ urx'.cur_size = urx.cur_size + item.len /\ urx'.readers = 0
    <3>1. urx' = [urx EXCEPT !.q = Append(@, item), !.cur_size = @ + item.len]
      BY <1>8 DEF AddR
    <3> QED BY <1>1, <1>8, <3>1
  <2>2. Append(urx.q, item) # <<>> /\ Summed(Append(urx.q, item), n + item.len)
    BY <1>1, <1>2, <1>3, QueueOps, SumAppend
  <2>3. NoStall'
    BY <2>1, <2>2 DEF NoStall
  <2>4. Counted(n + item.len)'
    <3>1. ASSUME NEW i \in DOMAIN urx.writers, urx.writers[i].owner = "rx"
          PROVE  urx.cur_size + item.len = n + item.len + urx.writers[i].item.len
      <4>1. urx.cur_size = n + urx.writers[i].item.len
        BY <1>3, <3>1 DEF Counted
      <4>2. urx.writers[i].item.len \in Nat
        BY <1>1, WriterItem
      <4> QED BY <1>2, <4>1, <4>2
    <3> QED BY <1>3, <2>1, <3>1 DEF Counted
  <2>5. n + item.len \in Int
    BY <1>2
  <2> QED BY <2>1, <2>2, <2>3, <2>4, <2>5 DEF UrxInv
<1> QED BY <1>6, <1>7, <1>8 DEF AddR

\* The reader takes the first item, and the writer that it wakes adds its own.
LEMMA ReadTakesUrx ==
    ASSUME TypeOK, WritersAgree, UrxInv, SmallSegs, ReadTakes
    PROVE  UrxInv'
<1> DEFINE h    == Head(urx.q)
           t    == Tail(urx.q)
           size == urx.cur_size - h.len
           w    == Head(urx.writers)
<1>1. /\ urx.writers \in Seq(UrxWriter) /\ urx.q \in Seq(Item) /\ urx.cur_size \in Int
      /\ urx.readers \in Nat /\ urx.q # <<>>
      /\ urx \in [q : Seq(Item), writers : Seq(UrxWriter), readers : Nat, cur_size : Int]
  BY DEF TypeOK, ReadTakes
<1>2. h \in Item /\ t \in Seq(Item)
  BY <1>1, QueueOps
<1>3. h.len \in Nat
  BY <1>2 DEF Item
<1>4. PICK n \in Int : Summed(urx.q, n) /\ Counted(n)
  BY DEF UrxInv
<1>5. Summed(t, n - h.len) /\ n - h.len \in Int /\ size \in Int
  BY <1>1, <1>3, <1>4, SumTail
<1>6. ~(urx.readers > 0)
  BY <1>1 DEF UrxInv, NoStall
<1>7. CASE WakesWriter(size)
  <2>1. /\ urx.writers # <<>>
        /\ urx' = [urx EXCEPT !.q = Append(t, w.item), !.writers = Tail(@), !.cur_size = size]
    BY <1>7 DEF ReadTakes, WakesWriter
  <2>2. w \in UrxWriter /\ Tail(urx.writers) \in Seq(UrxWriter)
    BY <1>1, <2>1, QueueOps
  <2> HIDE DEF h, t, size
  <2>3. /\ 1 \in DOMAIN urx.writers /\ urx.writers[1] = w
        /\ \A i \in DOMAIN Tail(urx.writers) :
             /\ i + 1 \in DOMAIN urx.writers /\ i + 1 # 1
             /\ Tail(urx.writers)[i] = urx.writers[i + 1]
    BY <1>1, <2>1
  <2> HIDE DEF w
  <2>4. /\ urx'.q = Append(t, w.item) /\ urx'.writers = Tail(urx.writers)
        /\ urx'.cur_size = size /\ urx'.readers = urx.readers
    BY <1>1, <2>1
  <2>5. w.item \in Item /\ w.item.len \in Nat /\ Append(t, w.item) # <<>>
    <3>1. w.item \in Item
      BY <2>2 DEF UrxWriter
    <3>2. Append(t, w.item) # <<>>
      BY <1>2, <3>1, QueueOps
    <3> QED BY <3>1, <3>2 DEF Item
  <2>6. PICK k \in Int : k = n - h.len + w.item.len /\ Summed(Append(t, w.item), k)
    BY <1>2, <1>5, <2>5, SumAppend
  <2>7. Counted(k)'
    <3>1. CASE w.owner = "rx"
      <4>1. urx.cur_size = n + w.item.len
        BY <1>4, <2>3, <3>1 DEF Counted
      <4>2. size = k
        BY <1>3, <2>5, <2>6, <4>1 DEF size
      <4>3. \A i \in DOMAIN urx'.writers : urx'.writers[i].owner # "rx"
        BY <2>3, <2>4, <3>1 DEF WritersAgree
      <4> QED BY <2>4, <4>2, <4>3 DEF Counted
    <3>2. CASE w.owner # "rx"
      <4>1. w.item.len = 0
        BY <2>3, <3>2 DEF UrxInv
      <4>2. k = n - h.len
        BY <1>5, <2>6, <4>1
      <4>3. ASSUME NEW i \in DOMAIN urx'.writers, urx'.writers[i].owner = "rx"
            PROVE  urx'.cur_size = k + urx'.writers[i].item.len
        <5>1. /\ i + 1 \in DOMAIN urx.writers /\ urx.writers[i + 1].owner = "rx"
              /\ urx'.writers[i] = urx.writers[i + 1]
          BY <2>3, <2>4, <4>3
        <5>2. urx.cur_size = n + urx.writers[i + 1].item.len
          BY <1>4, <5>1 DEF Counted
        <5>3. urx.writers[i + 1].item.len \in Nat
          BY <1>1, <5>1, WriterItem
        <5>4. urx'.writers[i].item.len = urx.writers[i + 1].item.len /\ urx'.cur_size = size
          BY <2>4, <5>1
        <5> DEFINE l == urx.writers[i + 1].item.len
        <5> HIDE DEF l
        <5>5. size = k + l
          BY <1>3, <4>2, <5>2, <5>3 DEF size, l
        <5> QED BY <5>4, <5>5 DEF l
      <4>4. ASSUME \A i \in DOMAIN urx'.writers : urx'.writers[i].owner # "rx"
            PROVE  urx'.cur_size = k
        <5>1. ASSUME NEW j \in DOMAIN urx.writers, urx.writers[j].owner = "rx"
              PROVE  FALSE
          <6>1. j # 1
            BY <2>3, <3>2, <5>1
          <6>2. j - 1 \in DOMAIN Tail(urx.writers) /\ Tail(urx.writers)[j - 1] = urx.writers[j]
            BY <1>1, <2>1, <6>1
          <6> QED BY <2>4, <4>4, <5>1, <6>2
        <5>2. urx.cur_size = n
          BY <1>4, <5>1 DEF Counted
        <5> QED BY <2>4, <4>2, <5>2 DEF size
      <4> QED BY <4>3, <4>4 DEF Counted
    <3> QED BY <3>1, <3>2
  <2>8. \A i \in DOMAIN urx'.writers :
          /\ urx'.writers[i].item.len < MaxSize
          /\ urx'.writers[i].owner # "rx" => urx'.writers[i].item.len = 0
    BY <2>3, <2>4 DEF UrxInv
  <2>9. NoStall'
    BY <1>6, <2>4, <2>5 DEF NoStall
  <2> QED BY <2>4, <2>6, <2>7, <2>8, <2>9 DEF UrxInv
<1>8. CASE ~WakesWriter(size)
  <2>1. /\ urx' = [urx EXCEPT !.q = t, !.cur_size = size]
    BY <1>8 DEF ReadTakes
  <2>2. urx.writers = <<>> \/ ~(size < MaxSize)
    BY <1>8 DEF WakesWriter
  <2> HIDE DEF h, t, size
  <2>3. urx'.q = t /\ urx'.writers = urx.writers /\ urx'.cur_size = size /\ urx'.readers = urx.readers
    BY <1>1, <2>1
  <2>4. PICK k \in Int : k = n - h.len /\ Summed(t, k)
    BY <1>5
  <2>5. Counted(k)'
    <3>1. ASSUME NEW i \in DOMAIN urx.writers, urx.writers[i].owner = "rx"
          PROVE  size = k + urx.writers[i].item.len
      <4>1. urx.cur_size = n + urx.writers[i].item.len
        BY <1>4, <3>1 DEF Counted
      <4>2. urx.writers[i].item.len \in Nat
        BY <1>1, WriterItem
      <4> QED BY <1>3, <2>4, <4>1, <4>2 DEF size
    <3>2. (\A i \in DOMAIN urx.writers : urx.writers[i].owner # "rx") => size = k
      BY <1>4, <2>4 DEF Counted, size
    <3> QED BY <2>3, <3>1, <3>2 DEF Counted
  <2>6. ASSUME t = <<>>, urx.writers # <<>> PROVE FALSE
    <3>1. k = 0
      BY <2>4, <2>6, SumEmpty
    <3>2. size = 0 \/ \E i \in DOMAIN urx.writers : size = urx.writers[i].item.len
      <4>1. CASE \E i \in DOMAIN urx.writers : urx.writers[i].owner = "rx"
        <5>1. PICK i \in DOMAIN urx.writers : urx.writers[i].owner = "rx"
          BY <4>1
        <5>2. size = k + urx.writers[i].item.len
          BY <2>3, <2>5, <5>1 DEF Counted
        <5>3. urx.writers[i].item.len \in Nat
          BY <1>1, WriterItem
        <5> QED BY <3>1, <5>2, <5>3
      <4>2. CASE \A i \in DOMAIN urx.writers : urx.writers[i].owner # "rx"
        BY <2>3, <2>5, <3>1, <4>2 DEF Counted
      <4> QED BY <4>1, <4>2
    <3>3. size < MaxSize
      BY <3>2 DEF UrxInv, SmallSegs
    <3> QED BY <2>2, <2>6, <3>3
  <2>7. NoStall'
    BY <1>6, <2>3, <2>6 DEF NoStall
  <2> QED BY <2>3, <2>4, <2>5, <2>7 DEF UrxInv
<1> QED BY <1>7, <1>8

LEMMA UrxSteps == SmallSegs /\ IInv /\ StallInv /\ [Next]_vars => UrxInv'
<1> SUFFICES ASSUME SmallSegs, IInv, StallInv, [Next]_vars PROVE UrxInv'
  OBVIOUS
<1>1. TypeOK /\ WritersAgree /\ UrxInv /\ SmallInv
  BY DEF IInv, ThreadsAgree, StallInv
<1>2. CASE UNCHANGED urx
  BY <1>1, <1>2 DEF UrxInv, NoStall, Counted
<1>3. CASE RxQueue
  <2>1. PICK hd \in rx.rest : AddR(hd, "rx")
    BY <1>3 DEF RxQueue
  <2>2. hd \in SmallItem /\ rx.pc # "blocked"
    BY <1>1, <1>3, <2>1 DEF RxQueue, SmallInv
  <2> QED BY <1>1, <2>1, <2>2, AddRUrx
<1>4. CASE RxEof
  BY <1>1, <1>4, AddRUrx, SmallTypes DEF RxEof
<1>5. CASE KeepaliveClose
  BY <1>1, <1>5, AddRUrx, SmallTypes DEF KeepaliveClose
<1>6. CASE ReadTakes
  BY <1>1, <1>6, ReadTakesUrx
<1>7. CASE ReadWaits
  <2>1. urx.q = <<>> /\ urx' = [urx EXCEPT !.readers = @ + 1]
    BY <1>7 DEF ReadWaits
  <2>2. urx'.q = urx.q /\ urx'.writers = urx.writers /\ urx'.cur_size = urx.cur_size
    BY <1>1, <2>1 DEF TypeOK
  <2> QED BY <1>1, <2>1, <2>2 DEF UrxInv, NoStall, Counted
<1>8. CASE CancelRead
  <2>1. urx.readers > 0 /\ urx' = [urx EXCEPT !.readers = @ - 1]
    BY <1>8 DEF CancelRead
  <2>2. urx'.q = urx.q /\ urx'.writers = urx.writers /\ urx'.cur_size = urx.cur_size
    BY <1>1, <2>1 DEF TypeOK
  <2> QED BY <1>1, <2>1, <2>2 DEF UrxInv, NoStall, Counted
<1>9. (\E s \in PeerSegs : Input(s)) \/ PutEof \/ RxData \/ RxLoop \/ TxThread \/ Transmit
        \/ UNCHANGED vars => UNCHANGED urx
  BY DEF Input, InputOk, InputChallenge, InputReset, PutEof, RxData, RxLoop, TxThread, SendEmptyAck,
         EmptyAckSent, Notify, Transmit, Output, OutputSent, Retransmit, rxVars, vars
<1> QED BY <1>2, <1>3, <1>4, <1>5, <1>6, <1>7, <1>8, <1>9 DEF Next, RxThread, App

\* The application's buffer does not stall (User_buffer.Rx): while Flow.Rx.thread is
\* blocked at it there is something to read, and no reader waits for what is there.
\* A segment as large as the window could make it stall: its payload, blocked, would
\* keep cur_size from falling under the buffer's size with nothing left to read.
THEOREM NeverStalls == SmallSegs => (Spec => []NoStall)
<1> SUFFICES ASSUME SmallSegs PROVE Spec => []NoStall
  OBVIOUS
<1>1. Init => StallInv
  BY InitStall
<1>2. IInv /\ StallInv /\ [Next]_vars => StallInv'
  <2> SUFFICES ASSUME IInv, StallInv, [Next]_vars PROVE StallInv'
    OBVIOUS
  <2>1. SmallInv'
    BY SmallInputs, SmallSteps DEF IInv, StallInv, Next
  <2>2. UrxInv'
    BY UrxSteps
  <2> QED BY <2>1, <2>2 DEF StallInv
<1>3. StallInv => NoStall
  BY DEF StallInv, UrxInv
<1> QED BY <1>1, <1>2, <1>3, Inductive, PTL DEF Spec

-----------------------------------------------------------------------------
(* The end of the stream is not lost.                                      *)

\* What waits in segs is of the stream, once each, and rx_nxt_inseq is in it.
PlaceInv == Single(segs) /\ rx_nxt_inseq \in Places

\* The application is about to be told of the end, by a value in the mvar m, or by an
\* input whose put into m returns.
Ends(m) == \E i \in DOMAIN Through(m) : Through(m)[i].eof
Fins(m) == \E i \in DOMAIN m.writers : m.writers[i].fin

\* Flow.Rx.thread is blocked with the end.
EofBlocked ==
    \E i \in DOMAIN urx.writers : urx.writers[i].owner = "rx" /\ urx.writers[i].item = Eof

Told == eof_puts > 0 \/ Ends(rx_data) \/ Fins(rx_data) \/ EofBlocked \/ rx.pc = "done"

\* FinTold says no more of a blocked Flow.Rx.thread than that it is blocked; it
\* would not do to know only that when the thread goes on.
FinInv == PlaceInv /\ (rx_nxt_inseq > FinSeq => Told)

LEMMA InTail ==
    ASSUME NEW V, NEW q \in Seq(V), NEW i \in DOMAIN q, i # 1
    PROVE  i - 1 \in DOMAIN Tail(q) /\ Tail(q)[i - 1] = q[i] /\ q # <<>>
  OBVIOUS

LEMMA EofValueEnds == EofValue.eof /\ ~ChallengeValue.eof /\ Eof.seq = FinSeq
  BY DEF EofValue, ChallengeValue, Eof

LEMMA PutEnds ==
    ASSUME NEW m, IsMvar(m, RxValue), NEW v \in RxValue
    PROVE  /\ IsMvar(Put(m, v), RxValue)
           /\ Ends(m) => Ends(Put(m, v))
           /\ v.eof => Ends(Put(m, v))
           /\ Fins(m) => Fins(Put(m, v))
           /\ PutBlocks(m) /\ v.fin => Fins(Put(m, v))
<1> DEFINE p == Put(m, v)
           t == Through(m)
<1>1. Through(p) = Append(t, v) /\ t \in Seq(RxValue)
  BY ThroughPut, ThroughType
<1>2. IsMvar(p, RxValue) /\ p.writers = IF PutBlocks(m) THEN Append(m.writers, v) ELSE m.writers
  BY PutEffect
<1>3. m.writers \in Seq(RxValue)
  BY ThroughType
<1> HIDE DEF p, t
<1>4. /\ DOMAIN Append(t, v) = DOMAIN t \cup {Len(t) + 1}
      /\ \A i \in DOMAIN t : Append(t, v)[i] = t[i]
      /\ Append(t, v)[Len(t) + 1] = v
      /\ DOMAIN Append(m.writers, v) = DOMAIN m.writers \cup {Len(m.writers) + 1}
      /\ \A i \in DOMAIN m.writers : Append(m.writers, v)[i] = m.writers[i]
      /\ Append(m.writers, v)[Len(m.writers) + 1] = v
  BY <1>1, <1>3
<1>5. (Ends(m) => Ends(p)) /\ (v.eof => Ends(p))
  BY <1>1, <1>4 DEF Ends, t
<1>6. (Fins(m) => Fins(p)) /\ (PutBlocks(m) /\ v.fin => Fins(p))
  BY <1>2, <1>4 DEF Fins
<1> QED BY <1>2, <1>5, <1>6 DEF p

LEMMA TakeEnds ==
    ASSUME NEW m, IsMvar(m, RxValue), m.handed = <<>>
    PROVE  /\ Ends(m) => Ends(Take(m))
           /\ Fins(m) => Fins(Take(m)) \/ \E i \in DOMAIN Admitted(m) : Admitted(m)[i].fin
<1>1. Ends(m) => Ends(Take(m))
  BY ThroughTake DEF Ends
<1>2. ASSUME NEW i \in DOMAIN m.writers, m.writers[i].fin
      PROVE  Fins(Take(m)) \/ \E j \in DOMAIN Admitted(m) : Admitted(m)[j].fin
  <2>1. m.writers \in Seq(RxValue) /\ m.writers # <<>> /\ m.contents # <<>>
    <3>1. m.writers \in Seq(RxValue)
      BY ThroughType
    <3>2. m.writers # <<>>
      BY <1>2
    <3> QED BY <3>1, <3>2 DEF IsMvar
  <2>2. CASE i = 1
    <3>1. Admitted(m) = <<Head(m.writers)>> /\ Head(m.writers) = m.writers[1]
      BY <2>1, HeadTailProperties DEF Admitted
    <3>2. 1 \in DOMAIN Admitted(m) /\ Admitted(m)[1] = m.writers[1]
      BY <3>1
    <3> QED BY <1>2, <2>2, <3>2
  <2>3. CASE i # 1
    <3>1. Take(m).writers = Tail(m.writers)
      BY <2>1, TakeEffect
    <3>2. i - 1 \in DOMAIN Tail(m.writers) /\ Tail(m.writers)[i - 1] = m.writers[i]
      BY <2>1, <2>3
    <3> QED BY <1>2, <3>1, <3>2 DEF Fins
  <2> QED BY <2>2, <2>3
<1> QED BY <1>1, <1>2 DEF Fins

LEMMA ConsumeEnds ==
    ASSUME NEW m, IsMvar(m, RxValue), m.handed # <<>>, ~Head(m.handed).eof
    PROVE  /\ Ends(m) => Ends(Consume(m))
           /\ Fins(m) => Fins(Consume(m))
<1> DEFINE t == Through(m)
<1>1. Len(m.handed) > 0
  BY ThroughType, EmptySeq, LenProperties
<1>2. t # <<>> /\ t[1] = Head(m.handed) /\ Through(Consume(m)) = Tail(t) /\ t \in Seq(RxValue)
  BY <1>1, ThroughType, ThroughConsume
<1>3. ASSUME NEW i \in DOMAIN t, t[i].eof PROVE Ends(Consume(m))
  <2> HIDE DEF t
  <2>1. i # 1
    BY <1>2, <1>3
  <2>2. i - 1 \in DOMAIN Tail(t) /\ Tail(t)[i - 1] = t[i]
    BY <1>2, <2>1, InTail
  <2> QED BY <1>2, <1>3, <2>2 DEF Ends
<1>4. Fins(m) => Fins(Consume(m))
  BY ConsumeEffect DEF Fins
<1> QED BY <1>3, <1>4 DEF Ends

\* A value on its way through an mvar is in one of its three places.
LEMMA ThroughPlaces ==
    ASSUME NEW V, NEW m, IsMvar(m, V), NEW i \in DOMAIN Through(m)
    PROVE  \E q \in {m.handed, m.contents, m.writers} : \E j \in DOMAIN q : q[j] = Through(m)[i]
<1> DEFINE h == m.handed
           c == m.contents
           w == m.writers
           hc == h \o c
<1>1. h \in Seq(V) /\ c \in Seq(V) /\ w \in Seq(V) /\ hc \in Seq(V) /\ Through(m) = hc \o w
  BY ThroughType DEF Through
<1>2. /\ Len(hc) = Len(h) + Len(c)
      /\ \A k \in 1..(Len(h) + Len(c)) : hc[k] = IF k <= Len(h) THEN h[k] ELSE c[k - Len(h)]
  BY <1>1, ConcatProperties
<1> SUFFICES \E q \in {h, c, w} : \E j \in DOMAIN q : q[j] = Through(m)[i]
  OBVIOUS
<1> HIDE DEF h, c, w, hc
<1>3. /\ Len(Through(m)) = Len(hc) + Len(w) /\ DOMAIN Through(m) = 1..(Len(hc) + Len(w))
      /\ \A k \in 1..(Len(hc) + Len(w)) :
           Through(m)[k] = IF k <= Len(hc) THEN hc[k] ELSE w[k - Len(hc)]
  <2>1. hc \o w \in Seq(V) /\ Len(hc \o w) = Len(hc) + Len(w)
        /\ \A k \in 1..(Len(hc) + Len(w)) :
             (hc \o w)[k] = IF k <= Len(hc) THEN hc[k] ELSE w[k - Len(hc)]
    BY <1>1, ConcatProperties
  <2>2. DOMAIN (hc \o w) = 1..(Len(hc) + Len(w))
    BY <2>1, LenProperties
  <2> QED BY <1>1, <2>1, <2>2
<1>4. Len(h) \in Nat /\ Len(c) \in Nat /\ Len(w) \in Nat
      /\ DOMAIN h = 1..Len(h) /\ DOMAIN c = 1..Len(c) /\ DOMAIN w = 1..Len(w)
  BY <1>1, LenProperties
<1>5. CASE i <= Len(h)
  <2>1. i \in DOMAIN h /\ h[i] = Through(m)[i]
    BY <1>2, <1>3, <1>4, <1>5
  <2> QED BY <2>1
<1>6. CASE i > Len(h) /\ i <= Len(hc)
  <2>1. i - Len(h) \in DOMAIN c /\ c[i - Len(h)] = Through(m)[i]
    BY <1>2, <1>3, <1>4, <1>6
  <2> QED BY <2>1
<1>7. CASE i > Len(hc)
  <2>1. i - Len(hc) \in DOMAIN w /\ w[i - Len(hc)] = Through(m)[i]
    BY <1>2, <1>3, <1>4, <1>7
  <2> QED BY <2>1
<1> QED BY <1>2, <1>3, <1>4, <1>5, <1>6, <1>7

LEMMA FinInvTold == IInv /\ FinInv => FinTold
<1> SUFFICES ASSUME IInv, FinInv, rx_nxt_inseq > FinSeq
             PROVE  \/ eof_puts > 0
                    \/ rx.pc \in {"blocked", "done"}
                    \/ \E q \in {rx_data.handed, rx_data.contents, rx_data.writers} :
                          \E i \in DOMAIN q : q[i].eof \/ q[i].fin
  BY DEF FinTold
<1>1. CASE Ends(rx_data)
  <2>1. PICK i \in DOMAIN Through(rx_data) : Through(rx_data)[i].eof
    BY <1>1 DEF Ends
  <2>2. IsMvar(rx_data, RxValue)
    BY DEF IInv, TypeOK
  <2> QED BY <2>1, <2>2, ThroughPlaces
<1>2. CASE Fins(rx_data)
  BY <1>2 DEF Fins
<1>3. CASE EofBlocked
  BY <1>3 DEF EofBlocked, IInv, ThreadsAgree, WritersAgree
<1> QED BY <1>1, <1>2, <1>3 DEF FinInv, Told

LEMMA InitPlace == Init => PlaceInv
  BY FirstInt, ReceiveAssumption DEF Init, PlaceInv, Single, Places, FinSeq

LEMMA InitFin == Init => FinInv
<1> SUFFICES ASSUME Init PROVE FinInv
  OBVIOUS
<1>1. rx_nxt_inseq = First /\ First <= FinSeq /\ First \in Int /\ FinSeq \in Int
  BY FirstInt, ReceiveAssumption DEF Init, FinSeq
<1> QED BY <1>1, InitPlace DEF FinInv

\* What an input does, when the segments that wait are in their places.
LEMMA InputOkPlace ==
    ASSUME ShortStream, PeerStops, TypeOK, PlaceInv, NEW s \in PeerSegs, InputOk(s)
    PROVE  /\ PlaceInv'
           /\ \E v \in RxValue :
                /\ ~v.eof /\ v.adv \in Nat /\ rx_nxt_inseq' = rx_nxt_inseq + v.adv
                /\ Tiles(v.data, Bytes(rx_nxt_inseq), Bytes(rx_nxt_inseq'))
                /\ Ordered(v.data)
                /\ v.fin => rx_nxt_inseq <= FinSeq /\ rx_nxt_inseq' = FinSeq + 1
                /\ QuietAfterFin /\ rx_nxt_inseq <= FinSeq /\ rx_nxt_inseq' > FinSeq => v.fin
                /\ rx_data' = IF v.fin /\ ~PutBlocks(rx_data)
                              THEN Put(Put(rx_data, v), EofValue) ELSE Put(rx_data, v)
<1> DEFINE set == Add(s, segs)
           n   == rx_nxt_inseq
<1>1. segs \subseteq InPeer /\ n \in Places
  BY DEF PlaceInv, Single
<1>2. set \subseteq InPeer
  BY <1>1, InputOkShape
<1>3. PICK ready \in SUBSET set :
      \E winadv \in Advances(ready, n), v \in RxValue :
        /\ IsReady(ready, set, n)
        /\ v.data = Payloads(ready) /\ ~v.eof /\ (v.fin <=> Fin(ready))
        /\ winadv >= 0 => v.adv = winadv
        /\ segs' = Waiting(set, ready, n)
        /\ rx_nxt_inseq' = n + winadv
        /\ rx_data' = IF Fin(ready) /\ ~PutBlocks(rx_data)
                      THEN Put(Put(rx_data, v), EofValue) ELSE Put(rx_data, v)
  BY <1>1, InputOkShape
<1>4. PICK winadv \in Advances(ready, n), v \in RxValue :
        /\ IsReady(ready, set, n)
        /\ v.data = Payloads(ready) /\ ~v.eof /\ (v.fin <=> Fin(ready))
        /\ winadv >= 0 => v.adv = winadv
        /\ segs' = Waiting(set, ready, n)
        /\ rx_nxt_inseq' = n + winadv
        /\ rx_data' = IF Fin(ready) /\ ~PutBlocks(rx_data)
                      THEN Put(Put(rx_data, v), EofValue) ELSE Put(rx_data, v)
  BY <1>3
<1>5. Single(set)
  <2>1. ASSUME NEW t \in set, NEW u \in set, Compare(t.seq, u.seq) = 0
        PROVE  t = u
    <3>1. CASE \E x \in segs : Compare(s.seq, x.seq) = 0
      BY <2>1, <3>1 DEF Add, PlaceInv, Single
    <3>2. CASE ~\E x \in segs : Compare(s.seq, x.seq) = 0
      <4>1. set = segs \cup {s}
        BY <3>2 DEF Add
      <4>2. CASE t \in segs /\ u \in segs
        BY <2>1, <4>2 DEF PlaceInv, Single
      <4>3. CASE t = s /\ u \in segs
        BY <2>1, <3>2, <4>3
      <4>4. CASE t \in segs /\ u = s
        <5>1. Compare(s.seq, t.seq) = 0
          <6>1. t.seq \in Int /\ s.seq \in Int
            BY <4>4, PeerSegType DEF TypeOK
          <6> QED BY <2>1, <4>4, <6>1, CompareOrder
        <5> QED BY <3>2, <4>4, <5>1
      <4> QED BY <4>1, <4>2, <4>3, <4>4
    <3> QED BY <3>1, <3>2
  <2> QED BY <1>2, <2>1 DEF Single
<1>6. /\ winadv \in Nat /\ n + winadv \in Places
      /\ Tiles(Payloads(ready), Bytes(n), Bytes(n + winadv))
      /\ Fin(ready) => n <= FinSeq /\ n + winadv = FinSeq + 1
      /\ QuietAfterFin /\ n <= FinSeq /\ n + winadv > FinSeq => Fin(ready)
      /\ Ordered(Payloads(ready))
  <2> HIDE DEF set, n
  <2> QED BY <1>1, <1>4, <1>5, InputAdvance, PayloadsOrdered
<1>7. v.adv = winadv
  BY <1>4, <1>6
<1>8. PlaceInv'
  <2>1. segs' \subseteq set
    BY <1>4 DEF Waiting
  <2> HIDE DEF set
  <2>2. Single(segs')
    BY <1>5, <2>1 DEF Single
  <2>3. rx_nxt_inseq' \in Places
    BY <1>4, <1>6
  <2> QED BY <2>2, <2>3 DEF PlaceInv, Single
<1> HIDE DEF set
<1> QED BY <1>4, <1>6, <1>7, <1>8

\* The other actions leave rx_nxt_inseq alone, and segs or forget them.
LEMMA PlaceSteps ==
    ASSUME PlaceInv, [Next]_vars, ~\E s \in PeerSegs : InputOk(s)
    PROVE  PlaceInv' /\ rx_nxt_inseq' = rx_nxt_inseq
<1>1. rx_nxt_inseq' = rx_nxt_inseq /\ segs' \in {segs, {}}
  BY DEF Next, Input, InputChallenge, InputReset, PutEof, RxThread, RxData, RxQueue, RxLoop, RxEof,
         TxThread, SendEmptyAck, EmptyAckSent, Notify, Transmit, Output, OutputSent, Retransmit, rxVars,
         App, ReadWaits, ReadTakes, CancelRead, KeepaliveClose, vars
<1> QED BY <1>1 DEF PlaceInv, Single

LEMMA PlaceStep ==
    ASSUME ShortStream, PeerStops, IInv, PlaceInv, [Next]_vars
    PROVE  PlaceInv'
  BY InputOkPlace, PlaceSteps DEF IInv

\* add_r leaves the writers that are blocked where they are.
LEMMA AddRBlocked ==
    ASSUME TypeOK, NEW item \in Item, NEW owner \in {"rx", "keepalive"}, AddR(item, owner)
    PROVE  /\ EofBlocked => EofBlocked'
           /\ AddBlocks /\ owner = "rx" /\ item = Eof => EofBlocked'
<1> DEFINE w == [owner |-> owner, item |-> item]
<1>1. urx.writers \in Seq(UrxWriter)
      /\ urx \in [q : Seq(Item), writers : Seq(UrxWriter), readers : Nat, cur_size : Int]
  BY DEF TypeOK
<1>2. w \in UrxWriter /\ w.owner = owner /\ w.item = item
  BY DEF UrxWriter
<1>3. CASE AddBlocks
  <2>1. urx'.writers = Append(urx.writers, w)
    BY <1>1, <1>3 DEF AddR
  <2> HIDE DEF w
  <2>2. /\ DOMAIN urx'.writers = DOMAIN urx.writers \cup {Len(urx.writers) + 1}
        /\ \A i \in DOMAIN urx.writers : urx'.writers[i] = urx.writers[i]
        /\ urx'.writers[Len(urx.writers) + 1] = w
    BY <1>1, <1>2, <2>1
  <2>3. EofBlocked => EofBlocked'
    BY <2>2 DEF EofBlocked
  <2>4. Eof' = Eof
    BY DEF Eof, FinSeq, First
  <2> QED BY <1>2, <2>2, <2>3 DEF EofBlocked
<1>4. CASE ~AddBlocks
  <2>1. urx'.writers = urx.writers
    BY <1>1, <1>4 DEF AddR
  <2> QED BY <1>4, <2>1 DEF EofBlocked
<1> QED BY <1>3, <1>4

\* A blocked Flow.Rx.thread that a read lets go on has queued what it was blocked
\* with: the end of the stream, if that was it.
LEMMA ReadTakesEof ==
    ASSUME TypeOK, WritersAgree, ReadTakes, EofBlocked
    PROVE  EofBlocked' \/ rx'.pc = "done"
<1> DEFINE size == urx.cur_size - Head(urx.q).len
           w    == Head(urx.writers)
<1>1. PICK i \in DOMAIN urx.writers : urx.writers[i].owner = "rx" /\ urx.writers[i].item = Eof
  BY DEF EofBlocked
<1>2. /\ urx.writers \in Seq(UrxWriter) /\ urx.writers # <<>>
      /\ urx \in [q : Seq(Item), writers : Seq(UrxWriter), readers : Nat, cur_size : Int]
      /\ rx \in [pc : {"take", "ack", "queue", "blocked", "done"}, rest : SUBSET Item]
  BY <1>1 DEF TypeOK
<1>3. w = urx.writers[1] /\ Eof' = Eof
  BY <1>2, HeadTailProperties DEF Eof, FinSeq, First
<1>4. CASE WakesWriter(size)
  <2>1. /\ urx' = [urx EXCEPT !.q = Append(Tail(@), w.item), !.writers = Tail(@), !.cur_size = size]
        /\ rx' = IF w.owner = "rx"
                 THEN [rx EXCEPT !.pc = IF w.item = Eof THEN "done" ELSE "queue"]
                 ELSE rx
    BY <1>4 DEF ReadTakes
  <2>2. urx'.writers = Tail(urx.writers)
    BY <1>2, <2>1
  <2> HIDE DEF w, size
  <2>3. CASE i = 1
    <3>1. rx' = [rx EXCEPT !.pc = "done"]
      BY <1>1, <1>3, <2>1, <2>3
    <3> QED BY <1>2, <3>1
  <2>4. CASE i # 1
    <3>1. i - 1 \in DOMAIN urx'.writers /\ urx'.writers[i - 1] = urx.writers[i]
      BY <1>2, <2>2, <2>4, InTail
    <3> QED BY <1>1, <1>3, <3>1 DEF EofBlocked
  <2> QED BY <2>3, <2>4
<1>5. CASE ~WakesWriter(size)
  <2>1. urx' = [urx EXCEPT !.q = Tail(@), !.cur_size = size]
    BY <1>5 DEF ReadTakes
  <2>2. urx'.writers = urx.writers
    BY <1>2, <2>1
  <2> QED BY <1>1, <1>3, <2>2 DEF EofBlocked
<1> QED BY <1>4, <1>5

LEMMA ToldSteps ==
    ASSUME IInv, Told, [Next]_vars, ~\E s \in PeerSegs : InputOk(s)
    PROVE  Told'
<1>1. /\ TypeOK /\ WritersAgree /\ ThreadsAgree
      /\ IsMvar(rx_data, RxValue) /\ eof_puts \in Nat /\ Eof' = Eof
      /\ EofValue \in RxValue /\ ChallengeValue \in RxValue /\ EofValue.eof
      /\ \A pc \in {"take", "ack", "queue", "blocked", "done"} : [rx EXCEPT !.pc = pc].pc = pc
  BY ValueType, EofValueEnds, RxType DEF IInv, ThreadsAgree, TypeOK, Eof, FinSeq, First
<1>2. CASE \E s \in PeerSegs : InputChallenge(s)
  <2>1. rx_data' = Put(rx_data, ChallengeValue) /\ UNCHANGED <<eof_puts, urx, rx>>
    BY <1>2 DEF InputChallenge
  <2> QED BY <1>1, <2>1, PutEnds DEF Told, EofBlocked, Ends, Fins
<1>3. CASE \E s \in PeerSegs : InputReset(s)
  <2>1. \/ rx_data' = Put(rx_data, EofValue)
        \/ eof_puts' = eof_puts + 1
    BY <1>3 DEF InputReset
  <2>2. CASE rx_data' = Put(rx_data, EofValue)
    BY <1>1, <2>2, PutEnds DEF Told, Ends
  <2>3. CASE eof_puts' = eof_puts + 1
    BY <1>1, <2>3 DEF Told
  <2> QED BY <2>1, <2>2, <2>3
<1>4. CASE PutEof
  <2>1. rx_data' = Put(rx_data, EofValue)
    BY <1>4 DEF PutEof
  <2> QED BY <1>1, <2>1, PutEnds DEF Told, Ends
<1>5. CASE RxData
  <2>1. /\ rx_data' = Consume(rx_data) /\ rx_data.handed # <<>> /\ ~Head(rx_data.handed).eof
        /\ UNCHANGED <<eof_puts, urx>> /\ rx.pc = "take"
    BY <1>5 DEF RxData
  <2> QED BY <1>1, <2>1, ConsumeEnds DEF Told, EofBlocked, Ends, Fins
<1>6. CASE RxQueue
  <2>1. PICK hd \in rx.rest : AddR(hd, "rx")
    BY <1>6 DEF RxQueue
  <2>2. hd \in Item /\ UNCHANGED <<rx_data, eof_puts>> /\ rx.pc = "queue"
    BY <1>1, <1>6 DEF RxQueue, TypeOK
  <2> QED BY <1>1, <2>1, <2>2, AddRBlocked DEF Told, Ends, Fins
<1>7. CASE RxLoop
  <2>1. /\ rx_data' = Take(rx_data) /\ rx_data.handed = <<>> /\ UNCHANGED urx /\ rx.pc = "queue"
        /\ eof_puts' = IF \E i \in DOMAIN Admitted(rx_data) : Admitted(rx_data)[i].fin
                       THEN eof_puts + 1 ELSE eof_puts
    BY <1>1, <1>7 DEF RxLoop, ThreadsAgree
  <2> QED BY <1>1, <2>1, TakeEnds DEF Told, EofBlocked, Ends, Fins
<1>8. CASE RxEof
  <2>1. AddR(Eof, "rx") /\ rx' = [rx EXCEPT !.pc = IF AddBlocks THEN "blocked" ELSE "done"]
    BY <1>8 DEF RxEof
  <2>2. CASE AddBlocks
    BY <1>1, <2>1, <2>2, AddRBlocked, FirstInt DEF Told
  <2>3. CASE ~AddBlocks
    BY <1>1, <2>1, <2>3 DEF Told
  <2> QED BY <2>2, <2>3
<1>9. CASE KeepaliveClose
  <2>1. AddR(Eof, "keepalive") /\ UNCHANGED <<rx_data, eof_puts, rx>>
    BY <1>9 DEF KeepaliveClose
  <2> QED BY <1>1, <2>1, AddRBlocked, FirstInt DEF Told, Ends, Fins
<1>10. CASE ReadTakes
  <2>1. UNCHANGED <<rx_data, eof_puts>>
    BY <1>10 DEF ReadTakes
  <2>2. EofBlocked => EofBlocked' \/ rx'.pc = "done"
    BY <1>1, <1>10, ReadTakesEof
  <2>3. rx.pc = "done" => rx'.pc = "done"
    BY <1>1, <1>10, ReadTakesRxOwner
  <2> QED BY <2>1, <2>2, <2>3 DEF Told, Ends, Fins
<1>11. CASE TxThread
  <2>1. UNCHANGED <<rx_data, eof_puts, urx>> /\ (rx.pc = "done" => rx' = rx)
    BY <1>11 DEF TxThread, SendEmptyAck, EmptyAckSent, Notify, rxVars
  <2> QED BY <1>1, <2>1 DEF Told, Ends, Fins, EofBlocked
<1>12. CASE Transmit \/ UNCHANGED vars
  <2>1. UNCHANGED <<rx_data, eof_puts, urx, rx>>
    BY <1>12 DEF Transmit, Output, OutputSent, Retransmit, rxVars, vars
  <2> QED BY <1>1, <2>1 DEF Told, Ends, Fins, EofBlocked
<1>13. CASE ReadWaits \/ CancelRead
  <2>1. UNCHANGED <<rx_data, eof_puts, rx>> /\ urx'.writers = urx.writers
    BY <1>1, <1>13 DEF ReadWaits, CancelRead, TypeOK
  <2> QED BY <1>1, <2>1 DEF Told, Ends, Fins, EofBlocked
<1> QED BY <1>2, <1>3, <1>4, <1>5, <1>6, <1>7, <1>8, <1>9, <1>10, <1>11, <1>12, <1>13
        DEF Next, Input, RxThread, App

LEMMA FinStep == ShortStream /\ QuietAfterFin /\ IInv /\ FinInv /\ [Next]_vars => FinInv'
<1> SUFFICES ASSUME ShortStream, QuietAfterFin, IInv, FinInv, [Next]_vars PROVE FinInv'
  OBVIOUS
<1>1. PlaceInv /\ TypeOK /\ PeerStops
  <2>1. PeerStops
    BY FirstInt, PeerSegType DEF QuietAfterFin, PeerStops, InPeer
  <2> QED BY <2>1 DEF FinInv, IInv
<1>2. CASE \E s \in PeerSegs : InputOk(s)
  <2>1. PICK s \in PeerSegs : InputOk(s)
    BY <1>2
  <2>2. PlaceInv'
    BY <1>1, <2>1, InputOkPlace
  <2>3. PICK v \in RxValue :
          /\ QuietAfterFin /\ rx_nxt_inseq <= FinSeq /\ rx_nxt_inseq' > FinSeq => v.fin
          /\ rx_data' = IF v.fin /\ ~PutBlocks(rx_data)
                        THEN Put(Put(rx_data, v), EofValue) ELSE Put(rx_data, v)
    BY <1>1, <2>1, InputOkPlace
  <2>4. UNCHANGED <<eof_puts, urx, rx>>
    BY <2>1 DEF InputOk
  <2> DEFINE p == Put(rx_data, v)
             e == Put(p, EofValue)
  <2>5. /\ IsMvar(p, RxValue)
        /\ Ends(rx_data) => Ends(p)
        /\ Fins(rx_data) => Fins(p)
        /\ PutBlocks(rx_data) /\ v.fin => Fins(p)
    BY <1>1, PutEnds DEF TypeOK
  <2> HIDE DEF p
  <2>6. /\ Ends(e)
        /\ Fins(p) => Fins(e)
    BY <2>5, ValueType, EofValueEnds, PutEnds
  <2> HIDE DEF e
  <2>7. rx_data' = IF v.fin /\ ~PutBlocks(rx_data) THEN e ELSE p
    BY <2>3 DEF p, e
  <2>8. ASSUME rx_nxt_inseq' > FinSeq PROVE Told'
    <3>1. rx_nxt_inseq <= FinSeq \/ rx_nxt_inseq > FinSeq
      BY <1>1, FirstInt DEF TypeOK
    <3>2. Told \/ v.fin
      BY <2>3, <2>8, <3>1 DEF FinInv
    <3>3. CASE Told
      <4>1. (Ends(rx_data) => Ends(rx_data)') /\ (Fins(rx_data) => Fins(rx_data)')
        BY <2>5, <2>6, <2>7 DEF Ends, Fins
      <4>2. EofBlocked => EofBlocked'
        BY <2>4 DEF EofBlocked, Eof, FinSeq, First
      <4> QED BY <2>4, <3>3, <4>1, <4>2 DEF Told
    <3>4. CASE v.fin
      BY <2>5, <2>6, <2>7, <3>4 DEF Told, Ends, Fins
    <3> QED BY <3>2, <3>3, <3>4
  <2> QED BY <2>2, <2>8 DEF FinInv
<1>3. CASE ~\E s \in PeerSegs : InputOk(s)
  BY <1>1, <1>3, PlaceSteps, ToldSteps DEF FinInv
<1> QED BY <1>2, <1>3

\* The end of the stream is not lost (Segment.Rx.input): whatever order segments,
\* retransmissions, resets, reads and the keepalive timer come in, once the FIN is in
\* sequence the application has been told or some thread is about to tell it.  Only
\* of a peer that sends nothing behind its FIN: an ACK under the number behind the FIN
\* is kept by its sequence number, and when the FIN that comes later is ready with it,
\* it is the last of the ready segments, which is where input looks for a FIN.
THEOREM FinIsTold == ShortStream /\ QuietAfterFin => (Spec => []FinTold)
<1> SUFFICES ASSUME ShortStream, QuietAfterFin PROVE Spec => []FinTold
  OBVIOUS
<1>1. Init => FinInv
  BY InitFin
<1>2. IInv /\ FinInv /\ [Next]_vars => FinInv'
  BY FinStep
<1>3. IInv /\ FinInv => FinTold
  BY FinInvTold
<1> QED BY <1>1, <1>2, <1>3, Inductive, PTL DEF Spec

-----------------------------------------------------------------------------
(* The bytes in sequence.                                                  *)

\* A value for Flow.Rx.thread has the bytes that it advances rx_nxt by, from a to b.
Batch(v, a, b) ==
    /\ b = a + v.adv
    /\ v.eof => v.adv = 0
    /\ Tiles(v.data, Bytes(a), Bytes(b))
    /\ Ordered(v.data)

\* The values of q, one behind the other, have those from a to b.
Laid(q, a, b) ==
    \E cut \in [0..Len(q) -> Int] :
        /\ cut[0] = a /\ cut[Len(q)] = b
        /\ \A i \in 1..Len(q) : Batch(q[i], cut[i - 1], cut[i])

\* The items of d but for Eof are the stream from its first byte to p, in order.
Given(d, p) ==
    \E end \in [0..Len(d) -> Int] :
        /\ end[0] = First /\ end[Len(d)] = p
        /\ \A i \in 1..Len(d) :
              \/ d[i] = Eof /\ end[i] = end[i - 1]
              \/ /\ d[i] # Eof /\ d[i].len > 0
                 /\ d[i].seq = end[i - 1] /\ end[i] = d[i].seq + d[i].len

LEMMA BytesInt == ASSUME NEW n \in Int PROVE Bytes(n) \in Int
  BY FirstInt DEF Bytes

\* The values without data.
LEMMA EmptyBatch ==
    ASSUME NEW n \in Int
    PROVE  Batch(EofValue, n, n) /\ Batch(ChallengeValue, n, n)
<1>1. Bytes(n) \in Int
  BY BytesInt
<1>2. /\ EofValue.adv = 0 /\ EofValue.data = {}
      /\ ChallengeValue.adv = 0 /\ ChallengeValue.data = {}
  BY DEF EofValue, ChallengeValue
<1>3. Tiles({}, Bytes(n), Bytes(n)) /\ Ordered({})
  BY <1>1 DEF Tiles, Ordered
<1> QED BY <1>2, <1>3 DEF Batch

LEMMA LaidEmpty == ASSUME NEW a \in Int PROVE Laid(<<>>, a, a)
<1> DEFINE cut == [i \in 0..0 |-> a]
<1>1. Len(<<>>) = 0 /\ cut \in [0..0 -> Int] /\ cut[0] = a
  OBVIOUS
<1> HIDE DEF cut
<1> QED BY <1>1 DEF Laid

LEMMA LaidAppend ==
    ASSUME NEW q \in Seq(RxValue), NEW v \in RxValue, NEW a \in Int, NEW b \in Int, NEW c \in Int,
           Laid(q, a, b), Batch(v, b, c)
    PROVE  Laid(Append(q, v), a, c)
<1> DEFINE l == Len(q)
           r == Append(q, v)
<1>1. PICK cut \in [0..l -> Int] :
        /\ cut[0] = a /\ cut[l] = b
        /\ \A i \in 1..l : Batch(q[i], cut[i - 1], cut[i])
  BY DEF Laid
<1>2. l \in Nat
  BY LenProperties
<1>3. Len(r) = l + 1 /\ (\A i \in 1..l : r[i] = q[i]) /\ r[l + 1] = v
  BY AppendProperties
<1> DEFINE new == [i \in 0..(l + 1) |-> IF i <= l THEN cut[i] ELSE c]
<1> HIDE DEF l, r
<1>4. /\ new \in [0..(l + 1) -> Int] /\ new[0] = a /\ new[l + 1] = c
      /\ \A i \in 0..l : new[i] = cut[i]
  BY <1>1, <1>2
<1> HIDE DEF new
<1>5. ASSUME NEW i \in 1..(l + 1) PROVE Batch(r[i], new[i - 1], new[i])
  <2>1. CASE i \in 1..l
    <3>1. i \in 0..l /\ i - 1 \in 0..l
      BY <1>2, <2>1
    <3> QED BY <1>1, <1>3, <1>4, <2>1, <3>1
  <2>2. CASE i = l + 1
    <3>1. i - 1 = l /\ l \in 0..l
      BY <1>2, <2>2
    <3> QED BY <1>1, <1>3, <1>4, <2>2, <3>1
  <2> QED BY <1>2, <2>1, <2>2
<1>6. Laid(r, a, c)
  BY <1>3, <1>4, <1>5 DEF Laid
<1> QED BY <1>6 DEF r

LEMMA LaidTail ==
    ASSUME NEW q \in Seq(RxValue), q # <<>>, NEW a \in Int, NEW b \in Int, Laid(q, a, b)
    PROVE  Batch(q[1], a, a + q[1].adv) /\ Laid(Tail(q), a + q[1].adv, b)
<1> DEFINE l == Len(q)
           t == Tail(q)
<1>1. PICK cut \in [0..l -> Int] :
        /\ cut[0] = a /\ cut[l] = b
        /\ \A i \in 1..l : Batch(q[i], cut[i - 1], cut[i])
  BY DEF Laid
<1>2. l \in Nat /\ l > 0
  BY LenProperties, EmptySeq
<1>3. Len(t) = l - 1 /\ \A i \in 1..(l - 1) : t[i] = q[i + 1]
  BY HeadTailProperties
<1> HIDE DEF l, t
<1>4. Batch(q[1], a, a + q[1].adv) /\ cut[1] = a + q[1].adv
  <2>1. 1 \in 1..l /\ 1 - 1 = 0
    BY <1>2
  <2>2. Batch(q[1], cut[0], cut[1])
    BY <1>1, <2>1
  <2>3. cut[1] = cut[0] + q[1].adv
    BY <2>2 DEF Batch
  <2> QED BY <1>1, <2>2, <2>3
<1> DEFINE new == [i \in 0..(l - 1) |-> cut[i + 1]]
<1>5. /\ new \in [0..(l - 1) -> Int]
      /\ \A i \in 0..(l - 1) : new[i] = cut[i + 1]
  BY <1>1, <1>2
<1> HIDE DEF new
<1>6. new[0] = cut[1] /\ new[l - 1] = b
  <2>1. 0 \in 0..(l - 1) /\ l - 1 \in 0..(l - 1) /\ l - 1 + 1 = l /\ 0 + 1 = 1
    BY <1>2
  <2> QED BY <1>1, <1>5, <2>1
<1>7. ASSUME NEW i \in 1..(l - 1) PROVE Batch(t[i], new[i - 1], new[i])
  <2>1. i \in 0..(l - 1) /\ i - 1 \in 0..(l - 1) /\ i + 1 \in 1..l /\ i - 1 + 1 = i /\ i + 1 - 1 = i
    BY <1>2
  <2>2. new[i] = cut[i + 1] /\ new[i - 1] = cut[i] /\ t[i] = q[i + 1]
    BY <1>3, <1>5, <2>1
  <2>3. Batch(q[i + 1], cut[i], cut[i + 1])
    BY <1>1, <2>1
  <2> QED BY <2>2, <2>3
<1>8. Laid(t, cut[1], b)
  BY <1>3, <1>5, <1>6, <1>7 DEF Laid
<1> QED BY <1>4, <1>8 DEF t

LEMMA GivenEmpty == Given(<<>>, First)
<1> DEFINE end == [i \in 0..0 |-> First]
<1>1. Len(<<>>) = 0 /\ end \in [0..0 -> Int] /\ end[0] = First
  BY FirstInt
<1> HIDE DEF end
<1> QED BY <1>1 DEF Given

LEMMA GivenAppend ==
    ASSUME NEW d \in Seq(Item), NEW x \in Item, NEW p \in Int, NEW r \in Int, Given(d, p),
           \/ x = Eof /\ r = p
           \/ x # Eof /\ x.len > 0 /\ x.seq = p /\ r = x.seq + x.len
    PROVE  Given(Append(d, x), r)
<1> DEFINE l == Len(d)
           e == Append(d, x)
<1> DEFINE ok(i, b, c, f) ==
              \/ f[i] = Eof /\ c = b
              \/ /\ f[i] # Eof /\ f[i].len > 0
                 /\ f[i].seq = b /\ c = f[i].seq + f[i].len
<1>1. PICK end \in [0..l -> Int] :
        /\ end[0] = First /\ end[l] = p
        /\ \A i \in 1..l : ok(i, end[i - 1], end[i], d)
  BY DEF Given
<1>2. l \in Nat
  BY LenProperties
<1>3. Len(e) = l + 1 /\ (\A i \in 1..l : e[i] = d[i]) /\ e[l + 1] = x
  BY AppendProperties
<1> DEFINE new == [i \in 0..(l + 1) |-> IF i <= l THEN end[i] ELSE r]
<1> HIDE DEF l, e
<1>4. /\ new \in [0..(l + 1) -> Int] /\ new[0] = First /\ new[l + 1] = r
      /\ \A i \in 0..l : new[i] = end[i]
  BY <1>1, <1>2
<1> HIDE DEF new
<1>5. ASSUME NEW i \in 1..(l + 1) PROVE ok(i, new[i - 1], new[i], e)
  <2>1. CASE i \in 1..l
    <3>1. i \in 0..l /\ i - 1 \in 0..l
      BY <1>2, <2>1
    <3>2. new[i] = end[i] /\ new[i - 1] = end[i - 1] /\ e[i] = d[i]
      BY <1>3, <1>4, <2>1, <3>1
    <3>3. ok(i, end[i - 1], end[i], d)
      BY <1>1, <2>1
    <3> QED BY <3>2, <3>3
  <2>2. CASE i = l + 1
    <3>1. i - 1 = l /\ l \in 0..l
      BY <1>2, <2>2
    <3>2. new[i - 1] = p /\ new[i] = r /\ e[i] = x
      BY <1>1, <1>3, <1>4, <2>2, <3>1
    <3> QED BY <3>2
  <2> QED BY <1>2, <2>1, <2>2
<1>6. Given(e, r)
  <2>1. new \in [0..Len(e) -> Int] /\ new[0] = First /\ new[Len(e)] = r
    BY <1>3, <1>4
  <2>2. \A i \in 1..Len(e) : ok(i, new[i - 1], new[i], e)
    BY <1>3, <1>5
  <2> QED BY <2>1, <2>2 DEF Given
<1> QED BY <1>6 DEF e

\* Of items that are the bytes from a to b the first begins at a, and the others
\* are the bytes behind it.
LEMMA TilesFirst ==
    ASSUME NEW items, items \subseteq Item, NEW a \in Int, NEW b \in Int, Tiles(items, a, b),
           NEW h \in items, \A s \in items \ {h} : h.seq < s.seq
    PROVE  /\ h.seq = a /\ h.len > 0 /\ a + h.len \in Int
           /\ Tiles(items \ {h}, a + h.len, b)
<1>1. \A s \in items : s.seq \in Int /\ s.len \in Nat /\ s.len > 0 /\ a <= s.seq /\ s.seq + s.len <= b
  BY DEF Tiles, Item
<1>2. h.seq = a
  <2>1. a \in a..(b - 1)
    BY <1>1
  <2>2. PICK s \in items : s.seq <= a /\ a < s.seq + s.len
    BY <2>1 DEF Tiles
  <2>3. s.seq = a
    BY <1>1, <2>2
  <2>4. s # h => h.seq < a
    BY <2>3
  <2> QED BY <1>1, <2>3, <2>4
<1> DEFINE m == a + h.len
<1>3. m \in Int /\ m <= b /\ a < m
  BY <1>1, <1>2
<1>4. \A s \in items \ {h} : m <= s.seq
  <2> SUFFICES ASSUME NEW s \in items \ {h} PROVE m <= s.seq
    OBVIOUS
  <2>1. s = h \/ s.seq + s.len <= h.seq \/ h.seq + h.len <= s.seq
    BY DEF Tiles
  <2>2. ~(s.seq + s.len <= a)
    BY <1>1
  <2> QED BY <1>2, <2>1, <2>2
<1>5. ASSUME NEW x \in m..(b - 1) PROVE \E s \in items \ {h} : s.seq <= x /\ x < s.seq + s.len
  <2>1. x \in a..(b - 1) /\ x >= m
    BY <1>3
  <2>2. PICK s \in items : s.seq <= x /\ x < s.seq + s.len
    BY <2>1 DEF Tiles
  <2>3. s # h
    BY <1>2, <1>3, <2>1, <2>2
  <2> QED BY <2>2, <2>3
<1> HIDE DEF m
<1>6. Tiles(items \ {h}, m, b)
  BY <1>1, <1>3, <1>4, <1>5 DEF Tiles
<1> QED BY <1>1, <1>2, <1>3, <1>6 DEF m

\* No items are no bytes.
LEMMA TilesNone ==
    ASSUME NEW a \in Int, NEW b \in Int, Tiles({}, a, b)
    PROVE  a = b
<1>1. a <= b /\ ~(a \in a..(b - 1))
  BY DEF Tiles
<1> QED BY <1>1

\* What waits in rx_data are the bytes from rx_nxt to rx_nxt_inseq.
LaidInv == Laid(Through(rx_data), rx_nxt, rx_nxt_inseq)

\* What is blocked with the keepalive timer is the end; Flow.Rx.thread has no payloads
\* when it takes, and none when it has come to the end.
RestInv ==
    /\ \A i \in DOMAIN urx.writers : urx.writers[i].owner # "rx" => urx.writers[i].item = Eof
    /\ rx.pc \in {"take", "done"} \/ EofBlocked => rx.rest = {}

\* What is blocked and what Flow.Rx.thread has yet to queue are the bytes from the
\* end of what has been delivered, to rx_nxt.
PendingInv ==
    /\ \E p \in Int : Given(Delivered, p) /\ Tiles(rx.rest \cup Blocked, p, Bytes(rx_nxt))
    /\ \A b \in Blocked, s \in rx.rest : b.seq < s.seq
    /\ Ordered(rx.rest)

DeliverInv == LaidInv /\ RestInv /\ PendingInv

LEMMA DeliveredType == TypeOK => Delivered \in Seq(Item)
  BY ConcatProperties DEF TypeOK, Delivered

\* Only Flow.Rx.thread is blocked with a payload.
LEMMA BlockedNone ==
    ASSUME WritersAgree, RestInv, rx.pc # "blocked"
    PROVE  Blocked = {} /\ ~EofBlocked
  BY DEF WritersAgree, RestInv, Blocked, EofBlocked

LEMMA BlockedOne ==
    ASSUME WritersAgree, RestInv, NEW i \in DOMAIN urx.writers, urx.writers[i].owner = "rx"
    PROVE  Blocked = {urx.writers[i].item} \ {Eof}
  BY DEF WritersAgree, RestInv, Blocked

LEMMA InitDeliver == Init => DeliverInv
<1> SUFFICES ASSUME Init PROVE DeliverInv
  OBVIOUS
<1>1. /\ rx_data.handed = <<>> /\ rx_data.contents = <<>> /\ rx_data.writers = <<>>
      /\ rx_nxt = First /\ rx_nxt_inseq = First /\ urx.q = <<>> /\ urx.writers = <<>>
      /\ received = <<>> /\ rx.rest = {}
  BY DEF Init, AwaitedMvar
<1>2. <<>> \o <<>> = <<>> /\ DOMAIN <<>> = {}
  OBVIOUS
<1>3. LaidInv
  <2>1. Through(rx_data) = <<>>
    BY <1>1, <1>2 DEF Through
  <2> QED BY <1>1, <2>1, LaidEmpty, FirstInt DEF LaidInv
<1>4. DOMAIN urx.writers = {} /\ Blocked = {} /\ RestInv
  BY <1>1, <1>2 DEF Blocked, RestInv
<1>5. PendingInv
  <2>1. Delivered = <<>> /\ Given(Delivered, First)
    BY <1>1, <1>2, GivenEmpty DEF Delivered
  <2>2. Bytes(rx_nxt) = First
    BY <1>1, FirstInt, ReceiveAssumption DEF Bytes, FinSeq
  <2>3. Tiles({}, First, First)
    BY FirstInt DEF Tiles
  <2>4. rx.rest \cup Blocked = {}
    BY <1>1, <1>4
  <2> QED BY <1>1, <1>4, <2>1, <2>2, <2>3, <2>4, FirstInt DEF PendingInv, Ordered
<1> QED BY <1>3, <1>4, <1>5 DEF DeliverInv

\* What LaidInv says of the next state.
LEMMA LaidNext ==
    ASSUME Laid(Through(rx_data'), rx_nxt', rx_nxt_inseq')
    PROVE  LaidInv'
  BY DEF LaidInv, Laid, Through, Batch, Bytes, Tiles, Ordered, Before, Compare, Wrap, FinSeq, First

\* A put of a value without data, of no advance.
LEMMA LaidPut ==
    ASSUME TypeOK, LaidInv, NEW v \in {EofValue, ChallengeValue},
           rx_data' = Put(rx_data, v), rx_nxt' = rx_nxt, rx_nxt_inseq' = rx_nxt_inseq
    PROVE  LaidInv'
<1>1. v \in RxValue /\ Through(rx_data) \in Seq(RxValue)
      /\ Through(Put(rx_data, v)) = Append(Through(rx_data), v)
  BY ValueType, ThroughType, ThroughPut DEF TypeOK
<1>2. Batch(v, rx_nxt_inseq, rx_nxt_inseq) /\ rx_nxt \in Int /\ rx_nxt_inseq \in Int
  BY EmptyBatch DEF TypeOK
<1>3. Laid(Append(Through(rx_data), v), rx_nxt, rx_nxt_inseq)
  <2> DEFINE q == Through(rx_data)
  <2>1. q \in Seq(RxValue) /\ Laid(q, rx_nxt, rx_nxt_inseq)
    BY <1>1 DEF LaidInv
  <2> HIDE DEF q
  <2>2. Laid(Append(q, v), rx_nxt, rx_nxt_inseq)
    BY <1>1, <1>2, <2>1, LaidAppend
  <2> QED BY <2>2 DEF q
<1>4. Laid(Through(rx_data'), rx_nxt', rx_nxt_inseq')
  BY <1>1, <1>3
<1> QED BY <1>4, LaidNext

\* An input that is passed on.
LEMMA LaidInput ==
    ASSUME ShortStream, PeerStops, TypeOK, PlaceInv, LaidInv, NEW s \in PeerSegs, InputOk(s)
    PROVE  LaidInv'
<1> DEFINE q == Through(rx_data)
           n == rx_nxt_inseq
           a == rx_nxt
<1>1. PICK v \in RxValue :
        /\ ~v.eof /\ v.adv \in Nat /\ rx_nxt_inseq' = n + v.adv
        /\ Tiles(v.data, Bytes(n), Bytes(rx_nxt_inseq')) /\ Ordered(v.data)
        /\ rx_data' = IF v.fin /\ ~PutBlocks(rx_data)
                      THEN Put(Put(rx_data, v), EofValue) ELSE Put(rx_data, v)
  BY InputOkPlace
<1>2. q \in Seq(RxValue) /\ a \in Int /\ n \in Int /\ n + v.adv \in Int /\ IsMvar(rx_data, RxValue)
  BY <1>1, ThroughType DEF TypeOK
<1>3. Batch(v, n, n + v.adv)
  BY <1>1 DEF Batch
<1>4. Laid(q, a, n)
  BY DEF LaidInv
<1>5. Through(Put(rx_data, v)) = Append(q, v)
  BY <1>2, ThroughPut
<1>6. IsMvar(Put(rx_data, v), RxValue)
  BY <1>2, PutEffect
<1> HIDE DEF q, n, a
<1>7. Laid(Append(q, v), a, n + v.adv)
  BY <1>2, <1>3, <1>4, LaidAppend
<1>8. Through(Put(Put(rx_data, v), EofValue)) = Append(Append(q, v), EofValue)
  <2> DEFINE p == Put(rx_data, v)
  <2>1. IsMvar(p, RxValue) /\ Through(p) = Append(q, v)
    BY <1>5, <1>6
  <2> HIDE DEF p
  <2>2. Through(Put(p, EofValue)) = Append(Append(q, v), EofValue)
    BY <2>1, ValueType, ThroughPut
  <2> QED BY <2>2 DEF p
<1>9. Laid(Append(Append(q, v), EofValue), a, n + v.adv)
  <2> DEFINE r == Append(q, v)
             m == n + v.adv
  <2>1. r \in Seq(RxValue) /\ Laid(r, a, m) /\ m \in Int /\ a \in Int
    BY <1>2, <1>7, QueueOps
  <2> HIDE DEF r, m
  <2>2. Laid(Append(r, EofValue), a, m)
    BY <2>1, ValueType, EmptyBatch, LaidAppend
  <2> QED BY <2>2 DEF r, m
<1>10. Laid(Through(rx_data'), a, rx_nxt_inseq')
  <2> DEFINE m == n + v.adv
             r1 == Append(q, v)
             r2 == Append(r1, EofValue)
             p1 == Put(rx_data, v)
             p2 == Put(p1, EofValue)
  <2>1. Laid(r1, a, m) /\ Laid(r2, a, m) /\ Through(p1) = r1 /\ Through(p2) = r2
        /\ rx_nxt_inseq' = m /\ rx_data' \in {p1, p2}
    BY <1>1, <1>5, <1>7, <1>8, <1>9 DEF n
  <2> HIDE DEF m, r1, r2, p1, p2
  <2> QED BY <2>1
<1>11. rx_nxt' = a
  BY DEF InputOk, a
<1> QED BY <1>10, <1>11 DEF LaidInv, Laid, Batch, Bytes, Tiles, Ordered, Before, FinSeq, First

\* Flow.Rx.thread takes the first value.
LEMMA LaidConsume ==
    ASSUME TypeOK, LaidInv, rx_data.handed # <<>>, rx_data' = Consume(rx_data),
           rx_nxt_inseq' = rx_nxt_inseq,
           rx_nxt' = rx_nxt + Head(rx_data.handed).adv
    PROVE  /\ LaidInv'
           /\ Head(rx_data.handed) \in RxValue
           /\ Batch(Head(rx_data.handed), rx_nxt, rx_nxt')
<1> DEFINE q == Through(rx_data)
           h == Head(rx_data.handed)
<1>1. /\ q \in Seq(RxValue) /\ rx_data.handed \in Seq(RxValue) /\ h \in RxValue
      /\ rx_nxt \in Int /\ rx_nxt_inseq \in Int
  BY ThroughType, QueueOps DEF TypeOK
<1>2. Len(rx_data.handed) > 0
  BY <1>1, EmptySeq, LenProperties
<1>3. q # <<>> /\ q[1] = h /\ Through(Consume(rx_data)) = Tail(q)
  BY <1>2, ThroughConsume DEF TypeOK
<1>4. Laid(q, rx_nxt, rx_nxt_inseq)
  BY DEF LaidInv
<1> HIDE DEF q, h
<1>5. Batch(h, rx_nxt, rx_nxt + h.adv) /\ Laid(Tail(q), rx_nxt + h.adv, rx_nxt_inseq)
  BY <1>1, <1>3, <1>4, LaidTail
<1>6. Laid(Through(rx_data'), rx_nxt', rx_nxt_inseq')
  BY <1>3, <1>5 DEF h
<1> QED BY <1>1, <1>5, <1>6 DEF LaidInv, Laid, Batch, Bytes, Tiles, Ordered, Before, FinSeq, First, h

LEMMA LaidSteps ==
    ASSUME ShortStream, PeerStops, IInv, PlaceInv, LaidInv, [Next]_vars
    PROVE  LaidInv'
<1>1. TypeOK /\ rx_nxt \in Int
  BY DEF IInv, TypeOK
<1>2. CASE \E s \in PeerSegs : InputOk(s)
  BY <1>1, <1>2, LaidInput
<1>3. CASE UNCHANGED <<rx_data, rx_nxt, rx_nxt_inseq>>
  BY <1>3 DEF LaidInv, Laid, Batch, Bytes, Tiles, Ordered, Before, FinSeq, First
<1>4. CASE \E s \in PeerSegs : InputChallenge(s)
  BY <1>1, <1>4, LaidPut DEF InputChallenge
<1>5. CASE (\E s \in PeerSegs : InputReset(s)) \/ PutEof
  <2>1. /\ rx_data' = Put(rx_data, EofValue) \/ rx_data' = rx_data
        /\ UNCHANGED <<rx_nxt, rx_nxt_inseq>>
    BY <1>5 DEF InputReset, PutEof
  <2> QED BY <1>1, <1>3, <2>1, LaidPut
<1>6. CASE RxData
  BY <1>1, <1>6, LaidConsume DEF RxData
<1>7. CASE RxEof
  <2> DEFINE h == Head(rx_data.handed)
  <2>1. rx_data.handed # <<>> /\ h.eof /\ rx_data' = Consume(rx_data)
        /\ UNCHANGED <<rx_nxt, rx_nxt_inseq>>
    BY <1>7 DEF RxEof
  <2>2. h.adv = 0
    <3> DEFINE q == Through(rx_data)
    <3>1. /\ q \in Seq(RxValue) /\ rx_data.handed \in Seq(RxValue)
          /\ rx_nxt \in Int /\ rx_nxt_inseq \in Int
      BY <1>1, ThroughType DEF TypeOK
    <3>2. Len(rx_data.handed) > 0
      BY <2>1, <3>1, EmptySeq, LenProperties
    <3>3. q # <<>> /\ q[1] = h /\ Laid(q, rx_nxt, rx_nxt_inseq)
      BY <1>1, <3>2, ThroughConsume DEF TypeOK, LaidInv
    <3> HIDE DEF q, h
    <3>4. Batch(h, rx_nxt, rx_nxt + h.adv)
      BY <3>1, <3>3, LaidTail
    <3> QED BY <2>1, <3>4 DEF Batch
  <2>3. rx_nxt' = rx_nxt + h.adv
    BY <1>1, <2>1, <2>2
  <2> QED BY <1>1, <2>1, <2>3, LaidConsume
<1>8. CASE RxLoop
  <2>1. rx_data' = Take(rx_data) /\ rx_data.handed = <<>> /\ UNCHANGED <<rx_nxt, rx_nxt_inseq>>
    BY <1>8 DEF RxLoop, IInv, ThreadsAgree
  <2>2. Through(rx_data') = Through(rx_data)
    BY <1>1, <2>1, ThroughTake DEF TypeOK
  <2>3. Laid(Through(rx_data'), rx_nxt', rx_nxt_inseq')
    BY <2>1, <2>2 DEF LaidInv
  <2> QED BY <2>3, LaidNext
<1>9. RxQueue \/ TxThread \/ Transmit \/ App \/ KeepaliveClose \/ UNCHANGED vars
        => UNCHANGED <<rx_data, rx_nxt, rx_nxt_inseq>>
  BY DEF RxQueue, TxThread, SendEmptyAck, EmptyAckSent, Notify, Transmit, Output, OutputSent, Retransmit,
         App, ReadWaits, ReadTakes, CancelRead, KeepaliveClose, rxVars, vars
<1> QED BY <1>2, <1>3, <1>4, <1>5, <1>6, <1>7, <1>8, <1>9 DEF Next, Input, RxThread

\* What PendingInv says of the next state.
LEMMA PendingNext ==
    ASSUME NEW p \in Int, Given(Delivered', p),
           Tiles(rx'.rest \cup Blocked', p, Bytes(rx_nxt')),
           \A b \in Blocked', s \in rx'.rest : b.seq < s.seq,
           Ordered(rx'.rest)
    PROVE  PendingInv'
<1> DEFINE d == Delivered'
           r == rx'.rest
           b == Blocked'
<1>1. /\ Given(d, p) /\ Tiles(r \cup b, p, Bytes(rx_nxt'))
      /\ (\A x \in b, s \in r : x.seq < s.seq) /\ Ordered(r)
  OBVIOUS
<1>2. PendingInv' = (/\ \E x \in Int : Given(d, x) /\ Tiles(r \cup b, x, Bytes(rx_nxt'))
                     /\ \A x \in b, s \in r : x.seq < s.seq
                     /\ Ordered(r))
  BY DEF PendingInv, Given, Tiles, Bytes, Ordered, Before, Compare, Wrap, Eof, FinSeq, First
<1> HIDE DEF d, r, b
<1> QED BY <1>1, <1>2

\* add_r hands the item over, as the last that has been delivered, or blocks with it.
LEMMA AddRDelivers ==
    ASSUME TypeOK, WritersAgree, NoStall, RestInv,
           NEW item \in Item, NEW owner \in {"rx", "keepalive"}, AddR(item, owner),
           owner # "rx" => item = Eof
    PROVE  /\ AddBlocks => Delivered' = Delivered /\ Blocked' = (Blocked \cup {item}) \ {Eof}
           /\ ~AddBlocks => Delivered' = Append(Delivered, item) /\ Blocked' = Blocked
           /\ \A i \in DOMAIN urx'.writers : urx'.writers[i].owner # "rx" => urx'.writers[i].item = Eof
           /\ EofBlocked' => EofBlocked \/ (owner = "rx" /\ item = Eof)
<1> DEFINE w == [owner |-> owner, item |-> item]
<1>1. /\ urx.writers \in Seq(UrxWriter) /\ urx.q \in Seq(Item) /\ received \in Seq(Item)
      /\ urx \in [q : Seq(Item), writers : Seq(UrxWriter), readers : Nat, cur_size : Int]
  BY DEF TypeOK
<1>2. w \in UrxWriter /\ w.owner = owner /\ w.item = item /\ Eof' = Eof
  BY DEF UrxWriter, Eof, FinSeq, First
<1>3. CASE AddBlocks
  <2>1. urx'.writers = Append(urx.writers, w) /\ urx'.q = urx.q /\ received' = received
    BY <1>1, <1>3 DEF AddR
  <2> HIDE DEF w
  <2>2. /\ DOMAIN urx'.writers = DOMAIN urx.writers \cup {Len(urx.writers) + 1}
        /\ \A i \in DOMAIN urx.writers : urx'.writers[i] = urx.writers[i]
        /\ urx'.writers[Len(urx.writers) + 1] = w
    BY <1>1, <1>2, <2>1
  <2>3. Delivered' = Delivered
    BY <2>1 DEF Delivered
  <2>4. Blocked' = (Blocked \cup {item}) \ {Eof}
    <3>1. Blocked' = {urx'.writers[i].item : i \in DOMAIN urx'.writers} \ {Eof}
      BY <1>2 DEF Blocked
    <3>2. {urx'.writers[i].item : i \in DOMAIN urx'.writers}
            = {urx.writers[i].item : i \in DOMAIN urx.writers} \cup {item}
      BY <1>2, <2>2
    <3> QED BY <3>1, <3>2 DEF Blocked
  <2>5. \A i \in DOMAIN urx'.writers : urx'.writers[i].owner # "rx" => urx'.writers[i].item = Eof
    BY <1>2, <2>2 DEF RestInv
  <2>6. EofBlocked' => EofBlocked \/ (owner = "rx" /\ item = Eof)
    BY <1>2, <2>2 DEF EofBlocked
  <2> QED BY <1>3, <2>3, <2>4, <2>5, <2>6
<1>4. CASE ~AddBlocks /\ urx.readers > 0
  <2>1. urx' = [urx EXCEPT !.readers = @ - 1] /\ received' = Append(received, item)
    BY <1>4 DEF AddR
  <2>2. urx'.writers = urx.writers /\ urx'.q = urx.q /\ urx.q = <<>>
    BY <1>1, <1>4, <2>1 DEF NoStall
  <2>3. Delivered = received /\ Delivered' = Append(received, item)
    BY <1>1, <2>1, <2>2, QueueOps, ConcatEmptySeq DEF Delivered
  <2> QED BY <1>2, <1>4, <2>2, <2>3 DEF Blocked, RestInv, EofBlocked
<1>5. CASE ~AddBlocks /\ urx.readers = 0
  <2>1. urx' = [urx EXCEPT !.q = Append(@, item), !.cur_size = @ + item.len] /\ received' = received
    BY <1>5 DEF AddR
  <2>2. urx'.writers = urx.writers /\ urx'.q = Append(urx.q, item)
    BY <1>1, <2>1
  <2>3. Delivered' = Append(Delivered, item)
    BY <1>1, <2>1, <2>2, ConcatAppend DEF Delivered
  <2> QED BY <1>2, <1>5, <2>2, <2>3 DEF Blocked, RestInv, EofBlocked
<1> QED BY <1>3, <1>4, <1>5 DEF AddR

\* The end of the stream, or nothing, is delivered.
LEMMA PendingEof ==
    ASSUME TypeOK, PendingInv,
           Delivered' \in {Delivered, Append(Delivered, Eof)}, Blocked' = Blocked,
           rx'.rest = rx.rest, Bytes(rx_nxt') = Bytes(rx_nxt)
    PROVE  PendingInv'
<1>1. PICK p \in Int : Given(Delivered, p) /\ Tiles(rx.rest \cup Blocked, p, Bytes(rx_nxt))
  BY DEF PendingInv
<1>2. Given(Append(Delivered, Eof), p)
  BY <1>1, FirstInt, DeliveredType, GivenAppend
<1>3. Given(Delivered', p)
  BY <1>1, <1>2
<1> QED BY <1>1, <1>3, PendingNext DEF PendingInv

\* Flow.Rx.thread queues the first payload.
LEMMA PendingQueue ==
    ASSUME IInv, NoStall, RestInv, PendingInv, RxQueue
    PROVE  PendingInv' /\ RestInv'
<1>1. PICK hd \in rx.rest :
        /\ \A s \in rx.rest \ {hd} : Before(hd, s)
        /\ AddR(hd, "rx")
        /\ rx' = [pc |-> IF AddBlocks THEN "blocked" ELSE "queue", rest |-> rx.rest \ {hd}]
  BY DEF RxQueue
<1>2. TypeOK /\ WritersAgree /\ rx.pc = "queue" /\ rx.rest \subseteq Item /\ hd \in Item
  BY DEF RxQueue, IInv, ThreadsAgree, TypeOK
<1>3. Blocked = {} /\ ~EofBlocked
  BY <1>2, BlockedNone
<1>4. PICK p \in Int : Given(Delivered, p) /\ Tiles(rx.rest, p, Bytes(rx_nxt))
  <2>1. rx.rest \cup Blocked = rx.rest
    BY <1>3
  <2> QED BY <2>1 DEF PendingInv
<1>5. \A s \in rx.rest \ {hd} : hd.seq < s.seq
  BY <1>1 DEF PendingInv, Ordered
<1>6. /\ hd.seq = p /\ hd.len > 0 /\ p + hd.len \in Int
      /\ Tiles(rx.rest \ {hd}, p + hd.len, Bytes(rx_nxt))
  <2>1. rx_nxt \in Int /\ Bytes(rx_nxt) \in Int
    BY <1>2, BytesInt DEF TypeOK
  <2> QED BY <1>2, <1>4, <1>5, <2>1, TilesFirst
<1>7. hd # Eof
  BY <1>6 DEF Eof
<1>8. /\ AddBlocks => Delivered' = Delivered /\ Blocked' = {hd}
      /\ ~AddBlocks => Delivered' = Append(Delivered, hd) /\ Blocked' = {}
      /\ \A i \in DOMAIN urx'.writers : urx'.writers[i].owner # "rx" => urx'.writers[i].item = Eof
      /\ ~EofBlocked'
  BY <1>1, <1>2, <1>3, <1>7, AddRDelivers
<1>9. /\ rx'.rest = rx.rest \ {hd} /\ rx'.pc = IF AddBlocks THEN "blocked" ELSE "queue"
      /\ rx_nxt' = rx_nxt
  BY <1>1 DEF RxQueue
<1>10. RestInv'
  <2>1. Eof' = Eof
    BY DEF Eof, FinSeq, First
  <2> QED BY <1>8, <1>9, <2>1 DEF RestInv
<1>11. Ordered(rx'.rest)
  BY <1>9 DEF PendingInv, Ordered
<1>12. CASE AddBlocks
  <2>1. rx'.rest \cup Blocked' = rx.rest
    BY <1>8, <1>9, <1>12
  <2>2. \A b \in Blocked', s \in rx'.rest : b.seq < s.seq
    BY <1>5, <1>8, <1>9, <1>12
  <2>3. Given(Delivered', p) /\ Tiles(rx'.rest \cup Blocked', p, Bytes(rx_nxt'))
    BY <1>4, <1>8, <1>9, <1>12, <2>1
  <2> QED BY <1>10, <1>11, <2>2, <2>3, PendingNext
<1>13. CASE ~AddBlocks
  <2>1. rx'.rest \cup Blocked' = rx.rest \ {hd}
    BY <1>8, <1>9, <1>13
  <2>2. \A b \in Blocked', s \in rx'.rest : b.seq < s.seq
    BY <1>8, <1>13
  <2>3. Given(Append(Delivered, hd), p + hd.len)
    <3>1. p + hd.len = hd.seq + hd.len
      BY <1>6
    <3> QED BY <1>2, <1>4, <1>6, <1>7, <3>1, DeliveredType, GivenAppend
  <2>4. Given(Delivered', p + hd.len) /\ Tiles(rx'.rest \cup Blocked', p + hd.len, Bytes(rx_nxt'))
    BY <1>6, <1>8, <1>9, <1>13, <2>1, <2>3
  <2> QED BY <1>6, <1>10, <1>11, <2>2, <2>4, PendingNext
<1> QED BY <1>12, <1>13

\* It takes the next batch when it has queued the one before.
LEMMA PendingData ==
    ASSUME IInv, RestInv, PendingInv, LaidInv, RxData
    PROVE  PendingInv' /\ RestInv'
<1> DEFINE v == Head(rx_data.handed)
<1>1. TypeOK /\ WritersAgree /\ rx.pc = "take" /\ rx.rest = {} /\ Blocked = {} /\ ~EofBlocked
  BY BlockedNone DEF RxData, IInv, ThreadsAgree, RestInv
<1>2. /\ rx'.rest = v.data /\ rx'.pc \in {"ack", "queue"} /\ urx' = urx /\ received' = received
      /\ rx_nxt' = rx_nxt + v.adv
      /\ rx_data.handed # <<>> /\ rx_data' = Consume(rx_data) /\ rx_nxt_inseq' = rx_nxt_inseq
  BY DEF RxData
<1>3. v \in RxValue /\ Batch(v, rx_nxt, rx_nxt')
  BY <1>1, <1>2, LaidConsume
<1> HIDE DEF v
<1>4. PICK p \in Int : Given(Delivered, p) /\ Tiles({}, p, Bytes(rx_nxt))
  <2>1. rx.rest \cup Blocked = {}
    BY <1>1
  <2> QED BY <2>1 DEF PendingInv
<1>5. p = Bytes(rx_nxt)
  <2>1. rx_nxt \in Int /\ Bytes(rx_nxt) \in Int
    BY <1>1, BytesInt DEF TypeOK
  <2> QED BY <1>4, <2>1, TilesNone
<1>6. Blocked' = {} /\ ~EofBlocked' /\ Delivered' = Delivered /\ Eof' = Eof
  BY <1>1, <1>2 DEF Blocked, EofBlocked, Delivered, Eof, FinSeq, First
<1>7. PendingInv'
  <2>1. rx'.rest \cup Blocked' = v.data
    BY <1>2, <1>6
  <2>2. Tiles(rx'.rest \cup Blocked', p, Bytes(rx_nxt')) /\ Ordered(rx'.rest)
    BY <1>2, <1>3, <1>5, <2>1 DEF Batch
  <2> QED BY <1>4, <1>6, <2>2, PendingNext
<1>8. RestInv'
  BY <1>2, <1>6 DEF RestInv
<1> QED BY <1>7, <1>8

\* The end of the stream is queued, by Flow.Rx.thread or by the keepalive timer.
LEMMA PendingEnd ==
    ASSUME IInv, NoStall, RestInv, PendingInv, RxEof \/ KeepaliveClose
    PROVE  PendingInv' /\ RestInv'
<1>1. TypeOK /\ WritersAgree /\ rx \in [pc : {"take", "ack", "queue", "blocked", "done"}, rest : SUBSET Item]
      /\ Eof \in Item /\ Eof' = Eof
  BY FirstInt DEF IInv, ThreadsAgree, TypeOK, Eof, FinSeq, First
<1>2. PICK owner \in {"rx", "keepalive"} :
        /\ AddR(Eof, owner) /\ rx'.rest = rx.rest /\ rx_nxt' = rx_nxt
        /\ owner = "rx" => rx.pc = "take"
        /\ owner = "keepalive" => rx' = rx
  BY <1>1 DEF RxEof, KeepaliveClose
<1>3. /\ AddBlocks => Delivered' = Delivered /\ Blocked' = (Blocked \cup {Eof}) \ {Eof}
      /\ ~AddBlocks => Delivered' = Append(Delivered, Eof) /\ Blocked' = Blocked
      /\ \A i \in DOMAIN urx'.writers : urx'.writers[i].owner # "rx" => urx'.writers[i].item = Eof
      /\ EofBlocked' => EofBlocked \/ owner = "rx"
  BY <1>1, <1>2, AddRDelivers
<1>4. (Blocked \cup {Eof}) \ {Eof} = Blocked
  BY DEF Blocked
<1>5. Bytes(rx_nxt') = Bytes(rx_nxt)
  BY <1>2
<1>6. PendingInv'
  BY <1>1, <1>2, <1>3, <1>4, <1>5, PendingEof
<1>7. RestInv'
  <2>1. CASE owner = "rx"
    BY <1>1, <1>2, <1>3, <2>1 DEF RestInv
  <2>2. CASE owner = "keepalive"
    BY <1>1, <1>2, <1>3, <2>2 DEF RestInv
  <2> QED BY <2>1, <2>2
<1> QED BY <1>6, <1>7

\* A reader takes the first item; the writer it wakes adds its own behind the last.
LEMMA PendingRead ==
    ASSUME IInv, RestInv, PendingInv, ReadTakes
    PROVE  PendingInv' /\ RestInv'
<1> DEFINE h    == Head(urx.q)
           t    == Tail(urx.q)
           size == urx.cur_size - h.len
           w    == Head(urx.writers)
           r    == Append(received, h)
<1>1. /\ TypeOK /\ WritersAgree
      /\ urx.writers \in Seq(UrxWriter) /\ urx.q \in Seq(Item) /\ received \in Seq(Item)
      /\ urx \in [q : Seq(Item), writers : Seq(UrxWriter), readers : Nat, cur_size : Int]
      /\ rx \in [pc : {"take", "ack", "queue", "blocked", "done"}, rest : SUBSET Item]
      /\ urx.q # <<>>
  BY DEF IInv, ThreadsAgree, TypeOK, ReadTakes
<1>2. h \in Item /\ t \in Seq(Item) /\ r \in Seq(Item) /\ r \o t = Delivered
  <2>1. h \in Item /\ t \in Seq(Item) /\ r \in Seq(Item)
    BY <1>1, QueueOps
  <2> QED BY <1>1, <2>1, MoveHead DEF Delivered
<1>3. received' = r /\ rx_nxt' = rx_nxt /\ Bytes(rx_nxt') = Bytes(rx_nxt) /\ Eof' = Eof
  BY DEF ReadTakes, Eof, FinSeq, First
<1>4. CASE ~WakesWriter(size)
  <2>1. urx' = [urx EXCEPT !.q = t, !.cur_size = size] /\ rx' = rx
    BY <1>4 DEF ReadTakes
  <2> HIDE DEF t, size, r
  <2>2. urx'.q = t /\ urx'.writers = urx.writers
    BY <1>1, <2>1
  <2>3. Delivered' = Delivered
    BY <1>2, <1>3, <2>2 DEF Delivered
  <2>4. Blocked' = Blocked /\ (EofBlocked' => EofBlocked)
    BY <1>3, <2>2 DEF Blocked, EofBlocked
  <2>5. PendingInv'
    BY <1>1, <1>3, <2>1, <2>3, <2>4, PendingEof
  <2>6. RestInv'
    BY <1>3, <2>1, <2>2, <2>4 DEF RestInv
  <2> QED BY <2>5, <2>6
<1>5. CASE WakesWriter(size)
  <2>1. /\ urx.writers # <<>>
        /\ urx' = [urx EXCEPT !.q = Append(t, w.item), !.writers = Tail(@), !.cur_size = size]
        /\ rx' = IF w.owner = "rx"
                 THEN [rx EXCEPT !.pc = IF w.item = Eof THEN "done" ELSE "queue"]
                 ELSE rx
    BY <1>5 DEF ReadTakes, WakesWriter
  <2>2. w \in UrxWriter
    BY <1>1, <2>1, QueueOps
  <2> HIDE DEF h, t, size, r
  <2>3. urx'.q = Append(t, w.item) /\ urx'.writers = Tail(urx.writers)
    BY <1>1, <2>1
  <2>4. /\ 1 \in DOMAIN urx.writers /\ urx.writers[1] = w
        /\ \A i \in DOMAIN Tail(urx.writers) :
             /\ i + 1 \in DOMAIN urx.writers /\ i + 1 # 1
             /\ Tail(urx.writers)[i] = urx.writers[i + 1]
        /\ \A j \in DOMAIN urx.writers : j = 1 \/ (j - 1 \in DOMAIN Tail(urx.writers)
                                                   /\ Tail(urx.writers)[j - 1] = urx.writers[j])
    BY <1>1, <2>1
  <2> HIDE DEF w
  <2>5. w.item \in Item
    BY <2>2 DEF UrxWriter
  <2>6. Delivered' = Append(Delivered, w.item)
    <3>1. r \o Append(t, w.item) = Append(r \o t, w.item)
      BY <1>2, <2>5, ConcatAppend
    <3> QED BY <1>2, <1>3, <2>3, <3>1 DEF Delivered
  <2>7. \A i \in DOMAIN urx'.writers : urx'.writers[i].owner # "rx" => urx'.writers[i].item = Eof
    BY <2>3, <2>4 DEF RestInv
  <2>8. CASE w.owner # "rx"
    <3>1. w.item = Eof /\ rx' = rx
      BY <2>1, <2>4, <2>8 DEF RestInv
    <3>2. Blocked' = Blocked /\ (EofBlocked' => EofBlocked)
      <4>1. Blocked' = {urx'.writers[i].item : i \in DOMAIN urx'.writers} \ {Eof}
        BY <1>3 DEF Blocked
      <4>2. Blocked' \subseteq Blocked
        BY <2>3, <2>4, <4>1 DEF Blocked
      <4>3. Blocked \subseteq Blocked'
        <5> SUFFICES ASSUME NEW b \in Blocked PROVE b \in Blocked'
          OBVIOUS
        <5>1. PICK j \in DOMAIN urx.writers : b = urx.writers[j].item /\ b # Eof
          BY DEF Blocked
        <5>2. j # 1
          BY <2>4, <3>1, <5>1
        <5>3. j - 1 \in DOMAIN urx'.writers /\ urx'.writers[j - 1] = urx.writers[j]
          BY <2>3, <2>4, <5>2
        <5> QED BY <4>1, <5>1, <5>3
      <4>4. EofBlocked' => EofBlocked
        BY <1>3, <2>3, <2>4 DEF EofBlocked
      <4> QED BY <4>2, <4>3, <4>4
    <3>3. PendingInv'
      BY <1>1, <1>3, <2>6, <3>1, <3>2, PendingEof
    <3>4. RestInv'
      BY <1>3, <2>7, <3>1, <3>2 DEF RestInv
    <3> QED BY <3>3, <3>4
  <2>9. CASE w.owner = "rx"
    <3>1. rx'.rest = rx.rest /\ rx'.pc = IF w.item = Eof THEN "done" ELSE "queue"
      BY <1>1, <2>1, <2>9
    <3>2. \A i \in DOMAIN urx'.writers : urx'.writers[i].owner # "rx"
      BY <1>1, <2>3, <2>4, <2>9 DEF WritersAgree
    <3>3. Blocked' = {} /\ ~EofBlocked'
      BY <1>3, <2>7, <3>2 DEF Blocked, EofBlocked
    <3>4. Blocked = {w.item} \ {Eof}
      BY <1>1, <2>4, <2>9, BlockedOne
    <3>5. w.item = Eof => rx.rest = {}
      BY <2>4, <2>9 DEF RestInv, EofBlocked
    <3>6. RestInv'
      BY <1>3, <2>7, <3>1, <3>3, <3>5 DEF RestInv
    <3>7. CASE w.item = Eof
      <4>1. Blocked' = Blocked
        BY <3>3, <3>4, <3>7
      <4>2. PendingInv'
        BY <1>1, <1>3, <2>6, <3>1, <3>7, <4>1, PendingEof
      <4> QED BY <3>6, <4>2
    <3>8. CASE w.item # Eof
      <4> DEFINE x     == w.item
                 items == rx.rest \cup Blocked
      <4>1. Blocked = {x} /\ items = rx.rest \cup {x}
        BY <3>4, <3>8
      <4>2. PICK p \in Int : Given(Delivered, p) /\ Tiles(items, p, Bytes(rx_nxt))
        BY DEF PendingInv
      <4>3. \A s \in rx.rest : x.seq < s.seq
        BY <4>1 DEF PendingInv
      <4>4. x \in Item /\ x # Eof /\ items \subseteq Item /\ x \in items
        BY <1>1, <2>5, <3>8, <4>1
      <4>5. x.seq \in Int
        BY <4>4 DEF Item
      <4>6. x \notin rx.rest
        BY <4>3, <4>5
      <4>7. items \ {x} = rx.rest
        BY <4>1, <4>6
      <4> HIDE DEF x, items
      <4>8. /\ x.seq = p /\ x.len > 0 /\ p + x.len \in Int
            /\ Tiles(items \ {x}, p + x.len, Bytes(rx_nxt))
        <5>1. rx_nxt \in Int /\ Bytes(rx_nxt) \in Int
          BY <1>1, BytesInt DEF TypeOK
        <5> QED BY <4>2, <4>3, <4>4, <4>7, <5>1, TilesFirst
      <4>9. Given(Append(Delivered, x), p + x.len)
        <5>1. p + x.len = x.seq + x.len
          BY <4>8
        <5> QED BY <1>1, <4>2, <4>4, <4>8, <5>1, DeliveredType, GivenAppend
      <4>10. Given(Delivered', p + x.len)
        BY <2>6, <4>9 DEF x
      <4>11. rx'.rest \cup Blocked' = rx.rest
        BY <3>1, <3>3
      <4>12. Tiles(rx'.rest \cup Blocked', p + x.len, Bytes(rx_nxt'))
        BY <1>3, <4>7, <4>8, <4>11
      <4>13. Ordered(rx'.rest)
        BY <3>1 DEF PendingInv
      <4>14. PendingInv'
        BY <3>3, <4>8, <4>10, <4>12, <4>13, PendingNext
      <4> QED BY <3>6, <4>14
    <3> QED BY <3>7, <3>8
  <2> QED BY <2>8, <2>9
<1> QED BY <1>4, <1>5

LEMMA PendingSteps ==
    ASSUME IInv, NoStall, LaidInv, RestInv, PendingInv, [Next]_vars
    PROVE  PendingInv' /\ RestInv'
<1>1. TypeOK /\ Eof' = Eof
  BY DEF IInv, Eof, FinSeq, First
<1>2. CASE /\ rx'.rest = rx.rest /\ (rx'.pc \in {"take", "done"} => rx'.rest = {})
           /\ received' = received /\ urx'.q = urx.q /\ urx'.writers = urx.writers
           /\ rx_nxt' = rx_nxt
  <2>1. Delivered' = Delivered /\ Blocked' = Blocked /\ (EofBlocked' => EofBlocked)
    BY <1>1, <1>2 DEF Delivered, Blocked, EofBlocked
  <2>2. PendingInv'
    BY <1>1, <1>2, <2>1, PendingEof
  <2>3. RestInv'
    BY <1>1, <1>2, <2>1 DEF RestInv
  <2> QED BY <2>2, <2>3
<1>3. CASE UNCHANGED <<rx, received, urx, rx_nxt>>
  BY <1>2, <1>3 DEF RestInv
<1>4. CASE RxData
  BY <1>4, PendingData
<1>5. CASE RxQueue
  BY <1>5, PendingQueue
<1>6. CASE RxLoop
  BY <1>1, <1>2, <1>6 DEF RxLoop, TypeOK
<1>7. CASE RxEof \/ KeepaliveClose
  BY <1>7, PendingEnd
<1>8. CASE ReadTakes
  BY <1>8, PendingRead
<1>9. CASE ReadWaits \/ CancelRead
  <2>1. urx'.q = urx.q /\ urx'.writers = urx.writers /\ UNCHANGED <<rx, received, rx_nxt>>
    BY <1>1, <1>9 DEF ReadWaits, CancelRead, TypeOK
  <2> QED BY <1>2, <2>1 DEF RestInv
<1>10. CASE EmptyAckSent
  <2>1. /\ rx'.rest = rx.rest /\ (rx'.pc \in {"take", "done"} => rx'.pc = rx.pc)
        /\ UNCHANGED <<received, urx, rx_nxt>>
    BY <1>1, <1>10 DEF EmptyAckSent, rxVars, TypeOK
  <2> QED BY <1>2, <2>1 DEF RestInv
<1>11. (\E s \in PeerSegs : Input(s)) \/ PutEof \/ SendEmptyAck \/ Notify \/ Transmit \/ UNCHANGED vars
         => UNCHANGED <<rx, received, urx, rx_nxt>>
  BY DEF Input, InputOk, InputChallenge, InputReset, PutEof, SendEmptyAck, Notify, Transmit, Output,
         OutputSent, Retransmit, rxVars, vars
<1> QED BY <1>3, <1>4, <1>5, <1>6, <1>7, <1>8, <1>9, <1>10, <1>11
        DEF Next, RxThread, TxThread, App

\* What Advanced and DataEnd compute.
LEMMA AdvancedIs ==
    ASSUME TypeOK, NEW cut \in [0..Len(InFlight) -> Int], cut[0] = rx_nxt,
           \A i \in 1..Len(InFlight) : cut[i] = cut[i - 1] + InFlight[i].adv
    PROVE  \A i \in 0..Len(InFlight) : Advanced[i] = cut[i]
<1> DEFINE l      == Len(InFlight)
           rec(f) == [i \in 0..l |-> IF i = 0 THEN rx_nxt ELSE f[i - 1] + InFlight[i].adv]
<1>1. l \in Nat
  <2>1. InFlight \in Seq(RxValue)
    BY ThroughType DEF TypeOK, InFlight, Through
  <2> QED BY <2>1, LenProperties
<1>2. Advanced = CHOOSE f : f = rec(f)
  BY DEF Advanced
<1>3. cut = rec(cut)
  <2>1. \A i \in 0..l : cut[i] = IF i = 0 THEN rx_nxt ELSE cut[i - 1] + InFlight[i].adv
    <3> SUFFICES ASSUME NEW i \in 0..l
                 PROVE  cut[i] = IF i = 0 THEN rx_nxt ELSE cut[i - 1] + InFlight[i].adv
      OBVIOUS
    <3>1. i = 0 \/ i \in 1..l
      BY <1>1
    <3> QED BY <3>1
  <2> QED BY <2>1
<1>4. Advanced = rec(Advanced)
  <2> HIDE DEF rec
  <2> QED BY <1>2, <1>3
<1>5. Advanced[0] = rx_nxt
      /\ \A i \in 1..l : Advanced[i] = Advanced[i - 1] + InFlight[i].adv
  <2>1. \A i \in 0..l : Advanced[i] = IF i = 0 THEN rx_nxt ELSE Advanced[i - 1] + InFlight[i].adv
    BY <1>4
  <2>2. 0 \in 0..l /\ \A i \in 1..l : i \in 0..l /\ i # 0
    BY <1>1
  <2> QED BY <2>1, <2>2
<1> DEFINE S == {n \in Nat : n <= l => Advanced[n] = cut[n]}
<1> HIDE DEF l
<1>6. 0 \in S
  BY <1>5
<1>7. ASSUME NEW n \in Nat, n \in S PROVE n + 1 \in S
  <2> SUFFICES ASSUME n + 1 <= l PROVE Advanced[n + 1] = cut[n + 1]
    BY DEF S
  <2>1. n + 1 \in 1..l /\ n + 1 - 1 = n /\ n <= l
    BY <1>1
  <2>2. Advanced[n] = cut[n]
    BY <1>7, <2>1
  <2> QED BY <1>5, <2>1, <2>2 DEF l
<1>8. Nat \subseteq S
  <2> HIDE DEF S
  <2> QED BY <1>6, <1>7, SetInduction
<1>9. \A i \in 0..l : Advanced[i] = cut[i]
  BY <1>1, <1>8
<1> QED BY <1>9 DEF l

LEMMA DataEndIs ==
    ASSUME TypeOK, NEW end \in [0..Len(Delivered) -> Int], end[0] = First,
           \A i \in 1..Len(Delivered) :
              end[i] = IF Delivered[i] = Eof THEN end[i - 1] ELSE Delivered[i].seq + Delivered[i].len
    PROVE  \A i \in 0..Len(Delivered) : DataEnd[i] = end[i]
<1> DEFINE l       == Len(Delivered)
           nx(i, e) == IF Delivered[i] = Eof THEN e ELSE Delivered[i].seq + Delivered[i].len
           rec(f)  == [i \in 0..l |-> IF i = 0 THEN First ELSE nx(i, f[i - 1])]
<1>1. l \in Nat
  BY DeliveredType, LenProperties
<1>2. DataEnd = CHOOSE f : f = rec(f)
  BY DEF DataEnd
<1>3. end = rec(end)
  <2>1. \A i \in 0..l : end[i] = IF i = 0 THEN First ELSE nx(i, end[i - 1])
    <3> SUFFICES ASSUME NEW i \in 0..l
                 PROVE  end[i] = IF i = 0 THEN First ELSE nx(i, end[i - 1])
      OBVIOUS
    <3>1. i = 0 \/ i \in 1..l
      BY <1>1
    <3> QED BY <3>1
  <2> HIDE DEF nx
  <2> QED BY <2>1
<1>4. DataEnd = rec(DataEnd)
  <2> HIDE DEF rec
  <2> QED BY <1>2, <1>3
<1>5. DataEnd[0] = First /\ \A i \in 1..l : DataEnd[i] = nx(i, DataEnd[i - 1])
  <2> HIDE DEF nx
  <2>1. \A i \in 0..l : DataEnd[i] = IF i = 0 THEN First ELSE nx(i, DataEnd[i - 1])
    BY <1>4
  <2>2. 0 \in 0..l /\ \A i \in 1..l : i \in 0..l /\ i # 0
    BY <1>1
  <2> QED BY <2>1, <2>2
<1>6. \A i \in 1..l : end[i] = nx(i, end[i - 1])
  OBVIOUS
<1> DEFINE S == {n \in Nat : n <= l => DataEnd[n] = end[n]}
<1> HIDE DEF l, nx
<1>7. 0 \in S
  BY <1>5
<1>8. ASSUME NEW n \in Nat, n \in S PROVE n + 1 \in S
  <2> SUFFICES ASSUME n + 1 <= l PROVE DataEnd[n + 1] = end[n + 1]
    BY DEF S
  <2>1. n + 1 \in 1..l /\ n + 1 - 1 = n /\ n <= l
    BY <1>1
  <2>2. DataEnd[n] = end[n]
    BY <1>8, <2>1
  <2> QED BY <1>5, <1>6, <2>1, <2>2
<1>9. Nat \subseteq S
  <2> HIDE DEF S
  <2> QED BY <1>7, <1>8, SetInduction
<1>10. \A i \in 0..l : DataEnd[i] = end[i]
  BY <1>1, <1>9
<1> QED BY <1>10 DEF l

LEMMA DeliverConserved == TypeOK /\ LaidInv => AdvanceConserved
<1> SUFFICES ASSUME TypeOK, LaidInv PROVE AdvanceConserved
  OBVIOUS
<1>1. InFlight = Through(rx_data) /\ InFlight \in Seq(RxValue)
  BY ThroughType DEF InFlight, Through, TypeOK
<1>2. PICK cut \in [0..Len(InFlight) -> Int] :
        /\ cut[0] = rx_nxt /\ cut[Len(InFlight)] = rx_nxt_inseq
        /\ \A i \in 1..Len(InFlight) : Batch(InFlight[i], cut[i - 1], cut[i])
  BY <1>1 DEF LaidInv, Laid
<1>3. \A i \in 1..Len(InFlight) : cut[i] = cut[i - 1] + InFlight[i].adv
  BY <1>2 DEF Batch
<1>4. Len(InFlight) \in 0..Len(InFlight)
  BY <1>1, LenProperties
<1> QED BY <1>2, <1>3, <1>4, AdvancedIs DEF AdvanceConserved

LEMMA DeliverIntact == TypeOK /\ DeliverInv => StreamIntact
<1> SUFFICES ASSUME TypeOK, DeliverInv PROVE StreamIntact
  OBVIOUS
<1>1. InFlight = Through(rx_data) /\ InFlight \in Seq(RxValue)
  BY ThroughType DEF InFlight, Through, TypeOK
<1>2. PICK cut \in [0..Len(InFlight) -> Int] :
        /\ cut[0] = rx_nxt
        /\ \A i \in 1..Len(InFlight) : Batch(InFlight[i], cut[i - 1], cut[i])
  BY <1>1 DEF DeliverInv, LaidInv, Laid
<1>3. PICK p \in Int : Given(Delivered, p) /\ Tiles(rx.rest \cup Blocked, p, Bytes(rx_nxt))
  BY DEF DeliverInv, PendingInv
<1>4. PICK end \in [0..Len(Delivered) -> Int] :
        /\ end[0] = First /\ end[Len(Delivered)] = p
        /\ \A i \in 1..Len(Delivered) :
              \/ Delivered[i] = Eof /\ end[i] = end[i - 1]
              \/ /\ Delivered[i] # Eof /\ Delivered[i].len > 0
                 /\ Delivered[i].seq = end[i - 1] /\ end[i] = Delivered[i].seq + Delivered[i].len
  BY <1>3 DEF Given
<1>5. /\ DOMAIN InFlight = 1..Len(InFlight) /\ Len(InFlight) \in Nat
      /\ DOMAIN Delivered = 1..Len(Delivered) /\ Len(Delivered) \in Nat
      /\ \A i \in 1..Len(InFlight) : i \in 0..Len(InFlight) /\ i - 1 \in 0..Len(InFlight)
      /\ \A i \in 1..Len(Delivered) : i - 1 \in 0..Len(Delivered)
      /\ Len(Delivered) \in 0..Len(Delivered)
  <2>1. DOMAIN InFlight = 1..Len(InFlight) /\ Len(InFlight) \in Nat
    BY <1>1, LenProperties
  <2>2. DOMAIN Delivered = 1..Len(Delivered) /\ Len(Delivered) \in Nat
    BY DeliveredType, LenProperties
  <2> QED BY <2>1, <2>2
<1>6. \A i \in 0..Len(InFlight) : Advanced[i] = cut[i]
  <2>1. \A i \in 1..Len(InFlight) : cut[i] = cut[i - 1] + InFlight[i].adv
    BY <1>2 DEF Batch
  <2> QED BY <1>2, <2>1, AdvancedIs
<1>7. \A i \in 0..Len(Delivered) : DataEnd[i] = end[i]
  <2>1. \A i \in 1..Len(Delivered) :
          end[i] = IF Delivered[i] = Eof THEN end[i - 1] ELSE Delivered[i].seq + Delivered[i].len
    BY <1>4
  <2> QED BY <1>4, <2>1, DataEndIs
<1>8. \A i \in DOMAIN Delivered :
         Delivered[i] # Eof => Delivered[i].len > 0 /\ Delivered[i].seq = DataEnd[i - 1]
  BY <1>4, <1>5, <1>7
<1>9. Tiles(rx.rest \cup Blocked, DataEnd[Len(Delivered)], Bytes(rx_nxt))
  BY <1>3, <1>4, <1>5, <1>7
<1>10. \A i \in DOMAIN InFlight :
          Tiles(InFlight[i].data, Bytes(Advanced[i - 1]), Bytes(Advanced[i]))
  <2>1. \A i \in 1..Len(InFlight) : Tiles(InFlight[i].data, Bytes(cut[i - 1]), Bytes(cut[i]))
    BY <1>2 DEF Batch
  <2> QED BY <1>5, <1>6, <2>1
<1>11. \A b \in Blocked, s \in rx.rest : b.seq < s.seq
  BY DEF DeliverInv, PendingInv
<1> QED BY <1>8, <1>9, <1>10, <1>11 DEF StreamIntact

\* Every byte in sequence advances rx_nxt once (Flow.Rx.thread): the advances that
\* wait in rx_data make up the difference to the end of what Segment.Rx.input has put
\* there, whatever the peer repeats, overlaps or reorders.
THEOREM BytesAdvanceOnce == ShortStream /\ PeerStops => (Spec => []AdvanceConserved)
<1> SUFFICES ASSUME ShortStream, PeerStops PROVE Spec => []AdvanceConserved
  OBVIOUS
<1>1. Init => PlaceInv /\ LaidInv
  BY InitPlace, InitDeliver DEF DeliverInv
<1>2. IInv /\ PlaceInv /\ LaidInv /\ [Next]_vars => PlaceInv' /\ LaidInv'
  BY LaidSteps, PlaceStep
<1>3. IInv /\ LaidInv => AdvanceConserved
  BY DeliverConserved DEF IInv
<1> QED BY <1>1, <1>2, <1>3, Inductive, PTL DEF Spec

\* What the application is given is the peer's stream from its first byte, in order
\* and without a gap or a repeated byte, and the rest of what is in sequence is on its
\* way to it in the batches and the order that keep it so (Segment.Rx.input,
\* Flow.Rx.thread, User_buffer.Rx).
THEOREM StreamIsIntact == ShortStream /\ PeerStops /\ SmallSegs => (Spec => []StreamIntact)
<1> SUFFICES ASSUME ShortStream, PeerStops, SmallSegs PROVE Spec => []StreamIntact
  OBVIOUS
<1>1. Init => PlaceInv /\ DeliverInv
  BY InitPlace, InitDeliver
<1>2. IInv /\ NoStall /\ PlaceInv /\ DeliverInv /\ [Next]_vars => PlaceInv' /\ DeliverInv'
  BY LaidSteps, PendingSteps, PlaceStep DEF DeliverInv
<1>3. IInv /\ DeliverInv => StreamIntact
  BY DeliverIntact DEF IInv
<1> QED BY <1>1, <1>2, <1>3, Inductive, NeverStalls, PTL DEF Spec

-----------------------------------------------------------------------------
(* The end comes once, and behind the whole stream.                        *)

OneEnd(m) ==
    \A i, j \in DOMAIN Through(m) : Through(m)[i].eof /\ Through(m)[j].eof => i = j
OneFin(m) ==
    \A i, j \in DOMAIN m.writers : m.writers[i].fin /\ m.writers[j].fin => i = j

\* There is no more to advance behind the end.
Settled(m) ==
    \A i, j \in DOMAIN Through(m) : Through(m)[i].eof /\ i <= j => Through(m)[j].adv = 0

EndTaken == EofBlocked \/ rx.pc = "done"

\* The end is in one place only, and is there only when the stream is complete.
EndPuts ==
    /\ eof_puts \in {0, 1}
    /\ OneEnd(rx_data) /\ OneFin(rx_data) /\ Settled(rx_data)
    /\ eof_puts = 1 => ~Ends(rx_data) /\ ~Fins(rx_data) /\ ~EndTaken
    /\ Ends(rx_data) => ~Fins(rx_data) /\ ~EndTaken
    /\ Fins(rx_data) => ~EndTaken
    /\ eof_puts = 1 \/ Ends(rx_data) \/ Fins(rx_data) \/ EndTaken => rx_nxt_inseq = FinSeq + 1

\* It is taken when all of the stream has been, and nothing is delivered behind it.
EndGiven ==
    /\ \A i \in DOMAIN urx.writers : urx.writers[i].owner = "rx"
    /\ EndTaken => rx_nxt = FinSeq + 1
    /\ \A i \in DOMAIN Delivered : Delivered[i] = Eof => i = Len(Delivered) /\ rx.pc = "done"

\* A reset and the keepalive timer put in ends of their own.
EofInv == state # "Reset" => EndPuts /\ EndGiven

\* What the operations of an mvar do to the ends in it.
LEMMA PutOne ==
    ASSUME NEW m, IsMvar(m, RxValue), OneEnd(m), OneFin(m), Settled(m), NEW v \in RxValue,
           v.eof => ~Ends(m) /\ v.adv = 0, Ends(m) => v.adv = 0,
           v.fin /\ PutBlocks(m) => ~Fins(m)
    PROVE  /\ OneEnd(Put(m, v)) /\ OneFin(Put(m, v)) /\ Settled(Put(m, v))
           /\ Ends(Put(m, v)) => Ends(m) \/ v.eof
           /\ Fins(Put(m, v)) => Fins(m) \/ (v.fin /\ PutBlocks(m))
<1> DEFINE p == Put(m, v)
           t == Through(m)
           w == m.writers
<1>1. Through(p) = Append(t, v) /\ t \in Seq(RxValue) /\ w \in Seq(RxValue)
  BY ThroughPut, ThroughType
<1>2. p.writers = IF PutBlocks(m) THEN Append(w, v) ELSE w
  BY PutEffect
<1>3. (\A i, j \in DOMAIN t : t[i].eof /\ t[j].eof => i = j)
      /\ (\A i, j \in DOMAIN t : t[i].eof /\ i <= j => t[j].adv = 0)
      /\ (\A i, j \in DOMAIN w : w[i].fin /\ w[j].fin => i = j)
      /\ (Ends(m) <=> \E i \in DOMAIN t : t[i].eof)
      /\ (Fins(m) <=> \E i \in DOMAIN w : w[i].fin)
  BY DEF OneEnd, Settled, OneFin, Ends, Fins
<1> HIDE DEF p, t, w
<1>4. /\ DOMAIN Append(t, v) = DOMAIN t \cup {Len(t) + 1}
      /\ \A i \in DOMAIN t : Append(t, v)[i] = t[i] /\ i \in Nat /\ i <= Len(t)
      /\ Append(t, v)[Len(t) + 1] = v /\ Len(t) \in Nat
      /\ DOMAIN Append(w, v) = DOMAIN w \cup {Len(w) + 1}
      /\ \A i \in DOMAIN w : Append(w, v)[i] = w[i]
      /\ Append(w, v)[Len(w) + 1] = v
  BY <1>1
<1>5. OneEnd(p)
  BY <1>1, <1>3, <1>4 DEF OneEnd
<1>6. Settled(p)
  <2> SUFFICES ASSUME NEW i \in DOMAIN Append(t, v), NEW j \in DOMAIN Append(t, v),
                      Append(t, v)[i].eof, i <= j
               PROVE  Append(t, v)[j].adv = 0
    BY <1>1 DEF Settled
  <2>1. CASE j = Len(t) + 1
    <3>1. v.eof \/ Ends(m)
      BY <1>3, <1>4
    <3> QED BY <1>4, <2>1, <3>1
  <2>2. CASE j # Len(t) + 1
    <3>1. j \in DOMAIN t /\ i \in DOMAIN t
      BY <1>4, <2>2
    <3> QED BY <1>3, <1>4, <3>1
  <2> QED BY <2>1, <2>2
<1>7. OneFin(p)
  BY <1>2, <1>3, <1>4 DEF OneFin
<1>8. Ends(p) => Ends(m) \/ v.eof
  BY <1>1, <1>3, <1>4 DEF Ends
<1>9. Fins(p) => Fins(m) \/ (v.fin /\ PutBlocks(m))
  BY <1>2, <1>3, <1>4 DEF Fins
<1> QED BY <1>5, <1>6, <1>7, <1>8, <1>9 DEF p

LEMMA TakeOne ==
    ASSUME NEW m, IsMvar(m, RxValue), OneEnd(m), OneFin(m), Settled(m), m.handed = <<>>
    PROVE  /\ OneEnd(Take(m)) /\ OneFin(Take(m)) /\ Settled(Take(m))
           /\ Ends(Take(m)) => Ends(m)
           /\ Fins(Take(m)) => Fins(m)
           /\ (\E i \in DOMAIN Admitted(m) : Admitted(m)[i].fin) => Fins(m) /\ ~Fins(Take(m))
<1>1. Through(Take(m)) = Through(m)
  BY ThroughTake
<1>2. OneEnd(Take(m)) /\ Settled(Take(m)) /\ (Ends(Take(m)) => Ends(m))
  BY <1>1 DEF OneEnd, Settled, Ends
<1> DEFINE w == m.writers
           u == Take(m).writers
<1>3. w \in Seq(RxValue) /\ u = IF w = <<>> THEN <<>> ELSE Tail(w)
  BY ThroughType, TakeEffect
<1>4. (\A i, j \in DOMAIN w : w[i].fin /\ w[j].fin => i = j)
      /\ (Fins(m) <=> \E i \in DOMAIN w : w[i].fin)
      /\ (Fins(Take(m)) <=> \E i \in DOMAIN u : u[i].fin)
  BY DEF OneFin, Fins
<1>5. \A i \in DOMAIN Admitted(m) : i = 1 /\ w # <<>> /\ Admitted(m)[i] = Head(w)
  BY DEF Admitted
<1> HIDE DEF w, u
<1>6. CASE w = <<>>
  <2>1. DOMAIN u = {}
    BY <1>3, <1>6
  <2>2. OneFin(Take(m))
    BY <2>1 DEF OneFin, u
  <2> QED BY <1>2, <1>4, <1>5, <1>6, <2>1, <2>2
<1>7. CASE w # <<>>
  <2>1. /\ 1 \in DOMAIN w /\ Head(w) = w[1]
        /\ \A i \in DOMAIN u : i + 1 \in DOMAIN w /\ i + 1 # 1 /\ u[i] = w[i + 1] /\ i \in Nat
    BY <1>3, <1>7
  <2>2. \A i, j \in DOMAIN u : u[i].fin /\ u[j].fin => i = j
    <3> SUFFICES ASSUME NEW i \in DOMAIN u, NEW j \in DOMAIN u, u[i].fin, u[j].fin
                 PROVE  i = j
      OBVIOUS
    <3>1. i + 1 = j + 1
      BY <1>4, <2>1
    <3> QED BY <2>1, <3>1
  <2>3. OneFin(Take(m))
    BY <2>2 DEF OneFin, u
  <2>4. Fins(Take(m)) => Fins(m)
    BY <1>4, <2>1
  <2>5. (\E i \in DOMAIN Admitted(m) : Admitted(m)[i].fin) => Fins(m) /\ ~Fins(Take(m))
    <3> SUFFICES ASSUME w[1].fin PROVE Fins(m) /\ ~Fins(Take(m))
      BY <1>5, <2>1
    <3>1. ASSUME NEW i \in DOMAIN u, u[i].fin PROVE FALSE
      BY <1>4, <2>1, <3>1
    <3> QED BY <1>4, <2>1, <3>1
  <2> QED BY <1>2, <2>3, <2>4, <2>5
<1> QED BY <1>6, <1>7

LEMMA ConsumeOne ==
    ASSUME NEW m, IsMvar(m, RxValue), OneEnd(m), OneFin(m), Settled(m), m.handed # <<>>
    PROVE  /\ OneEnd(Consume(m)) /\ OneFin(Consume(m)) /\ Settled(Consume(m))
           /\ Ends(Consume(m)) => Ends(m)
           /\ Head(m.handed).eof => Ends(m) /\ ~Ends(Consume(m))
                                    /\ \A i \in DOMAIN Through(m) : Through(m)[i].adv = 0
           /\ Fins(Consume(m)) <=> Fins(m)
<1> DEFINE t == Through(m)
           u == Through(Consume(m))
<1>1. Len(m.handed) > 0
  BY ThroughType, EmptySeq, LenProperties
<1>2. t # <<>> /\ t[1] = Head(m.handed) /\ u = Tail(t) /\ t \in Seq(RxValue)
  BY <1>1, ThroughType, ThroughConsume
<1>3. (\A i, j \in DOMAIN t : t[i].eof /\ t[j].eof => i = j)
      /\ (\A i, j \in DOMAIN t : t[i].eof /\ i <= j => t[j].adv = 0)
      /\ (Ends(m) <=> \E i \in DOMAIN t : t[i].eof)
      /\ (Ends(Consume(m)) <=> \E i \in DOMAIN u : u[i].eof)
  BY DEF OneEnd, Settled, Ends
<1>4. OneFin(Consume(m)) /\ (Fins(Consume(m)) <=> Fins(m))
  BY ConsumeEffect DEF OneFin, Fins
<1> HIDE DEF t, u
<1>5. /\ 1 \in DOMAIN t /\ (\A i \in DOMAIN t : i \in Nat /\ 1 <= i)
      /\ \A i \in DOMAIN u : i + 1 \in DOMAIN t /\ i + 1 # 1 /\ u[i] = t[i + 1] /\ i \in Nat
  BY <1>2
<1>6. OneEnd(Consume(m))
  <2> SUFFICES ASSUME NEW i \in DOMAIN u, NEW j \in DOMAIN u, u[i].eof, u[j].eof
               PROVE  i = j
    BY DEF OneEnd, u
  <2>1. i + 1 = j + 1
    BY <1>3, <1>5
  <2> QED BY <1>5, <2>1
<1>7. Settled(Consume(m))
  <2> SUFFICES ASSUME NEW i \in DOMAIN u, NEW j \in DOMAIN u, u[i].eof, i <= j
               PROVE  u[j].adv = 0
    BY DEF Settled, u
  <2>1. i + 1 <= j + 1
    BY <1>5
  <2> QED BY <1>3, <1>5, <2>1
<1>8. Ends(Consume(m)) => Ends(m)
  BY <1>3, <1>5
<1>9. ASSUME t[1].eof
      PROVE  Ends(m) /\ ~Ends(Consume(m)) /\ \A i \in DOMAIN t : t[i].adv = 0
  <2>1. ASSUME NEW i \in DOMAIN u, u[i].eof PROVE FALSE
    BY <1>3, <1>5, <1>9, <2>1
  <2> QED BY <1>3, <1>5, <1>9, <2>1
<1> QED BY <1>2, <1>4, <1>6, <1>7, <1>8, <1>9 DEF t

\* Values that advance nothing are no bytes.
LEMMA LaidFlat ==
    ASSUME NEW q \in Seq(RxValue), NEW a \in Int, NEW b \in Int, Laid(q, a, b),
           \A i \in DOMAIN q : q[i].adv = 0
    PROVE  a = b
<1> DEFINE l == Len(q)
<1>1. PICK cut \in [0..l -> Int] :
        /\ cut[0] = a /\ cut[l] = b
        /\ \A i \in 1..l : Batch(q[i], cut[i - 1], cut[i])
  BY DEF Laid
<1>2. l \in Nat /\ DOMAIN q = 1..l
  BY LenProperties
<1> HIDE DEF l
<1>3. \A i \in 1..l : cut[i] = cut[i - 1]
  <2> SUFFICES ASSUME NEW i \in 1..l PROVE cut[i] = cut[i - 1]
    OBVIOUS
  <2>1. cut[i] = cut[i - 1] + q[i].adv /\ q[i].adv = 0
    BY <1>1, <1>2 DEF Batch
  <2>2. cut[i - 1] \in Int
    BY <1>1, <1>2
  <2> QED BY <2>1, <2>2
<1> DEFINE S == {n \in Nat : n <= l => cut[n] = a}
<1>4. 0 \in S
  BY <1>1
<1>5. ASSUME NEW n \in Nat, n \in S PROVE n + 1 \in S
  <2> SUFFICES ASSUME n + 1 <= l PROVE cut[n + 1] = a
    OBVIOUS
  <2>1. n + 1 \in 1..l /\ n + 1 - 1 = n /\ n <= l
    BY <1>2
  <2>2. cut[n] = a
    BY <1>5, <2>1
  <2>3. cut[n + 1] = cut[n + 1 - 1]
    BY <1>3, <2>1
  <2> QED BY <2>1, <2>2, <2>3
<1>6. Nat \subseteq S
  <2> HIDE DEF S
  <2> QED BY <1>4, <1>5, SetInduction
<1> QED BY <1>1, <1>2, <1>6

LEMMA InitEof == Init => EofInv
<1> SUFFICES ASSUME Init PROVE EndPuts /\ EndGiven
  BY DEF EofInv
<1>1. /\ rx_data.handed = <<>> /\ rx_data.contents = <<>> /\ rx_data.writers = <<>>
      /\ urx.q = <<>> /\ urx.writers = <<>> /\ received = <<>>
      /\ eof_puts = 0 /\ rx.pc = "take"
  BY DEF Init, AwaitedMvar
<1>2. <<>> \o <<>> = <<>> /\ DOMAIN <<>> = {}
  OBVIOUS
<1>3. Through(rx_data) = <<>> /\ Delivered = <<>>
  BY <1>1, <1>2 DEF Through, Delivered
<1>4. ~EndTaken /\ ~Ends(rx_data) /\ ~Fins(rx_data)
  BY <1>1, <1>2, <1>3 DEF EndTaken, EofBlocked, Ends, Fins
<1>5. OneEnd(rx_data) /\ OneFin(rx_data) /\ Settled(rx_data)
  BY <1>1, <1>2, <1>3 DEF OneEnd, OneFin, Settled
<1>6. EndPuts
  BY <1>1, <1>4, <1>5 DEF EndPuts
<1>7. EndGiven
  BY <1>1, <1>2, <1>3, <1>4 DEF EndGiven
<1> QED BY <1>6, <1>7

\* What is said of the ends in rx_data, of those in the next state.
LEMMA EndsNext ==
    ASSUME NEW m, rx_data' = m, OneEnd(m), OneFin(m), Settled(m)
    PROVE  /\ OneEnd(rx_data)' /\ OneFin(rx_data)' /\ Settled(rx_data)'
           /\ Ends(rx_data)' <=> Ends(m)
           /\ Fins(rx_data)' <=> Fins(m)
<1>1. OneEnd(rx_data)'
  BY DEF OneEnd, Through
<1>2. OneFin(rx_data)'
  BY DEF OneFin
<1>3. Settled(rx_data)'
  BY DEF Settled, Through
<1>4. Ends(rx_data)' <=> Ends(m)
  BY DEF Ends, Through
<1>5. Fins(rx_data)' <=> Fins(m)
  BY DEF Fins
<1> QED BY <1>1, <1>2, <1>3, <1>4, <1>5

LEMMA EndPutsKeeps ==
    ASSUME EndPuts, rx_data' = rx_data, eof_puts' = eof_puts, rx_nxt_inseq' = rx_nxt_inseq,
           EndTaken' => EndTaken
    PROVE  EndPuts'
<1>1. /\ OneEnd(rx_data)' <=> OneEnd(rx_data)
      /\ OneFin(rx_data)' <=> OneFin(rx_data)
      /\ Settled(rx_data)' <=> Settled(rx_data)
      /\ Ends(rx_data)' <=> Ends(rx_data)
      /\ Fins(rx_data)' <=> Fins(rx_data)
      /\ FinSeq' = FinSeq
  BY DEF OneEnd, OneFin, Settled, Ends, Fins, Through, FinSeq, First
<1> QED BY <1>1 DEF EndPuts

LEMMA EndGivenKeeps ==
    ASSUME EndGiven, urx'.writers = urx.writers, Delivered' = Delivered,
           EndTaken' => EndTaken, rx_nxt' = rx_nxt \/ ~EndTaken',
           rx.pc = "done" => rx'.pc = "done"
    PROVE  EndGiven'
<1>1. FinSeq' = FinSeq /\ Eof' = Eof
  BY DEF Eof, FinSeq, First
<1> QED BY <1>1 DEF EndGiven

\* What happens to the application's buffer alone, or not to it, takes no end.
LEMMA EndTakenKeeps ==
    ASSUME urx'.writers = urx.writers, rx'.pc = "done" => rx.pc = "done"
    PROVE  EndTaken' => EndTaken
<1>1. Eof' = Eof
  BY DEF Eof, FinSeq, First
<1> QED BY <1>1 DEF EndTaken, EofBlocked

\* An input puts the end in when the stream becomes complete, which it does once.
LEMMA EofInputOk ==
    ASSUME ShortStream, PeerStops, TypeOK, PlaceInv, EofInv, NEW s \in PeerSegs, InputOk(s)
    PROVE  EofInv'
<1>1. /\ state # "Reset" /\ eof_puts' = eof_puts /\ rx' = rx /\ urx' = urx
      /\ received' = received /\ rx_nxt' = rx_nxt
  BY DEF InputOk, Arrives
<1>2. EndPuts /\ EndGiven
  BY <1>1 DEF EofInv
<1>3. EndTaken' => EndTaken
  BY <1>1, EndTakenKeeps
<1>4. Delivered' = Delivered
  BY <1>1 DEF Delivered
<1>5. EndGiven'
  BY <1>1, <1>2, <1>3, <1>4, EndGivenKeeps
<1>6. PICK v \in RxValue :
        /\ ~v.eof /\ v.adv \in Nat /\ rx_nxt_inseq' = rx_nxt_inseq + v.adv
        /\ v.fin => rx_nxt_inseq <= FinSeq /\ rx_nxt_inseq' = FinSeq + 1
        /\ rx_data' = IF v.fin /\ ~PutBlocks(rx_data)
                      THEN Put(Put(rx_data, v), EofValue) ELSE Put(rx_data, v)
  BY InputOkPlace
<1>7. rx_nxt_inseq \in Int /\ rx_nxt_inseq' \in Int /\ rx_nxt_inseq' <= FinSeq + 1 /\ FinSeq \in Int
  <2>1. PlaceInv'
    BY InputOkPlace
  <2>2. rx_nxt_inseq' \in Places
    BY <2>1 DEF PlaceInv, Places, FinSeq, First
  <2> QED BY <2>2, FirstInt DEF TypeOK, Places
<1>8. IsMvar(rx_data, RxValue) /\ OneEnd(rx_data) /\ OneFin(rx_data) /\ Settled(rx_data)
  BY <1>2 DEF TypeOK, EndPuts
<1> DEFINE p == Put(rx_data, v)
<1>9. FinSeq' = FinSeq
  BY DEF FinSeq, First
<1>10. CASE v.fin
  <2>1. eof_puts = 0 /\ ~Ends(rx_data) /\ ~Fins(rx_data) /\ ~EndTaken
    BY <1>2, <1>6, <1>7, <1>10 DEF EndPuts
  <2>2. /\ IsMvar(p, RxValue) /\ OneEnd(p) /\ OneFin(p) /\ Settled(p)
        /\ ~Ends(p) /\ (Fins(p) => PutBlocks(rx_data))
    BY <1>6, <1>8, <2>1, PutOne, PutEffect
  <2>3. \E m : rx_data' = m /\ OneEnd(m) /\ OneFin(m) /\ Settled(m) /\ (Ends(m) => ~Fins(m))
    <3>1. CASE PutBlocks(rx_data)
      <4>1. rx_data' = p
        BY <1>6, <3>1
      <4> QED BY <2>2, <4>1
    <3>2. CASE ~PutBlocks(rx_data)
      <4>1. rx_data' = Put(p, EofValue)
        BY <1>6, <1>10, <3>2
      <4>2. EofValue \in RxValue /\ EofValue.eof /\ EofValue.adv = 0 /\ ~EofValue.fin
        BY ValueType DEF EofValue
      <4> HIDE DEF p
      <4>3. OneEnd(Put(p, EofValue)) /\ OneFin(Put(p, EofValue)) /\ Settled(Put(p, EofValue))
            /\ ~Fins(Put(p, EofValue))
        BY <2>2, <3>2, <4>2, PutOne
      <4> QED BY <4>1, <4>3
    <3> QED BY <3>1, <3>2
  <2>4. OneEnd(rx_data)' /\ OneFin(rx_data)' /\ Settled(rx_data)' /\ (Ends(rx_data)' => ~Fins(rx_data)')
    BY <2>3, EndsNext
  <2>5. EndPuts'
    BY <1>1, <1>3, <1>6, <1>9, <1>10, <2>1, <2>4 DEF EndPuts
  <2> QED BY <1>5, <2>5 DEF EofInv
<1>11. CASE ~v.fin
  <2>1. rx_data' = p
    BY <1>6, <1>11
  <2>2. eof_puts = 1 \/ Ends(rx_data) \/ Fins(rx_data) \/ EndTaken
            => v.adv = 0 /\ rx_nxt_inseq' = FinSeq + 1
    BY <1>2, <1>6, <1>7 DEF EndPuts
  <2>3. /\ OneEnd(p) /\ OneFin(p) /\ Settled(p)
        /\ (Ends(p) => Ends(rx_data)) /\ (Fins(p) => Fins(rx_data))
    BY <1>6, <1>8, <1>11, <2>2, PutOne
  <2> HIDE DEF p
  <2>4. /\ OneEnd(rx_data)' /\ OneFin(rx_data)' /\ Settled(rx_data)'
        /\ Ends(rx_data)' => Ends(rx_data)
        /\ Fins(rx_data)' => Fins(rx_data)
    BY <2>1, <2>3, EndsNext
  <2>5. EndPuts'
    BY <1>1, <1>2, <1>3, <1>9, <2>2, <2>4 DEF EndPuts
  <2> QED BY <1>5, <2>5 DEF EofInv
<1> QED BY <1>10, <1>11

LEMMA EofInputs ==
    ASSUME TypeOK, EofInv,
           (\E s \in PeerSegs : InputChallenge(s) \/ InputReset(s)) \/ PutEof
    PROVE  EofInv'
<1>1. CASE \E s \in PeerSegs : InputReset(s)
  <2>1. state' = "Reset"
    BY <1>1 DEF InputReset
  <2> QED BY <2>1 DEF EofInv
<1>2. CASE (\E s \in PeerSegs : InputChallenge(s)) \/ PutEof
  <2> SUFFICES ASSUME state # "Reset" PROVE EndPuts' /\ EndGiven'
    BY <1>2 DEF EofInv, InputChallenge, PutEof
  <2>1. /\ rx' = rx /\ urx' = urx /\ received' = received /\ rx_nxt' = rx_nxt
        /\ rx_nxt_inseq' = rx_nxt_inseq
    BY <1>2 DEF InputChallenge, PutEof
  <2>2. EndPuts /\ EndGiven
    BY DEF EofInv
  <2>3. EndTaken' => EndTaken
    BY <2>1, EndTakenKeeps
  <2>4. Delivered' = Delivered
    BY <2>1 DEF Delivered
  <2>5. EndGiven'
    BY <2>1, <2>2, <2>3, <2>4, EndGivenKeeps
  <2>6. IsMvar(rx_data, RxValue) /\ OneEnd(rx_data) /\ OneFin(rx_data) /\ Settled(rx_data)
    BY <2>2 DEF TypeOK, EndPuts
  <2>7. PICK v \in {EofValue, ChallengeValue} :
          /\ rx_data' = Put(rx_data, v)
          /\ v.eof => eof_puts = 1 /\ eof_puts' = 0
          /\ ~v.eof => eof_puts' = eof_puts
    <3>1. CASE PutEof
      <4>1. eof_puts = 1 /\ eof_puts' = 0
        BY <2>2, <3>1 DEF PutEof, EndPuts
      <4> QED BY <3>1, <4>1, EofValueEnds DEF PutEof
    <3>2. CASE \E s \in PeerSegs : InputChallenge(s)
      BY <3>2, EofValueEnds DEF InputChallenge
    <3> QED BY <1>2, <3>1, <3>2
  <2>8. v \in RxValue /\ v.adv = 0 /\ ~v.fin
    <3>1. /\ EofValue.adv = 0 /\ ~EofValue.fin
          /\ ChallengeValue.adv = 0 /\ ~ChallengeValue.fin
      BY DEF EofValue, ChallengeValue
    <3> QED BY <3>1, ValueType
  <2> DEFINE p == Put(rx_data, v)
  <2>9. /\ OneEnd(p) /\ OneFin(p) /\ Settled(p)
        /\ (Ends(p) => Ends(rx_data) \/ v.eof) /\ (Fins(p) => Fins(rx_data))
    <3>1. v.eof => ~Ends(rx_data)
      BY <2>2, <2>7 DEF EndPuts
    <3> QED BY <2>6, <2>8, <3>1, PutOne
  <2>10. /\ OneEnd(rx_data)' /\ OneFin(rx_data)' /\ Settled(rx_data)'
         /\ Ends(rx_data)' => Ends(rx_data) \/ v.eof
         /\ Fins(rx_data)' => Fins(rx_data)
    <3>1. rx_data' = p
      BY <2>7
    <3> HIDE DEF p
    <3> QED BY <2>9, <3>1, EndsNext
  <2>11. FinSeq' = FinSeq
    BY DEF FinSeq, First
  <2>12. EndPuts'
    BY <2>1, <2>2, <2>3, <2>7, <2>10, <2>11 DEF EndPuts
  <2> QED BY <2>5, <2>12
<1> QED BY <1>1, <1>2

\* add_r by Flow.Rx.thread blocks no other.
LEMMA AddROwner ==
    ASSUME TypeOK, NEW item \in Item, AddR(item, "rx"),
           \A i \in DOMAIN urx.writers : urx.writers[i].owner = "rx"
    PROVE  \A i \in DOMAIN urx'.writers : urx'.writers[i].owner = "rx"
<1> DEFINE w == [owner |-> "rx", item |-> item]
<1>1. urx.writers \in Seq(UrxWriter)
      /\ urx \in [q : Seq(Item), writers : Seq(UrxWriter), readers : Nat, cur_size : Int]
  BY DEF TypeOK
<1>2. w \in UrxWriter /\ w.owner = "rx"
  BY DEF UrxWriter
<1>3. urx'.writers = Append(urx.writers, w) \/ urx'.writers = urx.writers
  BY <1>1 DEF AddR
<1> HIDE DEF w
<1>4. /\ DOMAIN Append(urx.writers, w) = DOMAIN urx.writers \cup {Len(urx.writers) + 1}
      /\ \A i \in DOMAIN urx.writers : Append(urx.writers, w)[i] = urx.writers[i]
      /\ Append(urx.writers, w)[Len(urx.writers) + 1] = w
  BY <1>1, <1>2
<1> QED BY <1>2, <1>3, <1>4

\* Flow.Rx.thread takes again, and a blocked input goes on to put the end.
LEMMA EofLoop == ASSUME IInv, RestInv, EofInv, RxLoop PROVE EofInv'
<1> SUFFICES ASSUME state # "Reset" PROVE EndPuts' /\ EndGiven'
  BY DEF EofInv, RxLoop
<1>1. /\ rx.pc = "queue" /\ rx'.pc = "take" /\ urx' = urx /\ received' = received
      /\ rx_nxt' = rx_nxt /\ rx_nxt_inseq' = rx_nxt_inseq /\ rx_data' = Take(rx_data)
      /\ eof_puts' = IF \E i \in DOMAIN Admitted(rx_data) : Admitted(rx_data)[i].fin
                     THEN eof_puts + 1 ELSE eof_puts
  BY DEF RxLoop, IInv, TypeOK
<1>2. EndPuts /\ EndGiven
  BY DEF EofInv
<1>3. EndTaken' => EndTaken
  BY <1>1, EndTakenKeeps
<1>4. Delivered' = Delivered
  BY <1>1 DEF Delivered
<1>5. EndGiven'
  BY <1>1, <1>2, <1>3, <1>4, EndGivenKeeps
<1>6. /\ IsMvar(rx_data, RxValue) /\ rx_data.handed = <<>>
      /\ OneEnd(rx_data) /\ OneFin(rx_data) /\ Settled(rx_data)
  BY <1>1, <1>2 DEF IInv, TypeOK, ThreadsAgree, EndPuts
<1> DEFINE p  == Take(rx_data)
           in == \E i \in DOMAIN Admitted(rx_data) : Admitted(rx_data)[i].fin
<1>7. /\ OneEnd(p) /\ OneFin(p) /\ Settled(p)
      /\ (Ends(p) => Ends(rx_data)) /\ (Fins(p) => Fins(rx_data))
      /\ (in => Fins(rx_data) /\ ~Fins(p))
  BY <1>6, TakeOne
<1>8. eof_puts' = IF in THEN eof_puts + 1 ELSE eof_puts
  BY <1>1
<1>9. rx_data' = p
  BY <1>1
<1> HIDE DEF p, in
<1>10. /\ OneEnd(rx_data)' /\ OneFin(rx_data)' /\ Settled(rx_data)'
       /\ Ends(rx_data)' => Ends(rx_data)
       /\ Fins(rx_data)' => Fins(rx_data) /\ ~in
  BY <1>7, <1>9, EndsNext
<1>11. FinSeq' = FinSeq
  BY DEF FinSeq, First
<1>12. CASE in
  <2>1. Fins(rx_data)
    BY <1>7, <1>12
  <2>2. eof_puts = 0 /\ ~Ends(rx_data) /\ ~EndTaken /\ rx_nxt_inseq = FinSeq + 1
    BY <1>2, <2>1 DEF EndPuts
  <2>3. eof_puts' = 1
    BY <1>8, <1>12, <2>2
  <2>4. EndPuts'
    BY <1>1, <1>3, <1>10, <1>11, <1>12, <2>2, <2>3 DEF EndPuts
  <2> QED BY <1>5, <2>4
<1>13. CASE ~in
  <2>1. eof_puts' = eof_puts
    BY <1>8, <1>13
  <2>2. EndPuts'
    BY <1>1, <1>2, <1>3, <1>10, <1>11, <2>1 DEF EndPuts
  <2> QED BY <1>5, <2>2
<1> QED BY <1>12, <1>13

\* It looks at a value, which is not the end.
LEMMA EofData == ASSUME IInv, RestInv, EofInv, RxData PROVE EofInv'
<1> SUFFICES ASSUME state # "Reset" PROVE EndPuts' /\ EndGiven'
  BY DEF EofInv, RxData
<1>1. /\ rx.pc = "take" /\ rx'.pc # "done" /\ urx' = urx /\ received' = received
      /\ rx_nxt_inseq' = rx_nxt_inseq /\ eof_puts' = eof_puts
      /\ rx_data.handed # <<>> /\ rx_data' = Consume(rx_data)
  BY DEF RxData
<1>2. EndPuts /\ EndGiven
  BY DEF EofInv
<1>3. ~EndTaken /\ ~EndTaken'
  <2>1. ~EndTaken
    BY <1>1, BlockedNone DEF EndTaken, IInv, ThreadsAgree
  <2> QED BY <1>1, <2>1, EndTakenKeeps
<1>4. Delivered' = Delivered
  BY <1>1 DEF Delivered
<1>5. EndGiven'
  BY <1>1, <1>2, <1>3, <1>4, EndGivenKeeps
<1>6. IsMvar(rx_data, RxValue) /\ OneEnd(rx_data) /\ OneFin(rx_data) /\ Settled(rx_data)
  BY <1>2 DEF IInv, TypeOK, EndPuts
<1> DEFINE p == Consume(rx_data)
<1>7. /\ OneEnd(p) /\ OneFin(p) /\ Settled(p)
      /\ (Ends(p) => Ends(rx_data)) /\ (Fins(p) <=> Fins(rx_data))
  BY <1>1, <1>6, ConsumeOne
<1>8. rx_data' = p
  BY <1>1
<1> HIDE DEF p
<1>9. /\ OneEnd(rx_data)' /\ OneFin(rx_data)' /\ Settled(rx_data)'
      /\ Ends(rx_data)' => Ends(rx_data)
      /\ Fins(rx_data)' => Fins(rx_data)
  BY <1>7, <1>8, EndsNext
<1>10. FinSeq' = FinSeq
  BY DEF FinSeq, First
<1>11. EndPuts'
  BY <1>1, <1>2, <1>3, <1>9, <1>10 DEF EndPuts
<1> QED BY <1>5, <1>11

\* It looks at the end, when there is nothing left to advance.
LEMMA EofEnd == ASSUME IInv, NoStall, LaidInv, RestInv, EofInv, RxEof PROVE EofInv'
<1> SUFFICES ASSUME state # "Reset" PROVE EndPuts' /\ EndGiven'
  BY DEF EofInv, RxEof
<1>1. /\ rx.pc = "take" /\ rx'.pc = (IF AddBlocks THEN "blocked" ELSE "done")
      /\ AddR(Eof, "rx") /\ rx_nxt' = rx_nxt
      /\ rx_nxt_inseq' = rx_nxt_inseq /\ eof_puts' = eof_puts
      /\ rx_data.handed # <<>> /\ Head(rx_data.handed).eof /\ rx_data' = Consume(rx_data)
  BY DEF RxEof, IInv, TypeOK
<1>2. EndPuts /\ EndGiven /\ TypeOK /\ WritersAgree
  BY DEF EofInv, IInv, ThreadsAgree
<1>3. ~EndTaken
  BY <1>1, <1>2, BlockedNone DEF EndTaken
<1>4. IsMvar(rx_data, RxValue) /\ OneEnd(rx_data) /\ OneFin(rx_data) /\ Settled(rx_data)
  BY <1>2 DEF TypeOK, EndPuts
<1> DEFINE p == Consume(rx_data)
           t == Through(rx_data)
<1>5. /\ OneEnd(p) /\ OneFin(p) /\ Settled(p)
      /\ Ends(rx_data) /\ ~Ends(p) /\ (Fins(p) <=> Fins(rx_data))
      /\ \A i \in DOMAIN t : t[i].adv = 0
  BY <1>1, <1>4, ConsumeOne
<1>6. eof_puts = 0 /\ ~Fins(rx_data) /\ rx_nxt_inseq = FinSeq + 1
  BY <1>2, <1>5 DEF EndPuts
<1>7. rx_nxt = FinSeq + 1
  <2>1. t \in Seq(RxValue) /\ Laid(t, rx_nxt, rx_nxt_inseq) /\ rx_nxt \in Int /\ rx_nxt_inseq \in Int
    BY <1>2, <1>4, ThroughType DEF LaidInv, TypeOK
  <2> HIDE DEF t
  <2>2. rx_nxt = rx_nxt_inseq
    BY <1>5, <2>1, LaidFlat
  <2> QED BY <1>6, <2>2
<1>8. rx_data' = p
  BY <1>1
<1> HIDE DEF p, t
<1>9. OneEnd(rx_data)' /\ OneFin(rx_data)' /\ Settled(rx_data)' /\ ~Ends(rx_data)' /\ ~Fins(rx_data)'
  <2>1. OneEnd(p) /\ OneFin(p) /\ Settled(p) /\ ~Ends(p) /\ ~Fins(p)
    BY <1>5, <1>6
  <2> QED BY <1>8, <2>1, EndsNext
<1>10. FinSeq' = FinSeq /\ Eof' = Eof
  BY DEF Eof, FinSeq, First
<1>11. EndPuts'
  BY <1>1, <1>6, <1>9, <1>10 DEF EndPuts
<1>12. EndGiven'
  <2>1. \A i \in DOMAIN urx'.writers : urx'.writers[i].owner = "rx"
    BY <1>1, <1>2, FirstInt, AddROwner DEF EndGiven
  <2>2. \A i \in DOMAIN Delivered' : Delivered'[i] = Eof => i = Len(Delivered') /\ rx'.pc = "done"
    <3>1. \A i \in DOMAIN Delivered : Delivered[i] # Eof
      BY <1>1, <1>2 DEF EndGiven
    <3>2. /\ AddBlocks => Delivered' = Delivered
          /\ ~AddBlocks => Delivered' = Append(Delivered, Eof)
      BY <1>1, <1>2, FirstInt, AddRDelivers
    <3>3. CASE AddBlocks
      BY <3>1, <3>2, <3>3
    <3>4. CASE ~AddBlocks
      <4>1. Delivered \in Seq(Item)
        BY <1>2, DeliveredType
      <4> DEFINE d == Delivered
      <4>2. d \in Seq(Item) /\ (\A i \in DOMAIN d : d[i] # Eof)
        BY <3>1, <4>1
      <4> HIDE DEF d
      <4>3. \A i \in DOMAIN Append(d, Eof) : Append(d, Eof)[i] = Eof => i = Len(Append(d, Eof))
        BY <4>2
      <4> QED BY <1>1, <3>2, <3>4, <4>3 DEF d
    <3> QED BY <3>3, <3>4
  <2> QED BY <1>1, <1>7, <1>10, <2>1, <2>2 DEF EndGiven
<1> QED BY <1>11, <1>12

\* It queues a payload, which is not the end.
LEMMA EofQueue == ASSUME IInv, NoStall, RestInv, PendingInv, EofInv, RxQueue PROVE EofInv'
<1> SUFFICES ASSUME state # "Reset" PROVE EndPuts' /\ EndGiven'
  BY DEF EofInv, RxQueue
<1>1. PICK hd \in rx.rest :
        /\ AddR(hd, "rx")
        /\ rx' = [pc |-> IF AddBlocks THEN "blocked" ELSE "queue", rest |-> rx.rest \ {hd}]
  BY DEF RxQueue
<1>2. /\ rx.pc = "queue" /\ rx'.pc \in {"blocked", "queue"} /\ hd \in Item
      /\ rx_nxt' = rx_nxt /\ rx_nxt_inseq' = rx_nxt_inseq /\ rx_data' = rx_data /\ eof_puts' = eof_puts
  BY <1>1 DEF RxQueue, IInv, TypeOK
<1>3. EndPuts /\ EndGiven /\ TypeOK /\ WritersAgree
  BY DEF EofInv, IInv, ThreadsAgree
<1>4. hd # Eof
  <2>1. hd.len > 0
    BY DEF PendingInv, Tiles
  <2> QED BY <2>1 DEF Eof
<1>5. ~EndTaken
  BY <1>2, <1>3, BlockedNone DEF EndTaken
<1>6. /\ AddBlocks => Delivered' = Delivered
      /\ ~AddBlocks => Delivered' = Append(Delivered, hd)
      /\ ~EofBlocked'
  BY <1>1, <1>2, <1>3, <1>4, <1>5, AddRDelivers DEF EndTaken
<1>7. ~EndTaken'
  BY <1>2, <1>6 DEF EndTaken
<1>8. EndPuts'
  BY <1>2, <1>3, <1>7, EndPutsKeeps
<1>9. FinSeq' = FinSeq /\ Eof' = Eof
  BY DEF Eof, FinSeq, First
<1>10. \A i \in DOMAIN urx'.writers : urx'.writers[i].owner = "rx"
  BY <1>1, <1>2, <1>3, AddROwner DEF EndGiven
<1>11. \A i \in DOMAIN Delivered' : Delivered'[i] # Eof
  <2> DEFINE d == Delivered
  <2>1. d \in Seq(Item) /\ (\A i \in DOMAIN d : d[i] # Eof)
    BY <1>2, <1>3, DeliveredType DEF EndGiven
  <2> HIDE DEF d
  <2>2. \A i \in DOMAIN Append(d, hd) : Append(d, hd)[i] # Eof
    BY <1>2, <1>4, <2>1
  <2> QED BY <1>6, <2>1, <2>2 DEF d
<1>12. EndGiven'
  BY <1>7, <1>9, <1>10, <1>11 DEF EndGiven
<1> QED BY <1>8, <1>12

\* A reader takes an item, and the writer that it wakes may deliver the end.
LEMMA EofRead == ASSUME IInv, RestInv, EofInv, ReadTakes PROVE EofInv'
<1> SUFFICES ASSUME state # "Reset" PROVE EndPuts' /\ EndGiven'
  BY DEF EofInv, ReadTakes
<1> DEFINE h    == Head(urx.q)
           t    == Tail(urx.q)
           size == urx.cur_size - h.len
           w    == Head(urx.writers)
           r    == received
<1>1. /\ urx.writers \in Seq(UrxWriter) /\ urx.q \in Seq(Item) /\ urx.q # <<>> /\ r \in Seq(Item)
      /\ urx \in [q : Seq(Item), writers : Seq(UrxWriter), readers : Nat, cur_size : Int]
      /\ TypeOK /\ WritersAgree
  BY DEF IInv, TypeOK, ThreadsAgree, ReadTakes
<1>2. EndPuts /\ EndGiven
  BY DEF EofInv
<1>3. /\ received' = Append(r, h) /\ rx_nxt' = rx_nxt /\ rx_nxt_inseq' = rx_nxt_inseq
      /\ rx_data' = rx_data /\ eof_puts' = eof_puts
  BY DEF ReadTakes
<1>4. FinSeq' = FinSeq /\ Eof' = Eof
  BY DEF Eof, FinSeq, First
<1>5. h \in Item /\ t \in Seq(Item) /\ Append(r, h) \o t = Delivered
  <2>1. Append(r, h) \o t = r \o urx.q
    BY <1>1, MoveHead
  <2> QED BY <1>1, <2>1, QueueOps DEF Delivered
<1>6. CASE ~WakesWriter(size)
  <2>1. urx' = [urx EXCEPT !.q = Tail(@), !.cur_size = size] /\ rx' = rx
    BY <1>6 DEF ReadTakes
  <2>2. urx'.writers = urx.writers /\ urx'.q = t
    BY <1>1, <2>1
  <2>3. Delivered' = Delivered
    BY <1>3, <1>5, <2>2 DEF Delivered
  <2>4. EndTaken' => EndTaken
    BY <2>1, <2>2, EndTakenKeeps
  <2> QED BY <1>2, <1>3, <2>1, <2>2, <2>3, <2>4, EndPutsKeeps, EndGivenKeeps
<1>7. CASE WakesWriter(size)
  <2>1. /\ urx.writers # <<>>
        /\ urx' = [urx EXCEPT !.q = Append(t, w.item), !.writers = Tail(@), !.cur_size = size]
        /\ rx' = IF w.owner = "rx" THEN [rx EXCEPT !.pc = IF w.item = Eof THEN "done" ELSE "queue"] ELSE rx
    BY <1>7 DEF ReadTakes, WakesWriter
  <2>2. w \in UrxWriter
    BY <1>1, <2>1, QueueOps
  <2> HIDE DEF h, t, size, r
  <2>3. urx'.q = Append(t, w.item) /\ urx'.writers = Tail(urx.writers)
    BY <1>1, <2>1
  <2>4. /\ 1 \in DOMAIN urx.writers /\ urx.writers[1] = w
        /\ \A i \in DOMAIN Tail(urx.writers) :
             /\ i + 1 \in DOMAIN urx.writers /\ i + 1 # 1
             /\ Tail(urx.writers)[i] = urx.writers[i + 1]
    BY <1>1, <2>1
  <2> HIDE DEF w
  <2>5. w.item \in Item /\ w.owner = "rx"
    BY <1>2, <2>2, <2>4 DEF UrxWriter, EndGiven
  <2>6. Delivered' = Append(Delivered, w.item)
    <3>1. Append(r, h) \o Append(t, w.item) = Append(Append(r, h) \o t, w.item)
      <4> DEFINE s == Append(r, h)
                 x == w.item
      <4>1. s \in Seq(Item) /\ t \in Seq(Item) /\ x \in Item
        BY <1>1, <1>5, <2>5, QueueOps
      <4> HIDE DEF s, x
      <4>2. s \o Append(t, x) = Append(s \o t, x)
        BY <4>1, ConcatAppend
      <4> QED BY <4>2 DEF s, x
    <3> QED BY <1>3, <1>5, <2>3, <3>1 DEF Delivered
  <2>7. rx.pc = "blocked"
    BY <1>1, <2>4, <2>5 DEF WritersAgree
  <2>8. rx'.pc = IF w.item = Eof THEN "done" ELSE "queue"
    BY <1>1, <2>1, <2>5 DEF TypeOK
  <2>9. \A i \in DOMAIN urx'.writers : urx'.writers[i].owner = "rx"
    BY <1>2, <2>3, <2>4 DEF EndGiven
  <2>10. EofBlocked' => EofBlocked
    BY <1>4, <2>3, <2>4 DEF EofBlocked
  <2>11. w.item = Eof => EofBlocked
    BY <2>4, <2>5 DEF EofBlocked
  <2>12. EndTaken' => EndTaken
    BY <2>8, <2>10, <2>11 DEF EndTaken
  <2>13. EndPuts'
    BY <1>2, <1>3, <2>12, EndPutsKeeps
  <2>14. \A i \in DOMAIN Delivered' : Delivered'[i] = Eof => i = Len(Delivered') /\ rx'.pc = "done"
    <3> DEFINE d == Delivered
               x == w.item
    <3>1. d \in Seq(Item) /\ (\A i \in DOMAIN d : d[i] # Eof) /\ x \in Item
      BY <1>1, <1>2, <2>5, <2>7, DeliveredType DEF EndGiven
    <3>2. Delivered' = Append(d, x) /\ (x = Eof => rx'.pc = "done")
      BY <2>6, <2>8
    <3> HIDE DEF d, x
    <3>3. \A i \in DOMAIN Append(d, x) : Append(d, x)[i] = Eof => i = Len(Append(d, x)) /\ x = Eof
      BY <3>1
    <3> QED BY <3>2, <3>3
  <2>15. EndGiven'
    BY <1>2, <1>3, <1>4, <2>9, <2>12, <2>14 DEF EndGiven
  <2> QED BY <2>13, <2>15
<1> QED BY <1>6, <1>7

\* The others leave the ends where they are, or reset the connection.
LEMMA EofOthers ==
    ASSUME IInv, EofInv,
           TxThread \/ Transmit \/ ReadWaits \/ CancelRead \/ KeepaliveClose \/ UNCHANGED vars
    PROVE  EofInv'
<1>1. CASE KeepaliveClose
  <2>1. state' = "Reset"
    BY <1>1 DEF KeepaliveClose
  <2> QED BY <2>1 DEF EofInv
<1>2. CASE TxThread \/ Transmit \/ ReadWaits \/ CancelRead \/ UNCHANGED vars
  <2>1. /\ rx_data' = rx_data /\ eof_puts' = eof_puts /\ rx_nxt' = rx_nxt
        /\ rx_nxt_inseq' = rx_nxt_inseq /\ received' = received /\ state' = state
    BY <1>2 DEF TxThread, SendEmptyAck, EmptyAckSent, Notify, Transmit, Output, OutputSent,
                Retransmit, rxVars, ReadWaits, CancelRead, vars
  <2>2. urx'.writers = urx.writers /\ urx'.q = urx.q
    BY <1>2 DEF TxThread, SendEmptyAck, EmptyAckSent, Notify, Transmit, Output, OutputSent,
                Retransmit, rxVars, ReadWaits, CancelRead, vars, IInv, TypeOK
  <2>3. rx'.pc = "done" <=> rx.pc = "done"
    <3>1. rx \in [pc : {"take", "ack", "queue", "blocked", "done"}, rest : SUBSET Item]
      BY DEF IInv, TypeOK
    <3> QED BY <1>2, <3>1 DEF TxThread, SendEmptyAck, EmptyAckSent, Notify, Transmit, Output, OutputSent,
                Retransmit, rxVars, ReadWaits, CancelRead, vars
  <2>4. Delivered' = Delivered
    BY <2>1, <2>2 DEF Delivered
  <2>5. EndTaken' => EndTaken
    BY <2>2, <2>3, EndTakenKeeps
  <2> SUFFICES ASSUME state # "Reset" PROVE EndPuts' /\ EndGiven'
    BY <2>1 DEF EofInv
  <2>6. EndPuts /\ EndGiven
    BY DEF EofInv
  <2> QED BY <2>1, <2>2, <2>3, <2>4, <2>5, <2>6, EndPutsKeeps, EndGivenKeeps
<1> QED BY <1>1, <1>2

LEMMA EofStep ==
    ASSUME ShortStream, PeerStops, IInv, NoStall, PlaceInv, DeliverInv, EofInv, [Next]_vars
    PROVE  EofInv'
<1>1. TypeOK /\ LaidInv /\ RestInv /\ PendingInv
  BY DEF IInv, DeliverInv
<1>2. CASE \E s \in PeerSegs : Input(s)
  BY <1>1, <1>2, EofInputOk, EofInputs DEF Input
<1>3. CASE PutEof
  BY <1>1, <1>3, EofInputs
<1>4. CASE RxThread
  BY <1>1, <1>4, EofData, EofQueue, EofLoop, EofEnd DEF RxThread
<1>5. CASE ReadTakes
  BY <1>1, <1>5, EofRead
<1>6. CASE TxThread \/ Transmit \/ ReadWaits \/ CancelRead \/ KeepaliveClose \/ UNCHANGED vars
  BY <1>6, EofOthers
<1> QED BY <1>2, <1>3, <1>4, <1>5, <1>6 DEF Next, App

-----------------------------------------------------------------------------
(* What the application reads is a ByteStream.                             *)

\* Behind each prefix of what is given there is a place in the stream.
LEMMA GivenPrefix ==
    ASSUME NEW d \in Seq(Item), NEW p \in Int, Given(d, p), NEW r \in Seq(Item), NEW x \in Item,
           Len(r) < Len(d), \A i \in 1..Len(r) : d[i] = r[i], d[Len(r) + 1] = x
    PROVE  \E a, b \in Int :
             /\ Given(r, a) /\ a <= b /\ b <= p
             /\ x = Eof => b = a
             /\ x # Eof => x.len > 0 /\ x.seq = a /\ b = x.seq + x.len
             /\ Len(d) = Len(r) + 1 => b = p
<1> DEFINE l == Len(d)
           k == Len(r)
           ok(i, a, b) == \/ d[i] = Eof /\ b = a
                          \/ d[i] # Eof /\ d[i].len > 0 /\ d[i].seq = a /\ b = d[i].seq + d[i].len
<1>1. PICK end \in [0..l -> Int] :
        /\ end[0] = First /\ end[l] = p
        /\ \A i \in 1..l : ok(i, end[i - 1], end[i])
  BY DEF Given
<1>2. l \in Nat /\ k \in Nat /\ k < l /\ DOMAIN d = 1..l
  BY LenProperties
<1>3. \A i \in 1..l : d[i].seq \in Int /\ d[i].len \in Nat
  <2> SUFFICES ASSUME NEW i \in 1..l PROVE d[i] \in Item
    BY DEF Item
  <2> QED BY <1>2
<1> HIDE DEF l, k
<1>4. \A i \in 1..l : end[i - 1] <= end[i]
  <2> SUFFICES ASSUME NEW i \in 1..l PROVE end[i - 1] <= end[i]
    OBVIOUS
  <2>1. i - 1 \in 0..l /\ i \in 0..l
    BY <1>2
  <2>2. end[i - 1] \in Int /\ end[i] \in Int /\ ok(i, end[i - 1], end[i])
    BY <1>1, <2>1
  <2> QED BY <1>3, <2>2
<1> DEFINE S == {n \in Nat : k + 1 + n <= l => end[k + 1] <= end[k + 1 + n]}
<1>5. 0 \in S
  BY <1>1, <1>2
<1>6. ASSUME NEW n \in Nat, n \in S PROVE n + 1 \in S
  <2> SUFFICES ASSUME k + 1 + (n + 1) <= l PROVE end[k + 1] <= end[k + 1 + (n + 1)]
    OBVIOUS
  <2>1. /\ k + 1 + (n + 1) \in 1..l /\ k + 1 + (n + 1) - 1 = k + 1 + n /\ k + 1 + n <= l
        /\ k + 1 \in 0..l /\ k + 1 + n \in 0..l
    BY <1>2
  <2>2. end[k + 1] <= end[k + 1 + n] /\ end[k + 1 + n] <= end[k + 1 + (n + 1)]
    BY <1>4, <1>6, <2>1
  <2>3. end[k + 1] \in Int /\ end[k + 1 + n] \in Int /\ end[k + 1 + (n + 1)] \in Int
    BY <1>1, <2>1
  <2> QED BY <2>2, <2>3
<1>7. Nat \subseteq S
  <2> HIDE DEF S
  <2> QED BY <1>5, <1>6, SetInduction
<1>8. end[k + 1] <= end[l]
  <2>1. \E n \in Nat : k + 1 + n = l
    <3>1. l - (k + 1) \in Nat /\ k + 1 + (l - (k + 1)) = l
      BY <1>2
    <3> QED BY <3>1
  <2>2. PICK n \in Nat : k + 1 + n = l
    BY <2>1
  <2>3. n \in S /\ k + 1 + n <= l
    BY <1>2, <1>7, <2>2
  <2>4. end[k + 1] <= end[k + 1 + n]
    BY <2>3
  <2> QED BY <2>2, <2>4
<1> DEFINE a == end[k]
           b == end[k + 1]
<1>9. a \in Int /\ b \in Int /\ a <= b /\ b <= p /\ ok(k + 1, a, b) /\ (l = k + 1 => b = p)
  <2>1. k \in 0..l /\ k + 1 \in 1..l /\ k + 1 \in 0..l /\ k + 1 - 1 = k
    BY <1>2
  <2> QED BY <1>1, <1>4, <1>8, <2>1
<1>10. Given(r, a)
  <2> DEFINE e == [i \in 0..k |-> end[i]]
  <2>1. e \in [0..k -> Int] /\ e[0] = First /\ e[k] = a /\ \A i \in 0..k : e[i] = end[i] /\ i \in 0..l
    BY <1>1, <1>2
  <2> HIDE DEF e, a
  <2>2. ASSUME NEW i \in 1..k
        PROVE  \/ r[i] = Eof /\ e[i] = e[i - 1]
               \/ r[i] # Eof /\ r[i].len > 0 /\ r[i].seq = e[i - 1] /\ e[i] = r[i].seq + r[i].len
    <3>1. i \in 0..k /\ i - 1 \in 0..k /\ i \in 1..l
      BY <1>2
    <3>2. e[i] = end[i] /\ e[i - 1] = end[i - 1] /\ ok(i, end[i - 1], end[i]) /\ d[i] = r[i]
      BY <1>1, <2>1, <3>1 DEF k
    <3> QED BY <3>2
  <2> QED BY <2>1, <2>2 DEF Given, k
<1>11. d[k + 1] = x
  BY DEF k
<1> HIDE DEF a, b
<1>12. /\ x = Eof => b = a
       /\ x # Eof => x.len > 0 /\ x.seq = a /\ b = x.seq + x.len
  BY <1>9, <1>11
<1> QED BY <1>9, <1>10, <1>12 DEF k, l

\* ByteStream finds it by the last data that have been read.
LEMMA GivenPosition ==
    ASSUME received \in Seq(Item), NEW p \in Int, Given(received, p)
    PROVE  Stream!Position = p
<1> DEFINE q == received
           l == Len(q)
<1>1. PICK end \in [0..l -> Int] :
        /\ end[0] = First /\ end[l] = p
        /\ \A i \in 1..l :
             \/ q[i] = Eof /\ end[i] = end[i - 1]
             \/ q[i] # Eof /\ end[i] = q[i].seq + q[i].len
  BY DEF Given
<1>2. l \in Nat /\ DOMAIN q = 1..l
  BY LenProperties
<1>3. Stream!End = Eof
  BY DEF Stream!End, Eof
<1> DEFINE data == {i \in DOMAIN q : q[i] # Eof}
           Last(n, j) == j \in data /\ j <= n /\ end[n] = q[j].seq + q[j].len
                         /\ \A i \in data : i <= n => i <= j
           None(n) == end[n] = First /\ \A i \in data : ~(i <= n)
           S == {n \in Nat : n <= l => None(n) \/ \E j \in data : Last(n, j)}
<1>4. data \subseteq 1..l
  BY <1>2
<1> HIDE DEF l, q
<1>5. 0 \in S
  BY <1>1, <1>4
<1>6. ASSUME NEW n \in Nat, n \in S PROVE n + 1 \in S
  <2> SUFFICES ASSUME n + 1 <= l PROVE None(n + 1) \/ \E j \in data : Last(n + 1, j)
    OBVIOUS
  <2>1. n + 1 \in 1..l /\ n + 1 - 1 = n /\ n <= l
    BY <1>2
  <2>2. \A i \in data : i \in Nat /\ (i <= n + 1 <=> i <= n \/ i = n + 1)
    BY <1>2, <1>4
  <2>3. CASE q[n + 1] = Eof
    <3>1. end[n + 1] = end[n] /\ n + 1 \notin data
      BY <1>1, <2>1, <2>3
    <3>2. CASE None(n)
      BY <2>2, <3>1, <3>2
    <3>3. CASE \E j \in data : Last(n, j)
      BY <2>2, <3>1, <3>3
    <3> QED BY <1>6, <2>1, <3>2, <3>3
  <2>4. CASE q[n + 1] # Eof
    <3>1. end[n + 1] = q[n + 1].seq + q[n + 1].len
      BY <1>1, <2>1, <2>4
    <3>2. n + 1 \in data
      BY <1>2, <2>1, <2>4
    <3>3. Last(n + 1, n + 1)
      BY <2>1, <3>1, <3>2
    <3> QED BY <3>2, <3>3
  <2> QED BY <2>3, <2>4
<1>7. Nat \subseteq S
  <2> HIDE DEF S
  <2> QED BY <1>5, <1>6, SetInduction
<1>8. None(l) \/ \E j \in data : Last(l, j)
  BY <1>2, <1>7
<1>9. Stream!Position = IF data = {} THEN First
                        ELSE LET last == CHOOSE i \in data : \A j \in data : j <= i
                             IN  q[last].seq + q[last].len
  BY <1>3 DEF Stream!Position, q
<1>10. \A i \in data : i \in Nat /\ i <= l
  BY <1>2, <1>4
<1>11. CASE None(l)
  <2>1. data = {}
    BY <1>10, <1>11
  <2> QED BY <1>1, <1>9, <1>11, <2>1
<1>12. CASE \E j \in data : Last(l, j)
  <2>1. PICK j \in data : Last(l, j)
    BY <1>12
  <2>2. \A i \in data : i <= j
    BY <1>10, <2>1
  <2> DEFINE last == CHOOSE i \in data : \A k \in data : k <= i
  <2>3. last \in data /\ \A k \in data : k <= last
    BY <2>2
  <2>4. last = j
    <3>1. last <= j /\ j <= last
      BY <2>2, <2>3
    <3> QED BY <1>10, <2>3, <3>1
  <2>5. data # {} /\ Stream!Position = q[last].seq + q[last].len
    BY <1>9, <2>1
  <2> QED BY <1>1, <2>1, <2>4, <2>5
<1> QED BY <1>8, <1>11, <1>12

\* What can have been read last.  In the next state it says what a read reads.
LastRead(r, x) ==
    \E a \in Int :
        /\ Given(r, a)
        /\ x # Eof => x.len > 0 /\ x.seq = a /\ x.seq + x.len <= FinSeq
        /\ state # "Reset" =>
             /\ \A i \in DOMAIN r : r[i] # Eof
             /\ x = Eof => a = FinSeq

LEMMA ReadState ==
    TypeOK /\ ThreadsAgree /\ DeliverInv /\ EofInv =>
        \A r \in Seq(Item), x \in Item : received = Append(r, x) => LastRead(r, x)
<1> SUFFICES ASSUME TypeOK, ThreadsAgree, DeliverInv, EofInv,
                    NEW r \in Seq(Item), NEW x \in Item, received = Append(r, x)
             PROVE  LastRead(r, x)
  OBVIOUS
<1> DEFINE d == Delivered
           u == urx.q
           k == Len(r)
<1>1. d \in Seq(Item) /\ u \in Seq(Item) /\ rx_nxt \in Int
  BY DeliveredType DEF TypeOK
<1>2. k \in Nat /\ DOMAIN r = 1..k /\ Len(d) \in Nat /\ DOMAIN d = 1..Len(d)
  BY <1>1, LenProperties
<1>3. k < Len(d) /\ (\A i \in 1..k : d[i] = r[i]) /\ d[k + 1] = x
  <2>1. d = Append(r, x) \o u
    BY DEF Delivered
  <2>2. /\ Append(r, x) \in Seq(Item) /\ Len(Append(r, x)) = k + 1
        /\ (\A i \in 1..k : Append(r, x)[i] = r[i]) /\ Append(r, x)[k + 1] = x
    BY AppendProperties
  <2> DEFINE e == Append(r, x)
  <2> HIDE DEF e, d, u, k
  <2>3. e \in Seq(Item) /\ Len(e) = k + 1 /\ (\A i \in 1..k : e[i] = r[i]) /\ e[k + 1] = x
    BY <2>2 DEF e
  <2>4. Len(d) = Len(e) + Len(u) /\ (\A i \in 1..Len(e) : d[i] = e[i]) /\ Len(u) \in Nat
    <3>1. d = e \o u
      BY <2>1 DEF e
    <3>2. Len(e) \in Nat /\ Len(u) \in Nat
      BY <1>1, <2>3, LenProperties
    <3>3. /\ Len(e \o u) = Len(e) + Len(u)
          /\ \A i \in 1..(Len(e) + Len(u)) :
               (e \o u)[i] = IF i <= Len(e) THEN e[i] ELSE u[i - Len(e)]
      BY <1>1, <2>3, ConcatProperties
    <3>4. \A i \in 1..Len(e) : (e \o u)[i] = e[i]
      BY <3>2, <3>3
    <3> QED BY <3>1, <3>2, <3>3, <3>4
  <2> QED BY <1>2, <2>3, <2>4
<1>4. PICK p \in Int : Given(d, p) /\ Tiles(rx.rest \cup Blocked, p, Bytes(rx_nxt))
  BY DEF DeliverInv, PendingInv
<1> HIDE DEF d, u
<1>5. PICK a, b \in Int :
        /\ Given(r, a) /\ a <= b /\ b <= p
        /\ x = Eof => b = a
        /\ x # Eof => x.len > 0 /\ x.seq = a /\ b = x.seq + x.len
        /\ Len(d) = k + 1 => b = p
  BY <1>1, <1>3, <1>4, GivenPrefix
<1> HIDE DEF k
<1>6. p <= Bytes(rx_nxt) /\ Bytes(rx_nxt) <= FinSeq /\ Bytes(rx_nxt) \in Int /\ FinSeq \in Int
  <2>1. p <= Bytes(rx_nxt)
    BY <1>4 DEF Tiles
  <2> QED BY <1>1, <2>1, FirstInt DEF Bytes
<1>7. x # Eof => x.len > 0 /\ x.seq = a /\ x.seq + x.len <= FinSeq
  BY <1>5, <1>6
<1>8. ASSUME state # "Reset"
      PROVE  (\A i \in DOMAIN r : r[i] # Eof) /\ (x = Eof => a = FinSeq)
  <2>1. EndGiven
    BY <1>8 DEF EofInv
  <2>2. \A i \in DOMAIN d : d[i] = Eof => i = Len(d) /\ rx.pc = "done"
    BY <2>1 DEF EndGiven, d
  <2>3. \A i \in DOMAIN r : r[i] # Eof
    BY <1>2, <1>3, <2>2
  <2>4. ASSUME x = Eof PROVE a = FinSeq
    <3>1. k + 1 = Len(d) /\ rx.pc = "done"
      <4>1. k + 1 \in DOMAIN d
        BY <1>2, <1>3
      <4>2. d[k + 1] = Eof
        BY <1>3, <2>4
      <4> QED BY <2>2, <4>1, <4>2
    <3>2. rx_nxt = FinSeq + 1
      BY <2>1, <3>1 DEF EndGiven, EndTaken
    <3>3. rx.rest \cup Blocked = {}
      BY <3>1, BlockedNone DEF ThreadsAgree, DeliverInv, RestInv
    <3>4. p = Bytes(rx_nxt)
      BY <1>4, <1>6, <3>3, TilesNone
    <3> QED BY <1>5, <1>6, <2>4, <3>1, <3>2, <3>4 DEF Bytes
  <2> QED BY <2>3, <2>4
<1> QED BY <1>5, <1>7, <1>8 DEF LastRead

\* Each step reads an item, or none; a connection that is reset stays so.
LEMMA ReadSteps ==
    ASSUME IInv, [Next]_vars
    PROVE  /\ received' = received \/ \E x \in Item : received' = Append(received, x)
           /\ state = "Reset" => state' = "Reset"
           /\ state # "Reset" /\ state' = "Reset" => received' \in {received, Append(received, Eof)}
<1>1. TypeOK
  BY DEF IInv
<1>2. CASE \E s \in PeerSegs : Input(s)
  BY <1>2 DEF Input, InputOk, InputChallenge, InputReset
<1>3. CASE RxEof \/ KeepaliveClose
  <2>1. received' \in {received, Append(received, Eof)}
    BY <1>3 DEF RxEof, KeepaliveClose, AddR
  <2>2. state = "Reset" => state' = "Reset"
    BY <1>3 DEF RxEof, KeepaliveClose
  <2> QED BY <2>1, <2>2, FirstInt
<1>4. CASE RxQueue
  <2>1. PICK hd \in rx.rest : AddR(hd, "rx")
    BY <1>4 DEF RxQueue
  <2>2. hd \in Item
    BY <1>1, <2>1 DEF TypeOK
  <2>3. received' = received \/ received' = Append(received, hd)
    BY <2>1 DEF AddR
  <2>4. state' = state
    BY <1>4 DEF RxQueue
  <2> QED BY <2>2, <2>3, <2>4
<1>5. CASE ReadTakes
  <2>1. Head(urx.q) \in Item
    <3>1. urx.q \in Seq(Item) /\ urx.q # <<>>
      BY <1>1, <1>5 DEF TypeOK, ReadTakes
    <3> QED BY <3>1, QueueOps
  <2>2. received' = Append(received, Head(urx.q)) /\ state' = state
    BY <1>5 DEF ReadTakes
  <2> QED BY <2>1, <2>2
<1>6. CASE PutEof \/ RxData \/ RxLoop \/ TxThread \/ Transmit \/ ReadWaits \/ CancelRead \/ UNCHANGED vars
  BY <1>6 DEF PutEof, RxData, RxLoop, TxThread, SendEmptyAck, EmptyAckSent, Notify, Transmit, Output,
              OutputSent, Retransmit, rxVars, ReadWaits, CancelRead, vars
<1> QED BY <1>2, <1>3, <1>4, <1>5, <1>6 DEF Next, RxThread, App

\* Every step is a step of ByteStream.
LEMMA StreamStep ==
    ASSUME IInv, [Next]_vars,
           \A r \in Seq(Item), x \in Item : received' = Append(r, x) => LastRead(r, x)'
    PROVE  [Stream!Next]_<<received, state = "Reset">>
<1>1. received \in Seq(Item) /\ Eof \in Item
  BY FirstInt DEF IInv, TypeOK
<1>2. Stream!End = Eof
  BY DEF Stream!End, Eof
<1>3. CASE state # "Reset" /\ state' = "Reset"
  <2>1. received' = received \/ received' = Append(received, Stream!End)
    BY <1>2, <1>3, ReadSteps
  <2>2. ~(state = "Reset") /\ (state = "Reset")' = TRUE
    BY <1>3
  <2>3. Stream!Abort
    BY <2>1, <2>2 DEF Stream!Abort
  <2> QED BY <2>3 DEF Stream!Next
<1>4. CASE ~(state # "Reset" /\ state' = "Reset")
  <2>1. (state = "Reset")' = (state = "Reset")
    <3>1. state = "Reset" => state' = "Reset"
      BY ReadSteps
    <3> QED BY <1>4, <3>1
  <2>2. CASE received' = received
    BY <2>1, <2>2
  <2>3. ASSUME NEW x \in Item, received' = Append(received, x)
        PROVE  Stream!Next
    <3>1. PICK r \in {received} : r = received
      OBVIOUS
    <3>2. received' = Append(r, x) /\ r \in Seq(Item)
      BY <1>1, <2>3, <3>1
    <3>3. LastRead(r, x)'
      BY <3>2
    <3>4. /\ Eof' = Eof /\ FinSeq' = FinSeq
          /\ \A a : Given(r, a)' <=> Given(r, a)
      BY DEF Given, Eof, FinSeq, First
    <3>5. PICK a \in Int :
            /\ Given(r, a)
            /\ x # Eof => x.len > 0 /\ x.seq = a /\ x.seq + x.len <= FinSeq
            /\ state' # "Reset" =>
                 /\ \A i \in DOMAIN r : r[i] # Eof
                 /\ x = Eof => a = FinSeq
      BY <3>3, <3>4 DEF LastRead
    <3>6. Stream!Position = a
      BY <1>1, <3>1, <3>5, GivenPosition
    <3>7. state' # "Reset" => ~Stream!Ended
      BY <1>2, <3>1, <3>5 DEF Stream!Ended
    <3>8. ~Stream!Ended \/ state = "Reset"
      BY <2>1, <3>7
    <3>9. CASE x = Eof
      <4>1. (Stream!Position = FinSeq /\ ~Stream!Ended) \/ state = "Reset"
        BY <2>1, <3>5, <3>6, <3>7, <3>9
      <4>2. Stream!ReadEnd
        BY <1>2, <2>1, <2>3, <3>9, <4>1 DEF Stream!ReadEnd
      <4> QED BY <4>2 DEF Stream!Next
    <3>10. CASE x # Eof
      <4>1. x = [seq |-> a, len |-> x.len] /\ x.len \in Nat
        BY <3>5, <3>10 DEF Item
      <4>2. x.len \in 1..(FinSeq - a)
        BY <3>5, <3>10, <4>1, FirstInt
      <4>3. \E n \in 1..(FinSeq - Stream!Position) :
              received' = Append(received, [seq |-> Stream!Position, len |-> n])
        BY <2>3, <3>6, <4>1, <4>2
      <4>4. Stream!Read
        BY <2>1, <3>8, <4>3 DEF Stream!Read
      <4> QED BY <4>4 DEF Stream!Next
    <3> QED BY <3>9, <3>10
  <2> QED BY <2>2, <2>3, ReadSteps
<1> QED BY <1>3, <1>4

\* What the application reads is what the peer wrote, each byte once and in order, and
\* the end only behind all of it, unless the connection is reset (User_buffer.Rx.take_l
\* over all of the receive path): TcpReceive implements ByteStream.
THEOREM ReadsByteStream == ShortStream /\ PeerStops /\ SmallSegs => (Spec => ImplementsByteStream)
<1> SUFFICES ASSUME ShortStream, PeerStops, SmallSegs PROVE Spec => ImplementsByteStream
  OBVIOUS
<1> DEFINE Inv == IInv /\ NoStall /\ PlaceInv /\ DeliverInv /\ EofInv
           R   == \A r \in Seq(Item), x \in Item : received = Append(r, x) => LastRead(r, x)
<1>1. Init => PlaceInv /\ DeliverInv /\ EofInv
  BY InitPlace, InitDeliver, InitEof
<1>2. IInv /\ NoStall /\ PlaceInv /\ DeliverInv /\ EofInv /\ [Next]_vars
        => PlaceInv' /\ DeliverInv' /\ EofInv'
  BY LaidSteps, PendingSteps, PlaceStep, EofStep DEF DeliverInv
<1>3. IInv /\ DeliverInv /\ EofInv => R
  BY ReadState DEF IInv
<1>4. IInv /\ [Next]_vars /\ R' => [Stream!Next]_<<received, state = "Reset">>
  BY StreamStep
<1>5. Init => Stream!Init
  BY DEF Init, Stream!Init
<1> HIDE DEF R
<1> QED BY <1>1, <1>2, <1>3, <1>4, <1>5, Inductive, NeverStalls, PTL
        DEF Spec, ImplementsByteStream, Stream!Spec
=============================================================================
