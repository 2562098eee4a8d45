--------------------------- MODULE LwtMvarProofs ----------------------------
(***************************************************************************)
(* Facts about the operations of an mvar, for every type of value.         *)
(***************************************************************************)
EXTENDS LwtMvar, SequenceTheorems, TLAPS

LEMMA OneValue ==
    ASSUME NEW V, NEW v \in V
    PROVE  <<v>> \in Seq(V) /\ Len(<<v>>) = 1 /\ <<v>> # <<>>
  OBVIOUS

LEMMA QueueOps ==
    ASSUME NEW V, NEW q \in Seq(V), NEW v \in V
    PROVE  /\ Append(q, v) \in Seq(V) /\ Append(q, v) # <<>>
           /\ q # <<>> => Head(q) \in V /\ Tail(q) \in Seq(V)
  BY AppendProperties, HeadTailProperties

\* A put leaves an mvar well-formed; after it there is something to take; it
\* hands nothing to a thread that does not wait; and it waits if it blocks.
LEMMA PutEffect ==
    ASSUME NEW V, NEW m, IsMvar(m, V), NEW v \in V
    PROVE  /\ IsMvar(Put(m, v), V)
           /\ ~m.reading => ~Put(m, v).reading /\ Put(m, v).handed = m.handed
           /\ Put(m, v).contents # <<>> \/ Put(m, v).handed # <<>>
           /\ Put(m, v).writers = IF PutBlocks(m) THEN Append(m.writers, v) ELSE m.writers
<1> DEFINE p == Put(m, v)
<1>1. m \in MvarRecord(V)
  BY DEF IsMvar
<1>2. CASE PutBlocks(m)
  <2>1. p = [m EXCEPT !.writers = Append(@, v)]
    BY <1>2 DEF Put
  <2>. Append(m.writers, v) \in Seq(V)
    BY <1>1, QueueOps DEF MvarRecord
  <2>2. p \in MvarRecord(V)
    BY <1>1, <2>1 DEF MvarRecord
  <2>3. /\ p.contents = m.contents /\ p.handed = m.handed /\ p.reading = m.reading
        /\ p.writers = Append(m.writers, v)
    BY <1>1, <2>1 DEF MvarRecord
  <2>4. ~m.reading /\ p.contents # <<>>
    BY <1>2, <2>3 DEF IsMvar, PutBlocks
  <2>5. IsMvar(p, V)
    BY <2>2, <2>3, <2>4 DEF IsMvar
  <2> QED BY <1>2, <2>3, <2>4, <2>5
<1>3. CASE ~PutBlocks(m) /\ m.reading
  <2>1. p = [m EXCEPT !.reading = FALSE, !.handed = <<v>>]
    BY <1>3 DEF Put
  <2>2. p \in MvarRecord(V)
    BY <1>1, <2>1, OneValue DEF MvarRecord
  <2>3. p.contents = <<>> /\ p.handed = <<v>> /\ ~p.reading /\ p.writers = m.writers
    BY <1>1, <1>3, <2>1 DEF MvarRecord, PutBlocks
  <2>4. m.writers = <<>>
    BY <1>3 DEF IsMvar, PutBlocks
  <2> QED BY <1>3, <2>2, <2>3, <2>4, OneValue DEF IsMvar
<1>4. CASE ~PutBlocks(m) /\ ~m.reading
  <2>1. p = [m EXCEPT !.contents = <<v>>]
    BY <1>4 DEF Put
  <2>2. p \in MvarRecord(V)
    BY <1>1, <2>1, OneValue DEF MvarRecord
  <2>3. p.contents = <<v>> /\ p.handed = m.handed /\ p.reading = m.reading /\ p.writers = m.writers
    BY <1>1, <2>1 DEF MvarRecord
  <2> QED BY <1>4, <2>2, <2>3, OneValue DEF IsMvar
<1> QED BY <1>2, <1>3, <1>4

\* A take by a thread that holds nothing leaves an mvar well-formed, gives the
\* thread what there was, and lets in the writer that came first.
LEMMA TakeEffect ==
    ASSUME NEW V, NEW m, IsMvar(m, V), m.handed = <<>>
    PROVE  /\ IsMvar(Take(m), V)
           /\ Take(m).handed = m.contents
           /\ Take(m).writers = IF m.writers = <<>> THEN <<>> ELSE Tail(m.writers)
<1> DEFINE p == Take(m)
<1>1. m \in MvarRecord(V)
  BY DEF IsMvar
<1>2. CASE m.contents = <<>>
  <2>1. p = [m EXCEPT !.reading = TRUE]
    BY <1>2 DEF Take
  <2>2. p \in MvarRecord(V)
    BY <1>1, <2>1 DEF MvarRecord
  <2>3. p.contents = <<>> /\ p.handed = <<>> /\ p.writers = m.writers /\ m.writers = <<>>
    BY <1>1, <1>2, <2>1 DEF MvarRecord, IsMvar
  <2> QED BY <1>2, <2>2, <2>3 DEF IsMvar
<1>3. CASE m.contents # <<>>
  <2> DEFINE c == Admitted(m)
             w == IF m.writers = <<>> THEN <<>> ELSE Tail(m.writers)
  <2>1. p = [m EXCEPT !.handed = m.contents, !.contents = c, !.writers = w]
    BY <1>1, <1>3 DEF Take, MvarRecord
  <2>2. c \in Seq(V) /\ Len(c) <= 1 /\ w \in Seq(V) /\ (c = <<>> => w = <<>>)
    <3>1. CASE m.writers = <<>>
      BY <3>1 DEF Admitted
    <3>2. CASE m.writers # <<>>
      <4>1. c = <<Head(m.writers)>>
        BY <1>3, <3>2 DEF Admitted
      <4>2. Head(m.writers) \in V /\ Tail(m.writers) \in Seq(V)
        BY <1>1, <3>2, HeadTailProperties DEF MvarRecord
      <4> QED BY <3>2, <4>1, <4>2, OneValue
    <3> QED BY <3>1, <3>2
  <2>3. p \in MvarRecord(V)
    <3> HIDE DEF c, w
    <3> QED BY <1>1, <2>1, <2>2 DEF MvarRecord
  <2>4. p.contents = c /\ p.handed = m.contents /\ p.reading = m.reading /\ p.writers = w
    <3> HIDE DEF c, w
    <3> QED BY <1>1, <2>1 DEF MvarRecord
  <2>5. ~m.reading /\ Len(m.contents) <= 1
    BY <1>3 DEF IsMvar
  <2> QED
    <3> HIDE DEF c
    <3> QED BY <1>3, <2>2, <2>3, <2>4, <2>5 DEF IsMvar
<1> QED BY <1>2, <1>3

\* A thread that looks at its value leaves the rest of the mvar alone.
LEMMA ConsumeEffect ==
    ASSUME NEW V, NEW m, IsMvar(m, V)
    PROVE  /\ IsMvar(Consume(m), V)
           /\ Consume(m).handed = <<>> /\ Consume(m).contents = m.contents
           /\ Consume(m).writers = m.writers /\ Consume(m).reading = m.reading
<1> DEFINE p == Consume(m)
<1>1. m \in MvarRecord(V)
  BY DEF IsMvar
<1>2. p = [m EXCEPT !.handed = <<>>]
  BY DEF Consume
<1>3. p \in MvarRecord(V)
  BY <1>1, <1>2, EmptySeq DEF MvarRecord
<1>4. p.handed = <<>> /\ p.contents = m.contents /\ p.writers = m.writers /\ p.reading = m.reading
  BY <1>1, <1>2 DEF MvarRecord
<1> QED BY <1>3, <1>4 DEF IsMvar

\* What threads start from.
LEMMA AwaitedType == ASSUME NEW V PROVE IsMvar(AwaitedMvar, V)
<1>1. <<>> \in Seq(V) /\ Len(<<>>) <= 1
  BY EmptySeq
<1>2. AwaitedMvar \in MvarRecord(V)
  BY <1>1 DEF MvarRecord, AwaitedMvar
<1>3. AwaitedMvar.contents = <<>> /\ AwaitedMvar.writers = <<>> /\ AwaitedMvar.handed = <<>>
  BY DEF AwaitedMvar
<1> QED BY <1>1, <1>2, <1>3 DEF IsMvar
=============================================================================
