---------------------------- MODULE SpscqProofs ----------------------------
(***************************************************************************)
(* For every size of the ring and every set of objects: the types, the     *)
(* exclusive slots, and that the ring is a bounded FIFO.                   *)
(***************************************************************************)
EXTENDS Spscq, SequenceTheorems, TLAPS

IInv == RingTypeOK /\ SlotExclusive

(* The next slot is a slot, and no two slots have the same. *)
LEMMA NextSlotFacts ==
  /\ \A i \in Slots : NextSlot(i) \in Slots
  /\ \A i, j \in Slots : NextSlot(i) = NextSlot(j) => i = j
BY SizeAssumption DEF NextSlot, Slots

LEMMA InitInv == RingInit => IInv
<1>1. RingInit => RingTypeOK
  BY SizeAssumption DEF RingInit, RingTypeOK, Slots
<1>2. RingInit => SlotExclusive
  BY DEF RingInit, SlotExclusive
<1>. QED
  BY <1>1, <1>2 DEF IInv

LEMMA NextType == RingTypeOK /\ [RingNext]_ring_vars => RingTypeOK'
<1>. SUFFICES ASSUME RingTypeOK, [RingNext]_ring_vars PROVE RingTypeOK'
  OBVIOUS
<1>. USE DEF RingTypeOK
<1>1. ASSUME NEW v \in Values, EnqStart(v) PROVE RingTypeOK'
  BY <1>1 DEF EnqStart, ring
<1>2. CASE EnqCheck
  BY <1>2 DEF EnqCheck, ring
<1>3. CASE EnqWrite
  BY <1>3 DEF EnqWrite
<1>4. CASE EnqPublish
  BY <1>4, NextSlotFacts DEF EnqPublish
<1>5. CASE DeqStart
  BY <1>5 DEF DeqStart, ring
<1>6. CASE DeqCheck
  BY <1>6 DEF DeqCheck, ring
<1>7. CASE DeqRead
  BY <1>7 DEF DeqRead, ring
<1>8. CASE DeqRelease
  BY <1>8, NextSlotFacts DEF DeqRelease
<1>9. CASE DeqReturn
  BY <1>9 DEF DeqReturn, ring
<1>10. CASE UNCHANGED ring_vars
  BY <1>10 DEF ring_vars, ring
<1>. QED
  BY <1>1, <1>2, <1>3, <1>4, <1>5, <1>6, <1>7, <1>8, <1>9, <1>10 DEF RingNext

(* A cursor that moves on does not meet the other: the producer has left   *)
(* a slot free, the consumer has found one filled.                         *)
LEMMA NextExclusive == IInv /\ [RingNext]_ring_vars => SlotExclusive'
<1>. SUFFICES ASSUME RingTypeOK, SlotExclusive, [RingNext]_ring_vars PROVE SlotExclusive'
  BY DEF IInv
<1>. USE DEF RingTypeOK, SlotExclusive
<1>1. ASSUME NEW v \in Values, EnqStart(v) PROVE SlotExclusive'
  BY <1>1 DEF EnqStart, ring
<1>2. CASE EnqCheck
  BY <1>2 DEF EnqCheck, ring
<1>3. CASE EnqWrite
  BY <1>3 DEF EnqWrite
<1>4. CASE EnqPublish
  BY <1>4 DEF EnqPublish
<1>5. CASE DeqStart
  BY <1>5 DEF DeqStart, ring
<1>6. CASE DeqCheck
  BY <1>6 DEF DeqCheck, ring
<1>7. CASE DeqRead
  BY <1>7 DEF DeqRead, ring
<1>8. CASE DeqRelease
  BY <1>8, NextSlotFacts DEF DeqRelease
<1>9. CASE DeqReturn
  BY <1>9 DEF DeqReturn, ring
<1>10. CASE UNCHANGED ring_vars
  BY <1>10 DEF ring_vars, ring
<1>. QED
  BY <1>1, <1>2, <1>3, <1>4, <1>5, <1>6, <1>7, <1>8, <1>9, <1>10 DEF RingNext

LEMMA Invariance == RingSpec => []IInv
<1>1. IInv /\ [RingNext]_ring_vars => IInv'
  BY NextType, NextExclusive DEF IInv
<1>. QED
  BY InitInv, <1>1, PTL DEF RingSpec

(* Every variable has its type in every reachable state. *)
THEOREM TypeCorrect == RingSpec => []RingTypeOK
<1>1. IInv => RingTypeOK
  BY DEF IInv
<1>. QED
  BY Invariance, <1>1, PTL

(* The producer and the consumer never access the same slot. *)
THEOREM AlwaysExclusive == RingSpec => []SlotExclusive
<1>1. IInv => SlotExclusive
  BY DEF IInv
<1>. QED
  BY Invariance, <1>1, PTL
----------------------------------------------------------------------------
(* The ring is a bounded FIFO *)

(* What is between the cursors is free of the slot that is written next. *)
LEMMA BetweenCursors ==
  ASSUME NEW h \in Slots, NEW t \in Slots
  PROVE  /\ Used(h, t) \in 0 .. Size - 1
         /\ \A i \in 1 .. Used(h, t) : Nth(h, i) \in Slots /\ Nth(h, i) # t
BY SizeAssumption DEF Used, Nth, Slots

(* Publishing adds the slot of tail at the end. *)
LEMMA TailMoves ==
  ASSUME NEW h \in Slots, NEW t \in Slots, NextSlot(t) # h
  PROVE  /\ Used(h, NextSlot(t)) = Used(h, t) + 1
         /\ Used(h, t) < Size - 1
         /\ Nth(h, Used(h, t) + 1) = t
BY SizeAssumption DEF Used, Nth, Slots, NextSlot

(* Releasing takes the slot of head away from the front. *)
LEMMA HeadMoves ==
  ASSUME NEW h \in Slots, NEW t \in Slots, h # t
  PROVE  /\ Used(h, t) > 0 /\ Used(NextSlot(h), t) = Used(h, t) - 1
         /\ Nth(h, 1) = h
         /\ \A i \in 1 .. Used(h, t) - 1 : Nth(NextSlot(h), i) = Nth(h, i + 1)
BY SizeAssumption DEF Used, Nth, Slots, NextSlot

(* The slots between the cursors hold objects, the slot of tail holds the  *)
(* object to be published, and what has been read is the oldest object.    *)
Filled ==
  /\ \A i \in 1 .. Used(head, tail) : buffer[Nth(head, i)] \in Values
  /\ producer # "idle" => obj \in Values
  /\ producer = "publish" => buffer[tail] = obj
  /\ consumer = "release" => result = buffer[head]
  /\ consumer = "return" => result \in Values

LEMMA InitFilled == RingInit => Filled
BY SizeAssumption DEF RingInit, Filled, Used

LEMMA NextFilled == IInv /\ Filled /\ [RingNext]_ring_vars => Filled'
<1>. SUFFICES ASSUME RingTypeOK, SlotExclusive, Filled, [RingNext]_ring_vars PROVE Filled'
  BY DEF IInv
<1>. USE DEF RingTypeOK, SlotExclusive, Filled
<1>1. ASSUME NEW v \in Values, EnqStart(v) PROVE Filled'
  BY <1>1 DEF EnqStart, ring
<1>2. CASE EnqCheck
  BY <1>2 DEF EnqCheck, ring
<1>3. CASE EnqWrite
  <2>1. \A i \in 1 .. Used(head, tail) : buffer'[Nth(head, i)] = buffer[Nth(head, i)]
    BY <1>3, BetweenCursors DEF EnqWrite
  <2>2. consumer = "release" => buffer'[head] = buffer[head]
    BY <1>3 DEF EnqWrite
  <2>. QED
    BY <1>3, <2>1, <2>2 DEF EnqWrite
<1>4. CASE EnqPublish
  <2>1. Used(head, NextSlot(tail)) = Used(head, tail) + 1 /\ Nth(head, Used(head, tail) + 1) = tail
    BY <1>4, TailMoves DEF EnqPublish
  <2>2. Used(head, tail) \in Nat
    BY BetweenCursors
  <2>3. \A i \in 1 .. Used(head, tail) + 1 : buffer[Nth(head, i)] \in Values
    BY <1>4, <2>1, <2>2 DEF EnqPublish
  <2>. QED
    BY <1>4, <2>1, <2>3 DEF EnqPublish
<1>5. CASE DeqStart
  BY <1>5 DEF DeqStart, ring
<1>6. CASE DeqCheck
  BY <1>6 DEF DeqCheck, ring
<1>7. CASE DeqRead
  BY <1>7 DEF DeqRead, ring
<1>8. CASE DeqRelease
  <2>1. /\ Used(head, tail) \in Nat \ {0} /\ Used(NextSlot(head), tail) = Used(head, tail) - 1
        /\ Nth(head, 1) = head
        /\ \A i \in 1 .. Used(head, tail) - 1 : Nth(NextSlot(head), i) = Nth(head, i + 1)
    BY <1>8, HeadMoves, BetweenCursors DEF DeqRelease
  <2>2. \A i \in 1 .. Used(head, tail) - 1 : buffer[Nth(head, i + 1)] \in Values
    BY <2>1
  <2>3. buffer[head] \in Values
    BY <2>1
  <2>. QED
    BY <1>8, <2>1, <2>2, <2>3 DEF DeqRelease
<1>9. CASE DeqReturn
  BY <1>9 DEF DeqReturn, ring
<1>10. CASE UNCHANGED ring_vars
  BY <1>10 DEF ring_vars, ring
<1>. QED
  BY <1>1, <1>2, <1>3, <1>4, <1>5, <1>6, <1>7, <1>8, <1>9, <1>10 DEF RingNext

LEMMA FilledInvariance == RingSpec => []Filled
BY Invariance, InitFilled, NextFilled, PTL DEF RingSpec

LEMMA QueueType ==
  ASSUME IInv, Filled
  PROVE  AbstractQueue \in Seq(Values) /\ Len(AbstractQueue) = Used(head, tail)
<1>1. Used(head, tail) \in Nat
  BY BetweenCursors DEF IInv, RingTypeOK
<1>. QED
  BY <1>1 DEF AbstractQueue, Filled

(* The elements of a sequence after Append and Tail. *)
LEMMA AppendElement ==
  ASSUME NEW s \in Seq(Values), NEW e \in Values, NEW i \in 1 .. Len(s) + 1
  PROVE  Append(s, e)[i] = IF i = Len(s) + 1 THEN e ELSE s[i]
OBVIOUS

LEMMA TailElement ==
  ASSUME NEW s \in Seq(Values), s # << >>, NEW i \in 1 .. Len(s) - 1
  PROVE  Tail(s)[i] = s[i + 1]
OBVIOUS

LEMMA InitAbstract == RingInit => Fifo!Init
<1>. SUFFICES ASSUME RingInit PROVE Fifo!Init
  OBVIOUS
<1>1. AbstractQueue = << >>
  BY SizeAssumption DEF RingInit, AbstractQueue, Used
<1>2. AbstractTaken = [c \in {"consumer"} |-> NoValue]
  BY DEF RingInit, AbstractTaken
<1>. QED
  BY <1>1, <1>2 DEF Fifo!Init

LEMMA NextAbstract ==
  IInv /\ IInv' /\ Filled /\ Filled' /\ [RingNext]_ring_vars => [Fifo!Next]_(Fifo!vars)
<1>. SUFFICES ASSUME IInv, IInv', Filled, Filled', [RingNext]_ring_vars
              PROVE  [Fifo!Next]_(Fifo!vars)
  OBVIOUS
<1>. DEFINE same == UNCHANGED <<AbstractQueue, AbstractTaken>>
<1>0. ASSUME same PROVE [Fifo!Next]_(Fifo!vars)
  BY <1>0 DEF Fifo!vars
<1>1. ASSUME NEW v \in Values, EnqStart(v) PROVE same
  BY <1>1 DEF EnqStart, ring, AbstractQueue, AbstractTaken, Used, Nth
<1>2. CASE EnqCheck
  BY <1>0, <1>2 DEF EnqCheck, ring, AbstractQueue, AbstractTaken, Used, Nth
<1>3. CASE EnqWrite
  <2>1. \A i \in 1 .. Used(head, tail) : buffer'[Nth(head, i)] = buffer[Nth(head, i)]
    BY <1>3, BetweenCursors DEF EnqWrite, IInv, RingTypeOK
  <2>2. AbstractQueue' = [i \in 1 .. Used(head, tail) |-> buffer'[Nth(head, i)]]
    BY <1>3 DEF EnqWrite, AbstractQueue, Used, Nth
  <2>3. AbstractQueue' = AbstractQueue
    BY <2>1, <2>2 DEF AbstractQueue
  <2>4. UNCHANGED AbstractTaken
    BY <1>3 DEF EnqWrite, AbstractTaken
  <2>. QED
    BY <1>0, <2>3, <2>4
<1>4. CASE EnqPublish
  <2>1. /\ Used(head, tail) \in Nat /\ Used(head, NextSlot(tail)) = Used(head, tail) + 1
        /\ Used(head, tail) < Size - 1 /\ Nth(head, Used(head, tail) + 1) = tail
    BY <1>4, TailMoves, BetweenCursors DEF EnqPublish, IInv, RingTypeOK, SlotExclusive
  <2>2. AbstractQueue' = [i \in 1 .. Used(head, tail) + 1 |-> buffer[Nth(head, i)]]
    <3>1. AbstractQueue' = [i \in 1 .. Used(head, NextSlot(tail)) |-> buffer[Nth(head, i)]]
      BY <1>4 DEF EnqPublish, AbstractQueue, Used, Nth
    <3>. QED
      BY <2>1, <3>1
  <2>3. AbstractQueue' = Append(AbstractQueue, obj)
    <3>1. obj \in Values /\ buffer[tail] = obj
      BY <1>4 DEF EnqPublish, Filled
    <3>2. /\ Append(AbstractQueue, obj) \in Seq(Values)
          /\ Len(Append(AbstractQueue, obj)) = Used(head, tail) + 1
      BY <3>1, <2>1, QueueType
    <3>3. ASSUME NEW i \in 1 .. Used(head, tail) + 1
          PROVE  AbstractQueue'[i] = Append(AbstractQueue, obj)[i]
      <4>1. AbstractQueue'[i] = buffer[Nth(head, i)]
        BY <2>2
      <4>2. Append(AbstractQueue, obj)[i] =
              IF i = Used(head, tail) + 1 THEN obj ELSE AbstractQueue[i]
        BY <3>1, QueueType, AppendElement
      <4>3. i # Used(head, tail) + 1 => AbstractQueue[i] = buffer[Nth(head, i)]
        BY <2>1 DEF AbstractQueue
      <4>. QED
        BY <2>1, <3>1, <4>1, <4>2, <4>3
    <3>4. AbstractQueue' \in Seq(Values) /\ Len(AbstractQueue') = Used(head, tail) + 1
      <4>1. \A i \in 1 .. Used(head, tail) + 1 : buffer[Nth(head, i)] \in Values
        BY <2>1, <3>1 DEF Filled
      <4>. QED
        BY <2>1, <2>2, <4>1
    <3>. QED
      BY <2>1, <3>2, <3>3, <3>4, SeqEqual
  <2>4. UNCHANGED AbstractTaken
    BY <1>4 DEF EnqPublish, AbstractTaken
  <2>5. obj \in Values /\ Len(AbstractQueue) < Size - 1
    BY <1>4, <2>1, QueueType DEF EnqPublish, Filled
  <2>. QED
    BY <2>3, <2>4, <2>5 DEF Fifo!Next, Fifo!Enqueue
<1>5. CASE DeqStart
  BY <1>0, <1>5 DEF DeqStart, ring, AbstractQueue, AbstractTaken, Used, Nth
<1>6. CASE DeqCheck
  BY <1>0, <1>6 DEF DeqCheck, ring, AbstractQueue, AbstractTaken, Used, Nth
<1>7. CASE DeqRead
  BY <1>0, <1>7 DEF DeqRead, ring, AbstractQueue, AbstractTaken, Used, Nth
<1>8. CASE DeqRelease
  <2>1. /\ Used(head, tail) \in Nat \ {0} /\ Used(NextSlot(head), tail) = Used(head, tail) - 1
        /\ Nth(head, 1) = head
        /\ \A i \in 1 .. Used(head, tail) - 1 : Nth(NextSlot(head), i) = Nth(head, i + 1)
    BY <1>8, HeadMoves, BetweenCursors DEF DeqRelease, IInv, RingTypeOK, SlotExclusive
  <2>2. AbstractQueue' = [i \in 1 .. Used(head, tail) - 1 |-> buffer[Nth(head, i + 1)]]
    <3>1. AbstractQueue' = [i \in 1 .. Used(NextSlot(head), tail) |-> buffer[Nth(NextSlot(head), i)]]
      BY <1>8 DEF DeqRelease, AbstractQueue, Used, Nth
    <3>. QED
      BY <2>1, <3>1
  <2>3. AbstractQueue # << >> /\ Head(AbstractQueue) = buffer[head]
    BY <2>1, QueueType DEF AbstractQueue
  <2>4. AbstractQueue' = Tail(AbstractQueue)
    <3>1. Tail(AbstractQueue) \in Seq(Values) /\ Len(Tail(AbstractQueue)) = Used(head, tail) - 1
      BY <2>1, <2>3, QueueType
    <3>2. ASSUME NEW i \in 1 .. Used(head, tail) - 1
          PROVE  AbstractQueue'[i] = Tail(AbstractQueue)[i]
      <4>1. AbstractQueue'[i] = buffer[Nth(head, i + 1)]
        BY <2>2
      <4>2. Tail(AbstractQueue)[i] = AbstractQueue[i + 1]
        BY <2>3, QueueType, TailElement
      <4>3. AbstractQueue[i + 1] = buffer[Nth(head, i + 1)]
        BY <2>1 DEF AbstractQueue
      <4>. QED
        BY <4>1, <4>2, <4>3
    <3>3. AbstractQueue' \in Seq(Values) /\ Len(AbstractQueue') = Used(head, tail) - 1
      BY <2>1, <2>2 DEF Filled
    <3>. QED
      BY <3>1, <3>2, <3>3, SeqEqual
  <2>5. AbstractTaken["consumer"] = NoValue /\ AbstractTaken' = [AbstractTaken EXCEPT !["consumer"] = Head(AbstractQueue)]
    BY <1>8, <2>3 DEF DeqRelease, AbstractTaken, Filled
  <2>. QED
    BY <2>3, <2>4, <2>5 DEF Fifo!Next, Fifo!Dequeue
<1>9. CASE DeqReturn
  <2>1. UNCHANGED AbstractQueue
    BY <1>9 DEF DeqReturn, ring, AbstractQueue, Used, Nth
  <2>2. AbstractTaken["consumer"] # NoValue
    BY <1>9, ValueAssumption DEF DeqReturn, AbstractTaken, Filled
  <2>3. AbstractTaken' = [AbstractTaken EXCEPT !["consumer"] = NoValue]
    BY <1>9 DEF DeqReturn, AbstractTaken
  <2>. QED
    BY <2>1, <2>2, <2>3 DEF Fifo!Next, Fifo!Return
<1>10. CASE UNCHANGED ring_vars
  BY <1>0, <1>10 DEF ring_vars, ring, AbstractQueue, AbstractTaken, Used, Nth
<1>. QED
  BY <1>0, <1>1, <1>2, <1>3, <1>4, <1>5, <1>6, <1>7, <1>8, <1>9, <1>10 DEF RingNext

(* Every behaviour of the two threads is one of a FIFO of Size - 1 objects.*)
THEOREM RingIsFifo == RingSpec => ImplementsFifo
<1>1. RingSpec => [](IInv /\ Filled)
  BY Invariance, FilledInvariance, PTL
<1>. QED
  BY <1>1, InitAbstract, NextAbstract, PTL DEF RingSpec, ImplementsFifo, Fifo!Spec
=============================================================================
