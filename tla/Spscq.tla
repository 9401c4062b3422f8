------------------------------- MODULE Spscq -------------------------------
(***************************************************************************)
(* The single-producer single-consumer ring of spsc.c.  One thread calls   *)
(* spscq_enqueue, one spscq_dequeue; each atomic load and store is a step, *)
(* except the load of the cursor that only the calling thread stores.  One *)
(* slot stays empty, so that full and empty differ.                        *)
(***************************************************************************)
EXTENDS Integers, Sequences

CONSTANTS Size,     \* slots of the buffer
          Values,   \* the void* objects
          NoValue   \* NULL

ASSUME SizeAssumption == Size \in Nat \ {0}
ASSUME ValueAssumption == NoValue \notin Values

VARIABLES head, tail, buffer,
          producer, obj,      \* where the producer is, the object it enqueues
          consumer, result    \* where the consumer is, what it has read

ring == <<head, tail, buffer>>
ring_vars == <<ring, producer, obj, consumer, result>>

Slots == 0 .. Size - 1

NextSlot(i) == IF i + 1 = Size THEN 0 ELSE i + 1

(* spscq_create *)
RingInit ==
  /\ head = 0
  /\ tail = 0
  /\ buffer = [i \in Slots |-> NoValue]
  /\ producer = "idle" /\ obj = NoValue
  /\ consumer = "idle" /\ result = NoValue

----------------------------------------------------------------------------
(* spscq_enqueue *)

EnqStart(v) ==
  /\ producer = "idle"
  /\ producer' = "check"
  /\ obj' = v
  /\ UNCHANGED <<ring, consumer, result>>

(* a mistake the runs must notice: the last slot is filled, too *)
EnqCheckNever ==
  /\ producer = "check"
  /\ producer' = "write"
  /\ UNCHANGED <<ring, obj, consumer, result>>

(* the load of head, and the return of false if the ring is full *)
EnqCheck ==
  /\ producer = "check"
  /\ \/ NextSlot(tail) = head /\ producer' = "idle" /\ obj' = NoValue
     \/ NextSlot(tail) # head /\ producer' = "write" /\ UNCHANGED obj
  /\ UNCHANGED <<ring, consumer, result>>

EnqWrite ==
  /\ producer = "write"
  /\ buffer' = [buffer EXCEPT ![tail] = obj]
  /\ producer' = "publish"
  /\ UNCHANGED <<head, tail, obj, consumer, result>>

EnqPublish ==
  /\ producer = "publish"
  /\ tail' = NextSlot(tail)
  /\ producer' = "idle"
  /\ obj' = NoValue
  /\ UNCHANGED <<head, buffer, consumer, result>>

----------------------------------------------------------------------------
(* spscq_dequeue *)

DeqStart ==
  /\ consumer = "idle"
  /\ consumer' = "check"
  /\ UNCHANGED <<ring, producer, obj, result>>

(* the load of tail, and the return of NULL if the ring is empty *)
DeqCheck ==
  /\ consumer = "check"
  /\ consumer' = IF head = tail THEN "idle" ELSE "read"
  /\ UNCHANGED <<ring, producer, obj, result>>

(* a mistake the runs must notice: the slot is released before it is read *)
DeqReadReleased ==
  /\ consumer = "read"
  /\ head' = NextSlot(head)
  /\ result' = buffer[head']
  /\ consumer' = "return"
  /\ UNCHANGED <<tail, buffer, producer, obj>>

DeqRead ==
  /\ consumer = "read"
  /\ result' = buffer[head]
  /\ consumer' = "release"
  /\ UNCHANGED <<ring, producer, obj>>

DeqRelease ==
  /\ consumer = "release"
  /\ head' = NextSlot(head)
  /\ consumer' = "return"
  /\ UNCHANGED <<tail, buffer, producer, obj, result>>

DeqReturn ==
  /\ consumer = "return"
  /\ result' = NoValue
  /\ consumer' = "idle"
  /\ UNCHANGED <<ring, producer, obj>>

RingNext ==
  \/ (\E v \in Values : EnqStart(v)) \/ EnqCheck \/ EnqWrite \/ EnqPublish
  \/ DeqStart \/ DeqCheck \/ DeqRead \/ DeqRelease \/ DeqReturn

RingSpec == RingInit /\ [][RingNext]_ring_vars
----------------------------------------------------------------------------
(* Properties *)

(* Every variable has its type; the cursors are slots of the buffer. *)
RingTypeOK ==
  /\ head \in Slots /\ tail \in Slots
  /\ buffer \in [Slots -> Values \cup {NoValue}]
  /\ producer \in {"idle", "check", "write", "publish"}
  /\ obj \in Values \cup {NoValue}
  /\ consumer \in {"idle", "check", "read", "release", "return"}
  /\ result \in Values \cup {NoValue}

(* The producer and the consumer never access the same slot, although each *)
(* decides by a cursor of the other that moves on after it is loaded: the  *)
(* slot being written is none of those that are published, and there is    *)
(* room to publish it.                                                     *)
SlotExclusive ==
  /\ consumer \in {"read", "release"} => head # tail
  /\ producer \in {"write", "publish"} => NextSlot(tail) # head

(* how many objects are between the cursors, and the slot of the i-th *)
Used(h, t) == IF h <= t THEN t - h ELSE t - h + Size
Nth(h, i) == IF h + i - 1 < Size THEN h + i - 1 ELSE h + i - 1 - Size

(* the objects published and not released, oldest first *)
AbstractQueue == [i \in 1 .. Used(head, tail) |-> buffer[Nth(head, i)]]

AbstractTaken ==
  [c \in {"consumer"} |-> IF consumer = "return" THEN result ELSE NoValue]

Fifo == INSTANCE BoundedFifo
          WITH Capacity <- Size - 1, Consumers <- {"consumer"},
               q <- AbstractQueue, taken <- AbstractTaken

(* The ring is a FIFO of at most Size - 1 objects: what is enqueued is     *)
(* dequeued once, in order and unchanged, however the two calls interleave.*)
ImplementsFifo == Fifo!Spec
=============================================================================
