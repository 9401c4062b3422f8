------------------------------- MODULE Mpmcq -------------------------------
(***************************************************************************)
(* The bounded multi-producer multi-consumer queue of mpmcq.c, the only    *)
(* channel between reactors.  Every atomic load, store and compare-and-    *)
(* swap of mpmcq_enqueue and mpmcq_dequeue is a step of its own, so all    *)
(* the interleavings of the calls are behaviours of this module; the       *)
(* accesses to cell->data, which are not atomic in the code, are steps too.*)
(*                                                                         *)
(* Positions are natural numbers: a 64-bit position counter does not wrap  *)
(* in the life of a process.  Memory is sequentially consistent.           *)
(***************************************************************************)
EXTENDS Integers, Sequences

CONSTANTS Size,       \* number of cells (8192 in reactor_init)
          Producers,  \* threads calling mpmcq_enqueue
          Consumers,  \* threads calling mpmcq_dequeue
          Values,     \* the void* messages
          NoValue,    \* NULL
          MaxPos      \* bound: no call to mpmcq_enqueue starts at or above it

(* The code masks positions with size - 1 and compares seq with pos and    *)
(* pos + 1: both need a power of two of at least 2.                        *)
ASSUME SizeAssumption == Size \in Nat /\ Size >= 2
ASSUME ThreadAssumption == Producers \cap Consumers = {}
ASSUME ValueAssumption == NoValue \notin Values
ASSUME BoundAssumption == MaxPos \in Nat

VARIABLES seq,          \* cell->seq
          data,         \* cell->data
          enqueue_pos,
          dequeue_pos,
          pc,           \* where each thread is in its call
          pos,          \* the local variable pos of each call
          val           \* the argument of an enqueue, the result of a dequeue

cells == <<seq, data>>
cursors == <<enqueue_pos, dequeue_pos>>
vars == <<seq, data, enqueue_pos, dequeue_pos, pc, pos, val>>

Threads == Producers \cup Consumers
Slots == 0 .. Size - 1

(* pos & queue->buffer_mask *)
Slot(k) == k % Size

Goto(t, label) == pc' = [pc EXCEPT ![t] = label]

----------------------------------------------------------------------------
InitialSeq(i) == i

(* mpmcq_init *)
Init ==
  /\ seq = [i \in Slots |-> InitialSeq(i)]
  /\ data = [i \in Slots |-> NoValue]
  /\ enqueue_pos = 0
  /\ dequeue_pos = 0
  /\ pc = [t \in Threads |-> "idle"]
  /\ pos = [t \in Threads |-> 0]
  /\ val = [t \in Threads |-> NoValue]

----------------------------------------------------------------------------
(* mpmcq_enqueue *)

EnqStart(p, v) ==
  /\ pc[p] = "idle"
  /\ enqueue_pos < MaxPos
  /\ pos' = [pos EXCEPT ![p] = enqueue_pos]
  /\ val' = [val EXCEPT ![p] = v]
  /\ Goto(p, "enq_seq")
  /\ UNCHANGED <<cells, cursors>>

(* diff is a size_t, so the test diff < 0 of a full queue never succeeds:  *)
(* every cell that is not free sends the call back to reload its position. *)
EnqLoadSeq(p) ==
  /\ pc[p] = "enq_seq"
  /\ Goto(p, IF seq[Slot(pos[p])] = pos[p] THEN "enq_cas" ELSE "enq_reload")
  /\ UNCHANGED <<cells, cursors, pos, val>>

EnqReload(p) ==
  /\ pc[p] = "enq_reload"
  /\ pos' = [pos EXCEPT ![p] = enqueue_pos]
  /\ Goto(p, "enq_seq")
  /\ UNCHANGED <<cells, cursors, val>>

(* a mistake the runs must notice: a store instead of the compare-and-swap *)
EnqClaimBlind(p) ==
  /\ pc[p] = "enq_cas"
  /\ enqueue_pos' = enqueue_pos + 1
  /\ Goto(p, "enq_write")
  /\ UNCHANGED <<cells, dequeue_pos, pos, val>>

(* the compare-and-swap succeeds: position pos[p] belongs to p *)
EnqClaim(p) ==
  /\ pc[p] = "enq_cas"
  /\ enqueue_pos = pos[p]
  /\ enqueue_pos' = enqueue_pos + 1
  /\ Goto(p, "enq_write")
  /\ UNCHANGED <<cells, dequeue_pos, pos, val>>

(* It fails, because another call moved enqueue_pos or spuriously (it is   *)
(* the weak form), and loads the current value into pos.                   *)
EnqCasFail(p) ==
  /\ pc[p] = "enq_cas"
  /\ pos' = [pos EXCEPT ![p] = enqueue_pos]
  /\ Goto(p, "enq_seq")
  /\ UNCHANGED <<cells, cursors, val>>

EnqWrite(p) ==
  /\ pc[p] = "enq_write"
  /\ data' = [data EXCEPT ![Slot(pos[p])] = val[p]]
  /\ Goto(p, "enq_publish")
  /\ UNCHANGED <<seq, cursors, pos, val>>

EnqPublish(p) ==
  /\ pc[p] = "enq_publish"
  /\ seq' = [seq EXCEPT ![Slot(pos[p])] = pos[p] + 1]
  /\ val' = [val EXCEPT ![p] = NoValue]
  /\ Goto(p, "idle")
  /\ UNCHANGED <<data, cursors, pos>>

----------------------------------------------------------------------------
(* mpmcq_dequeue *)

DeqStart(c) ==
  /\ pc[c] = "idle"
  /\ pos' = [pos EXCEPT ![c] = dequeue_pos]
  /\ Goto(c, "deq_seq")
  /\ UNCHANGED <<cells, cursors, val>>

(* diff is signed here: an unpublished cell makes the call return NULL *)
(* a mistake the runs must notice: the test of diff the wrong way round *)
DeqDecideInverted(s, k) ==
  IF s = k + 1 THEN "deq_cas" ELSE IF s > k + 1 THEN "idle" ELSE "deq_reload"

DeqDecide(s, k) ==
  IF s = k + 1 THEN "deq_cas" ELSE IF s < k + 1 THEN "idle" ELSE "deq_reload"

DeqLoadSeq(c) ==
  /\ pc[c] = "deq_seq"
  /\ Goto(c, DeqDecide(seq[Slot(pos[c])], pos[c]))
  /\ UNCHANGED <<cells, cursors, pos, val>>

DeqReload(c) ==
  /\ pc[c] = "deq_reload"
  /\ pos' = [pos EXCEPT ![c] = dequeue_pos]
  /\ Goto(c, "deq_seq")
  /\ UNCHANGED <<cells, cursors, val>>

DeqClaim(c) ==
  /\ pc[c] = "deq_cas"
  /\ dequeue_pos = pos[c]
  /\ dequeue_pos' = dequeue_pos + 1
  /\ Goto(c, "deq_read")
  /\ UNCHANGED <<cells, enqueue_pos, pos, val>>

DeqCasFail(c) ==
  /\ pc[c] = "deq_cas"
  /\ pos' = [pos EXCEPT ![c] = dequeue_pos]
  /\ Goto(c, "deq_seq")
  /\ UNCHANGED <<cells, cursors, val>>

(* a mistake the runs must notice: the cell of the shared cursor instead of the local one *)
DeqReadAtCursor(c) ==
  /\ pc[c] = "deq_read"
  /\ val' = [val EXCEPT ![c] = data[Slot(dequeue_pos)]]
  /\ Goto(c, "deq_release")
  /\ UNCHANGED <<cells, cursors, pos>>

DeqRead(c) ==
  /\ pc[c] = "deq_read"
  /\ val' = [val EXCEPT ![c] = data[Slot(pos[c])]]
  /\ Goto(c, "deq_release")
  /\ UNCHANGED <<cells, cursors, pos>>

(* a mistake the runs must notice: the + 1 behind the mask forgotten *)
ReleaseSeqMask(k) == k + Size - 1

(* pos + queue->buffer_mask + 1 *)
ReleaseSeq(k) == k + Size

DeqRelease(c) ==
  /\ pc[c] = "deq_release"
  /\ seq' = [seq EXCEPT ![Slot(pos[c])] = ReleaseSeq(pos[c])]
  /\ val' = [val EXCEPT ![c] = NoValue]
  /\ Goto(c, "idle")
  /\ UNCHANGED <<data, cursors, pos>>

----------------------------------------------------------------------------
(* The steps of a call once it has started *)
EnqStep(p) ==
  \/ EnqLoadSeq(p) \/ EnqReload(p) \/ EnqClaim(p) \/ EnqCasFail(p)
  \/ EnqWrite(p) \/ EnqPublish(p)

DeqStep(c) ==
  \/ DeqLoadSeq(c) \/ DeqReload(c) \/ DeqClaim(c) \/ DeqCasFail(c)
  \/ DeqRead(c) \/ DeqRelease(c)

Next ==
  \/ \E p \in Producers : EnqStep(p) \/ \E v \in Values : EnqStart(p, v)
  \/ \E c \in Consumers : DeqStep(c) \/ DeqStart(c)

Spec == Init /\ [][Next]_vars

(* Threads run: a started call keeps taking steps, a compare-and-swap does *)
(* not fail spuriously for ever, and reactor_poll_callbacks calls          *)
(* mpmcq_dequeue in every iteration of the event loop.                     *)
Fairness ==
  /\ \A p \in Producers : WF_vars(EnqStep(p)) /\ SF_vars(EnqClaim(p))
  /\ \A c \in Consumers :
       WF_vars(DeqStep(c)) /\ SF_vars(DeqClaim(c)) /\ WF_vars(DeqStart(c))

----------------------------------------------------------------------------
(* Properties *)

EnqLabels == {"idle", "enq_seq", "enq_reload", "enq_cas", "enq_write",
              "enq_publish"}
DeqLabels == {"idle", "deq_seq", "deq_reload", "deq_cas", "deq_read",
              "deq_release"}

(* Every variable of the queue and of its callers has its type; a producer *)
(* is only ever inside mpmcq_enqueue and a consumer inside mpmcq_dequeue.  *)
TypeOK ==
  /\ seq \in [Slots -> Nat]
  /\ data \in [Slots -> Values \cup {NoValue}]
  /\ enqueue_pos \in Nat
  /\ dequeue_pos \in Nat
  /\ pc \in [Threads -> EnqLabels \cup DeqLabels]
  /\ \A p \in Producers : pc[p] \in EnqLabels
  /\ \A c \in Consumers : pc[c] \in DeqLabels
  /\ pos \in [Threads -> Nat]
  /\ val \in [Threads -> Values \cup {NoValue}]

(* the thread has won its compare-and-swap and has not yet stored seq *)
Writing(p) == pc[p] \in {"enq_write", "enq_publish"}
Reading(c) == pc[c] \in {"deq_read", "deq_release"}
Owns(t) == Writing(t) \/ Reading(t)

(* What a call knows about the cell it works on: the claim of an enqueue   *)
(* finds its cell free, the claim of a dequeue finds its cell published,   *)
(* unless the cursor has moved on in the meantime.                         *)
ProducerInv ==
  \A p \in Producers :
    /\ pos[p] <= enqueue_pos
    /\ pc[p] = "enq_cas" /\ pos[p] = enqueue_pos => seq[Slot(pos[p])] = pos[p]
    /\ Writing(p) => /\ dequeue_pos <= pos[p] /\ pos[p] < enqueue_pos
                     /\ seq[Slot(pos[p])] = pos[p]

ConsumerInv ==
  \A c \in Consumers :
    /\ pos[c] <= dequeue_pos
    /\ pc[c] = "deq_cas" /\ pos[c] = dequeue_pos
         => seq[Slot(pos[c])] = pos[c] + 1
    /\ Reading(c) => /\ enqueue_pos <= pos[c] + Size /\ pos[c] < dequeue_pos
                     /\ seq[Slot(pos[c])] = pos[c] + 1

(* no two calls own the same position *)
OwnersApart ==
  /\ \A p1, p2 \in Producers :
       p1 # p2 /\ Writing(p1) /\ Writing(p2) => pos[p1] # pos[p2]
  /\ \A c1, c2 \in Consumers :
       c1 # c2 /\ Reading(c1) /\ Reading(c2) => pos[c1] # pos[c2]

(* the cells between the cursors hold a message or have a writer *)
FullCells ==
  \A k \in dequeue_pos .. enqueue_pos - 1 :
    \/ seq[Slot(k)] = k + 1
    \/ \E p \in Producers : Writing(p) /\ pos[p] = k

(* the other cells are free for the next lap or have a reader of this one *)
FreeCells ==
  \A k \in enqueue_pos .. dequeue_pos + Size - 1 :
    \/ seq[Slot(k)] = k
    \/ \E c \in Consumers : Reading(c) /\ pos[c] + Size = k

(* a cell never falls back behind a position already dequeued *)
PassedCells == \A k \in 0 .. dequeue_pos - 1 : seq[Slot(k)] > k

(* Between the compare-and-swap that claims a position and the store of    *)
(* seq that ends the call, no other thread is inside the same cell: the    *)
(* plain accesses to cell->data never race.                                *)
CellExclusive ==
  \A t, u \in Threads :
    t # u /\ Owns(t) /\ Owns(u) => Slot(pos[t]) # Slot(pos[u])

(* mpmcq_count, read at one instant, is between 0 and the number of cells: *)
(* no claim overtakes the claims of the other side.                        *)
CountInRange ==
  dequeue_pos <= enqueue_pos /\ enqueue_pos <= dequeue_pos + Size

(* The inductive invariant: how the sequence number of every cell relates  *)
(* to the two cursors and to the calls in progress.                        *)
IInv ==
  /\ TypeOK
  /\ CountInRange
  /\ ProducerInv
  /\ ConsumerInv
  /\ OwnersApart
  /\ FullCells
  /\ FreeCells
  /\ PassedCells

(* mpmcq_dequeue returns NULL only when nothing is claimed, or when the    *)
(* producer of the oldest message is still writing it.                     *)
NullOnlyWhenNothingReady ==
  [][\A c \in Consumers :
       pc[c] = "deq_seq" /\ pc'[c] = "idle" =>
         \/ dequeue_pos = enqueue_pos
         \/ \E p \in Producers : Writing(p) /\ pos[p] = dequeue_pos]_vars

(* The message a position holds: in the cell once published, before that   *)
(* still the argument of the call that claimed the position.               *)
MessageAt(k) ==
  IF seq[Slot(k)] = k + 1
  THEN data[Slot(k)]
  ELSE val[CHOOSE p \in Producers : Writing(p) /\ pos[p] = k]

AbstractQueue ==
  [i \in 1 .. enqueue_pos - dequeue_pos |-> MessageAt(dequeue_pos + i - 1)]

AbstractTaken ==
  [c \in Consumers |-> CASE pc[c] = "deq_read" -> data[Slot(pos[c])]
                         [] pc[c] = "deq_release" -> val[c]
                         [] OTHER -> NoValue]

Fifo == INSTANCE BoundedFifo
          WITH Capacity <- Size, q <- AbstractQueue, taken <- AbstractTaken

(* The queue is a FIFO of at most Size messages: enqueues take effect in   *)
(* the order of their claims, each message is handed to exactly one        *)
(* dequeue, in order and unchanged.                                        *)
ImplementsFifo == Fifo!Spec

(* As long as the consumers keep polling, every mpmcq_enqueue and every    *)
(* mpmcq_dequeue returns, however the calls of the others interleave.      *)
CallsReturn == \A t \in Threads : pc[t] # "idle" ~> pc[t] = "idle"
=============================================================================
