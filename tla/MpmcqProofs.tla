---------------------------- MODULE MpmcqProofs ----------------------------
(***************************************************************************)
(* The invariants of Mpmcq, for every number of producers and consumers,   *)
(* every queue size of at least 2 and every bound on the positions, and    *)
(* that it implements a FIFO of Size messages.                             *)
(***************************************************************************)
EXTENDS Mpmcq, SequenceTheorems, TLAPS

----------------------------------------------------------------------------
(* Remainders: the cells of two positions less than Size apart differ.     *)

(* Euclidean division of a position by the size. *)
LEMMA Division ==
  ASSUME NEW n \in Nat, n > 0, NEW a \in Nat
  PROVE  /\ a % n \in 0 .. n - 1
         /\ a \div n \in Nat
         /\ a = n * (a \div n) + (a % n)
  OBVIOUS

(* A larger factor gives a product larger by at least n. *)
LEMMA ProductGap ==
  ASSUME NEW n \in Nat, NEW a \in Nat, NEW b \in Nat, a < b
  PROVE  n * b >= n * a + n
<1>1. PICK d \in Nat : b = a + 1 + d
  OBVIOUS
<1>2. n * b = n * a + n + n * d
  BY <1>1
<1>. QED
  BY <1>1, <1>2

(* Two different numbers with the same remainder are at least n apart. *)
LEMMA SameRemainder ==
  ASSUME NEW n \in Nat, n > 0, NEW a \in Nat, NEW b \in Nat,
         a % n = b % n, a < b
  PROVE  b >= a + n
<1>. DEFINE qa == a \div n
            qb == b \div n
<1>1. /\ qa \in Nat /\ a = n * qa + (a % n) /\ a % n \in 0 .. n - 1
      /\ qb \in Nat /\ b = n * qb + (b % n)
  BY Division
<1>. HIDE DEF qa, qb
<1>2. qa < qb
  <2>1. CASE qb < qa
    BY <2>1, <1>1, ProductGap
  <2>2. CASE qb = qa
    BY <2>2, <1>1
  <2>. QED
    BY <2>1, <2>2, <1>1
<1>. QED
  BY <1>1, <1>2, ProductGap

(* A whole lap of the ring leads back to the same cell. *)
LEMMA LapRemainder ==
  ASSUME NEW n \in Nat, n > 0, NEW a \in Nat
  PROVE  (a + n) % n = a % n
<1>. DEFINE q == a \div n
            r == a % n
            p == (a + n) \div n
            s == (a + n) % n
<1>1. /\ q \in Nat /\ r \in 0 .. n - 1 /\ a = n * q + r
      /\ p \in Nat /\ s \in 0 .. n - 1 /\ a + n = n * p + s
  BY Division
<1>. HIDE DEF q, r, p, s
<1>2. n * (q + 1) = n * q + n
  BY <1>1
<1>3. CASE p = q + 1
  BY <1>1, <1>2, <1>3 DEF r, s
<1>4. CASE p < q + 1
  <2>1. n * (q + 1) >= n * p + n
    BY <1>4, <1>1, ProductGap
  <2>. QED
    BY <2>1, <1>1, <1>2
<1>5. CASE p > q + 1
  <2>1. n * p >= n * (q + 1) + n
    BY <1>5, <1>1, ProductGap
  <2>. QED
    BY <2>1, <1>1, <1>2
<1>. QED
  BY <1>1, <1>3, <1>4, <1>5

(* What the rest of the proofs uses of pos & buffer_mask. *)
LEMMA SlotFacts ==
  /\ \A k \in Nat : Slot(k) \in Slots
  /\ \A k \in Nat : Slot(k + Size) = Slot(k)
  /\ \A j, k \in Nat : j < k /\ k < j + Size => Slot(j) # Slot(k)
<1>. USE SizeAssumption
<1>1. \A k \in Nat : Slot(k) \in Slots
  BY Division DEF Slot, Slots
<1>2. ASSUME NEW k \in Nat PROVE Slot(k + Size) = Slot(k)
  <2>1. Size \in Nat /\ Size > 0
    OBVIOUS
  <2>2. (k + Size) % Size = k % Size
    BY <2>1, LapRemainder
  <2>. QED
    BY <2>2 DEF Slot
<1>3. ASSUME NEW j \in Nat, NEW k \in Nat, j < k, k < j + Size
      PROVE  Slot(j) # Slot(k)
  <2>1. Size \in Nat /\ Size > 0
    OBVIOUS
  <2>2. ASSUME j % Size = k % Size PROVE FALSE
    <3>1. k >= j + Size
      BY <2>1, <2>2, <1>3, SameRemainder
    <3>. QED
      BY <3>1, <1>3
  <2>. QED
    BY <2>2 DEF Slot
<1>. QED
  BY <1>1, <1>2, <1>3

----------------------------------------------------------------------------
(* Types *)

(* mpmcq_init gives every variable its type. *)
LEMMA TypeInit == Init => TypeOK
  BY SizeAssumption
  DEF Init, TypeOK, InitialSeq, Slots, Threads, EnqLabels, DeqLabels

(* An enqueue changes only what belongs to the queue and to its caller. *)
LEMMA TypeEnq ==
  ASSUME TypeOK, NEW p \in Producers,
         EnqStep(p) \/ \E v \in Values : EnqStart(p, v)
  PROVE  TypeOK'
<1>. USE SizeAssumption, SlotFacts, ThreadAssumption
     DEF TypeOK, Threads, cells, cursors, Goto, EnqLabels, DeqLabels
<1>1. CASE \E v \in Values : EnqStart(p, v)
  BY <1>1 DEF EnqStart
<1>2. CASE EnqLoadSeq(p)
  BY <1>2 DEF EnqLoadSeq
<1>3. CASE EnqReload(p)
  BY <1>3 DEF EnqReload
<1>4. CASE EnqClaim(p)
  BY <1>4 DEF EnqClaim
<1>5. CASE EnqCasFail(p)
  BY <1>5 DEF EnqCasFail
<1>6. CASE EnqWrite(p)
  BY <1>6 DEF EnqWrite
<1>7. CASE EnqPublish(p)
  BY <1>7 DEF EnqPublish
<1>. QED
  BY <1>1, <1>2, <1>3, <1>4, <1>5, <1>6, <1>7 DEF EnqStep

(* The steps of mpmcq_dequeue keep the types. *)
LEMMA TypeDeq ==
  ASSUME TypeOK, NEW c \in Consumers, DeqStep(c) \/ DeqStart(c)
  PROVE  TypeOK'
<1>. USE SizeAssumption, SlotFacts, ThreadAssumption
     DEF TypeOK, Threads, cells, cursors, Goto, EnqLabels, DeqLabels
<1>1. CASE DeqStart(c)
  BY <1>1 DEF DeqStart
<1>2. CASE DeqLoadSeq(c)
  BY <1>2 DEF DeqLoadSeq, DeqDecide
<1>3. CASE DeqReload(c)
  BY <1>3 DEF DeqReload
<1>4. CASE DeqClaim(c)
  BY <1>4 DEF DeqClaim
<1>5. CASE DeqCasFail(c)
  BY <1>5 DEF DeqCasFail
<1>6. CASE DeqRead(c)
  BY <1>6 DEF DeqRead
<1>7. CASE DeqRelease(c)
  BY <1>7 DEF DeqRelease, ReleaseSeq
<1>. QED
  BY <1>1, <1>2, <1>3, <1>4, <1>5, <1>6, <1>7 DEF DeqStep

(* The queue and its callers keep their types in every step of mpmcq.c. *)
THEOREM TypeCorrect == Spec => []TypeOK
<1>1. TypeOK /\ [Next]_vars => TypeOK'
  <2>. SUFFICES ASSUME TypeOK, [Next]_vars PROVE TypeOK'
    OBVIOUS
  <2>1. CASE UNCHANGED vars
    BY <2>1 DEF TypeOK, vars
  <2>2. CASE Next
    BY <2>2, TypeEnq, TypeDeq DEF Next
  <2>. QED
    BY <2>1, <2>2
<1>. QED
  BY TypeInit, <1>1, PTL DEF Spec

----------------------------------------------------------------------------
(* The inductive invariant *)

(* mpmcq_init establishes the invariant: every cell is free for its first lap. *)
LEMMA InvInit == Init => IInv
<1>. SUFFICES ASSUME Init PROVE IInv
  OBVIOUS
<1>. USE SizeAssumption DEF Init
<1>1. TypeOK
  BY TypeInit
<1>2. CountInRange /\ FullCells /\ PassedCells
  BY DEF CountInRange, FullCells, PassedCells
<1>3. ProducerInv /\ ConsumerInv /\ OwnersApart
  BY DEF ProducerInv, ConsumerInv, OwnersApart, Writing, Reading, Threads
<1>4. FreeCells
  <2>1. ASSUME NEW k \in 0 .. Size - 1 PROVE seq[Slot(k)] = k
    <3>1. Slot(k) = k
      BY DEF Slot
    <3>. QED
      BY <3>1 DEF InitialSeq, Slots
  <2>. QED
    BY <2>1 DEF FreeCells
<1>. QED
  BY <1>1, <1>2, <1>3, <1>4 DEF IInv

(* A step of a producer that leaves seq, the cursors and the set of writers *)
(* alone, and looks up a position at or below the enqueue cursor.           *)
LEMMA ProducerLooks ==
  ASSUME IInv, TypeOK', NEW p \in Producers,
         UNCHANGED <<seq, cursors>>,
         \A t \in Threads \ {p} : pc'[t] = pc[t] /\ pos'[t] = pos[t],
         Writing(p)' <=> Writing(p),
         pos'[p] = pos[p] \/ (pos'[p] = enqueue_pos /\ ~Writing(p)),
         pc'[p] = "enq_cas" => seq[Slot(pos'[p])] = pos'[p]
  PROVE  IInv'
<1>. USE SizeAssumption, ThreadAssumption DEF IInv, cursors
<1>1. TypeOK'
  OBVIOUS
<1>2. CountInRange' /\ PassedCells'
  BY DEF CountInRange, PassedCells, Slot
<1>3. \A q \in Producers : q # p => pc'[q] = pc[q] /\ pos'[q] = pos[q]
  BY DEF Threads
<1>4. \A c \in Consumers : pc'[c] = pc[c] /\ pos'[c] = pos[c]
  BY DEF Threads
<1>5. \A q \in Producers : Writing(q)' <=> Writing(q)
  BY <1>3 DEF Writing
<1>6. \A q \in Producers : Writing(q) => pos'[q] = pos[q]
  BY <1>3
<1>7. ProducerInv'
  BY <1>3, <1>5, <1>6 DEF ProducerInv, TypeOK, Slot
<1>8. ConsumerInv'
  BY <1>4 DEF ConsumerInv, Reading, Slot
<1>9. OwnersApart'
  BY <1>4, <1>5, <1>6 DEF OwnersApart, Reading
<1>10. FullCells'
  BY <1>5, <1>6 DEF FullCells, Slot
<1>11. FreeCells'
  BY <1>4 DEF FreeCells, Reading, Slot
<1>. QED
  BY <1>1, <1>2, <1>7, <1>8, <1>9, <1>10, <1>11

(* The same for a consumer. *)
LEMMA ConsumerLooks ==
  ASSUME IInv, TypeOK', NEW c \in Consumers,
         UNCHANGED <<seq, cursors>>,
         \A t \in Threads \ {c} : pc'[t] = pc[t] /\ pos'[t] = pos[t],
         Reading(c)' <=> Reading(c),
         pos'[c] = pos[c] \/ (pos'[c] = dequeue_pos /\ ~Reading(c)),
         pc'[c] = "deq_cas" => seq[Slot(pos'[c])] = pos'[c] + 1
  PROVE  IInv'
<1>. USE SizeAssumption, ThreadAssumption DEF IInv, cursors
<1>1. TypeOK'
  OBVIOUS
<1>2. CountInRange' /\ PassedCells'
  BY DEF CountInRange, PassedCells, Slot
<1>3. \A d \in Consumers : d # c => pc'[d] = pc[d] /\ pos'[d] = pos[d]
  BY DEF Threads
<1>4. \A p \in Producers : pc'[p] = pc[p] /\ pos'[p] = pos[p]
  BY DEF Threads
<1>5. \A d \in Consumers : Reading(d)' <=> Reading(d)
  BY <1>3 DEF Reading
<1>6. \A d \in Consumers : Reading(d) => pos'[d] = pos[d]
  BY <1>3
<1>7. ConsumerInv'
  BY <1>3, <1>5, <1>6 DEF ConsumerInv, TypeOK, Slot
<1>8. ProducerInv'
  BY <1>4 DEF ProducerInv, Writing, Slot
<1>9. OwnersApart'
  BY <1>4, <1>5, <1>6 DEF OwnersApart, Writing
<1>10. FreeCells'
  BY <1>5, <1>6 DEF FreeCells, Slot
<1>11. FullCells'
  BY <1>4 DEF FullCells, Writing, Slot
<1>. QED
  BY <1>1, <1>2, <1>7, <1>8, <1>9, <1>10, <1>11

(* The claim of an enqueue: the free cell at the enqueue cursor is taken. *)
LEMMA InvEnqClaim ==
  ASSUME IInv, TypeOK', NEW p \in Producers, EnqClaim(p)
  PROVE  IInv'
<1>. DEFINE k == pos[p]
<1>. USE SizeAssumption DEF IInv
<1>1. /\ k = enqueue_pos /\ k \in Nat /\ dequeue_pos \in Nat
      /\ enqueue_pos' = k + 1 /\ dequeue_pos' = dequeue_pos
      /\ seq' = seq /\ pos' = pos
      /\ pc[p] = "enq_cas" /\ pc' = [pc EXCEPT ![p] = "enq_write"]
  BY DEF EnqClaim, TypeOK, cells, Goto
<1>2. seq[Slot(k)] = k
  BY <1>1 DEF ProducerInv
<1>3. \A t \in Threads \ {p} : pc'[t] = pc[t]
  BY <1>1
<1>4. /\ Writing(p)' /\ ~Writing(p)
      /\ \A q \in Producers \ {p} : Writing(q)' <=> Writing(q)
  BY <1>1, <1>3 DEF Writing, TypeOK, Threads
<1>5. \A c \in Consumers : pc'[c] = pc[c] /\ (Reading(c)' <=> Reading(c))
  BY <1>3, ThreadAssumption DEF Reading, Threads
<1>6. k # dequeue_pos + Size
  <2>1. SUFFICES ASSUME k = dequeue_pos + Size PROVE FALSE
    OBVIOUS
  <2>2. Slot(k) = Slot(dequeue_pos)
    BY <1>1, <2>1, SlotFacts
  <2>3. CASE seq[Slot(dequeue_pos)] = dequeue_pos + 1
    BY <1>1, <1>2, <2>1, <2>2, <2>3
  <2>4. CASE \E q \in Producers : Writing(q) /\ pos[q] = dequeue_pos
    BY <1>1, <1>2, <2>1, <2>2, <2>4 DEF ProducerInv
  <2>. QED
    BY <1>1, <2>1, <2>3, <2>4 DEF FullCells
<1>7. CountInRange'
  BY <1>1, <1>6 DEF CountInRange
<1>8. ProducerInv'
  BY <1>1, <1>2, <1>3, <1>4 DEF ProducerInv, CountInRange, TypeOK, Slot, Threads
<1>9. ConsumerInv'
  <2>1. ASSUME NEW c \in Consumers, Reading(c) PROVE enqueue_pos # pos[c] + Size
    <3>1. /\ pos[c] \in Nat
          /\ seq[Slot(pos[c])] = pos[c] + 1
      BY <2>1 DEF ConsumerInv, TypeOK, Threads
    <3>. QED
      BY <1>1, <1>2, <3>1, SlotFacts
  <2>. QED
    BY <1>1, <1>5, <2>1 DEF ConsumerInv, TypeOK, Slot, Threads
<1>10. OwnersApart'
  <2>1. \A q \in Producers : Writing(q) => pos[q] # k
    BY <1>1 DEF ProducerInv, TypeOK, Threads
  <2>. QED
    BY <1>1, <1>4, <1>5, <2>1 DEF OwnersApart
<1>11. FullCells'
  BY <1>1, <1>4 DEF FullCells, Slot
<1>12. FreeCells'
  BY <1>1, <1>5 DEF FreeCells, Slot
<1>13. PassedCells'
  BY <1>1 DEF PassedCells, Slot
<1>. QED
  BY <1>7, <1>8, <1>9, <1>10, <1>11, <1>12, <1>13

(* The store of seq that publishes a message touches only its own cell. *)
LEMMA InvEnqPublish ==
  ASSUME IInv, TypeOK', NEW p \in Producers, EnqPublish(p)
  PROVE  IInv'
<1>. DEFINE k == pos[p]
<1>. USE SizeAssumption DEF IInv
<1>1. /\ k \in Nat /\ enqueue_pos \in Nat /\ dequeue_pos \in Nat
      /\ enqueue_pos' = enqueue_pos /\ dequeue_pos' = dequeue_pos
      /\ seq' = [seq EXCEPT ![Slot(k)] = k + 1] /\ pos' = pos
      /\ pc[p] = "enq_publish" /\ pc' = [pc EXCEPT ![p] = "idle"]
  BY DEF EnqPublish, TypeOK, Threads, cursors, Goto
<1>2. /\ Writing(p) /\ dequeue_pos <= k /\ k < enqueue_pos
      /\ enqueue_pos <= dequeue_pos + Size
      /\ seq[Slot(k)] = k
  BY <1>1 DEF ProducerInv, CountInRange, Writing
<1>3. \A t \in Threads \ {p} : pc'[t] = pc[t]
  BY <1>1
<1>4. /\ ~Writing(p)'
      /\ \A q \in Producers \ {p} : pc'[q] = pc[q] /\ (Writing(q)' <=> Writing(q))
  BY <1>1, <1>3 DEF Writing, TypeOK, Threads
<1>5. \A c \in Consumers : pc'[c] = pc[c] /\ (Reading(c)' <=> Reading(c))
  BY <1>3, ThreadAssumption DEF Reading, Threads
<1>6. /\ \A i \in Slots : i # Slot(k) => seq'[i] = seq[i]
      /\ seq'[Slot(k)] = k + 1
  BY <1>1, SlotFacts DEF TypeOK
<1>7. \A j \in Nat : j # k /\ j < k + Size /\ k < j + Size
                   => seq'[Slot(j)] = seq[Slot(j)]
  BY <1>1, <1>6, SlotFacts
<1>8. CountInRange'
  BY <1>1 DEF CountInRange
<1>9. ProducerInv'
  <2>. SUFFICES ASSUME NEW q \in Producers
       PROVE  /\ pos[q] <= enqueue_pos
              /\ pc'[q] = "enq_cas" /\ pos[q] = enqueue_pos
                   => seq'[Slot(pos[q])] = pos[q]
              /\ Writing(q)' => /\ dequeue_pos <= pos[q] /\ pos[q] < enqueue_pos
                               /\ seq'[Slot(pos[q])] = pos[q]
    BY <1>1 DEF ProducerInv, Writing, Slot
  <2>1. pos[q] <= enqueue_pos /\ pos[q] \in Nat
    BY DEF ProducerInv, TypeOK, Threads
  <2>2. ASSUME pc'[q] = "enq_cas", pos[q] = enqueue_pos
        PROVE  seq'[Slot(pos[q])] = pos[q]
    <3>1. q # p /\ pc[q] = "enq_cas" /\ seq[Slot(enqueue_pos)] = enqueue_pos
      BY <1>1, <1>4, <2>2 DEF ProducerInv, TypeOK, Threads
    <3>2. enqueue_pos # k + Size
      BY <1>1, <1>2, <3>1, SlotFacts
    <3>. QED
      BY <1>1, <1>2, <1>7, <2>2, <3>1, <3>2
  <2>3. ASSUME Writing(q)'
        PROVE  /\ dequeue_pos <= pos[q] /\ pos[q] < enqueue_pos
               /\ seq'[Slot(pos[q])] = pos[q]
    <3>1. q # p /\ Writing(q)
      BY <1>4, <2>3
    <3>2. /\ dequeue_pos <= pos[q] /\ pos[q] < enqueue_pos
          /\ seq[Slot(pos[q])] = pos[q] /\ pos[q] # k
      BY <1>2, <3>1 DEF ProducerInv, OwnersApart
    <3>. QED
      BY <1>1, <1>2, <1>7, <2>1, <3>2
  <2>. QED
    BY <2>1, <2>2, <2>3
<1>10. ConsumerInv'
  <2>. SUFFICES ASSUME NEW c \in Consumers
       PROVE  /\ pos[c] <= dequeue_pos
              /\ pc[c] = "deq_cas" /\ pos[c] = dequeue_pos
                   => seq'[Slot(pos[c])] = pos[c] + 1
              /\ Reading(c) => /\ enqueue_pos <= pos[c] + Size /\ pos[c] < dequeue_pos
                              /\ seq'[Slot(pos[c])] = pos[c] + 1
    BY <1>1, <1>5 DEF ConsumerInv, Slot
  <2>1. pos[c] <= dequeue_pos /\ pos[c] \in Nat
    BY DEF ConsumerInv, TypeOK, Threads
  <2>2. ASSUME pc[c] = "deq_cas", pos[c] = dequeue_pos
        PROVE  seq'[Slot(pos[c])] = pos[c] + 1
    <3>1. seq[Slot(dequeue_pos)] = dequeue_pos + 1
      BY <2>2 DEF ConsumerInv
    <3>2. dequeue_pos # k
      BY <1>1, <1>2, <3>1
    <3>. QED
      BY <1>1, <1>2, <1>7, <2>2, <3>1, <3>2
  <2>3. ASSUME Reading(c)
        PROVE  /\ enqueue_pos <= pos[c] + Size /\ pos[c] < dequeue_pos
               /\ seq'[Slot(pos[c])] = pos[c] + 1
    <3>1. /\ enqueue_pos <= pos[c] + Size /\ pos[c] < dequeue_pos
          /\ seq[Slot(pos[c])] = pos[c] + 1
      BY <2>3 DEF ConsumerInv
    <3>. QED
      BY <1>1, <1>2, <1>7, <2>1, <3>1
  <2>. QED
    BY <2>1, <2>2, <2>3
<1>11. OwnersApart'
  BY <1>1, <1>4, <1>5 DEF OwnersApart
<1>12. FullCells'
  <2>. SUFFICES ASSUME NEW j \in dequeue_pos .. enqueue_pos - 1
       PROVE  \/ seq'[Slot(j)] = j + 1
              \/ \E q \in Producers : Writing(q)' /\ pos[q] = j
    BY <1>1 DEF FullCells, Slot
  <2>1. CASE j = k
    BY <1>6, <2>1
  <2>2. CASE j # k
    <3>1. j \in Nat /\ seq'[Slot(j)] = seq[Slot(j)]
      BY <1>1, <1>2, <1>7, <2>2
    <3>. QED
      BY <1>4, <2>2, <3>1 DEF FullCells
  <2>. QED
    BY <2>1, <2>2
<1>13. FreeCells'
  <2>. SUFFICES ASSUME NEW j \in enqueue_pos .. dequeue_pos + Size - 1
       PROVE  \/ seq'[Slot(j)] = j
              \/ \E c \in Consumers : Reading(c)' /\ pos[c] + Size = j
    BY <1>1 DEF FreeCells, Slot
  <2>1. j \in Nat /\ seq'[Slot(j)] = seq[Slot(j)]
    BY <1>1, <1>2, <1>7
  <2>. QED
    BY <1>5, <2>1 DEF FreeCells
<1>14. PassedCells'
  <2>. SUFFICES ASSUME NEW j \in 0 .. dequeue_pos - 1 PROVE seq'[Slot(j)] > j
    BY <1>1 DEF PassedCells, Slot
  <2>1. seq[Slot(j)] > j /\ j \in Nat
    BY <1>1 DEF PassedCells
  <2>2. CASE Slot(j) = Slot(k)
    BY <1>1, <1>2, <1>6, <2>1, <2>2
  <2>3. CASE Slot(j) # Slot(k)
    BY <1>6, <2>1, <2>3, SlotFacts
  <2>. QED
    BY <2>2, <2>3
<1>. QED
  BY <1>8, <1>9, <1>10, <1>11, <1>12, <1>13, <1>14

(* The claim of a dequeue: the published cell at the dequeue cursor. *)
LEMMA InvDeqClaim ==
  ASSUME IInv, TypeOK', NEW c \in Consumers, DeqClaim(c)
  PROVE  IInv'
<1>. DEFINE k == pos[c]
<1>. USE SizeAssumption DEF IInv
<1>1. /\ k = dequeue_pos /\ k \in Nat /\ enqueue_pos \in Nat
      /\ dequeue_pos' = k + 1 /\ enqueue_pos' = enqueue_pos
      /\ seq' = seq /\ pos' = pos
      /\ pc[c] = "deq_cas" /\ pc' = [pc EXCEPT ![c] = "deq_read"]
  BY DEF DeqClaim, TypeOK, cells, Goto
<1>2. seq[Slot(k)] = k + 1
  BY <1>1 DEF ConsumerInv
<1>3. \A t \in Threads \ {c} : pc'[t] = pc[t]
  BY <1>1
<1>4. /\ Reading(c)' /\ ~Reading(c)
      /\ \A d \in Consumers \ {c} : Reading(d)' <=> Reading(d)
  BY <1>1, <1>3 DEF Reading, TypeOK, Threads
<1>5. \A p \in Producers : pc'[p] = pc[p] /\ (Writing(p)' <=> Writing(p))
  BY <1>3, ThreadAssumption DEF Writing, Threads
<1>6. k # enqueue_pos
  <2>1. SUFFICES ASSUME k = enqueue_pos PROVE FALSE
    OBVIOUS
  <2>2. CASE seq[Slot(k)] = k
    BY <1>1, <1>2, <2>2
  <2>3. CASE \E d \in Consumers : Reading(d) /\ pos[d] + Size = k
    <3>1. PICK d \in Consumers : Reading(d) /\ pos[d] + Size = k
      BY <2>3
    <3>2. pos[d] \in Nat /\ seq[Slot(pos[d])] = pos[d] + 1
      BY <3>1 DEF ConsumerInv, TypeOK, Threads
    <3>. QED
      BY <1>1, <1>2, <3>1, <3>2, SlotFacts
  <2>. QED
    BY <1>1, <2>1, <2>2, <2>3 DEF FreeCells
<1>7. CountInRange'
  BY <1>1, <1>6 DEF CountInRange
<1>8. ConsumerInv'
  BY <1>1, <1>2, <1>3, <1>4 DEF ConsumerInv, CountInRange, TypeOK, Slot, Threads
<1>9. ProducerInv'
  <2>1. ASSUME NEW p \in Producers, Writing(p) PROVE pos[p] # k
    BY <1>1, <1>2, <2>1 DEF ProducerInv
  <2>. QED
    BY <1>1, <1>5, <2>1 DEF ProducerInv, TypeOK, Slot, Threads
<1>10. OwnersApart'
  <2>1. \A d \in Consumers : Reading(d) => pos[d] # k
    BY <1>1 DEF ConsumerInv, TypeOK, Threads
  <2>. QED
    BY <1>1, <1>4, <1>5, <2>1 DEF OwnersApart
<1>11. FullCells'
  BY <1>1, <1>5 DEF FullCells, Slot
<1>12. FreeCells'
  BY <1>1, <1>4 DEF FreeCells, Slot
<1>13. PassedCells'
  BY <1>1, <1>2 DEF PassedCells, Slot
<1>. QED
  BY <1>7, <1>8, <1>9, <1>10, <1>11, <1>12, <1>13

(* The store of seq that frees a cell for the next lap touches only it. *)
LEMMA InvDeqRelease ==
  ASSUME IInv, TypeOK', NEW c \in Consumers, DeqRelease(c)
  PROVE  IInv'
<1>. DEFINE k == pos[c]
<1>. USE SizeAssumption DEF IInv
<1>1. /\ k \in Nat /\ enqueue_pos \in Nat /\ dequeue_pos \in Nat
      /\ enqueue_pos' = enqueue_pos /\ dequeue_pos' = dequeue_pos
      /\ seq' = [seq EXCEPT ![Slot(k)] = k + Size] /\ pos' = pos
      /\ pc[c] = "deq_release" /\ pc' = [pc EXCEPT ![c] = "idle"]
  BY DEF DeqRelease, ReleaseSeq, TypeOK, Threads, cursors, Goto
<1>2. /\ Reading(c) /\ k < dequeue_pos /\ enqueue_pos <= k + Size
      /\ dequeue_pos <= enqueue_pos
      /\ seq[Slot(k)] = k + 1
  BY <1>1 DEF ConsumerInv, CountInRange, Reading
<1>3. \A t \in Threads \ {c} : pc'[t] = pc[t]
  BY <1>1
<1>4. /\ ~Reading(c)'
      /\ \A d \in Consumers \ {c} : pc'[d] = pc[d] /\ (Reading(d)' <=> Reading(d))
  BY <1>1, <1>3 DEF Reading, TypeOK, Threads
<1>5. \A p \in Producers : pc'[p] = pc[p] /\ (Writing(p)' <=> Writing(p))
  BY <1>3, ThreadAssumption DEF Writing, Threads
<1>6. /\ \A i \in Slots : i # Slot(k) => seq'[i] = seq[i]
      /\ seq'[Slot(k)] = k + Size /\ Slot(k + Size) = Slot(k)
  BY <1>1, SlotFacts DEF TypeOK
<1>7. \A j \in Nat : j # k /\ j < k + Size /\ k < j + Size
                   => seq'[Slot(j)] = seq[Slot(j)]
  BY <1>1, <1>6, SlotFacts
<1>8. CountInRange'
  BY <1>1 DEF CountInRange
<1>9. ConsumerInv'
  <2>. SUFFICES ASSUME NEW d \in Consumers
       PROVE  /\ pos[d] <= dequeue_pos
              /\ pc'[d] = "deq_cas" /\ pos[d] = dequeue_pos
                   => seq'[Slot(pos[d])] = pos[d] + 1
              /\ Reading(d)' => /\ enqueue_pos <= pos[d] + Size /\ pos[d] < dequeue_pos
                               /\ seq'[Slot(pos[d])] = pos[d] + 1
    BY <1>1 DEF ConsumerInv, Reading, Slot
  <2>1. pos[d] <= dequeue_pos /\ pos[d] \in Nat
    BY DEF ConsumerInv, TypeOK, Threads
  <2>2. ASSUME pc'[d] = "deq_cas", pos[d] = dequeue_pos
        PROVE  seq'[Slot(pos[d])] = pos[d] + 1
    <3>1. d # c /\ pc[d] = "deq_cas" /\ seq[Slot(dequeue_pos)] = dequeue_pos + 1
      BY <1>1, <1>4, <2>2 DEF ConsumerInv, TypeOK, Threads
    <3>2. dequeue_pos # k + Size
      BY <1>1, <1>2, <1>6, <3>1
    <3>. QED
      BY <1>1, <1>2, <1>7, <2>2, <3>1, <3>2
  <2>3. ASSUME Reading(d)'
        PROVE  /\ enqueue_pos <= pos[d] + Size /\ pos[d] < dequeue_pos
               /\ seq'[Slot(pos[d])] = pos[d] + 1
    <3>1. d # c /\ Reading(d)
      BY <1>4, <2>3
    <3>2. /\ enqueue_pos <= pos[d] + Size /\ pos[d] < dequeue_pos
          /\ seq[Slot(pos[d])] = pos[d] + 1 /\ pos[d] # k
      BY <1>2, <3>1 DEF ConsumerInv, OwnersApart
    <3>. QED
      BY <1>1, <1>2, <1>7, <2>1, <3>2
  <2>. QED
    BY <2>1, <2>2, <2>3
<1>10. ProducerInv'
  <2>. SUFFICES ASSUME NEW p \in Producers
       PROVE  /\ pos[p] <= enqueue_pos
              /\ pc[p] = "enq_cas" /\ pos[p] = enqueue_pos
                   => seq'[Slot(pos[p])] = pos[p]
              /\ Writing(p) => /\ dequeue_pos <= pos[p] /\ pos[p] < enqueue_pos
                              /\ seq'[Slot(pos[p])] = pos[p]
    BY <1>1, <1>5 DEF ProducerInv, Slot
  <2>1. pos[p] <= enqueue_pos /\ pos[p] \in Nat
    BY DEF ProducerInv, TypeOK, Threads
  <2>2. ASSUME pc[p] = "enq_cas", pos[p] = enqueue_pos
        PROVE  seq'[Slot(pos[p])] = pos[p]
    <3>1. seq[Slot(enqueue_pos)] = enqueue_pos
      BY <2>2 DEF ProducerInv
    <3>2. enqueue_pos # k + Size
      BY <1>1, <1>2, <1>6, <3>1
    <3>. QED
      BY <1>1, <1>2, <1>7, <2>2, <3>1, <3>2
  <2>3. ASSUME Writing(p)
        PROVE  /\ dequeue_pos <= pos[p] /\ pos[p] < enqueue_pos
               /\ seq'[Slot(pos[p])] = pos[p]
    <3>1. /\ dequeue_pos <= pos[p] /\ pos[p] < enqueue_pos
          /\ seq[Slot(pos[p])] = pos[p]
      BY <2>3 DEF ProducerInv
    <3>. QED
      BY <1>1, <1>2, <1>7, <2>1, <3>1
  <2>. QED
    BY <2>1, <2>2, <2>3
<1>11. OwnersApart'
  BY <1>1, <1>4, <1>5 DEF OwnersApart
<1>12. FullCells'
  <2>. SUFFICES ASSUME NEW j \in dequeue_pos .. enqueue_pos - 1
       PROVE  \/ seq'[Slot(j)] = j + 1
              \/ \E p \in Producers : Writing(p)' /\ pos[p] = j
    BY <1>1 DEF FullCells, Slot
  <2>1. j \in Nat /\ seq'[Slot(j)] = seq[Slot(j)]
    BY <1>1, <1>2, <1>7
  <2>. QED
    BY <1>5, <2>1 DEF FullCells
<1>13. FreeCells'
  <2>. SUFFICES ASSUME NEW j \in enqueue_pos .. dequeue_pos + Size - 1
       PROVE  \/ seq'[Slot(j)] = j
              \/ \E d \in Consumers : Reading(d)' /\ pos[d] + Size = j
    BY <1>1 DEF FreeCells, Slot
  <2>1. CASE j = k + Size
    BY <1>6, <2>1
  <2>2. CASE j # k + Size
    <3>1. j \in Nat /\ Slot(j) # Slot(k)
      <4>1. CASE j < k + Size
        BY <1>1, <1>2, <4>1, SlotFacts
      <4>2. CASE j > k + Size
        BY <1>1, <1>2, <1>6, <4>2, SlotFacts
      <4>. QED
        BY <1>1, <2>2, <4>1, <4>2
    <3>2. seq'[Slot(j)] = seq[Slot(j)]
      BY <1>6, <3>1, SlotFacts
    <3>. QED
      BY <1>1, <1>4, <2>2, <3>2 DEF FreeCells
  <2>. QED
    BY <2>1, <2>2
<1>14. PassedCells'
  <2>. SUFFICES ASSUME NEW j \in 0 .. dequeue_pos - 1 PROVE seq'[Slot(j)] > j
    BY <1>1 DEF PassedCells, Slot
  <2>1. seq[Slot(j)] > j /\ j \in Nat
    BY <1>1 DEF PassedCells
  <2>2. CASE Slot(j) = Slot(k)
    BY <1>1, <1>2, <1>6, <2>1, <2>2
  <2>3. CASE Slot(j) # Slot(k)
    BY <1>6, <2>1, <2>3, SlotFacts
  <2>. QED
    BY <2>2, <2>3
<1>. QED
  BY <1>8, <1>9, <1>10, <1>11, <1>12, <1>13, <1>14

(* Every step of a call to mpmcq_enqueue. *)
LEMMA InvEnq ==
  ASSUME IInv, NEW p \in Producers,
         EnqStep(p) \/ \E v \in Values : EnqStart(p, v)
  PROVE  IInv'
<1>1. TypeOK'
  BY TypeEnq DEF IInv
<1>2. CASE \E v \in Values : EnqStart(p, v)
  BY <1>1, <1>2, ProducerLooks
     DEF EnqStart, IInv, TypeOK, Threads, cells, cursors, Goto, Writing
<1>3. CASE EnqLoadSeq(p)
  BY <1>1, <1>3, ProducerLooks
     DEF EnqLoadSeq, IInv, TypeOK, Threads, cells, cursors, Goto, Writing
<1>4. CASE EnqReload(p)
  BY <1>1, <1>4, ProducerLooks
     DEF EnqReload, IInv, TypeOK, Threads, cells, cursors, Goto, Writing
<1>5. CASE EnqCasFail(p)
  BY <1>1, <1>5, ProducerLooks
     DEF EnqCasFail, IInv, TypeOK, Threads, cells, cursors, Goto, Writing
<1>6. CASE EnqWrite(p)
  BY <1>1, <1>6, ProducerLooks
     DEF EnqWrite, IInv, TypeOK, Threads, cells, cursors, Goto, Writing
<1>7. CASE EnqClaim(p)
  BY <1>1, <1>7, InvEnqClaim
<1>8. CASE EnqPublish(p)
  BY <1>1, <1>8, InvEnqPublish
<1>. QED
  BY <1>2, <1>3, <1>4, <1>5, <1>6, <1>7, <1>8 DEF EnqStep

(* Every step of a call to mpmcq_dequeue. *)
LEMMA InvDeq ==
  ASSUME IInv, NEW c \in Consumers, DeqStep(c) \/ DeqStart(c)
  PROVE  IInv'
<1>1. TypeOK'
  BY TypeDeq DEF IInv
<1>2. CASE DeqStart(c)
  BY <1>1, <1>2, ConsumerLooks
     DEF DeqStart, IInv, TypeOK, Threads, cells, cursors, Goto, Reading
<1>3. CASE DeqLoadSeq(c)
  BY <1>1, <1>3, ConsumerLooks
     DEF DeqLoadSeq, DeqDecide, IInv, TypeOK, Threads, cells, cursors, Goto, Reading
<1>4. CASE DeqReload(c)
  BY <1>1, <1>4, ConsumerLooks
     DEF DeqReload, IInv, TypeOK, Threads, cells, cursors, Goto, Reading
<1>5. CASE DeqCasFail(c)
  BY <1>1, <1>5, ConsumerLooks
     DEF DeqCasFail, IInv, TypeOK, Threads, cells, cursors, Goto, Reading
<1>6. CASE DeqRead(c)
  BY <1>1, <1>6, ConsumerLooks
     DEF DeqRead, IInv, TypeOK, Threads, cells, cursors, Goto, Reading
<1>7. CASE DeqClaim(c)
  BY <1>1, <1>7, InvDeqClaim
<1>8. CASE DeqRelease(c)
  BY <1>1, <1>8, InvDeqRelease
<1>. QED
  BY <1>2, <1>3, <1>4, <1>5, <1>6, <1>7, <1>8 DEF DeqStep

(* The relation between sequence numbers, cursors and calls is kept by     *)
(* every step of any interleaving of mpmcq_enqueue and mpmcq_dequeue.      *)
THEOREM InductiveInvariant == Spec => []IInv
<1>1. IInv /\ [Next]_vars => IInv'
  <2>. SUFFICES ASSUME IInv, [Next]_vars PROVE IInv'
    OBVIOUS
  <2>1. CASE UNCHANGED vars
    BY <2>1
    DEF vars, IInv, TypeOK, CountInRange, ProducerInv, ConsumerInv, OwnersApart,
        FullCells, FreeCells, PassedCells, Writing, Reading, Slot
  <2>2. CASE Next
    BY <2>2, InvEnq, InvDeq DEF Next
  <2>. QED
    BY <2>1, <2>2
<1>. QED
  BY InvInit, <1>1, PTL DEF Spec

----------------------------------------------------------------------------
(* What follows from it *)

(* mpmcq_count read at one instant never exceeds the number of cells. *)
THEOREM CountBounded == Spec => []CountInRange
<1>1. IInv => CountInRange
  BY DEF IInv
<1>. QED
  BY <1>1, InductiveInvariant, PTL

(* Owned positions lie within one lap of each other, so different ones are different cells. *)
LEMMA OwnersInDifferentCells == IInv => CellExclusive
<1>. SUFFICES ASSUME IInv, NEW t \in Threads, NEW u \in Threads, t # u,
                     Owns(t), Owns(u)
     PROVE  Slot(pos[t]) # Slot(pos[u])
  BY DEF CellExclusive
<1>. USE SizeAssumption DEF IInv
<1>0. /\ enqueue_pos \in Nat /\ dequeue_pos \in Nat
      /\ enqueue_pos <= dequeue_pos + Size
      /\ pos[t] \in Nat /\ pos[u] \in Nat
  BY DEF TypeOK, CountInRange
<1>1. \A p \in Producers : Owns(p) => Writing(p)
  BY DEF Owns, Reading, TypeOK, EnqLabels
<1>2. \A c \in Consumers : Owns(c) => Reading(c)
  BY DEF Owns, Writing, TypeOK, DeqLabels
<1>3. \A p \in Producers : Writing(p) =>
        dequeue_pos <= pos[p] /\ pos[p] < enqueue_pos /\ seq[Slot(pos[p])] = pos[p]
  BY DEF ProducerInv
<1>4. \A c \in Consumers : Reading(c) =>
        enqueue_pos <= pos[c] + Size /\ pos[c] < dequeue_pos
        /\ seq[Slot(pos[c])] = pos[c] + 1
  BY DEF ConsumerInv
<1>5. CASE t \in Producers /\ u \in Producers
  <2>1. pos[t] # pos[u]
    BY <1>1, <1>5 DEF OwnersApart
  <2>. QED
    BY <1>0, <1>1, <1>3, <1>5, <2>1, SlotFacts
<1>6. CASE t \in Consumers /\ u \in Consumers
  <2>1. pos[t] # pos[u]
    BY <1>2, <1>6 DEF OwnersApart
  <2>2. dequeue_pos <= enqueue_pos
    BY DEF CountInRange
  <2>. QED
    BY <1>0, <1>2, <1>4, <1>6, <2>1, <2>2, SlotFacts
<1>7. CASE t \in Producers /\ u \in Consumers
  BY <1>0, <1>1, <1>2, <1>3, <1>4, <1>7, SlotFacts
<1>8. CASE t \in Consumers /\ u \in Producers
  BY <1>0, <1>1, <1>2, <1>3, <1>4, <1>8, SlotFacts
<1>. QED
  BY <1>5, <1>6, <1>7, <1>8 DEF Threads

(* No two calls are ever inside the same cell: the plain accesses to       *)
(* cell->data of mpmcq_enqueue and mpmcq_dequeue never race.               *)
THEOREM CellsExclusive == Spec => []CellExclusive
  BY InductiveInvariant, OwnersInDifferentCells, PTL

(* A NULL from mpmcq_dequeue means that the queue is empty or that the     *)
(* producer of its oldest message has claimed but not yet published it.    *)
THEOREM NullIsHonest == Spec => NullOnlyWhenNothingReady
<1>. DEFINE Honest(c) ==
       pc[c] = "deq_seq" /\ pc'[c] = "idle" =>
         \/ dequeue_pos = enqueue_pos
         \/ \E p \in Producers : Writing(p) /\ pos[p] = dequeue_pos
<1>1. IInv /\ [Next]_vars => [\A c \in Consumers : Honest(c)]_vars
  <2>. SUFFICES ASSUME IInv, Next, NEW c \in Consumers,
                       pc[c] = "deq_seq", pc'[c] = "idle"
       PROVE  \/ dequeue_pos = enqueue_pos
              \/ \E p \in Producers : Writing(p) /\ pos[p] = dequeue_pos
    OBVIOUS
  <2>1. DeqLoadSeq(c)
    <3>1. ASSUME NEW p \in Producers, EnqStep(p) \/ \E v \in Values : EnqStart(p, v)
          PROVE  pc'[c] = pc[c]
      BY <3>1, ThreadAssumption
      DEF IInv, TypeOK, Threads, EnqStep, EnqStart, EnqLoadSeq, EnqReload, EnqClaim,
          EnqCasFail, EnqWrite, EnqPublish, Goto
    <3>2. ASSUME NEW d \in Consumers, d # c, DeqStep(d) \/ DeqStart(d)
          PROVE  pc'[c] = pc[c]
      BY <3>2
      DEF IInv, TypeOK, Threads, DeqStep, DeqStart, DeqLoadSeq, DeqReload, DeqClaim,
          DeqCasFail, DeqRead, DeqRelease, Goto
    <3>3. DeqStep(c) \/ DeqStart(c)
      BY <3>1, <3>2 DEF Next
    <3>. QED
      BY <3>3 DEF DeqStep, DeqStart, DeqReload, DeqClaim, DeqCasFail, DeqRead,
                  DeqRelease
  <2>2. seq[Slot(pos[c])] < pos[c] + 1
    BY <2>1 DEF DeqLoadSeq, DeqDecide, Goto, IInv, TypeOK, Threads
  <2>3. pos[c] = dequeue_pos
    <3>1. /\ pos[c] \in Nat /\ dequeue_pos \in Nat /\ pos[c] <= dequeue_pos
          /\ seq[Slot(pos[c])] \in Nat
      BY SlotFacts DEF IInv, ConsumerInv, TypeOK, Threads
    <3>2. ~ pos[c] < dequeue_pos
      BY <2>2, <3>1 DEF IInv, PassedCells
    <3>. QED
      BY <3>1, <3>2
  <2>. QED
    BY <2>2, <2>3 DEF IInv, CountInRange, FullCells, TypeOK, Threads
<1>. QED
  BY <1>1, InductiveInvariant, PTL DEF Spec, NullOnlyWhenNothingReady

----------------------------------------------------------------------------
(* The queue is a bounded FIFO *)

(* The calls and the cells in use hold messages: the argument of an        *)
(* enqueue, the cell it has written, the cells published, and the cell and *)
(* the result of a dequeue.                                                *)
Held ==
  /\ \A k \in dequeue_pos .. enqueue_pos - 1 :
       seq[Slot(k)] = k + 1 => data[Slot(k)] \in Values
  /\ \A p \in Producers :
       /\ pc[p] # "idle" => val[p] \in Values
       /\ pc[p] = "enq_publish" => data[Slot(pos[p])] = val[p]
  /\ \A c \in Consumers :
       /\ Reading(c) => data[Slot(pos[c])] \in Values
       /\ pc[c] = "deq_release" => val[c] = data[Slot(pos[c])]

(* A step that changes neither the cells nor the cursors, and of the calls *)
(* only one that owns no cell.                                             *)
Looks(t) ==
  /\ UNCHANGED <<cells, cursors>>
  /\ \A u \in Threads \ {t} : pc'[u] = pc[u] /\ pos'[u] = pos[u] /\ val'[u] = val[u]
  /\ ~Owns(t) /\ ~Owns(t)'

(* Which steps those are. *)
LEMMA EnqLooks ==
  ASSUME IInv, NEW p \in Producers,
         (\E v \in Values : EnqStart(p, v)) \/ EnqLoadSeq(p) \/ EnqReload(p) \/ EnqCasFail(p)
  PROVE  Looks(p)
<1>. USE DEF IInv, TypeOK, Threads, Looks, Owns, Writing, Reading, Goto
<1>1. CASE \E v \in Values : EnqStart(p, v)
  BY <1>1 DEF EnqStart
<1>2. CASE EnqLoadSeq(p)
  BY <1>2 DEF EnqLoadSeq
<1>3. CASE EnqReload(p)
  BY <1>3 DEF EnqReload
<1>4. CASE EnqCasFail(p)
  BY <1>4 DEF EnqCasFail
<1>. QED
  BY <1>1, <1>2, <1>3, <1>4

LEMMA DeqLooks ==
  ASSUME IInv, NEW c \in Consumers,
         DeqStart(c) \/ DeqLoadSeq(c) \/ DeqReload(c) \/ DeqCasFail(c)
  PROVE  Looks(c)
<1>. USE DEF IInv, TypeOK, Threads, Looks, Owns, Writing, Reading, Goto
<1>1. CASE DeqStart(c)
  BY <1>1 DEF DeqStart
<1>2. CASE DeqLoadSeq(c)
  BY <1>2 DEF DeqLoadSeq, DeqDecide
<1>3. CASE DeqReload(c)
  BY <1>3 DEF DeqReload
<1>4. CASE DeqCasFail(c)
  BY <1>4 DEF DeqCasFail
<1>. QED
  BY <1>1, <1>2, <1>3, <1>4

(* The argument of an enqueue is a message, and is not lost on the way. *)
LEMMA EnqArgument ==
  ASSUME IInv, Held, NEW p \in Producers,
         (\E v \in Values : EnqStart(p, v)) \/ EnqLoadSeq(p) \/ EnqReload(p) \/ EnqCasFail(p)
  PROVE  pc'[p] # "idle" => val'[p] \in Values
<1>. USE DEF IInv, TypeOK, Threads, Held, Goto
<1>1. CASE \E v \in Values : EnqStart(p, v)
  BY <1>1 DEF EnqStart
<1>2. CASE EnqLoadSeq(p)
  BY <1>2 DEF EnqLoadSeq
<1>3. CASE EnqReload(p)
  BY <1>3 DEF EnqReload
<1>4. CASE EnqCasFail(p)
  BY <1>4 DEF EnqCasFail
<1>. QED
  BY <1>1, <1>2, <1>3, <1>4

LEMMA InitHeld == Init => Held
  BY DEF Init, Held, Threads, Reading

(* The cell of an enqueue is not that of another position between the      *)
(* cursors, nor that of a dequeue.                                         *)
LEMMA CellOfWriter ==
  ASSUME IInv, NEW p \in Producers, Writing(p)
  PROVE  /\ pos[p] \in Nat /\ pos[p] \in dequeue_pos .. enqueue_pos - 1
         /\ seq[Slot(pos[p])] = pos[p]
         /\ \A k \in dequeue_pos .. enqueue_pos - 1 :
              k # pos[p] => k \in Nat /\ Slot(k) # Slot(pos[p])
         /\ \A q \in Producers : Writing(q) /\ q # p => pos[q] # pos[p]
         /\ \A c \in Consumers : Reading(c) => Slot(pos[c]) # Slot(pos[p])
<1>. USE SizeAssumption DEF IInv
<1>1. /\ dequeue_pos \in Nat /\ enqueue_pos \in Nat /\ pos[p] \in Nat
      /\ enqueue_pos <= dequeue_pos + Size
  BY DEF TypeOK, Threads, CountInRange
<1>2. dequeue_pos <= pos[p] /\ pos[p] < enqueue_pos /\ seq[Slot(pos[p])] = pos[p]
  BY DEF ProducerInv
<1>3. ASSUME NEW k \in dequeue_pos .. enqueue_pos - 1, k # pos[p]
      PROVE  k \in Nat /\ Slot(k) # Slot(pos[p])
  <2>1. CASE k < pos[p]
    BY <1>1, <1>2, <2>1, SlotFacts
  <2>2. CASE k > pos[p]
    BY <1>1, <1>2, <2>2, SlotFacts
  <2>. QED
    BY <1>1, <1>3, <2>1, <2>2
<1>4. \A q \in Producers : Writing(q) /\ q # p => pos[q] # pos[p]
  BY DEF OwnersApart
<1>5. ASSUME NEW c \in Consumers, Reading(c) PROVE Slot(pos[c]) # Slot(pos[p])
  BY <1>5, OwnersInDifferentCells, ThreadAssumption DEF CellExclusive, Owns, Threads
<1>. QED
  BY <1>1, <1>2, <1>3, <1>4, <1>5

(* The cell of a dequeue is that of no position between the cursors that   *)
(* is published.                                                           *)
LEMMA CellOfReader ==
  ASSUME IInv, NEW c \in Consumers, Reading(c)
  PROVE  /\ pos[c] \in Nat
         /\ \A k \in dequeue_pos .. enqueue_pos - 1 :
              k \in Nat /\ (Slot(k) = Slot(pos[c]) => seq[Slot(k)] # k + 1)
<1>. USE SizeAssumption DEF IInv
<1>1. /\ dequeue_pos \in Nat /\ enqueue_pos \in Nat /\ pos[c] \in Nat
      /\ pos[c] < dequeue_pos /\ seq[Slot(pos[c])] = pos[c] + 1
  BY DEF TypeOK, Threads, ConsumerInv
<1>. QED
  BY <1>1

(* mpmcq_enqueue keeps them. *)
LEMMA HeldEnq ==
  ASSUME IInv, IInv', Held, NEW p \in Producers,
         EnqStep(p) \/ \E v \in Values : EnqStart(p, v)
  PROVE  Held'
<1>. USE DEF Held
<1>0. /\ \A c \in Consumers : c # p /\ c \in Threads
      /\ \A q \in Producers : q \in Threads
  BY ThreadAssumption DEF Threads
<1>1. CASE \/ \E v \in Values : EnqStart(p, v)
           \/ EnqLoadSeq(p) \/ EnqReload(p) \/ EnqCasFail(p)
  <2>1. Looks(p) /\ (pc'[p] # "idle" => val'[p] \in Values)
    BY <1>1, EnqLooks, EnqArgument
  <2>2. /\ seq' = seq /\ data' = data
        /\ dequeue_pos' = dequeue_pos /\ enqueue_pos' = enqueue_pos
        /\ pc'[p] # "enq_publish"
        /\ \A q \in Producers : q # p => pc'[q] = pc[q] /\ pos'[q] = pos[q] /\ val'[q] = val[q]
        /\ \A c \in Consumers : pc'[c] = pc[c] /\ pos'[c] = pos[c] /\ val'[c] = val[c]
    BY <1>0, <2>1 DEF Looks, Owns, Writing, cells, cursors
  <2>. QED
    BY <2>1, <2>2 DEF Slot, Reading
<1>2. CASE EnqClaim(p)
  <2>1. /\ seq' = seq /\ data' = data /\ pos' = pos /\ val' = val
        /\ dequeue_pos' = dequeue_pos /\ enqueue_pos' = enqueue_pos + 1
        /\ pos[p] = enqueue_pos /\ pc[p] = "enq_cas" /\ pc'[p] = "enq_write"
        /\ \A u \in Threads : u # p => pc'[u] = pc[u]
    BY <1>0, <1>2 DEF EnqClaim, Goto, cells, IInv, TypeOK
  <2>2. seq[Slot(enqueue_pos)] # enqueue_pos + 1 /\ enqueue_pos \in Nat /\ dequeue_pos \in Nat
    BY <2>1 DEF IInv, ProducerInv, TypeOK
  <2>. QED
    BY <1>0, <2>1, <2>2 DEF Slot, Reading
<1>3. CASE EnqWrite(p)
  <2>1. /\ seq' = seq /\ pos' = pos /\ val' = val
        /\ dequeue_pos' = dequeue_pos /\ enqueue_pos' = enqueue_pos
        /\ data' = [data EXCEPT ![Slot(pos[p])] = val[p]]
        /\ pc[p] = "enq_write" /\ pc'[p] = "enq_publish"
        /\ \A u \in Threads : u # p => pc'[u] = pc[u]
    BY <1>0, <1>3 DEF EnqWrite, Goto, cursors, IInv, TypeOK
  <2>2. Writing(p)
    BY <2>1 DEF Writing
  <2>3. /\ data'[Slot(pos[p])] = val[p]
        /\ \A i \in Slots : i # Slot(pos[p]) => data'[i] = data[i]
    BY <2>1, <2>2, CellOfWriter, SlotFacts DEF IInv, TypeOK
  <2>4. ASSUME NEW k \in dequeue_pos .. enqueue_pos - 1, seq[Slot(k)] = k + 1
        PROVE  data'[Slot(k)] \in Values
    <3>1. k # pos[p] /\ k \in Nat /\ Slot(k) # Slot(pos[p])
      BY <2>2, <2>4, CellOfWriter
    <3>. QED
      BY <2>3, <2>4, <3>1, SlotFacts
  <2>5. ASSUME NEW q \in Producers, pc'[q] = "enq_publish" PROVE data'[Slot(pos[q])] = val[q]
    <3>1. CASE q = p
      BY <2>3, <3>1
    <3>2. CASE q # p
      <4>1. pc[q] = "enq_publish" /\ Writing(q)
        BY <1>0, <2>1, <2>5, <3>2 DEF Writing
      <4>2. Slot(pos[q]) # Slot(pos[p]) /\ pos[q] \in Nat
        BY <2>2, <3>2, <4>1, CellOfWriter
      <4>. QED
        BY <2>3, <4>1, <4>2, SlotFacts
    <3>. QED
      BY <3>1, <3>2
  <2>6. ASSUME NEW c \in Consumers, Reading(c) PROVE data'[Slot(pos[c])] = data[Slot(pos[c])]
    BY <2>2, <2>3, <2>6, CellOfWriter, CellOfReader, SlotFacts
  <2>7. \A c \in Consumers : pc'[c] = pc[c]
    BY <1>0, <2>1
  <2>8. \A c \in Consumers : pc[c] = "deq_release" => Reading(c)
    BY DEF Reading
  <2>9. \A q \in Producers : pc'[q] # "idle" => val[q] \in Values
    BY <1>0, <2>1
  <2>10. ASSUME NEW c \in Consumers
         PROVE  /\ Reading(c)' => data'[Slot(pos[c])] \in Values
                /\ pc'[c] = "deq_release" => val[c] = data'[Slot(pos[c])]
    BY <2>6, <2>7, <2>8 DEF Reading
  <2>. QED
    BY <2>1, <2>4, <2>5, <2>9, <2>10 DEF Slot
<1>4. CASE EnqPublish(p)
  <2>1. /\ data' = data /\ pos' = pos
        /\ dequeue_pos' = dequeue_pos /\ enqueue_pos' = enqueue_pos
        /\ seq' = [seq EXCEPT ![Slot(pos[p])] = pos[p] + 1]
        /\ pc[p] = "enq_publish" /\ pc'[p] = "idle"
        /\ \A u \in Threads : u # p => pc'[u] = pc[u] /\ val'[u] = val[u]
    BY <1>0, <1>4 DEF EnqPublish, Goto, cursors, IInv, TypeOK
  <2>2. Writing(p)
    BY <2>1 DEF Writing
  <2>3. ASSUME NEW k \in dequeue_pos .. enqueue_pos - 1, seq'[Slot(k)] = k + 1
        PROVE  data[Slot(k)] \in Values
    <3>1. CASE k = pos[p]
      BY <2>1, <3>1
    <3>2. CASE k # pos[p]
      <4>1. k \in Nat /\ Slot(k) # Slot(pos[p])
        BY <2>2, <3>2, CellOfWriter
      <4>2. seq'[Slot(k)] = seq[Slot(k)]
        BY <2>1, <4>1, SlotFacts DEF IInv, TypeOK
      <4>. QED
        BY <2>3, <4>2
    <3>. QED
      BY <3>1, <3>2
  <2>. QED
    BY <1>0, <2>1, <2>3 DEF Slot, Reading
<1>. QED
  BY <1>1, <1>2, <1>3, <1>4 DEF EnqStep

(* So does mpmcq_dequeue. *)
LEMMA HeldDeq ==
  ASSUME IInv, IInv', Held, NEW c \in Consumers, DeqStep(c) \/ DeqStart(c)
  PROVE  Held'
<1>. USE DEF Held
<1>0. /\ \A p \in Producers : p # c /\ p \in Threads
      /\ \A d \in Consumers : d \in Threads
  BY ThreadAssumption DEF Threads
<1>1. CASE DeqStart(c) \/ DeqLoadSeq(c) \/ DeqReload(c) \/ DeqCasFail(c)
  <2>1. Looks(c)
    BY <1>1, DeqLooks
  <2>2. /\ seq' = seq /\ data' = data
        /\ dequeue_pos' = dequeue_pos /\ enqueue_pos' = enqueue_pos
        /\ pc'[c] # "deq_release" /\ ~Reading(c)'
        /\ \A d \in Consumers : d # c => pc'[d] = pc[d] /\ pos'[d] = pos[d] /\ val'[d] = val[d]
        /\ \A p \in Producers : pc'[p] = pc[p] /\ pos'[p] = pos[p] /\ val'[p] = val[p]
    BY <1>0, <2>1 DEF Looks, Owns, Reading, cells, cursors
  <2>. QED
    BY <2>2 DEF Slot, Reading
<1>2. CASE DeqClaim(c)
  <2>1. /\ seq' = seq /\ data' = data /\ pos' = pos /\ val' = val
        /\ dequeue_pos' = dequeue_pos + 1 /\ enqueue_pos' = enqueue_pos
        /\ pos[c] = dequeue_pos /\ pc[c] = "deq_cas" /\ pc'[c] = "deq_read"
        /\ \A u \in Threads : u # c => pc'[u] = pc[u]
    BY <1>0, <1>2 DEF DeqClaim, Goto, cells, IInv, TypeOK
  <2>2. /\ seq[Slot(dequeue_pos)] = dequeue_pos + 1
        /\ enqueue_pos \in Nat /\ dequeue_pos \in Nat /\ dequeue_pos + 1 <= enqueue_pos
    BY <2>1 DEF IInv, ConsumerInv, TypeOK, CountInRange
  <2>3. data[Slot(dequeue_pos)] \in Values
    BY <2>2
  <2>. QED
    BY <1>0, <2>1, <2>2, <2>3 DEF Slot, Reading
<1>3. CASE DeqRead(c)
  <2>1. /\ seq' = seq /\ data' = data /\ pos' = pos
        /\ dequeue_pos' = dequeue_pos /\ enqueue_pos' = enqueue_pos
        /\ val'[c] = data[Slot(pos[c])]
        /\ pc[c] = "deq_read" /\ pc'[c] = "deq_release"
        /\ \A u \in Threads : u # c => pc'[u] = pc[u] /\ val'[u] = val[u]
    BY <1>0, <1>3 DEF DeqRead, Goto, cells, cursors, IInv, TypeOK
  <2>. QED
    BY <1>0, <2>1 DEF Slot, Reading
<1>4. CASE DeqRelease(c)
  <2>1. /\ data' = data /\ pos' = pos
        /\ dequeue_pos' = dequeue_pos /\ enqueue_pos' = enqueue_pos
        /\ seq' = [seq EXCEPT ![Slot(pos[c])] = pos[c] + Size]
        /\ pc[c] = "deq_release" /\ pc'[c] = "idle"
        /\ \A u \in Threads : u # c => pc'[u] = pc[u] /\ val'[u] = val[u]
    BY <1>0, <1>4 DEF DeqRelease, ReleaseSeq, Goto, cursors, IInv, TypeOK
  <2>2. /\ enqueue_pos <= pos[c] + Size /\ pos[c] \in Nat /\ enqueue_pos \in Nat
        /\ dequeue_pos \in Nat
    BY <1>0, <2>1 DEF IInv, ConsumerInv, TypeOK, Reading
  <2>3. ASSUME NEW k \in dequeue_pos .. enqueue_pos - 1, seq'[Slot(k)] = k + 1
        PROVE  seq[Slot(k)] = k + 1
    <3>1. k \in Nat /\ k < pos[c] + Size
      BY <2>2, SizeAssumption
    <3>2. CASE Slot(k) = Slot(pos[c])
      <4>1. seq'[Slot(k)] = pos[c] + Size
        BY <2>1, <3>1, <3>2, SlotFacts DEF IInv, TypeOK
      <4>2. k = pos[c] + Size - 1
        BY <2>2, <2>3, <3>1, <4>1, SizeAssumption
      <4>3. pos[c] < k /\ k < pos[c] + Size
        BY <2>2, <4>2, SizeAssumption
      <4>. QED
        BY <2>2, <3>1, <3>2, <4>3, SlotFacts
    <3>3. CASE Slot(k) # Slot(pos[c])
      BY <2>1, <2>2, <2>3, <3>1, <3>3, SlotFacts DEF IInv, TypeOK
    <3>. QED
      BY <3>2, <3>3
  <2>. QED
    BY <1>0, <2>1, <2>3 DEF Slot, Reading
<1>. QED
  BY <1>1, <1>2, <1>3, <1>4 DEF DeqStep

LEMMA HeldInvariance == Spec => []Held
<1>1. IInv /\ IInv' /\ Held /\ [Next]_vars => Held'
  <2>. SUFFICES ASSUME IInv, IInv', Held, [Next]_vars PROVE Held'
    OBVIOUS
  <2>1. CASE UNCHANGED vars
    BY <2>1 DEF vars, Held, Reading, Slot
  <2>2. CASE Next
    BY <2>2, HeldEnq, HeldDeq DEF Next
  <2>. QED
    BY <2>1, <2>2
<1>. QED
  BY InitHeld, InductiveInvariant, <1>1, PTL DEF Spec

(* The message of a position that is claimed and not yet published is the  *)
(* argument of the call that has claimed it, before a step ...             *)
LEMMA ClaimedMessage ==
  ASSUME IInv, NEW p \in Producers, Writing(p), NEW k, pos[p] = k
  PROVE  MessageAt(k) = val[p]
<1>1. seq[Slot(k)] # k + 1
  BY CellOfWriter
<1>2. (CHOOSE q \in Producers : Writing(q) /\ pos[q] = k) = p
  BY DEF IInv, OwnersApart
<1>3. MessageAt(k) = val[CHOOSE q \in Producers : Writing(q) /\ pos[q] = k]
  BY <1>1, Zenon DEF MessageAt
<1>. QED
  BY <1>2, <1>3, Zenon

(* ... and after it. *)
LEMMA ClaimedMessageNext ==
  ASSUME IInv', NEW p \in Producers, Writing(p)', NEW k, pos'[p] = k
  PROVE  MessageAt(k)' = val'[p]
<1>1. seq'[Slot(k)] # k + 1
  BY DEF IInv, ProducerInv, TypeOK, Threads, Slot
<1>2. (CHOOSE q \in Producers : Writing(q)' /\ pos'[q] = k) = p
  BY DEF IInv, OwnersApart
<1>3. MessageAt(k)' = val'[CHOOSE q \in Producers : Writing(q)' /\ pos'[q] = k]
  BY <1>1, Zenon DEF MessageAt, Slot
<1>. QED
  BY <1>2, <1>3, Zenon

(* A position keeps its message if its cell is left alone once published,  *)
(* and the call of its writer until then.                                  *)
LEMMA MessageKept ==
  ASSUME IInv, IInv', NEW k \in dequeue_pos .. enqueue_pos - 1,
         seq[Slot(k)] = k + 1 =>
           seq'[Slot(k)] = seq[Slot(k)] /\ data'[Slot(k)] = data[Slot(k)],
         \A p \in Producers : Writing(p) /\ pos[p] = k =>
           Writing(p)' /\ pos'[p] = pos[p] /\ val'[p] = val[p]
  PROVE  MessageAt(k)' = MessageAt(k)
<1>1. CASE seq[Slot(k)] = k + 1
  BY <1>1 DEF MessageAt, Slot
<1>2. CASE \E p \in Producers : Writing(p) /\ pos[p] = k
  <2>1. PICK p \in Producers : Writing(p) /\ pos[p] = k
    BY <1>2
  <2>2. MessageAt(k) = val[p]
    BY <2>1, ClaimedMessage
  <2>3. Writing(p)' /\ pos'[p] = k /\ val'[p] = val[p]
    BY <2>1
  <2>4. MessageAt(k)' = val'[p]
    BY <2>3, ClaimedMessageNext
  <2>. QED
    BY <2>2, <2>3, <2>4, Zenon
<1>. QED
  BY <1>1, <1>2 DEF IInv, FullCells

(* The messages between the cursors are messages. *)
LEMMA MessageType ==
  ASSUME IInv, Held, NEW k \in dequeue_pos .. enqueue_pos - 1
  PROVE  MessageAt(k) \in Values
<1>1. CASE seq[Slot(k)] = k + 1
  BY <1>1 DEF MessageAt, Held
<1>2. CASE \E p \in Producers : Writing(p) /\ pos[p] = k
  <2>1. PICK p \in Producers : Writing(p) /\ pos[p] = k
    BY <1>2
  <2>2. MessageAt(k) = val[p]
    BY <2>1, ClaimedMessage
  <2>. QED
    BY <2>1, <2>2 DEF Held, Writing
<1>. QED
  BY <1>1, <1>2 DEF IInv, FullCells

(* The elements of a sequence after Append and Tail. *)
LEMMA AppendElement ==
  ASSUME NEW s \in Seq(Values), NEW e \in Values, NEW i \in 1 .. Len(s) + 1
  PROVE  Append(s, e)[i] = IF i = Len(s) + 1 THEN e ELSE s[i]
OBVIOUS

LEMMA TailElement ==
  ASSUME NEW s \in Seq(Values), s # << >>, NEW i \in 1 .. Len(s) - 1
  PROVE  /\ Tail(s) \in Seq(Values) /\ Len(Tail(s)) = Len(s) - 1
         /\ Tail(s)[i] = s[i + 1]
OBVIOUS

(* The abstract queue has the messages from one cursor to the other. *)
Contents ==
  /\ AbstractQueue \in Seq(Values)
  /\ dequeue_pos \in Nat /\ enqueue_pos \in Nat
  /\ Len(AbstractQueue) = enqueue_pos - dequeue_pos
  /\ \A k \in dequeue_pos .. enqueue_pos - 1 :
       AbstractQueue[k - dequeue_pos + 1] = MessageAt(k)

LEMMA ContentsInvariance == Spec => []Contents
<1>1. IInv /\ Held => Contents
  <2>. SUFFICES ASSUME IInv, Held PROVE Contents
    OBVIOUS
  <2>1. /\ dequeue_pos \in Nat /\ enqueue_pos \in Nat
        /\ enqueue_pos - dequeue_pos \in Nat
    BY DEF IInv, TypeOK, CountInRange
  <2>2. ASSUME NEW i \in 1 .. enqueue_pos - dequeue_pos
        PROVE  MessageAt(dequeue_pos + i - 1) \in Values
    <3>1. dequeue_pos + i - 1 \in dequeue_pos .. enqueue_pos - 1
      BY <2>1
    <3>. QED
      BY <3>1, MessageType
  <2>3. ASSUME NEW k \in dequeue_pos .. enqueue_pos - 1
        PROVE  AbstractQueue[k - dequeue_pos + 1] = MessageAt(k)
    <3>1. /\ k - dequeue_pos + 1 \in 1 .. enqueue_pos - dequeue_pos
          /\ dequeue_pos + (k - dequeue_pos + 1) - 1 = k
      BY <2>1
    <3>. QED
      BY <3>1 DEF AbstractQueue
  <2>. QED
    BY <2>1, <2>2, <2>3 DEF AbstractQueue, Contents
<1>. QED
  BY <1>1, InductiveInvariant, HeldInvariance, PTL

(* If the cursors stay and the positions keep their messages, so does the  *)
(* abstract queue.                                                         *)
LEMMA QueueSame ==
  ASSUME Contents, Contents',
         dequeue_pos' = dequeue_pos, enqueue_pos' = enqueue_pos,
         \A k \in dequeue_pos .. enqueue_pos - 1 : MessageAt(k)' = MessageAt(k)
  PROVE  AbstractQueue' = AbstractQueue
<1>1. ASSUME NEW i \in 1 .. Len(AbstractQueue) PROVE AbstractQueue'[i] = AbstractQueue[i]
  <2>0. dequeue_pos + i - 1 \in dequeue_pos .. enqueue_pos - 1
    BY DEF Contents
  <2>1. PICK k \in dequeue_pos .. enqueue_pos - 1 : k - dequeue_pos + 1 = i
    BY <2>0 DEF Contents
  <2>2. /\ AbstractQueue[k - dequeue_pos + 1] = MessageAt(k)
        /\ AbstractQueue'[k - dequeue_pos' + 1] = MessageAt(k)'
    BY <2>1 DEF Contents
  <2>. QED
    BY <2>1, <2>2
<1>2. Len(AbstractQueue') = Len(AbstractQueue)
  BY DEF Contents
<1>. QED
  BY <1>1, <1>2, SeqEqual DEF Contents

(* An enqueue claims the position behind the last: its message is added.   *)
LEMMA QueueAppended ==
  ASSUME Contents, Contents', NEW v \in Values,
         dequeue_pos' = dequeue_pos, enqueue_pos' = enqueue_pos + 1,
         \A k \in dequeue_pos .. enqueue_pos - 1 : MessageAt(k)' = MessageAt(k),
         \A k \in Nat : k = enqueue_pos => MessageAt(k)' = v
  PROVE  AbstractQueue' = Append(AbstractQueue, v)
<1>. DEFINE n == Len(AbstractQueue)
<1>0. n \in Nat /\ n = enqueue_pos - dequeue_pos /\ Len(AbstractQueue') = n + 1
  BY DEF Contents
<1>. HIDE DEF n
<1>1. ASSUME NEW i \in 1 .. n + 1 PROVE AbstractQueue'[i] = Append(AbstractQueue, v)[i]
  <2>0. dequeue_pos + i - 1 \in dequeue_pos .. enqueue_pos
    BY <1>0 DEF Contents
  <2>1. PICK k \in dequeue_pos .. enqueue_pos : k - dequeue_pos + 1 = i
    BY <1>0, <2>0 DEF Contents
  <2>2. Append(AbstractQueue, v)[i] = IF i = n + 1 THEN v ELSE AbstractQueue[i]
    BY AppendElement DEF Contents, n
  <2>3. AbstractQueue'[i] = MessageAt(k)'
    BY <2>1 DEF Contents
  <2>4. CASE i = n + 1
    <3>1. k = enqueue_pos /\ k \in Nat
      BY <1>0, <2>1, <2>4 DEF Contents
    <3>. QED
      BY <2>2, <2>3, <2>4, <3>1
  <2>5. CASE i # n + 1
    <3>1. k \in dequeue_pos .. enqueue_pos - 1
      BY <1>0, <2>1, <2>5 DEF Contents
    <3>2. AbstractQueue[i] = MessageAt(k)
      BY <2>1, <3>1 DEF Contents
    <3>. QED
      BY <2>2, <2>3, <2>5, <3>1, <3>2
  <2>. QED
    BY <2>4, <2>5
<1>2. Append(AbstractQueue, v) \in Seq(Values) /\ Len(Append(AbstractQueue, v)) = n + 1
  BY DEF Contents, n
<1>. QED
  BY <1>0, <1>1, <1>2, SeqEqual DEF Contents

(* A dequeue claims the first position: the others are what is left.       *)
LEMMA QueueShortened ==
  ASSUME Contents, Contents',
         dequeue_pos < enqueue_pos,
         dequeue_pos' = dequeue_pos + 1, enqueue_pos' = enqueue_pos,
         \A k \in dequeue_pos .. enqueue_pos - 1 : MessageAt(k)' = MessageAt(k)
  PROVE  /\ AbstractQueue # << >>
         /\ Head(AbstractQueue) = MessageAt(dequeue_pos)
         /\ AbstractQueue' = Tail(AbstractQueue)
<1>. DEFINE n == Len(AbstractQueue)
<1>0. n \in Nat /\ n > 0 /\ n = enqueue_pos - dequeue_pos /\ Len(AbstractQueue') = n - 1
  BY DEF Contents
<1>1. AbstractQueue # << >> /\ Head(AbstractQueue) = AbstractQueue[1]
  BY <1>0 DEF Contents
<1>2. AbstractQueue[1] = MessageAt(dequeue_pos)
  <2>1. AbstractQueue[dequeue_pos - dequeue_pos + 1] = MessageAt(dequeue_pos)
    BY DEF Contents
  <2>. QED
    BY <2>1 DEF Contents
<1>3. Tail(AbstractQueue) \in Seq(Values) /\ Len(Tail(AbstractQueue)) = n - 1
  BY <1>1 DEF Contents
<1>4. ASSUME NEW i \in 1 .. n - 1 PROVE AbstractQueue'[i] = Tail(AbstractQueue)[i]
  <2>0. dequeue_pos + i \in dequeue_pos .. enqueue_pos - 1
    BY <1>0 DEF Contents
  <2>1. PICK k \in dequeue_pos .. enqueue_pos - 1 :
          /\ k \in dequeue_pos' .. enqueue_pos' - 1
          /\ k - dequeue_pos + 1 = i + 1 /\ k - dequeue_pos' + 1 = i
    BY <1>0, <2>0 DEF Contents
  <2>2. Tail(AbstractQueue)[i] = AbstractQueue[i + 1]
    BY <1>1, TailElement DEF Contents
  <2>3. /\ AbstractQueue[k - dequeue_pos + 1] = MessageAt(k)
        /\ AbstractQueue'[k - dequeue_pos' + 1] = MessageAt(k)'
    BY <2>1 DEF Contents
  <2>4. MessageAt(k)' = MessageAt(k)
    BY <2>1
  <2>. QED
    BY <2>1, <2>2, <2>3, <2>4
<1>. QED
  BY <1>0, <1>1, <1>2, <1>3, <1>4, SeqEqual DEF Contents

----------------------------------------------------------------------------
(* Every step is one of the FIFO, or none *)

LEMMA InitAbstract == Init => Fifo!Init
<1>. SUFFICES ASSUME Init PROVE Fifo!Init
  OBVIOUS
<1>1. AbstractQueue = << >>
  BY DEF Init, AbstractQueue
<1>2. AbstractTaken = [c \in Consumers |-> NoValue]
  BY DEF Init, AbstractTaken, Threads
<1>. QED
  BY <1>1, <1>2 DEF Fifo!Init

(* A step that only looks changes neither the queue nor what is taken. *)
LEMMA LooksAbstract ==
  ASSUME IInv, IInv', Contents, Contents', NEW t \in Threads, Looks(t)
  PROVE  UNCHANGED <<AbstractQueue, AbstractTaken>>
<1>1. /\ seq' = seq /\ data' = data
      /\ dequeue_pos' = dequeue_pos /\ enqueue_pos' = enqueue_pos
      /\ \A u \in Threads : u # t => pc'[u] = pc[u] /\ pos'[u] = pos[u] /\ val'[u] = val[u]
      /\ ~Owns(t) /\ ~Owns(t)'
  BY DEF Looks, cells, cursors
<1>2. ASSUME NEW k \in dequeue_pos .. enqueue_pos - 1 PROVE MessageAt(k)' = MessageAt(k)
  <2>1. \A p \in Producers : Writing(p) => p # t /\ p \in Threads
    BY <1>1 DEF Owns, Threads
  <2>2. \A p \in Producers : Writing(p) => Writing(p)' /\ pos'[p] = pos[p] /\ val'[p] = val[p]
    BY <1>1, <2>1 DEF Writing
  <2>. QED
    BY <1>1, <2>2, MessageKept
<1>3. AbstractQueue' = AbstractQueue
  BY <1>1, <1>2, QueueSame
<1>4. AbstractTaken' = AbstractTaken
  <2>1. ASSUME NEW c \in Consumers
        PROVE  (CASE pc'[c] = "deq_read" -> data'[Slot(pos'[c])]
                  [] pc'[c] = "deq_release" -> val'[c]
                  [] OTHER -> NoValue) =
               (CASE pc[c] = "deq_read" -> data[Slot(pos[c])]
                  [] pc[c] = "deq_release" -> val[c]
                  [] OTHER -> NoValue)
    <3>1. c \in Threads
      BY DEF Threads
    <3>2. CASE c = t
      BY <1>1, <3>2 DEF Owns, Reading
    <3>3. CASE c # t
      BY <1>1, <3>1, <3>3
    <3>. QED
      BY <3>2, <3>3
  <2>. QED
    BY <2>1 DEF AbstractTaken, Slot
<1>. QED
  BY <1>3, <1>4

(* What the consumers have taken depends on their own calls and on the     *)
(* cells they read.                                                        *)
LEMMA TakenSame ==
  ASSUME \A c \in Consumers :
           /\ pc'[c] = pc[c] /\ pos'[c] = pos[c] /\ val'[c] = val[c]
           /\ Reading(c) => data'[Slot(pos[c])] = data[Slot(pos[c])]
  PROVE  AbstractTaken' = AbstractTaken
<1>1. ASSUME NEW c \in Consumers
      PROVE  (CASE pc'[c] = "deq_read" -> data'[Slot(pos'[c])]
                [] pc'[c] = "deq_release" -> val'[c]
                [] OTHER -> NoValue) =
             (CASE pc[c] = "deq_read" -> data[Slot(pos[c])]
                [] pc[c] = "deq_release" -> val[c]
                [] OTHER -> NoValue)
  BY DEF Reading
<1>. QED
  BY <1>1 DEF AbstractTaken, Slot

(* An enqueue takes effect when it claims its position ... *)
LEMMA EnqClaimAbstract ==
  ASSUME IInv, IInv', Held, Contents, Contents', NEW p \in Producers, EnqClaim(p)
  PROVE  Fifo!Next
<1>0. \A u \in Threads : (u \in Producers \/ u \in Consumers) /\ (u \in Consumers => u # p)
  BY ThreadAssumption DEF Threads
<1>1. /\ seq' = seq /\ data' = data /\ pos' = pos /\ val' = val
      /\ dequeue_pos' = dequeue_pos /\ enqueue_pos' = enqueue_pos + 1
      /\ pos[p] = enqueue_pos /\ pc[p] = "enq_cas" /\ pc'[p] = "enq_write"
      /\ \A u \in Threads : u # p => pc'[u] = pc[u]
  BY DEF EnqClaim, Goto, cells, IInv, TypeOK, Threads
<1>2. val[p] \in Values
  BY <1>1 DEF Held
<1>3. ASSUME NEW k \in dequeue_pos .. enqueue_pos - 1 PROVE MessageAt(k)' = MessageAt(k)
  <2>1. \A q \in Producers : Writing(q) => q # p /\ q \in Threads
    BY <1>1 DEF Writing, Threads
  <2>2. \A q \in Producers : Writing(q) => Writing(q)' /\ pos'[q] = pos[q] /\ val'[q] = val[q]
    BY <1>1, <2>1 DEF Writing
  <2>. QED
    BY <1>1, <2>2, MessageKept
<1>4. ASSUME NEW k \in Nat, k = enqueue_pos PROVE MessageAt(k)' = val[p]
  <2>1. Writing(p)' /\ pos'[p] = k
    BY <1>1, <1>4 DEF Writing
  <2>. QED
    BY <1>1, <2>1, ClaimedMessageNext
<1>5. AbstractQueue' = Append(AbstractQueue, val[p])
  BY <1>1, <1>2, <1>3, <1>4, QueueAppended
<1>6. Len(AbstractQueue) < Size
  BY <1>1, SizeAssumption DEF Contents, IInv, CountInRange
<1>7. AbstractTaken' = AbstractTaken
  <2>1. \A c \in Consumers : pc'[c] = pc[c]
    BY <1>1, ThreadAssumption DEF Threads
  <2>. QED
    BY <1>1, <2>1, TakenSame
<1>. QED
  BY <1>2, <1>5, <1>6, <1>7 DEF Fifo!Next, Fifo!Enqueue

(* ... and not when it writes its cell, ... *)
LEMMA EnqWriteAbstract ==
  ASSUME IInv, IInv', Contents, Contents', NEW p \in Producers, EnqWrite(p)
  PROVE  UNCHANGED <<AbstractQueue, AbstractTaken>>
<1>1. /\ seq' = seq /\ pos' = pos /\ val' = val
      /\ dequeue_pos' = dequeue_pos /\ enqueue_pos' = enqueue_pos
      /\ data' = [data EXCEPT ![Slot(pos[p])] = val[p]]
      /\ pc[p] = "enq_write" /\ pc'[p] = "enq_publish"
      /\ \A u \in Threads : u # p => pc'[u] = pc[u]
  BY DEF EnqWrite, Goto, cursors, IInv, TypeOK, Threads
<1>2. Writing(p) /\ Writing(p)'
  BY <1>1 DEF Writing
<1>3. \A i \in Slots : i # Slot(pos[p]) => data'[i] = data[i]
  BY <1>1 DEF IInv, TypeOK
<1>4. ASSUME NEW k \in dequeue_pos .. enqueue_pos - 1 PROVE MessageAt(k)' = MessageAt(k)
  <2>1. ASSUME seq[Slot(k)] = k + 1 PROVE data'[Slot(k)] = data[Slot(k)]
    <3>1. k # pos[p] /\ k \in Nat /\ Slot(k) # Slot(pos[p])
      BY <1>2, <2>1, CellOfWriter
    <3>. QED
      BY <1>3, <3>1, SlotFacts
  <2>2. \A q \in Producers : Writing(q) => Writing(q)'
    BY <1>1, <1>2 DEF Writing, Threads
  <2>. QED
    BY <1>1, <2>1, <2>2, MessageKept
<1>5. AbstractQueue' = AbstractQueue
  BY <1>1, <1>4, QueueSame
<1>6. AbstractTaken' = AbstractTaken
  <2>1. \A c \in Consumers : pc'[c] = pc[c]
    BY <1>1, ThreadAssumption DEF Threads
  <2>2. \A c \in Consumers : Reading(c) => data'[Slot(pos[c])] = data[Slot(pos[c])]
    BY <1>2, <1>3, CellOfWriter, CellOfReader, SlotFacts
  <2>. QED
    BY <1>1, <2>1, <2>2, TakenSame
<1>. QED
  BY <1>5, <1>6

(* ... nor when it publishes it. *)
LEMMA EnqPublishAbstract ==
  ASSUME IInv, IInv', Held, Contents, Contents', NEW p \in Producers, EnqPublish(p)
  PROVE  UNCHANGED <<AbstractQueue, AbstractTaken>>
<1>1. /\ data' = data /\ pos' = pos
      /\ dequeue_pos' = dequeue_pos /\ enqueue_pos' = enqueue_pos
      /\ seq' = [seq EXCEPT ![Slot(pos[p])] = pos[p] + 1]
      /\ pc[p] = "enq_publish" /\ pc'[p] = "idle"
      /\ \A u \in Threads : u # p => pc'[u] = pc[u] /\ val'[u] = val[u]
  BY DEF EnqPublish, Goto, cursors, IInv, TypeOK, Threads
<1>2. Writing(p) /\ data[Slot(pos[p])] = val[p]
  BY <1>1 DEF Writing, Held
<1>3. /\ \A i \in Slots : i # Slot(pos[p]) => seq'[i] = seq[i]
      /\ seq'[Slot(pos[p])] = pos[p] + 1
  BY <1>1, <1>2, CellOfWriter, SlotFacts DEF IInv, TypeOK
<1>4. ASSUME NEW k \in dequeue_pos .. enqueue_pos - 1 PROVE MessageAt(k)' = MessageAt(k)
  <2>1. CASE k = pos[p]
    <3>1. MessageAt(k) = val[p]
      BY <1>2, <2>1, ClaimedMessage
    <3>2. MessageAt(k)' = data[Slot(k)]
      BY <1>1, <1>3, <2>1 DEF MessageAt, Slot
    <3>. QED
      BY <1>2, <2>1, <3>1, <3>2, Zenon
  <2>2. CASE k # pos[p]
    <3>1. k \in Nat /\ Slot(k) # Slot(pos[p])
      BY <1>2, <2>2, CellOfWriter
    <3>2. seq'[Slot(k)] = seq[Slot(k)]
      BY <1>3, <3>1, SlotFacts
    <3>3. \A q \in Producers : Writing(q) /\ pos[q] = k =>
            Writing(q)' /\ pos'[q] = pos[q] /\ val'[q] = val[q]
      BY <1>1, <2>2 DEF Writing, Threads
    <3>. QED
      BY <1>1, <3>2, <3>3, MessageKept
  <2>. QED
    BY <2>1, <2>2
<1>5. AbstractQueue' = AbstractQueue
  BY <1>1, <1>4, QueueSame
<1>6. AbstractTaken' = AbstractTaken
  <2>1. \A c \in Consumers : pc'[c] = pc[c] /\ val'[c] = val[c]
    BY <1>1, ThreadAssumption DEF Threads
  <2>. QED
    BY <1>1, <2>1, TakenSame
<1>. QED
  BY <1>5, <1>6

(* The message a consumer has taken. *)
LEMMA TakenOf ==
  ASSUME NEW c \in Consumers
  PROVE  /\ pc[c] = "deq_read" => AbstractTaken[c] = data[Slot(pos[c])]
         /\ pc[c] = "deq_release" => AbstractTaken[c] = val[c]
         /\ ~Reading(c) => AbstractTaken[c] = NoValue
  BY DEF AbstractTaken, Reading

(* A step of one consumer changes what this one has taken only. *)
LEMMA TakenExcept ==
  ASSUME NEW c \in Consumers, data' = data, pos' = pos, NEW v,
         \A d \in Consumers : d # c => pc'[d] = pc[d] /\ val'[d] = val[d],
         \/ pc'[c] = "deq_read" /\ v = data[Slot(pos[c])]
         \/ pc'[c] = "deq_release" /\ v = val'[c]
         \/ pc'[c] \notin {"deq_read", "deq_release"} /\ v = NoValue
  PROVE  AbstractTaken' = [AbstractTaken EXCEPT ![c] = v]
<1>1. ASSUME NEW d \in Consumers
      PROVE  (CASE pc'[d] = "deq_read" -> data'[Slot(pos'[d])]
                [] pc'[d] = "deq_release" -> val'[d]
                [] OTHER -> NoValue) =
             IF d = c THEN v
             ELSE (CASE pc[d] = "deq_read" -> data[Slot(pos[d])]
                     [] pc[d] = "deq_release" -> val[d]
                     [] OTHER -> NoValue)
  <2>1. CASE d = c
    BY <2>1
  <2>2. CASE d # c
    BY <2>2
  <2>. QED
    BY <2>1, <2>2
<1>. QED
  BY <1>1 DEF AbstractTaken, Slot

(* A dequeue takes effect when it claims its position, ... *)
LEMMA DeqClaimAbstract ==
  ASSUME IInv, IInv', Held, Contents, Contents', NEW c \in Consumers, DeqClaim(c)
  PROVE  Fifo!Next
<1>1. /\ seq' = seq /\ data' = data /\ pos' = pos /\ val' = val
      /\ dequeue_pos' = dequeue_pos + 1 /\ enqueue_pos' = enqueue_pos
      /\ pos[c] = dequeue_pos /\ pc[c] = "deq_cas" /\ pc'[c] = "deq_read"
      /\ \A u \in Threads : u # c => pc'[u] = pc[u]
  BY DEF DeqClaim, Goto, cells, IInv, TypeOK, Threads
<1>2. /\ seq[Slot(dequeue_pos)] = dequeue_pos + 1
      /\ enqueue_pos \in Nat /\ dequeue_pos \in Nat /\ dequeue_pos < enqueue_pos
  BY <1>1 DEF IInv, ConsumerInv, TypeOK, CountInRange
<1>3. ASSUME NEW k \in dequeue_pos .. enqueue_pos - 1 PROVE MessageAt(k)' = MessageAt(k)
  <2>1. \A p \in Producers : Writing(p) => p # c /\ p \in Threads
    BY ThreadAssumption DEF Threads
  <2>2. \A p \in Producers : Writing(p) => Writing(p)' /\ pos'[p] = pos[p] /\ val'[p] = val[p]
    BY <1>1, <2>1 DEF Writing
  <2>. QED
    BY <1>1, <2>2, MessageKept
<1>4. /\ AbstractQueue # << >>
      /\ Head(AbstractQueue) = MessageAt(dequeue_pos)
      /\ AbstractQueue' = Tail(AbstractQueue)
  BY <1>1, <1>2, <1>3, QueueShortened
<1>5. MessageAt(dequeue_pos) = data[Slot(dequeue_pos)]
  BY <1>2 DEF MessageAt
<1>6. AbstractTaken[c] = NoValue
  BY <1>1, TakenOf DEF Reading
<1>7. AbstractTaken' = [AbstractTaken EXCEPT ![c] = data[Slot(pos[c])]]
  <2>1. \A d \in Consumers : d # c => pc'[d] = pc[d] /\ val'[d] = val[d]
    BY <1>1 DEF Threads
  <2>. QED
    BY <1>1, <2>1, TakenExcept
<1>. QED
  BY <1>1, <1>4, <1>5, <1>6, <1>7 DEF Fifo!Next, Fifo!Dequeue

(* ... holds its message while it reads the cell, ... *)
LEMMA DeqReadAbstract ==
  ASSUME IInv, IInv', Contents, Contents', NEW c \in Consumers, DeqRead(c)
  PROVE  UNCHANGED <<AbstractQueue, AbstractTaken>>
<1>1. /\ seq' = seq /\ data' = data /\ pos' = pos
      /\ dequeue_pos' = dequeue_pos /\ enqueue_pos' = enqueue_pos
      /\ val'[c] = data[Slot(pos[c])]
      /\ pc[c] = "deq_read" /\ pc'[c] = "deq_release"
      /\ \A u \in Threads : u # c => pc'[u] = pc[u] /\ val'[u] = val[u]
  BY DEF DeqRead, Goto, cells, cursors, IInv, TypeOK, Threads
<1>2. \A p \in Producers : pc'[p] = pc[p] /\ val'[p] = val[p]
  BY <1>1, ThreadAssumption DEF Threads
<1>3. \A p \in Producers : Writing(p) => Writing(p)' /\ pos'[p] = pos[p] /\ val'[p] = val[p]
  BY <1>1, <1>2 DEF Writing
<1>4. \A k \in dequeue_pos .. enqueue_pos - 1 : MessageAt(k)' = MessageAt(k)
  BY <1>1, <1>3, MessageKept
<1>5. AbstractQueue' = AbstractQueue
  BY <1>1, <1>4, QueueSame
<1>6. AbstractTaken' = [AbstractTaken EXCEPT ![c] = data[Slot(pos[c])]]
  <2>1. \A d \in Consumers : d # c => pc'[d] = pc[d] /\ val'[d] = val[d]
    BY <1>1 DEF Threads
  <2>. QED
    BY <1>1, <2>1, TakenExcept
<1>7. AbstractTaken[c] = data[Slot(pos[c])]
  BY <1>1, TakenOf
<1>8. AbstractTaken' = AbstractTaken
  BY <1>6, <1>7 DEF AbstractTaken
<1>. QED
  BY <1>5, <1>8

(* ... and returns it. *)
LEMMA DeqReleaseAbstract ==
  ASSUME IInv, IInv', Held, Contents, Contents', NEW c \in Consumers, DeqRelease(c)
  PROVE  Fifo!Next
<1>1. /\ data' = data /\ pos' = pos
      /\ dequeue_pos' = dequeue_pos /\ enqueue_pos' = enqueue_pos
      /\ seq' = [seq EXCEPT ![Slot(pos[c])] = pos[c] + Size]
      /\ pc[c] = "deq_release" /\ pc'[c] = "idle"
      /\ \A u \in Threads : u # c => pc'[u] = pc[u] /\ val'[u] = val[u]
  BY DEF DeqRelease, ReleaseSeq, Goto, cursors, IInv, TypeOK, Threads
<1>2. Reading(c)
  BY <1>1 DEF Reading
<1>3. \A p \in Producers : Writing(p) => Writing(p)' /\ pos'[p] = pos[p] /\ val'[p] = val[p]
  BY <1>1, ThreadAssumption DEF Writing, Threads
<1>4. ASSUME NEW k \in dequeue_pos .. enqueue_pos - 1 PROVE MessageAt(k)' = MessageAt(k)
  <2>1. ASSUME seq[Slot(k)] = k + 1 PROVE seq'[Slot(k)] = seq[Slot(k)]
    <3>1. k \in Nat /\ Slot(k) # Slot(pos[c])
      BY <1>2, <2>1, CellOfReader
    <3>. QED
      BY <1>1, <3>1, SlotFacts DEF IInv, TypeOK
  <2>. QED
    BY <1>1, <1>3, <2>1, MessageKept
<1>5. AbstractQueue' = AbstractQueue
  BY <1>1, <1>4, QueueSame
<1>6. AbstractTaken[c] # NoValue
  <2>1. AbstractTaken[c] = val[c]
    BY <1>1, TakenOf
  <2>. QED
    BY <1>1, <1>2, <2>1, ValueAssumption DEF Held
<1>7. AbstractTaken' = [AbstractTaken EXCEPT ![c] = NoValue]
  <2>1. \A d \in Consumers : d # c => pc'[d] = pc[d] /\ val'[d] = val[d]
    BY <1>1 DEF Threads
  <2>. QED
    BY <1>1, <2>1, TakenExcept
<1>. QED
  BY <1>5, <1>6, <1>7 DEF Fifo!Next, Fifo!Return

(* A step of the threads is a step of the FIFO or changes nothing of it. *)
LEMMA NextAbstract ==
  IInv /\ IInv' /\ Held /\ Contents /\ Contents' /\ [Next]_vars => [Fifo!Next]_(Fifo!vars)
<1>. SUFFICES ASSUME IInv, IInv', Held, Contents, Contents', [Next]_vars
              PROVE  [Fifo!Next]_(Fifo!vars)
  OBVIOUS
<1>0. UNCHANGED <<AbstractQueue, AbstractTaken>> => [Fifo!Next]_(Fifo!vars)
  BY DEF Fifo!vars
<1>1. ASSUME NEW p \in Producers, EnqStep(p) \/ \E v \in Values : EnqStart(p, v)
      PROVE  [Fifo!Next]_(Fifo!vars)
  <2>1. CASE \/ \E v \in Values : EnqStart(p, v)
             \/ EnqLoadSeq(p) \/ EnqReload(p) \/ EnqCasFail(p)
    BY <1>0, <2>1, EnqLooks, LooksAbstract DEF Threads
  <2>2. CASE EnqClaim(p)
    BY <2>2, EnqClaimAbstract
  <2>3. CASE EnqWrite(p)
    BY <1>0, <2>3, EnqWriteAbstract
  <2>4. CASE EnqPublish(p)
    BY <1>0, <2>4, EnqPublishAbstract
  <2>. QED
    BY <1>1, <2>1, <2>2, <2>3, <2>4 DEF EnqStep
<1>2. ASSUME NEW c \in Consumers, DeqStep(c) \/ DeqStart(c)
      PROVE  [Fifo!Next]_(Fifo!vars)
  <2>1. CASE DeqStart(c) \/ DeqLoadSeq(c) \/ DeqReload(c) \/ DeqCasFail(c)
    BY <1>0, <2>1, DeqLooks, LooksAbstract DEF Threads
  <2>2. CASE DeqClaim(c)
    BY <2>2, DeqClaimAbstract
  <2>3. CASE DeqRead(c)
    BY <1>0, <2>3, DeqReadAbstract
  <2>4. CASE DeqRelease(c)
    BY <2>4, DeqReleaseAbstract
  <2>. QED
    BY <1>2, <2>1, <2>2, <2>3, <2>4 DEF DeqStep
<1>3. CASE UNCHANGED vars
  <2>1. UNCHANGED <<AbstractQueue, AbstractTaken>>
    BY <1>3 DEF vars, AbstractQueue, AbstractTaken, MessageAt, Writing, Slot
  <2>. QED
    BY <1>0, <2>1
<1>. QED
  BY <1>1, <1>2, <1>3 DEF Next

(* However the calls of mpmcq_enqueue and mpmcq_dequeue interleave, the    *)
(* queue is a FIFO of at most Size messages: each message enqueued is      *)
(* handed to one dequeue, unchanged and in the order of the claims.        *)
THEOREM QueueIsFifo == Spec => ImplementsFifo
<1>1. Spec => [](IInv /\ Held /\ Contents)
  BY InductiveInvariant, HeldInvariance, ContentsInvariance, PTL
<1>. QED
  BY <1>1, InitAbstract, NextAbstract, PTL DEF Spec, ImplementsFifo, Fifo!Spec
=============================================================================
