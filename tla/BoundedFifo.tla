---------------------------- MODULE BoundedFifo ----------------------------
(***************************************************************************)
(* What the callback queue of a reactor promises: a FIFO of at most        *)
(* Capacity messages, shared by any number of senders and receivers.  A    *)
(* receiver takes the oldest message, holds it while it copies it out of   *)
(* its slot, and returns it to its caller.  A call that finds nothing to   *)
(* take changes nothing here.                                              *)
(***************************************************************************)
EXTENDS Naturals, Sequences

CONSTANTS Capacity,   \* the most messages in the queue
          Consumers,  \* the receiving threads
          Values,     \* the messages
          NoValue     \* NULL: nothing held

VARIABLES q,          \* the messages, oldest first
          taken       \* taken[c]: the message c holds, or NoValue

vars == <<q, taken>>

Init ==
  /\ q = << >>
  /\ taken = [c \in Consumers |-> NoValue]

Enqueue(v) ==
  /\ Len(q) < Capacity
  /\ q' = Append(q, v)
  /\ UNCHANGED taken

Dequeue(c) ==
  /\ q # << >>
  /\ taken[c] = NoValue
  /\ taken' = [taken EXCEPT ![c] = Head(q)]
  /\ q' = Tail(q)

Return(c) ==
  /\ taken[c] # NoValue
  /\ taken' = [taken EXCEPT ![c] = NoValue]
  /\ UNCHANGED q

Next ==
  \/ \E v \in Values : Enqueue(v)
  \/ \E c \in Consumers : Dequeue(c) \/ Return(c)

Spec == Init /\ [][Next]_vars
=============================================================================
