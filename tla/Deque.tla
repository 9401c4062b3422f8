------------------------------- MODULE Deque -------------------------------
(***************************************************************************)
(* The doubly linked list of deque.c, meant for the idle connections of a  *)
(* reactor.  A node is known by the data it carries: malloc is the step    *)
(* from a datum outside the list to its node.  A connection keeps the node *)
(* that push_back_and_attach has made, detaches it or moves it.            *)
(*                                                                         *)
(* A call is a function of the list, so that the calls that use others are *)
(* written as the code has them.                                           *)
(***************************************************************************)
EXTENDS Integers, Sequences, FiniteSets
LOCAL INSTANCE SequencesExt

CONSTANTS Nodes,   \* the nodes, and their data
          Null

VARIABLES list,    \* head, tail, and prev and next of every node
          popped   \* what the last call has returned

vars == <<list, popped>>

(* deque_init *)
Empty ==
  [head |-> Null, tail |-> Null,
   prev |-> [n \in Nodes |-> Null], next |-> [n \in Nodes |-> Null]]

IsEmpty(l) == l.head = Null

(* deque_push_front_node *)
PushFrontNode(l, n) ==
  [head |-> n,
   tail |-> IF l.head = Null THEN n ELSE l.tail,
   next |-> [l.next EXCEPT ![n] = l.head],
   prev |-> [m \in Nodes |->
               CASE m = n -> Null [] m = l.head -> n [] OTHER -> l.prev[m]]]

(* deque_push_back_node *)
PushBackNode(l, n) ==
  [head |-> IF l.tail = Null THEN n ELSE l.head,
   tail |-> n,
   prev |-> [l.prev EXCEPT ![n] = l.tail],
   next |-> [m \in Nodes |->
               CASE m = n -> Null [] m = l.tail -> n [] OTHER -> l.next[m]]]

(* deque_pop_front and deque_pop_back, on a list that is not empty *)
PopFrontNode(l) ==
  LET head == l.next[l.head]
  IN [l EXCEPT !.head = head,
               !.tail = IF head = Null THEN Null ELSE @,
               !.prev = IF head = Null THEN @ ELSE [@ EXCEPT ![head] = Null]]

PopBackNode(l) ==
  LET tail == l.prev[l.tail]
  IN [l EXCEPT !.tail = tail,
               !.head = IF tail = Null THEN Null ELSE @,
               !.next = IF tail = Null THEN @ ELSE [@ EXCEPT ![tail] = Null]]

(* a mistake the runs must notice: the back pointer around the node is forgotten *)
DetachOneWay(l, n) ==
  IF IsEmpty(l) THEN l
  ELSE [l EXCEPT
          !.next = IF l.prev[n] # Null THEN [@ EXCEPT ![l.prev[n]] = l.next[n]] ELSE @,
          !.head = IF l.prev[n] # Null THEN @ ELSE l.next[n],
          !.tail = IF l.next[n] # Null THEN @ ELSE l.prev[n]]

(* deque_detach *)
Detach(l, n) ==
  IF IsEmpty(l) THEN l
  ELSE [l EXCEPT
          !.next = IF l.prev[n] # Null THEN [@ EXCEPT ![l.prev[n]] = l.next[n]] ELSE @,
          !.head = IF l.prev[n] # Null THEN @ ELSE l.next[n],
          !.prev = IF l.next[n] # Null THEN [@ EXCEPT ![l.next[n]] = l.prev[n]] ELSE @,
          !.tail = IF l.next[n] # Null THEN @ ELSE l.prev[n]]

(* deque_move_to_back *)
MoveToBack(l, n) ==
  IF IsEmpty(l) \/ n = l.tail THEN l ELSE PushBackNode(Detach(l, n), n)

(* deque_move_to_front *)
MoveToFront(l, n) ==
  IF IsEmpty(l) \/ n = l.head THEN l ELSE PushFrontNode(Detach(l, n), n)

(* the nodes from head along next, to twice their number if there is a cycle *)
Forward ==
  LET nodes[k \in 0 .. 2 * Cardinality(Nodes)] ==
        IF k = 0 THEN list.head
        ELSE IF nodes[k - 1] = Null THEN Null ELSE list.next[nodes[k - 1]]
  IN IF IsEmpty(list) THEN << >>
     ELSE SelectSeq([k \in 1 .. 2 * Cardinality(Nodes) |-> nodes[k - 1]],
                    LAMBDA n : n # Null)

Items == {n \in Nodes : \E i \in DOMAIN Forward : Forward[i] = n}
----------------------------------------------------------------------------
Init == list = Empty /\ popped = Null

Returns(n) == popped' = n

PushFront(n) ==
  /\ n \notin Items
  /\ list' = PushFrontNode(list, n) /\ Returns(Null)

PushBack(n) ==
  /\ n \notin Items
  /\ list' = PushBackNode(list, n) /\ Returns(Null)

PopFront ==
  /\ list' = IF IsEmpty(list) THEN list ELSE PopFrontNode(list)
  /\ Returns(list.head)

PopBack ==
  /\ list' = IF IsEmpty(list) THEN list ELSE PopBackNode(list)
  /\ Returns(IF IsEmpty(list) THEN Null ELSE list.tail)

DetachItem(n) ==
  /\ n \in Items
  /\ list' = Detach(list, n) /\ Returns(Null)

Move(n) ==
  /\ n \in Items
  /\ list' = MoveToBack(list, n) \/ list' = MoveToFront(list, n)
  /\ Returns(Null)

(* deque_destroy pops until the list is empty *)
Destroy ==
  /\ list' = [list EXCEPT !.head = Null, !.tail = Null]
  /\ Returns(Null)

Next ==
  \/ \E n \in Nodes : PushFront(n) \/ PushBack(n) \/ DetachItem(n) \/ Move(n)
  \/ PopFront \/ PopBack \/ Destroy

Spec == Init /\ [][Next]_vars
----------------------------------------------------------------------------
(* Properties *)

Queue == INSTANCE AbstractDeque WITH items <- Forward, returned <- popped

(* The list is a sequence with two ends, in which a detached item is       *)
(* missed and a moved one changes its place, and nothing else happens.  It *)
(* is read from the head, while nodes are taken from the tail and detached *)
(* along prev: a pointer that is left behind shows in some later call.     *)
ImplementsQueue == Queue!Spec
=============================================================================
