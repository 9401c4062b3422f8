------------------------------ MODULE MCParts -------------------------------
(* Parts of the process for TLC that share nothing: one run chooses at the *)
(* start which of them it steps.                                           *)
EXTENDS Spscq, ConnTable, Teardown

CONSTANT Nodes

VARIABLES list, popped, chosen

Idle == INSTANCE Deque

queue == <<list, popped>>
all == <<ring_vars, queue, table, teardown_vars, chosen>>

(* a command to each reactor but the last, which SHUTDOWN comes to last *)
AllButLast == [r \in Reactors |-> IF r = N - 1 THEN 0 ELSE 1]

PartsInit ==
  /\ RingInit /\ Idle!Init /\ TableInit /\ TeardownInit
  /\ chosen \in {"ring", "list", "table", "teardown"}

PartsNext ==
  /\ UNCHANGED chosen
  /\ \/ chosen = "ring" /\ RingNext /\ UNCHANGED <<queue, table, teardown_vars>>
     \/ chosen = "list" /\ Idle!Next /\ UNCHANGED <<ring_vars, table, teardown_vars>>
     \/ chosen = "table" /\ TableNext /\ UNCHANGED <<ring_vars, queue, teardown_vars>>
     \/ chosen = "teardown" /\ TeardownNext /\ UNCHANGED <<ring_vars, queue, table>>

PartsSpec == PartsInit /\ [][PartsNext]_all

(* The list of deque.c: see Deque. *)
ImplementsQueue == Idle!ImplementsQueue
=============================================================================
