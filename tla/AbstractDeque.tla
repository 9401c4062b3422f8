--------------------------- MODULE AbstractDeque ---------------------------
(***************************************************************************)
(* What a queue of idle connections promises: a sequence with two ends,    *)
(* from which an item can be taken wherever it is.                         *)
(***************************************************************************)
EXTENDS Sequences

CONSTANTS Nodes, Null

VARIABLES items, returned

vars == <<items, returned>>

Init == items = << >> /\ returned = Null

Without(n) == SelectSeq(items, LAMBDA m : m # n)
Held == {items[i] : i \in DOMAIN items}

Add(n) ==
  /\ n \notin Held
  /\ items' = <<n>> \o items \/ items' = Append(items, n)
  /\ returned' = Null

Move(n) ==
  /\ n \in Held
  /\ items' = <<n>> \o Without(n) \/ items' = Append(Without(n), n)
  /\ returned' = Null

Remove(n) == n \in Held /\ items' = Without(n) /\ returned' = Null

Pop(end) ==
  /\ items # << >>
  /\ items' = Without(items[end])
  /\ returned' = items[end]

PopNothing == items = << >> /\ UNCHANGED items /\ returned' = Null

Clear == items' = << >> /\ returned' = Null

Next ==
  \/ \E n \in Nodes : Add(n) \/ Move(n) \/ Remove(n)
  \/ Pop(1) \/ Pop(Len(items)) \/ PopNothing \/ Clear

Spec == Init /\ [][Next]_vars
=============================================================================
