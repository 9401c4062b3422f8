----------------------------- MODULE MCReactor -----------------------------
(* Instances of Reactor for TLC. *)
EXTENDS Teardown

(* every client sends two commands *)
TwoEach == [r \in Reactors |-> 2]

(* two commands to reactor 0, one to each other reactor *)
TwoAndOne == [r \in Reactors |-> IF r = 0 THEN 2 ELSE 1]
=============================================================================
