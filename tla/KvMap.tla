------------------------------- MODULE KvMap --------------------------------
(***************************************************************************)
(* What the hash map of a database promises: one value for each key, each  *)
(* call takes effect at one instant.  Setting an item may fail for want of *)
(* memory, and then changes nothing.                                       *)
(***************************************************************************)
CONSTANTS Keys, Values, NoValue, NoCall

VARIABLES map, call, result

vars == <<map, call, result>>

None == [value |-> NoValue, oom |-> FALSE]
Pending == [value |-> NoCall, oom |-> FALSE]

Init ==
  /\ map = [k \in Keys |-> NoValue]
  /\ call = NoCall
  /\ result = None

Calls ==
  [name : {"get", "delete"}, key : Keys, value : {NoValue}] \cup
  [name : {"set"}, key : Keys, value : Values]

Start ==
  /\ call = NoCall
  /\ call' \in Calls
  /\ result' = Pending
  /\ UNCHANGED map

Clear ==
  /\ call = NoCall
  /\ map' = [k \in Keys |-> NoValue]
  /\ UNCHANGED <<call, result>>

(* The call returns the old value, and leaves the new one. *)
Effect ==
  /\ call # NoCall /\ result = Pending
  /\ result' = [value |-> map[call.key], oom |-> FALSE]
  /\ map' = CASE call.name = "set" -> [map EXCEPT ![call.key] = call.value]
              [] call.name = "delete" -> [map EXCEPT ![call.key] = NoValue]
              [] call.name = "get" -> map
  /\ UNCHANGED call

OutOfMemory ==
  /\ call # NoCall /\ result = Pending /\ call.name = "set"
  /\ result' = [value |-> NoValue, oom |-> TRUE]
  /\ UNCHANGED <<map, call>>

Return ==
  /\ call # NoCall /\ result # Pending
  /\ call' = NoCall
  /\ result' = None
  /\ UNCHANGED map

Next == Start \/ Clear \/ Effect \/ OutOfMemory \/ Return

Spec == Init /\ [][Next]_vars
=============================================================================
