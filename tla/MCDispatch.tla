----------------------------- MODULE MCDispatch -----------------------------
(* Instances of Dispatch for TLC: two reactors, a key on each. *)
EXTENDS Dispatch, TLC

CONSTANTS c1, c2, near, far

Command(op, key, arg) == [op |-> op, key |-> key, arg |-> arg]

(* a client of each reactor *)
OneEach == c1 :> 0 @@ c2 :> 1

KeyHome == near :> 0 @@ far :> 1

TwoDbs == {0, 1}
OneDb == {0}
Zero == 0

TwoAndOne == c1 :> 2 @@ c2 :> 1
ThreeAndOne == c1 :> 3 @@ c2 :> 1

(* the commands on a key, and those that change what the others mean *)
SomeOfAll ==
  {Command("get", far, 0), Command("set", far, Text), Command("incr", far, 1),
   Command("incr", near, 1), Command("ping", near, 0), Command("select", near, 1),
   Command("flushall", near, 0), Command("quit", near, 0)}

(* for the client of reactor 0: answered at once, dispatched, and the last *)
(* of a pipeline                                                           *)
Pipelined ==
  {Command("del", near, 0), Command("set", far, 2), Command("quit", near, 0)}
=============================================================================
