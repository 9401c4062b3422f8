------------------------------ MODULE MCMpmcq ------------------------------
(* Instances of Mpmcq for TLC. *)
EXTENDS Mpmcq, TLC

CONSTANTS p1, p2, v1, v2

(* A message is known by the thread that sends it: nothing in the queue    *)
(* depends on a value, and two of them show the order.                     *)
OwnValue == p1 :> v1 @@ p2 :> v2

OwnNext ==
  \/ \E p \in Producers : EnqStep(p) \/ EnqStart(p, OwnValue[p])
  \/ \E c \in Consumers : DeqStep(c) \/ DeqStart(c)

OwnSpec == Init /\ [][OwnNext]_vars /\ Fairness
=============================================================================
