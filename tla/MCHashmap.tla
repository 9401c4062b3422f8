----------------------------- MODULE MCHashmap ------------------------------
(* Instances of Hashmap for TLC: keys that collide in a table of 4 and     *)
(* partly in one of 8, around the end of the table.                        *)
EXTENDS Hashmap, TLC

CONSTANTS a, b, c, d, e

FiveHashes == a :> 3 @@ b :> 7 @@ c :> 3 @@ d :> 0 @@ e :> 15
=============================================================================
