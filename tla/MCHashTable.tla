---------------------------- MODULE MCHashTable ----------------------------
(* Four keys whose probe sequences cross: two with the same hash, two      *)
(* that wrap or follow, in a table of four slots that doubles once.        *)
EXTENDS HashTable, TLC

CONSTANTS k1, k2, k3, k4

MCKeys == {k1, k2, k3, k4}

MCHash == (k1 :> 3) @@ (k2 :> 3) @@ (k3 :> 4) @@ (k4 :> 7)
=============================================================================
