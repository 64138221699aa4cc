--------------------------- MODULE MCProductEdits ---------------------------
(* ProductEdits on small instances: the values of its constants are in the *)
(* configurations.                                                         *)
EXTENDS ProductEdits, TLC

Symmetric == Permutations(Procs) \cup Permutations(Values)
=============================================================================
