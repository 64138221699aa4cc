----------------------------- MODULE MCDispatch -----------------------------
(* Dispatch on small instances: the values of its constants are in the     *)
(* configurations.                                                         *)
EXTENDS Dispatch, TLC

Symmetric == Permutations(Procs)
=============================================================================
