---------------------------- MODULE MCOrderLines ----------------------------
(* OrderLines on small instances: the values of its constants are in the   *)
(* configurations.                                                         *)
EXTENDS OrderLines, TLC

Calm == {[acting |-> {p}, faults |-> FALSE, late |-> FALSE] : p \in Procs}

\* One instance undisturbed, or all of them with every fault.
CalmOrNot == Calm \cup {[acting |-> Procs, faults |-> TRUE, late |-> TRUE]}

Symmetric == Permutations(Procs) \cup Permutations(Items)
=============================================================================
