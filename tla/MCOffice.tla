------------------------------ MODULE MCOffice ------------------------------
(* Office on small instances: the values of its constants are in the       *)
(* configuration.                                                          *)
EXTENDS Office, TLC

Symmetric == Permutations(Procs) \cup Permutations(Parties)
=============================================================================
