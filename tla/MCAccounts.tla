----------------------------- MODULE MCAccounts -----------------------------
(* Accounts on small instances: the values of its constants are in the     *)
(* configuration.                                                          *)
EXTENDS Accounts, TLC

OneAtATime == {{"roles"}, {"restores"}, {"miscounts"}}

Symmetric == Permutations(Procs)
=============================================================================
