----------------------------- MODULE MCScreens ------------------------------
(* Screens on a small instance: the values of its constants are in the     *)
(* configuration.                                                          *)
EXTENDS Screens
=============================================================================
