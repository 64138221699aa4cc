---------------------------- MODULE StockLedger ----------------------------
(***************************************************************************)
(* What the stock tables promise, whatever the number of application       *)
(* instances: a movement changes one stock row and its journal together,   *)
(* never below zero; a product is archived only when nothing is left of    *)
(* it; nothing else ever changes a quantity.  StockStore implements this   *)
(* with SQLite statements, a write lock, errors and crashes.               *)
(***************************************************************************)
EXTENDS Integers

CONSTANTS
  Products, Locations,
  Deltas       \* quantities a movement may carry

VARIABLES
  quantity,   \* quantity[pr][l]: units of product pr at location l
  journal,    \* journal[pr][l]: sum of the deltas of the movements of pr at l
  active      \* products not archived

ledgerVars == <<quantity, journal, active>>

Zero == [l \in Locations |-> 0]

LedgerInit ==
  /\ quantity = [pr \in Products |-> Zero]
  /\ journal = [pr \in Products |-> Zero]
  /\ active = Products

Post(pr, l, d) ==
  /\ quantity[pr][l] + d >= 0
  /\ quantity' = [quantity EXCEPT ![pr][l] = @ + d]
  /\ journal' = [journal EXCEPT ![pr][l] = @ + d]
  /\ UNCHANGED active

Archive(pr) ==
  /\ quantity[pr] = Zero
  /\ active' = active \ {pr}
  /\ UNCHANGED <<quantity, journal>>

Restore(pr) ==
  /\ active' = active \cup {pr}
  /\ UNCHANGED <<quantity, journal>>

LedgerNext ==
  \E pr \in Products :
    \/ \E l \in Locations, d \in Deltas : Post(pr, l, d)
    \/ Archive(pr)
    \/ Restore(pr)

LedgerSpec == LedgerInit /\ [][LedgerNext]_ledgerVars
=============================================================================
