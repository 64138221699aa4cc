------------------------------ MODULE StockTake ------------------------------
(***************************************************************************)
(* The stock count screen (draw_stock_take_screen) beside the movement     *)
(* panel, for one product.  A count opens on the total that the instance   *)
(* displays, which it read after its own last movement; validating posts   *)
(* the difference with that total, as one movement, at the location        *)
(* chosen.  A movement is one step: StockStore implements StockLedger.     *)
(* A refused movement changes nothing and is left out.                     *)
(***************************************************************************)
EXTENDS Integers
LOCAL INSTANCE FiniteSetsExt

CONSTANTS
  Procs,      \* application instances
  Locations,  \* ids of the locations table
  MaxStock    \* bound: units counted or moved, and units in a location

VARIABLES
  quantity,   \* stock rows of the product
  displayed,  \* total_quantity in each instance
  current,    \* count_current_qty of an open count, or Closed
  validated   \* the count that the last step validated, or NoCount

vars == <<quantity, displayed, current, validated>>

Closed == -1

NoCount == <<>>

Counts == [location : Locations, counted : 0..MaxStock]

Total(rows) == MapThenSumSet(LAMBDA l : rows[l], Locations)

Init ==
  /\ quantity = [l \in Locations |-> 0]
  /\ displayed = [p \in Procs |-> 0]
  /\ current = [p \in Procs |-> Closed]
  /\ validated = NoCount

-----------------------------------------------------------------------------
\* quantity + delta >= 0, and the bound.
Fits(l, delta) == quantity[l] + delta \in 0..2 * MaxStock

\* inv_post_movement, and the total displayed that it refreshes.
Post(p, l, delta) ==
  /\ Fits(l, delta)
  /\ quantity' = [quantity EXCEPT ![l] = @ + delta]
  /\ displayed' = [displayed EXCEPT ![p] = Total(quantity')]

\* The movement panel: goods in (sign 1) or out (sign -1).
Move(p, l, sign, n) ==
  /\ current[p] = Closed
  /\ Post(p, l, sign * n)
  /\ validated' = NoCount
  /\ UNCHANGED current

\* "Compter"; the screen cannot be left while the count is open.
OpenCount(p) ==
  /\ current[p] = Closed
  /\ current' = [current EXCEPT ![p] = displayed[p]]
  /\ validated' = NoCount
  /\ UNCHANGED <<quantity, displayed>>

Cancel(p) ==
  /\ current[p] # Closed
  /\ current' = [current EXCEPT ![p] = Closed]
  /\ validated' = NoCount
  /\ UNCHANGED <<quantity, displayed>>

Difference(p, counted) == counted - current[p]

\* "Valider l'ajustement": no difference, no movement.
Validate(p, l, counted) ==
  /\ current[p] # Closed
  /\ IF Difference(p, counted) = 0
     THEN UNCHANGED <<quantity, displayed>>
     ELSE Post(p, l, Difference(p, counted))
  /\ validated' = [location |-> l, counted |-> counted]
  /\ current' = [current EXCEPT ![p] = Closed]

Restart(p) ==
  /\ displayed' = [displayed EXCEPT ![p] = Total(quantity)]
  /\ current' = [current EXCEPT ![p] = Closed]
  /\ validated' = NoCount
  /\ UNCHANGED quantity

Next ==
  \E p \in Procs :
    \/ \E l \in Locations, sign \in {-1, 1}, n \in 1..MaxStock : Move(p, l, sign, n)
    \/ OpenCount(p) \/ Cancel(p)
    \/ \E l \in Locations, counted \in 0..MaxStock : Validate(p, l, counted)
    \/ Restart(p)

Spec == Init /\ [][Next]_vars

-----------------------------------------------------------------------------
(* Properties.                                                             *)

(* A validated count leaves the location with what was counted there       *)
(* (README: "enter what you actually counted at a given location, and the  *)
(* app posts the correct ... delta automatically").                        *)
CountIsRecorded ==
  validated # NoCount => quantity[validated.location] = validated.counted
=============================================================================
