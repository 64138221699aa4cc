------------------------------ MODULE Dispatch ------------------------------
(***************************************************************************)
(* What leaves the warehouse and comes back: the orders of customers, whose *)
(* screen, dialog and call (draw_do_detail_screen, inv_ship_do_item) follow *)
(* the protocol of OrderLines with movements out of stock; their returns    *)
(* (inv_process_return); and everything else that moves the same stock, as  *)
(* in Transfer.  All lines are of one product: shipments compete for its    *)
(* units at location 1, the only one inv_ship_do_item takes from.           *)
(***************************************************************************)
EXTENDS Integers, FiniteSets, Functions

CONSTANTS
  Procs, Orders, Items, Quantities, MaxPosted, NoOrder, NoItem,
  Draft, Placed, Partial, Complete,   \* as in OrderLines
  Locations, MaxStock, MaxLost,       \* as in Transfer
  Dock,                               \* location 1
  MaxReturned                         \* bound: units returned

ASSUME QuantitiesAssumption == Quantities \subseteq Nat \ {0} /\ MaxPosted \in Nat
ASSUME NamesAssumption == NoOrder \notin Orders /\ NoItem \notin Items
ASSUME StatusAssumption ==
  /\ Draft \notin {Placed, Partial, Complete}
  /\ Placed \notin {Partial, Complete}
  /\ Partial # Complete
ASSUME FiniteAssumption == IsFiniteSet(Procs) /\ IsFiniteSet(Items) /\ IsFiniteSet(Locations)
ASSUME DockAssumption == Dock \in Locations
ASSUME BoundsAssumption == MaxStock \in Nat /\ MaxLost \in Nat /\ MaxReturned \in Nat

VARIABLES
  line, status, posted, missed,          \* the orders, as in OrderLines
  shown, dialog, total, computed, pc,    \* their screens
  quantity, leg, job, lost,              \* the stock, and transfers under way
  brought,   \* units brought in by other movements
  returned,  \* units that returns have put back into stock
  recorded,  \* units in the returns table
  absent,    \* history: units of returns whose movement was lost in its COMMIT
  return     \* the return each instance is processing, and its next commit

orders == <<line, status, posted, missed, shown, dialog, total, computed, pc>>
stock == <<quantity, leg, job, lost>>
returns == <<returned, recorded, absent, return>>
vars == <<orders, stock, brought, returns>>

Disturbed == [acting |-> Procs, faults |-> TRUE, late |-> TRUE]

Order == INSTANCE OrderLines WITH Environments <- {Disturbed}, env <- Disturbed

Shipped == SumFunctionOnSet(posted, Items)

Stock == INSTANCE Transfer WITH pc <- leg, moved <- brought + returned - Shipped

NoReturn == [next |-> "none", qty |-> 0]

Returns == [next : {"none", "post", "record"}, qty : 0..MaxReturned]

TypeOK ==
  /\ Order!TypeOK
  /\ Stock!TypeOK
  /\ brought \in Int
  /\ returned \in 0..MaxReturned /\ recorded \in Nat /\ absent \in Nat
  /\ return \in [Procs -> Returns]

Init ==
  /\ Order!Init
  /\ brought = 0 /\ returned = 0 /\ recorded = 0 /\ absent = 0
  /\ Stock!Init
  /\ return = [p \in Procs |-> NoReturn]

\* An instance is one thread: it starts nothing inside another call.
Free(p) == pc[p] = "idle" /\ leg[p] = "idle" /\ return[p] = NoReturn

-----------------------------------------------------------------------------
(* The screen of a dispatch order: as that of a purchase order.            *)

OnScreen(p) ==
  /\ Free(p)
  /\ \/ \E o \in Orders \cup {NoOrder} : Order!ShowOrder(p, o)
     \/ \E i \in Items : Order!OpenReceipt(p, i)
     \/ \E i \in Items, q \in Quantities : Order!AddItem(p, i, q)
     \/ Order!CancelReceipt(p)
     \/ \E n \in 1..MaxPosted : Order!Confirm(p, n)
  /\ UNCHANGED <<stock, brought, returns>>

\* The status set after a line is added: "confirmee".
MarkConfirmed(p) ==
  /\ Order!MarkOrdered(p)
  /\ UNCHANGED <<stock, brought, returns>>

-----------------------------------------------------------------------------
(* inv_ship_do_item: its movement takes units from the dock, if there are; *)
(* the rest writes the line, then the status its lines give.               *)

\* Mutant: the stock that a shipment takes is not looked at.
ShipOnCredit(p) ==
  /\ Order!PostMovement(p)
  /\ quantity' = [quantity EXCEPT ![Dock] =
       IF @ < Order!Delta(p) THEN 0 ELSE @ - Order!Delta(p)]
  /\ UNCHANGED <<leg, job, lost, brought, returns>>

Ship(p) ==
  /\ Order!PostMovement(p)
  /\ UNCHANGED <<brought, returns>>
  /\ Stock!Move(Dock, -Order!Delta(p))

ShipmentLost(p) ==
  /\ Order!MovementLost(p)
  /\ quantity[Dock] >= Order!Delta(p)
  /\ UNCHANGED <<stock, brought, returns>>

\* Mutant: a refused movement does not stop the shipment.
ShipmentRefusedIgnored(p) ==
  /\ pc[p] = "post"
  /\ pc' = [pc EXCEPT ![p] = "write"]
  /\ UNCHANGED <<line, status, posted, missed, shown, dialog, total, computed>>
  /\ UNCHANGED <<stock, brought, returns>>

\* The stock is short, or a statement fails: the dialog stays open.
ShipmentFails(p) ==
  /\ Order!ReceiptFails(p)
  /\ UNCHANGED <<stock, brought, returns>>

WriteShipped(p) ==
  /\ Order!WriteReceived(p)
  /\ UNCHANGED <<stock, brought, returns>>

UpdateStatus(p) ==
  /\ Order!ReadLines(p) \/ Order!WriteStatus(p)
  /\ UNCHANGED <<stock, brought, returns>>

-----------------------------------------------------------------------------
(* inv_process_return: a movement, then the row of returns.                *)

\* Units of the returns that are being processed.
Asked == SumFunctionOnSet([p \in Procs |-> return[p].qty], Procs)

\* Mutant: the row is written before the units are put back.
StartReturnByRow(p, n) ==
  /\ Free(p)
  /\ returned + absent + Asked + n <= MaxReturned
  /\ recorded' = recorded + n
  /\ return' = [return EXCEPT ![p] = [next |-> "post", qty |-> n]]
  /\ UNCHANGED <<orders, stock, brought, returned, absent>>

StartReturn(p, n) ==
  /\ Free(p)
  /\ returned + absent + Asked + n <= MaxReturned
  /\ return' = [return EXCEPT ![p] = [next |-> "post", qty |-> n]]
  /\ UNCHANGED <<orders, stock, brought, returned, recorded, absent>>

PostReturn(p) ==
  /\ return[p].next = "post"
  /\ returned' = returned + return[p].qty
  /\ return' = [return EXCEPT ![p].next = "record"]
  /\ UNCHANGED <<orders, brought, recorded, absent>>
  /\ Stock!Move(Dock, return[p].qty)

ReturnLost(p) ==
  /\ return[p].next = "post"
  /\ absent' = absent + return[p].qty
  /\ return' = [return EXCEPT ![p].next = "record"]
  /\ UNCHANGED <<orders, stock, brought, returned, recorded>>

RecordReturn(p) ==
  /\ return[p].next = "record"
  /\ recorded' = recorded + return[p].qty
  /\ return' = [return EXCEPT ![p] = NoReturn]
  /\ UNCHANGED <<orders, stock, brought, returned, absent>>

\* Refused by either commit: the form stays as it was, to be tried again.
ReturnFails(p) ==
  /\ return[p] # NoReturn
  /\ return' = [return EXCEPT ![p] = NoReturn]
  /\ UNCHANGED <<orders, stock, brought, returned, recorded, absent>>

-----------------------------------------------------------------------------
(* The rest of the warehouse.                                              *)

\* Receipts, counts, the movement panel.
OtherMove(l, delta) ==
  /\ brought' = brought + delta
  /\ UNCHANGED <<orders, returns>>
  /\ Stock!Move(l, delta)

TransferStep(p) ==
  /\ UNCHANGED <<orders, brought, returns>>
  /\ \/ /\ Free(p)
        /\ \E j \in Stock!Jobs : Stock!TransferOut(p, j) \/ Stock!OutLost(p, j)
     \/ Stock!TransferIn(p) \/ Stock!InLost(p) \/ Stock!TransferInFails(p)
     \/ Stock!Compensate(p) \/ Stock!CompensationFails(p)

\* The instance stops, whatever it was doing, and is started again.
Restart(p) ==
  /\ Order!Restart(p)
  /\ return' = [return EXCEPT ![p] = NoReturn]
  /\ UNCHANGED <<brought, returned, recorded, absent>>
  /\ IF leg[p] = "idle" THEN UNCHANGED stock ELSE Stock!Crash(p)

Next ==
  \/ \E p \in Procs :
       \/ OnScreen(p) \/ MarkConfirmed(p)
       \/ Ship(p) \/ ShipmentLost(p) \/ ShipmentFails(p)
       \/ WriteShipped(p) \/ UpdateStatus(p)
       \/ \E n \in 1..MaxReturned : StartReturn(p, n)
       \/ PostReturn(p) \/ ReturnLost(p) \/ RecordReturn(p) \/ ReturnFails(p)
       \/ TransferStep(p) \/ Restart(p)
  \/ \E l \in Locations, n \in 1..MaxStock : OtherMove(l, n) \/ OtherMove(l, -n)

Spec == Init /\ [][Next]_vars

-----------------------------------------------------------------------------
(* Properties.                                                             *)

(* Every unit is in a location, on its way between two, lost by a transfer *)
(* cut short, or was shipped: shipments that compete for the dock, through *)
(* dialogs opened before others were confirmed, never ship a unit twice    *)
(* (README: "automatically blocks shipping more than is in stock").        *)
UnitsAccountedFor == Stock!UnitsAccountedFor

(* No line says it shipped more than was ordered.                          *)
NeverOverShipped == Order!NeverOverReceived

(* What a line says was shipped has left the stock (README: "shipping      *)
(* posts a real, atomic MV_EXPEDITION movement"), or was lost in a COMMIT. *)
ShippedHasLeft == Order!ReceivedWasPosted

(* A return that is recorded was put back into stock (README: "posts a     *)
(* real MV_RETOUR movement that restores stock, and keeps a permanent,     *)
(* searchable record"), or was lost in a COMMIT.                           *)
Pending(next) ==
  SumFunctionOnSet([p \in Procs |-> IF return[p].next = next THEN return[p].qty ELSE 0], Procs)

RecordedWasReturned == recorded + Pending("record") <= returned + absent

(* Dispatch orders are OrderLines, with a movement that needs stock; the   *)
(* stock is that of Transfer, whose other movements are shipments, returns *)
(* and the rest.                                                           *)
ImplementsOrders == Order!Spec

ImplementsStock == Stock!Spec

(***************************************************************************)
(* The strengthenings: every unit is accounted for, with the types that    *)
(* say what transfers carry; the units of the returns about to be posted   *)
(* still fit the bound, and a return under way has units.                  *)
(***************************************************************************)
StockInv ==
  /\ Stock!TypeOK
  /\ job \in [Procs -> Stock!Jobs \cup {<<>>}]
  /\ UnitsAccountedFor

ReturnsInv ==
  /\ returned \in 0..MaxReturned /\ recorded \in Nat /\ absent \in Nat
  /\ return \in [Procs -> Returns]
  /\ \A p \in Procs : return[p] # NoReturn => return[p].next # "none" /\ return[p].qty > 0
  /\ returned + absent + Pending("post") <= MaxReturned
  /\ RecordedWasReturned

=============================================================================
