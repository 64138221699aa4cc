----------------------------- MODULE OrderLines -----------------------------
(***************************************************************************)
(* Receiving the lines of purchase orders: the screen of one order         *)
(* (draw_po_detail_screen), its receipt dialog, and inv_receive_po_item,   *)
(* run by any number of application instances on one database.  The call   *)
(* is four commits in a row: the movement (one atomic step: StockStore     *)
(* implements StockLedger), the quantity of the line, a read of the lines, *)
(* the status of the order.  The instance may stop between any two.        *)
(* Dispatch uses the same protocol for the orders of customers.            *)
(*                                                                         *)
(* Every line is taken to have a product of its own, so that posted counts *)
(* the movements its receipts have logged.  A movement is refused when the *)
(* lock is not had or a statement fails, whatever the reason.              *)
(***************************************************************************)
EXTENDS Integers

CONSTANTS
  Procs,        \* application instances
  Orders,       \* rows of purchase_orders, all created
  Items,        \* rows purchase_order_items may have
  Quantities,   \* quantities a user orders
  MaxPosted,    \* bound: units the movements of one line may add up to
  Environments, \* what a behaviour may contain: see env
  Draft, Placed, Partial, Complete,  \* the values of the status column
  NoOrder,      \* the screen of no order is shown
  NoItem        \* the dialog is closed

ASSUME QuantitiesAssumption == Quantities \subseteq Nat \ {0}
ASSUME MaxPostedAssumption == MaxPosted \in Nat
ASSUME EnvironmentsAssumption ==
  Environments \subseteq [acting : SUBSET Procs, faults : BOOLEAN, late : BOOLEAN]
ASSUME NamesAssumption == NoOrder \notin Orders /\ NoItem \notin Items
ASSUME StatusAssumption ==
  /\ Draft \notin {Placed, Partial, Complete}
  /\ Placed \notin {Partial, Complete}
  /\ Partial # Complete

VARIABLES
  env,      \* chosen at the start: the instances in use, whether statements
            \* fail and instances stop, whether users add lines to an order
            \* already receiving
  line,     \* purchase_order_items
  status,   \* status column of each order
  posted,   \* units the movements of each line have brought into stock
  missed,   \* history: units of each line whose movement was lost in a
            \* COMMIT that failed, which inv_post_movement does not notice
  shown,    \* g_active_po_id of each instance
  dialog,   \* receive_item_id, receive_already and receive_ordered
  total,    \* quantity being confirmed (new_received_qty)
  computed, \* status computed from the lines read, not written yet
  pc        \* next commit of each instance

tables == <<line, status, posted, missed>>
screen == <<shown, dialog, total, computed, pc>>
vars == <<env, tables, screen>>

Statuses == {Draft, Placed, Partial, Complete}

Lines == [order : Orders \cup {NoOrder}, ordered : Nat, received : Nat]

Dialogs == [item : Items \cup {NoItem}, already : Nat, ordered : Nat]

Closed == [item |-> NoItem, already |-> 0, ordered |-> 0]

TypeOK ==
  /\ env \in Environments
  /\ line \in [Items -> Lines]
  /\ status \in [Orders -> Statuses]
  /\ posted \in [Items -> Nat]
  /\ missed \in [Items -> Nat]
  /\ shown \in [Procs -> Orders \cup {NoOrder}]
  /\ dialog \in [Procs -> Dialogs]
  /\ total \in [Procs -> Nat]
  /\ computed \in [Procs -> Statuses]
  /\ pc \in [Procs -> {"idle", "ordered", "post", "write", "read", "status"}]

Init ==
  /\ env \in Environments
  /\ line = [i \in Items |-> [order |-> NoOrder, ordered |-> 0, received |-> 0]]
  /\ status = [o \in Orders |-> Draft]
  /\ posted = [i \in Items |-> 0]
  /\ missed = [i \in Items |-> 0]
  /\ shown = [p \in Procs |-> NoOrder]
  /\ dialog = [p \in Procs |-> Closed]
  /\ total = [p \in Procs |-> 0]
  /\ computed = [p \in Procs |-> Draft]
  /\ pc = [p \in Procs |-> "idle"]

LinesOf(o) == {i \in Items : line[i].order = o}

Goto(p, label) == pc' = [pc EXCEPT ![p] = label]

\* The call of p is over, and its local variables with it.
Return(p) ==
  /\ Goto(p, "idle")
  /\ total' = [total EXCEPT ![p] = 0]
  /\ computed' = [computed EXCEPT ![p] = Draft]

-----------------------------------------------------------------------------
(* The order screen.  Its Back button works while a dialog is open, and    *)
(* the dialog is still open when the screen shows another order.           *)

ShowOrder(p, o) ==
  /\ pc[p] = "idle"
  /\ shown' = [shown EXCEPT ![p] = o]
  /\ UNCHANGED <<tables, dialog, total, computed, pc>>

\* The lines are read again for every frame: the dialog opens on what is there.
OpenReceipt(p, i) ==
  /\ pc[p] = "idle"
  /\ dialog[p] = Closed
  /\ shown[p] # NoOrder
  /\ i \in LinesOf(shown[p])
  /\ line[i].received < line[i].ordered
  /\ dialog' = [dialog EXCEPT ![p] =
       [item |-> i, already |-> line[i].received, ordered |-> line[i].ordered]]
  /\ UNCHANGED <<tables, shown, total, computed, pc>>

CancelReceipt(p) ==
  /\ pc[p] = "idle"
  /\ dialog[p] # Closed
  /\ dialog' = [dialog EXCEPT ![p] = Closed]
  /\ UNCHANGED <<tables, shown, total, computed, pc>>

\* A line for a positive quantity; env.late says how late.
AddItem(p, i, q) ==
  /\ pc[p] = "idle"
  /\ dialog[p] = Closed
  /\ shown[p] # NoOrder
  /\ env.late \/ status[shown[p]] \in {Draft, Placed}
  /\ line[i].order = NoOrder
  /\ line' = [line EXCEPT ![i] = [order |-> shown[p], ordered |-> q, received |-> 0]]
  /\ Goto(p, "ordered")
  /\ UNCHANGED <<status, posted, missed, shown, dialog, total, computed>>

\* The status set after an insertion; nobody reads whether it was.
MarkOrdered(p) ==
  /\ pc[p] = "ordered"
  /\ \/ status' = [status EXCEPT ![shown[p]] = Placed]
     \/ env.faults /\ UNCHANGED status
  /\ Goto(p, "idle")
  /\ UNCHANGED <<line, posted, missed, shown, dialog, total, computed>>

-----------------------------------------------------------------------------
(* "Confirmer": the new total is compared with what the dialog remembers.  *)

\* Mutant: the comparison with the quantity ordered is dropped.
AcceptedUnbounded(d, n) == d.already < n

Accepted(d, n) == d.already < n /\ n <= d.ordered

\* Mutant: the quantity typed is posted, not what it adds to the last one.
DeltaOfTotal(p) == total[p]

Delta(p) == total[p] - dialog[p].already

Confirm(p, n) ==
  /\ pc[p] = "idle"
  /\ shown[p] # NoOrder
  /\ dialog[p] # Closed
  /\ Accepted(dialog[p], n)
  /\ posted[dialog[p].item] + missed[dialog[p].item] + n - dialog[p].already <= MaxPosted
  /\ total' = [total EXCEPT ![p] = n]
  /\ Goto(p, "post")
  /\ UNCHANGED <<tables, shown, dialog, computed>>

\* Mutant: a refused movement does not stop the receipt.
PostMovementUnchecked(p) ==
  /\ pc[p] = "post"
  /\ \/ posted' = [posted EXCEPT ![dialog[p].item] = @ + Delta(p)]
     \/ UNCHANGED posted
  /\ Goto(p, "write")
  /\ UNCHANGED <<line, status, missed, shown, dialog, total, computed>>

PostMovement(p) ==
  /\ pc[p] = "post"
  /\ posted' = [posted EXCEPT ![dialog[p].item] = @ + Delta(p)]
  /\ Goto(p, "write")
  /\ UNCHANGED <<line, status, missed, shown, dialog, total, computed>>

\* The COMMIT of the movement fails: nothing is posted, the call goes on.
MovementLost(p) ==
  /\ env.faults
  /\ pc[p] = "post"
  /\ missed' = [missed EXCEPT ![dialog[p].item] = @ + Delta(p)]
  /\ Goto(p, "write")
  /\ UNCHANGED <<line, status, posted, shown, dialog, total, computed>>

\* db_update_po_item_received writes the total, it does not add to it.
WriteReceived(p) ==
  /\ pc[p] = "write"
  /\ line' = [line EXCEPT ![dialog[p].item].received = total[p]]
  /\ Goto(p, "read")
  /\ UNCHANGED <<status, posted, missed, shown, dialog, total, computed>>

\* Either commit fails: the call returns false and the dialog stays as it was.
ReceiptFails(p) ==
  /\ env.faults
  /\ pc[p] \in {"post", "write"}
  /\ Return(p)
  /\ UNCHANGED <<tables, shown, dialog>>

StatusOfLines(o) ==
  IF /\ LinesOf(o) # {}
     /\ \A i \in LinesOf(o) : line[i].received >= line[i].ordered
  THEN Complete
  ELSE IF \E i \in LinesOf(o) : line[i].received > 0 THEN Partial
  ELSE Placed

\* Mutant: the line just received decides for its order.
ReadThisLineOnly(p) ==
  /\ pc[p] = "read"
  /\ computed' = [computed EXCEPT ![p] =
       IF total[p] >= dialog[p].ordered THEN Complete ELSE Partial]
  /\ Goto(p, "status")
  /\ UNCHANGED <<tables, shown, dialog, total>>

\* The lines read are those of the order on the screen.
ReadLines(p) ==
  /\ pc[p] = "read"
  /\ computed' = [computed EXCEPT ![p] = StatusOfLines(shown[p])]
  /\ Goto(p, "status")
  /\ UNCHANGED <<tables, shown, dialog, total>>

WriteStatus(p) ==
  /\ pc[p] = "status"
  /\ \/ status' = [status EXCEPT ![shown[p]] = computed[p]]
     \/ env.faults /\ UNCHANGED status
  /\ dialog' = [dialog EXCEPT ![p] = Closed]
  /\ Return(p)
  /\ UNCHANGED <<line, posted, missed, shown>>

-----------------------------------------------------------------------------
\* The instance stops; started again, it shows no order and no dialog.
Restart(p) ==
  /\ env.faults
  /\ shown' = [shown EXCEPT ![p] = NoOrder]
  /\ dialog' = [dialog EXCEPT ![p] = Closed]
  /\ Return(p)
  /\ UNCHANGED tables

Next ==
  /\ UNCHANGED env
  /\ \E p \in env.acting :
       \/ \E o \in Orders \cup {NoOrder} : ShowOrder(p, o)
       \/ \E i \in Items : OpenReceipt(p, i)
       \/ \E i \in Items, q \in Quantities : AddItem(p, i, q)
       \/ CancelReceipt(p) \/ MarkOrdered(p)
       \/ \E n \in 1..MaxPosted : Confirm(p, n)
       \/ PostMovement(p) \/ MovementLost(p) \/ WriteReceived(p) \/ ReceiptFails(p)
       \/ ReadLines(p) \/ WriteStatus(p)
       \/ Restart(p)

Spec == Init /\ [][Next]_vars

-----------------------------------------------------------------------------
(* Properties.                                                             *)

Idle == \A p \in Procs : pc[p] = "idle"

\* One instance, no failure, and no line added to an order already receiving.
Undisturbed == (\A p, q \in env.acting : p = q) /\ ~env.faults /\ ~env.late

(* What a line says has been received never exceeds what was ordered, even *)
(* through a dialog opened before another instance received the rest       *)
(* (draw_po_detail_screen checks the total against its own snapshot).      *)
NeverOverReceived == \A i \in Items : line[i].received <= line[i].ordered

(* What a line says has been received was posted to the stock, or lost in  *)
(* a COMMIT that failed: crossed dialogs, retries and crashes may only     *)
(* make the stock exceed the orders, never the orders the stock.           *)
Credited(i) == posted[i] + missed[i]

ReceivedWasPosted == \A i \in Items : line[i].received <= Credited(i)

(* When one user works undisturbed, the movements of a line add up,        *)
(* between calls, to what it says has been received (README: "receiving posts a real, atomic MV_RECEPTION          *)
(* movement").                                                             *)
PostedMatchesReceived ==
  Undisturbed /\ Idle => \A i \in Items : posted[i] = line[i].received

(* When one user works undisturbed on one order, its status is, between    *)
(* calls, the one its lines give (README: "Purchase order status           *)
(* auto-tracks: brouillon -> commande -> recu_partiel / recu, based on how *)
(* much of each line item has actually been received").                    *)
StatusTracksLines ==
  Undisturbed /\ Idle =>
    \A o \in Orders : LinesOf(o) # {} => status[o] = StatusOfLines(o)

(***************************************************************************)
(* The strengthening: what a dialog remembers is still within the order    *)
(* and was posted; once the movement is posted, so is the total.           *)
(***************************************************************************)
DialogFits(p) ==
  LET d == dialog[p] IN
  d # Closed =>
    /\ d.item \in Items
    /\ line[d.item].order # NoOrder
    /\ d.ordered = line[d.item].ordered
    /\ d.already <= Credited(d.item)

Underway(p) ==
  pc[p] \in {"post", "write", "read", "status"} =>
    /\ dialog[p] # Closed
    /\ Accepted(dialog[p], total[p])
    /\ pc[p] # "post" => total[p] <= Credited(dialog[p].item)
    /\ shown[p] # NoOrder

OrdersInv ==
  /\ TypeOK
  /\ NeverOverReceived
  /\ ReceivedWasPosted
  /\ \A p \in Procs : DialogFits(p) /\ Underway(p)
  /\ \A p \in Procs : pc[p] = "ordered" => shown[p] # NoOrder

(***************************************************************************)
(* The strengthening when one user works undisturbed: the other instances  *)
(* do nothing, what a dialog remembers is still what its line says, and    *)
(* only the line whose quantity is about to be written differs from what   *)
(* was posted.                                                             *)
(***************************************************************************)
Rests(p) == pc[p] = "idle" /\ dialog[p] = Closed

DialogIsFresh(p) ==
  dialog[p] # Closed /\ pc[p] \in {"idle", "ordered", "post", "write"} =>
    dialog[p].already = line[dialog[p].item].received

Writes(p, i) == pc[p] = "write" /\ dialog[p].item = i

CalmInv ==
  Undisturbed =>
    /\ \A p \in Procs \ env.acting : Rests(p)
    /\ \A p \in Procs : DialogIsFresh(p)
    /\ \A i \in Items : (\A p \in Procs : ~Writes(p, i)) => posted[i] = line[i].received
    /\ \A p \in Procs, i \in Items : Writes(p, i) => posted[i] = total[p]
    /\ \A i \in Items : line[i].order = NoOrder => line[i].received = 0

(***************************************************************************)
(* With a single order besides, its status is the one its lines give but   *)
(* between the commit that changes a line and the one that writes it.      *)
(***************************************************************************)
StatusFits(p, o) ==
  /\ pc[p] \in {"idle", "post", "write"} /\ LinesOf(o) # {} => status[o] = StatusOfLines(o)
  /\ pc[p] = "ordered" => \A i \in LinesOf(o) : line[i].received = 0
  /\ pc[p] = "status" => computed[p] = StatusOfLines(o)

OneOrder == \A o1, o2 \in Orders : o1 = o2

OneOrderInv ==
  Undisturbed /\ OneOrder =>
    /\ \A p \in env.acting, o \in Orders : StatusFits(p, o)
    /\ env.acting = {} => \A i \in Items : line[i].order = NoOrder
    /\ \A i \in Items : line[i].order # NoOrder => line[i].ordered > 0

LinesInv == OrdersInv /\ CalmInv /\ OneOrderInv
=============================================================================
