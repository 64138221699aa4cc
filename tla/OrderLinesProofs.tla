-------------------------- MODULE OrderLinesProofs --------------------------
(***************************************************************************)
(* The lines of an order, received by any number of instances with every   *)
(* failure (OrdersInv); by one user whom nothing disturbs (CalmInv); and   *)
(* the status of a single order (OneOrderInv).                             *)
(***************************************************************************)
EXTENDS OrderLines, TLAPS

(* The empty screens and draft orders satisfy the invariant. *)
LEMMA OrdersInit == Init => OrdersInv
BY NamesAssumption
DEF Init, OrdersInv, TypeOK, NeverOverReceived, ReceivedWasPosted, Credited, DialogFits,
    Underway, Lines, Dialogs, Closed, Statuses

(* Every step keeps the types, given that a receipt under way has a dialog. *)
LEMMA TypeStep == OrdersInv /\ [Next]_vars => TypeOK'
<1> SUFFICES ASSUME OrdersInv, [Next]_vars PROVE TypeOK'
  OBVIOUS
<1>0. TypeOK /\ \A p \in Procs : DialogFits(p) /\ Underway(p)
  BY DEF OrdersInv
<1>0a. env' = env /\ env.acting \subseteq Procs
  BY <1>0, EnvironmentsAssumption DEF Next, vars, TypeOK
<1> USE <1>0, <1>0a DEF TypeOK
<1>1. ASSUME NEW p \in Procs, NEW o \in Orders \cup {NoOrder}, ShowOrder(p, o)
      PROVE  TypeOK'
  BY <1>1 DEF ShowOrder, tables
<1>2. ASSUME NEW p \in Procs, NEW i \in Items, OpenReceipt(p, i) PROVE TypeOK'
  BY <1>2 DEF OpenReceipt, tables, Dialogs, Lines
<1>3. ASSUME NEW p \in Procs, CancelReceipt(p) PROVE TypeOK'
  BY <1>3 DEF CancelReceipt, tables, Dialogs, Closed
<1>4. ASSUME NEW p \in Procs, NEW i \in Items, NEW q \in Quantities, AddItem(p, i, q)
      PROVE  TypeOK'
  BY <1>4, QuantitiesAssumption DEF AddItem, Lines, Goto
<1>5. ASSUME NEW p \in Procs, MarkOrdered(p) PROVE TypeOK'
  BY <1>5 DEF MarkOrdered, Statuses, Goto
<1>6. ASSUME NEW p \in Procs, NEW n \in 1..MaxPosted, Confirm(p, n) PROVE TypeOK'
  BY <1>6, MaxPostedAssumption DEF Confirm, tables, Goto
<1>7. ASSUME NEW p \in Procs, PostMovement(p) PROVE TypeOK'
  <2>1. dialog[p].item \in Items /\ dialog[p].already < total[p]
    BY <1>7 DEF PostMovement, Underway, DialogFits, Accepted
  <2>2. Delta(p) \in Nat
    BY <2>1 DEF Delta, Dialogs
  <2>3. posted' \in [Items -> Nat]
    BY <1>7, <2>1, <2>2 DEF PostMovement
  <2> QED
    BY <1>7, <2>3 DEF PostMovement, Goto
<1>7a. ASSUME NEW p \in Procs, MovementLost(p) PROVE TypeOK'
  <2>1. dialog[p].item \in Items /\ dialog[p].already < total[p]
    BY <1>7a DEF MovementLost, Underway, DialogFits, Accepted
  <2>2. Delta(p) \in Nat
    BY <2>1 DEF Delta, Dialogs
  <2>3. missed' \in [Items -> Nat]
    BY <1>7a, <2>1, <2>2 DEF MovementLost
  <2> QED
    BY <1>7a, <2>3 DEF MovementLost, Goto
<1>8. ASSUME NEW p \in Procs, WriteReceived(p) PROVE TypeOK'
  BY <1>8 DEF WriteReceived, Lines, Goto
<1>9. ASSUME NEW p \in Procs, ReceiptFails(p) PROVE TypeOK'
  BY <1>9 DEF ReceiptFails, tables, Goto, Return, Statuses
<1>10. ASSUME NEW p \in Procs, ReadLines(p) PROVE TypeOK'
  <2>1. StatusOfLines(shown[p]) \in Statuses
    BY DEF StatusOfLines, Statuses
  <2> QED
    BY <1>10, <2>1 DEF ReadLines, tables, Goto
<1>11. ASSUME NEW p \in Procs, WriteStatus(p) PROVE TypeOK'
  BY <1>11 DEF WriteStatus, Dialogs, Closed, Goto, Return, Statuses
<1>12. ASSUME NEW p \in Procs, Restart(p) PROVE TypeOK'
  BY <1>12 DEF Restart, tables, Dialogs, Closed, Goto, Return, Statuses
<1>13. CASE UNCHANGED vars
  BY <1>13 DEF vars, tables, screen
<1> QED
  BY <1>1, <1>2, <1>3, <1>4, <1>5, <1>6, <1>7, <1>7a, <1>8, <1>9, <1>10, <1>11,
     <1>12, <1>13
  DEF Next

(* A step that leaves the lines and the movements alone, and keeps every    *)
(* dialog that is not closed, keeps what was received within bounds.        *)
LEMMA ScreenStep ==
  ASSUME OrdersInv, TypeOK', UNCHANGED <<line, posted, missed>>,
         \A p \in Procs : dialog'[p] = Closed \/ dialog'[p] = dialog[p],
         \A p \in Procs : Underway(p)',
         \A p \in Procs : pc'[p] = "ordered" => shown'[p] # NoOrder
  PROVE  OrdersInv'
<1>1. (NeverOverReceived /\ ReceivedWasPosted)'
  BY DEF OrdersInv, NeverOverReceived, ReceivedWasPosted, Credited
<1>2. ASSUME NEW p \in Procs PROVE DialogFits(p)'
  <2>1. DialogFits(p)
    BY DEF OrdersInv
  <2> QED
    BY <2>1 DEF DialogFits, Credited
<1> QED
  BY <1>1, <1>2 DEF OrdersInv

(* A movement, whether it is posted or lost by its COMMIT, credits its line *)
(* with what the receipt adds to what the dialog remembers.                *)
LEMMA PostStep ==
  ASSUME OrdersInv, TypeOK', NEW p \in Procs, pc[p] = "post", Goto(p, "write"),
         UNCHANGED <<line, shown, dialog, total>>,
         \/ /\ posted' = [posted EXCEPT ![dialog[p].item] = @ + Delta(p)]
            /\ missed' = missed
         \/ /\ missed' = [missed EXCEPT ![dialog[p].item] = @ + Delta(p)]
            /\ posted' = posted
  PROVE  OrdersInv'
<1> DEFINE i == dialog[p].item
<1>1. TypeOK /\ (\A q \in Procs : DialogFits(q) /\ Underway(q))
      /\ (\A q \in Procs : pc[q] = "ordered" => shown[q] # NoOrder)
  BY DEF OrdersInv
<1>2. i \in Items /\ dialog[p].already < total[p] /\ dialog[p].already <= Credited(i)
  BY <1>1 DEF Underway, DialogFits, Accepted
<1>3. Delta(p) \in Nat /\ total[p] = dialog[p].already + Delta(p)
  <2>1. dialog[p].already \in Nat /\ total[p] \in Nat /\ dialog[p].already < total[p]
    BY <1>1, <1>2 DEF TypeOK, Dialogs
  <2> HIDE DEF i
  <2> QED
    BY <2>1 DEF Delta
<1>4. ASSUME NEW j \in Items
      PROVE  /\ Credited(j) \in Nat
             /\ Credited(j)' = IF j = i THEN Credited(j) + Delta(p) ELSE Credited(j)
  <2>1. posted[j] \in Nat /\ missed[j] \in Nat
    BY <1>1 DEF TypeOK
  <2>2. CASE /\ posted' = [posted EXCEPT ![i] = @ + Delta(p)]
             /\ missed' = missed
    BY <1>1, <1>3, <2>1, <2>2 DEF TypeOK, Credited
  <2>3. CASE /\ missed' = [missed EXCEPT ![i] = @ + Delta(p)]
             /\ posted' = posted
    BY <1>1, <1>3, <2>1, <2>3 DEF TypeOK, Credited
  <2> QED
    BY <2>2, <2>3
<1>5. /\ total[p] <= Credited(i) + Delta(p)
      /\ \A j \in Items : Credited(j)' \in Nat /\ Credited(j) <= Credited(j)'
  BY <1>1, <1>2, <1>3, <1>4 DEF TypeOK, Dialogs
<1>6. (NeverOverReceived /\ ReceivedWasPosted)'
  BY <1>1, <1>4, <1>5
  DEF OrdersInv, NeverOverReceived, ReceivedWasPosted, TypeOK, Lines
<1>7. ASSUME NEW r \in Procs PROVE DialogFits(r)'
  BY <1>1, <1>4, <1>5 DEF DialogFits, TypeOK, Dialogs
<1>8. ASSUME NEW r \in Procs PROVE Underway(r)'
  <2>1. CASE r = p
    BY <1>1, <1>2, <1>4, <1>5, <2>1 DEF Goto, Underway, TypeOK, Accepted
  <2>2. CASE r # p
    BY <1>1, <1>4, <1>5, <2>2 DEF Goto, Underway, DialogFits, TypeOK, Accepted
  <2> QED
    BY <2>1, <2>2
<1> QED
  BY <1>1, <1>6, <1>7, <1>8 DEF OrdersInv, Goto, TypeOK

(* Every step keeps the invariant. *)
LEMMA OrdersStep == OrdersInv /\ [Next]_vars => OrdersInv'
<1> SUFFICES ASSUME OrdersInv, [Next]_vars PROVE OrdersInv'
  OBVIOUS
<1>0. TypeOK' /\ env.acting \subseteq Procs
  BY TypeStep, EnvironmentsAssumption DEF OrdersInv, TypeOK
<1>1. TypeOK /\ (\A p \in Procs : DialogFits(p) /\ Underway(p))
      /\ (\A p \in Procs : pc[p] = "ordered" => shown[p] # NoOrder)
  BY DEF OrdersInv
<1>2. ASSUME NEW p \in Procs, NEW o \in Orders \cup {NoOrder}, ShowOrder(p, o)
      PROVE  OrdersInv'
  BY <1>0, <1>1, <1>2, ScreenStep
  DEF ShowOrder, tables, Underway, TypeOK, Accepted, Credited
<1>3. ASSUME NEW p \in Procs, NEW i \in Items, OpenReceipt(p, i) PROVE OrdersInv'
  <2>1. (NeverOverReceived /\ ReceivedWasPosted)'
    BY <1>3
    DEF OpenReceipt, tables, OrdersInv, NeverOverReceived, ReceivedWasPosted, Credited
  <2>2. line[i].order # NoOrder /\ line[i].received <= Credited(i)
    BY <1>3, NamesAssumption
    DEF OpenReceipt, LinesOf, OrdersInv, ReceivedWasPosted, TypeOK
  <2>3. ASSUME NEW q \in Procs PROVE DialogFits(q)'
    BY <1>1, <1>3, <2>2 DEF OpenReceipt, tables, DialogFits, TypeOK, Credited
  <2>4. ASSUME NEW q \in Procs PROVE Underway(q)'
    BY <1>1, <1>3 DEF OpenReceipt, tables, Underway, TypeOK, Accepted, Credited
  <2> QED
    BY <1>0, <1>1, <1>3, <2>1, <2>3, <2>4 DEF OrdersInv, OpenReceipt
<1>4. ASSUME NEW p \in Procs, CancelReceipt(p) PROVE OrdersInv'
  BY <1>0, <1>1, <1>4, ScreenStep
  DEF CancelReceipt, tables, Underway, TypeOK, Accepted, Credited
<1>5. ASSUME NEW p \in Procs, NEW i \in Items, NEW q \in Quantities, AddItem(p, i, q)
      PROVE  OrdersInv'
  <2>1. (NeverOverReceived /\ ReceivedWasPosted)'
    BY <1>1, <1>5, QuantitiesAssumption
    DEF AddItem, OrdersInv, NeverOverReceived, ReceivedWasPosted, TypeOK, Lines, Credited
  <2>2. ASSUME NEW r \in Procs PROVE DialogFits(r)'
    BY <1>1, <1>5 DEF AddItem, DialogFits, TypeOK, Credited
  <2>3. ASSUME NEW r \in Procs PROVE Underway(r)'
    BY <1>1, <1>5 DEF AddItem, Goto, Underway, TypeOK, Accepted, Credited
  <2> QED
    BY <1>0, <1>1, <1>5, <2>1, <2>2, <2>3 DEF OrdersInv, AddItem, Goto, TypeOK
<1>6. ASSUME NEW p \in Procs, MarkOrdered(p) PROVE OrdersInv'
  BY <1>0, <1>1, <1>6, ScreenStep
  DEF MarkOrdered, Goto, Underway, TypeOK, Accepted, Credited
<1>7. ASSUME NEW p \in Procs, NEW n \in 1..MaxPosted, Confirm(p, n) PROVE OrdersInv'
  BY <1>0, <1>1, <1>7, ScreenStep
  DEF Confirm, tables, Goto, Underway, TypeOK, Accepted, Credited
<1>8. ASSUME NEW p \in Procs, PostMovement(p) PROVE OrdersInv'
  BY <1>0, <1>8, PostStep DEF PostMovement
<1>8a. ASSUME NEW p \in Procs, MovementLost(p) PROVE OrdersInv'
  BY <1>0, <1>8a, PostStep DEF MovementLost
<1>9. ASSUME NEW p \in Procs, WriteReceived(p) PROVE OrdersInv'
  <2> DEFINE i == dialog[p].item
  <2>1. /\ i \in Items
        /\ total[p] <= line[i].ordered
        /\ total[p] <= Credited(i)
    BY <1>1, <1>9 DEF WriteReceived, Underway, DialogFits, Accepted
  <2>2. /\ line'[i] = [line[i] EXCEPT !.received = total[p]]
        /\ \A j \in Items : j # i => line'[j] = line[j]
    BY <1>1, <1>9, <2>1 DEF WriteReceived, TypeOK
  <2>3. /\ line'[i].received = total[p]
        /\ \A j \in Items : /\ line'[j].order = line[j].order
                             /\ line'[j].ordered = line[j].ordered
    BY <1>1, <2>1, <2>2 DEF TypeOK, Lines
  <2>4. (NeverOverReceived /\ ReceivedWasPosted)'
    BY <1>1, <1>9, <2>1, <2>2, <2>3
    DEF WriteReceived, OrdersInv, NeverOverReceived, ReceivedWasPosted, Credited
  <2>5. ASSUME NEW r \in Procs PROVE DialogFits(r)'
    BY <1>1, <1>9, <2>3 DEF WriteReceived, DialogFits, Credited
  <2>6. ASSUME NEW r \in Procs PROVE Underway(r)'
    BY <1>1, <1>9 DEF WriteReceived, Goto, Underway, TypeOK, Accepted, Credited
  <2> QED
    BY <1>0, <1>1, <1>9, <2>4, <2>5, <2>6 DEF OrdersInv, WriteReceived, Goto, TypeOK
<1>10. ASSUME NEW p \in Procs, ReceiptFails(p) PROVE OrdersInv'
  BY <1>0, <1>1, <1>10, ScreenStep
  DEF ReceiptFails, tables, Goto, Return, Underway, TypeOK, Accepted, Credited
<1>11. ASSUME NEW p \in Procs, ReadLines(p) PROVE OrdersInv'
  BY <1>0, <1>1, <1>11, ScreenStep
  DEF ReadLines, tables, Goto, Underway, TypeOK, Accepted, Credited
<1>12. ASSUME NEW p \in Procs, WriteStatus(p) PROVE OrdersInv'
  BY <1>0, <1>1, <1>12, ScreenStep
  DEF WriteStatus, Goto, Return, Underway, TypeOK, Accepted, Credited
<1>13. ASSUME NEW p \in Procs, Restart(p) PROVE OrdersInv'
  BY <1>0, <1>1, <1>13, ScreenStep
  DEF Restart, tables, Goto, Return, Underway, TypeOK, Accepted, Credited
<1>14. CASE UNCHANGED vars
  BY <1>0, <1>1, <1>14, ScreenStep
  DEF vars, tables, screen, Underway, TypeOK, Accepted, Credited
<1> QED
  BY <1>0, <1>2, <1>3, <1>4, <1>5, <1>6, <1>7, <1>8, <1>8a, <1>9, <1>10, <1>11,
     <1>12, <1>13, <1>14
  DEF Next

(* The inductive invariant: what a dialog remembers was once true of its    *)
(* line, and neither the quantity ordered nor the units posted fall.        *)
THEOREM OrdersInvariant == Spec => []OrdersInv
<1> QED
  BY OrdersInit, OrdersStep, PTL DEF Spec

(* The tables, the screens and the dialogs keep their types. *)
THEOREM TypeCorrect == Spec => []TypeOK
<1>1. OrdersInv => TypeOK
  BY DEF OrdersInv
<1> QED
  BY <1>1, OrdersInvariant, PTL

(* However many instances receive the same order, through whatever stale    *)
(* dialogs, no line records more than was ordered.                          *)
THEOREM NoOverReceipt == Spec => []NeverOverReceived
<1>1. OrdersInv => NeverOverReceived
  BY DEF OrdersInv
<1> QED
  BY <1>1, OrdersInvariant, PTL

(* However receipts cross, fail or stop half way, no line records units     *)
(* that no movement brought into stock, but those its COMMIT lost.          *)
THEOREM ReceiptsArePosted == Spec => []ReceivedWasPosted
<1>1. OrdersInv => ReceivedWasPosted
  BY DEF OrdersInv
<1> QED
  BY <1>1, OrdersInvariant, PTL
-----------------------------------------------------------------------------
(* One user, undisturbed.                                                  *)

LEMMA CalmInit == Init => CalmInv
BY DEF Init, CalmInv, Rests, DialogIsFresh, Writes, Closed

(* A step that leaves the lines and the movements alone and writes nothing *)
(* keeps the strengthening, if its dialogs are fresh.                      *)
LEMMA CalmScreenStep ==
  ASSUME CalmInv, UNCHANGED <<env, line, posted>>, Undisturbed,
         \A p \in Procs \ env.acting : Rests(p)',
         \A p \in Procs : DialogIsFresh(p)',
         \A p \in Procs : (pc[p] = "write") = (pc'[p] = "write"),
         \A p \in Procs : pc[p] = "write" =>
           dialog'[p] = dialog[p] /\ total'[p] = total[p]
  PROVE  CalmInv'
BY DEF CalmInv, Writes

(* Every step of the one user keeps it. *)
LEMMA CalmStep == OrdersInv /\ CalmInv /\ [Next]_vars => CalmInv'
<1> SUFFICES ASSUME OrdersInv, CalmInv, [Next]_vars, Undisturbed' PROVE CalmInv'
  BY DEF CalmInv
<1>0. /\ env' = env /\ env.acting \subseteq Procs /\ ~env.faults /\ Undisturbed
      /\ TypeOK /\ TypeOK'
      /\ \A p \in Procs : DialogFits(p) /\ Underway(p)
  <2>1. env' = env
    BY DEF Next, vars
  <2> QED
    BY <2>1, TypeStep, EnvironmentsAssumption DEF OrdersInv, TypeOK, Undisturbed
<1>1. /\ \A p \in Procs \ env.acting : Rests(p)
      /\ \A p \in Procs : DialogIsFresh(p)
      /\ \A i \in Items : (\A p \in Procs : ~Writes(p, i)) => posted[i] = line[i].received
      /\ \A p \in Procs, i \in Items : Writes(p, i) => posted[i] = total[p]
      /\ \A i \in Items : line[i].order = NoOrder => line[i].received = 0
  BY <1>0 DEF CalmInv
<1>2. ASSUME NEW p \in env.acting, NEW q \in Procs, q # p
      PROVE  pc[q] = "idle" /\ dialog[q] = Closed
  BY <1>0, <1>1, <1>2 DEF Undisturbed, Rests
<1>3. ASSUME NEW p \in env.acting,
             \/ \E o \in Orders \cup {NoOrder} : ShowOrder(p, o)
             \/ \E i \in Items : OpenReceipt(p, i)
             \/ CancelReceipt(p) \/ MarkOrdered(p)
             \/ \E n \in 1..MaxPosted : Confirm(p, n)
             \/ ReadLines(p) \/ WriteStatus(p)
      PROVE  CalmInv'
  <2>1. UNCHANGED <<env, line, posted>>
    BY <1>0, <1>3
    DEF ShowOrder, OpenReceipt, CancelReceipt, MarkOrdered, Confirm, ReadLines,
        WriteStatus, tables
  <2>2. \A q \in Procs \ env.acting : Rests(q)'
    BY <1>0, <1>1, <1>3
    DEF ShowOrder, OpenReceipt, CancelReceipt, MarkOrdered, Confirm, ReadLines,
        WriteStatus, tables, Rests, Goto, Return, TypeOK
  <2>3. ASSUME NEW q \in Procs PROVE DialogIsFresh(q)'
    <3>1. CASE \E i \in Items : OpenReceipt(p, i)
      BY <1>0, <1>1, <2>1, <3>1 DEF OpenReceipt, DialogIsFresh, TypeOK
    <3>2. CASE CancelReceipt(p) \/ WriteStatus(p)
      BY <1>0, <1>1, <2>1, <3>2
      DEF CancelReceipt, WriteStatus, DialogIsFresh, Goto, Return, TypeOK
    <3>3. CASE \/ \E o \in Orders \cup {NoOrder} : ShowOrder(p, o)
               \/ \E n \in 1..MaxPosted : Confirm(p, n)
               \/ ReadLines(p)
      BY <1>0, <1>1, <2>1, <3>3
      DEF ShowOrder, Confirm, ReadLines, DialogIsFresh, Goto, TypeOK
    <3>4. CASE MarkOrdered(p)
      BY <1>0, <1>1, <1>2, <2>1, <3>4 DEF MarkOrdered, DialogIsFresh, Goto, TypeOK
    <3> QED
      BY <1>3, <3>1, <3>2, <3>3, <3>4
  <2>4. /\ \A q \in Procs : (pc[q] = "write") = (pc'[q] = "write")
        /\ \A q \in Procs : pc[q] = "write" =>
             dialog'[q] = dialog[q] /\ total'[q] = total[q]
    BY <1>0, <1>3
    DEF ShowOrder, OpenReceipt, CancelReceipt, MarkOrdered, Confirm, ReadLines,
        WriteStatus, Goto, Return, TypeOK
  <2> QED
    BY <1>0, <2>1, <2>2, <2>3, <2>4, CalmScreenStep
<1>4. ASSUME NEW p \in env.acting, NEW i \in Items, NEW n \in Quantities, AddItem(p, i, n)
      PROVE  CalmInv'
  <2>1. /\ line'[i].received = 0 /\ line[i].received = 0 /\ line'[i].order # NoOrder
        /\ \A j \in Items : j # i => line'[j] = line[j]
    BY <1>0, <1>1, <1>4 DEF AddItem, TypeOK
  <2>2. \A q \in Procs : dialog'[q] = dialog[q] /\ total'[q] = total[q] /\ dialog[p] = Closed
    BY <1>4 DEF AddItem
  <2>3. \A q \in Procs : dialog[q] = Closed
    BY <1>2, <2>2
  <2>4. \A q \in Procs, j \in Items : ~Writes(q, j) /\ ~Writes(q, j)'
    BY <1>0, <1>2, <1>4, <2>3, <2>2
    DEF Writes, Closed, AddItem, Goto, TypeOK
  <2>5. \A q \in Procs \ env.acting : Rests(q)'
    BY <1>0, <1>1, <1>4 DEF AddItem, Rests, Goto, TypeOK
  <2> QED
    BY <1>0, <1>1, <1>4, <2>1, <2>2, <2>3, <2>4, <2>5
    DEF CalmInv, DialogIsFresh, AddItem
<1>5. ASSUME NEW p \in env.acting, PostMovement(p) PROVE CalmInv'
  <2> DEFINE i == dialog[p].item
  <2>1. i \in Items /\ dialog[p] # Closed
    BY <1>0, <1>5 DEF PostMovement, Underway, DialogFits
  <2>2. dialog[p].already = line[i].received /\ posted[i] = line[i].received
    BY <1>0, <1>1, <1>2, <1>5, <2>1 DEF PostMovement, DialogIsFresh, Writes
  <2>3. posted'[i] = total[p] /\ \A j \in Items : j # i => posted'[j] = posted[j]
    BY <1>0, <1>5, <2>1, <2>2 DEF PostMovement, Delta, TypeOK, Dialogs
  <2>4. \A q \in Procs, j \in Items : Writes(q, j)' = (q = p /\ j = i)
    BY <1>0, <1>2, <1>5, <2>1 DEF PostMovement, Writes, Goto, TypeOK
  <2>5. \A q \in Procs, j \in Items : ~Writes(q, j)
    BY <1>2, <1>5 DEF PostMovement, Writes
  <2>6. \A q \in Procs \ env.acting : Rests(q)'
    BY <1>0, <1>1, <1>5 DEF PostMovement, Rests, Goto, TypeOK
  <2>7. \A q \in Procs : DialogIsFresh(q)'
    BY <1>0, <1>1, <1>2, <1>5, <2>2 DEF PostMovement, DialogIsFresh, Goto, TypeOK
  <2> HIDE DEF i
  <2> QED
    BY <1>0, <1>1, <1>5, <2>1, <2>3, <2>4, <2>5, <2>6, <2>7 DEF CalmInv, PostMovement
<1>6. ASSUME NEW p \in env.acting, WriteReceived(p) PROVE CalmInv'
  <2> DEFINE i == dialog[p].item
  <2>1. /\ i \in Items /\ dialog[p] # Closed /\ line[i].order # NoOrder
        /\ posted[i] = total[p]
    BY <1>0, <1>1, <1>6 DEF WriteReceived, Underway, DialogFits, Writes
  <2>2. line' = [line EXCEPT ![i] = [line[i] EXCEPT !.received = total[p]]]
    BY <1>0, <1>6, <2>1 DEF WriteReceived, TypeOK
  <2>3. /\ line'[i].received = total[p] /\ line'[i].order = line[i].order
        /\ \A j \in Items : j # i => line'[j] = line[j]
    BY <1>0, <2>1, <2>2 DEF TypeOK, Lines
  <2>4. \A q \in Procs, j \in Items : ~Writes(q, j)'
    BY <1>0, <1>2, <1>6 DEF WriteReceived, Writes, Goto, TypeOK
  <2>5. \A q \in Procs, j \in Items : j # i => ~Writes(q, j)
    BY <1>0, <1>2, <1>6, <2>1 DEF WriteReceived, Writes
  <2>6. \A q \in Procs \ env.acting : Rests(q)'
    BY <1>0, <1>1, <1>6 DEF WriteReceived, Rests, Goto, TypeOK
  <2>7. \A q \in Procs : DialogIsFresh(q)'
    BY <1>0, <1>1, <1>2, <1>6 DEF WriteReceived, DialogIsFresh, Goto, TypeOK
  <2> HIDE DEF i
  <2> QED
    BY <1>0, <1>1, <1>6, <2>1, <2>3, <2>4, <2>5, <2>6, <2>7 DEF CalmInv, WriteReceived
<1>7. ASSUME NEW p \in env.acting, MovementLost(p) \/ ReceiptFails(p) \/ Restart(p)
      PROVE  CalmInv'
  BY <1>0, <1>7 DEF MovementLost, ReceiptFails, Restart
<1>8. CASE UNCHANGED vars
  BY <1>8 DEF vars, tables, screen, CalmInv, Undisturbed, Rests, DialogIsFresh, Writes
<1> QED
  BY <1>3, <1>4, <1>5, <1>6, <1>7, <1>8 DEF Next

-----------------------------------------------------------------------------
(* One user, undisturbed, and one order.                                   *)

LEMMA OneOrderInit == Init => OneOrderInv
BY NamesAssumption, EnvironmentsAssumption DEF Init, OneOrderInv, StatusFits, LinesOf

(* The status lines give is Placed exactly when none has received anything. *)
LEMMA PlacedWhenNothingReceived ==
  ASSUME TypeOK, NEW o \in Orders, LinesOf(o) # {},
         \A i \in LinesOf(o) : line[i].ordered > 0
  PROVE  StatusOfLines(o) = Placed <=> \A i \in LinesOf(o) : line[i].received = 0
<1>1. \A i \in LinesOf(o) : line[i].received \in Nat /\ line[i].ordered \in Nat
  BY DEF TypeOK, LinesOf, Lines
<1> QED
  BY <1>1, StatusAssumption DEF StatusOfLines

(* Every step of the one user keeps the status in line with its order. *)
LEMMA OneOrderStep == OrdersInv /\ OneOrderInv /\ [Next]_vars => OneOrderInv'
<1> SUFFICES ASSUME OrdersInv, OneOrderInv, [Next]_vars, Undisturbed', OneOrder
             PROVE  OneOrderInv'
  BY DEF OneOrderInv
<1>0. /\ env' = env /\ env.acting \subseteq Procs /\ ~env.faults /\ ~env.late /\ Undisturbed
      /\ TypeOK /\ TypeOK'
      /\ \A p \in Procs : DialogFits(p) /\ Underway(p)
      /\ \A p \in Procs : pc[p] = "ordered" => shown[p] # NoOrder
  <2>1. env' = env
    BY DEF Next, vars
  <2> QED
    BY <2>1, TypeStep, EnvironmentsAssumption DEF OrdersInv, TypeOK, Undisturbed
<1>1. /\ \A p \in env.acting, o \in Orders : StatusFits(p, o)
      /\ env.acting = {} => \A i \in Items : line[i].order = NoOrder
      /\ \A i \in Items : line[i].order # NoOrder => line[i].ordered > 0
  BY <1>0 DEF OneOrderInv
<1>2. ASSUME NEW p \in env.acting, NEW o \in Orders,
             UNCHANGED line, StatusFits(p, o)'
      PROVE  OneOrderInv'
  <2>1. ASSUME NEW q \in env.acting, NEW r \in Orders PROVE q = p /\ r = o
    BY <1>0 DEF Undisturbed, OneOrder
  <2> QED
    BY <1>0, <1>1, <1>2, <2>1 DEF OneOrderInv
<1>3. ASSUME Orders = {} PROVE OneOrderInv'
  <2>1. \A i \in Items : line'[i].order \notin Orders
    BY <1>3
  <2>2. \A i \in Items : line'[i].order = NoOrder
    BY <1>0, <2>1 DEF TypeOK, Lines
  <2> QED
    BY <1>3, <2>2 DEF OneOrderInv
<1>4. ASSUME NEW p \in env.acting, NEW o \in Orders,
             \/ \E r \in Orders \cup {NoOrder} : ShowOrder(p, r)
             \/ \E i \in Items : OpenReceipt(p, i)
             \/ CancelReceipt(p)
             \/ \E n \in 1..MaxPosted : Confirm(p, n)
             \/ PostMovement(p)
      PROVE  OneOrderInv'
  <2>1. /\ UNCHANGED <<line, status, computed>>
        /\ pc[p] \in {"idle", "post"} /\ pc'[p] \in {"idle", "post", "write"}
    BY <1>0, <1>4
    DEF ShowOrder, OpenReceipt, CancelReceipt, Confirm, PostMovement, tables, Goto, TypeOK
  <2> QED
    BY <1>1, <1>2, <2>1 DEF StatusFits, LinesOf, StatusOfLines
<1>5. ASSUME NEW p \in env.acting, NEW o \in Orders,
             NEW i \in Items, NEW n \in Quantities, AddItem(p, i, n)
      PROVE  OneOrderInv'
  <2>1. shown[p] = o /\ pc[p] = "idle" /\ pc'[p] = "ordered" /\ status[o] \in {Draft, Placed}
    BY <1>0, <1>5 DEF AddItem, TypeOK, OneOrder, Goto
  <2>2. /\ line'[i] = [order |-> o, ordered |-> n, received |-> 0]
        /\ \A j \in Items : j # i => line'[j] = line[j]
    BY <1>0, <1>5, <2>1 DEF AddItem, TypeOK
  <2>3. \A j \in LinesOf(o) : line[j].received = 0
    <3>1. CASE LinesOf(o) # {}
      <4>1. status[o] = StatusOfLines(o)
        BY <1>1, <2>1, <3>1 DEF StatusFits
      <4>2. \A j \in LinesOf(o) : line[j].ordered > 0
        BY <1>1, NamesAssumption DEF LinesOf
      <4>3. StatusOfLines(o) # Draft
        BY StatusAssumption DEF StatusOfLines
      <4> QED
        BY <1>0, <2>1, <3>1, <4>1, <4>2, <4>3, PlacedWhenNothingReceived
    <3> QED
      BY <3>1
  <2>4. \A j \in LinesOf(o)' : line'[j].received = 0
    BY <2>2, <2>3 DEF LinesOf
  <2>5. StatusFits(p, o)'
    BY <2>1, <2>4 DEF StatusFits
  <2>6. ASSUME NEW q \in env.acting, NEW r \in Orders PROVE q = p /\ r = o
    BY <1>0 DEF Undisturbed, OneOrder
  <2>7. \A j \in Items : line'[j].order # NoOrder => line'[j].ordered > 0
    BY <1>1, <2>2, QuantitiesAssumption
  <2> QED
    BY <1>0, <2>5, <2>6, <2>7 DEF OneOrderInv
<1>6. ASSUME NEW p \in env.acting, NEW o \in Orders, MarkOrdered(p) PROVE OneOrderInv'
  <2>1. /\ shown[p] = o /\ pc[p] = "ordered" /\ pc'[p] = "idle"
        /\ status'[o] = Placed /\ line' = line
    BY <1>0, <1>6 DEF MarkOrdered, TypeOK, OneOrder, Goto
  <2>2. /\ \A j \in LinesOf(o) : line[j].received = 0
        /\ \A j \in LinesOf(o) : line[j].ordered > 0
    BY <1>1, <2>1, NamesAssumption DEF StatusFits, LinesOf
  <2>3. LinesOf(o) # {} => StatusOfLines(o) = Placed
    BY <1>0, <2>2, PlacedWhenNothingReceived
  <2>4. LinesOf(o)' = LinesOf(o) /\ StatusOfLines(o)' = StatusOfLines(o)
    BY <2>1 DEF LinesOf, StatusOfLines
  <2>5. StatusFits(p, o)'
    BY <2>1, <2>3, <2>4 DEF StatusFits
  <2> QED
    BY <1>2, <2>1, <2>5
<1>7. ASSUME NEW p \in env.acting, NEW o \in Orders, WriteReceived(p) PROVE OneOrderInv'
  <2> DEFINE i == dialog[p].item
  <2>1. i \in Items /\ pc'[p] = "read"
    BY <1>0, <1>7 DEF WriteReceived, Underway, DialogFits, Goto, TypeOK
  <2>2. line' = [line EXCEPT ![i] = [line[i] EXCEPT !.received = total[p]]]
    BY <1>0, <1>7, <2>1 DEF WriteReceived, TypeOK
  <2>3. \A j \in Items : line'[j].order = line[j].order /\ line'[j].ordered = line[j].ordered
    BY <1>0, <2>1, <2>2 DEF TypeOK, Lines
  <2>4. StatusFits(p, o)'
    BY <2>1 DEF StatusFits
  <2>5. ASSUME NEW q \in env.acting, NEW r \in Orders PROVE q = p /\ r = o
    BY <1>0 DEF Undisturbed, OneOrder
  <2> QED
    BY <1>0, <1>1, <2>3, <2>4, <2>5 DEF OneOrderInv
<1>8. ASSUME NEW p \in env.acting, NEW o \in Orders, ReadLines(p) PROVE OneOrderInv'
  <2>1. shown[p] = o
    BY <1>0, <1>8 DEF ReadLines, Underway, TypeOK, OneOrder
  <2>2. line' = line /\ pc'[p] = "status" /\ computed'[p] = StatusOfLines(o)
    BY <1>0, <1>8, <2>1 DEF ReadLines, tables, Goto, TypeOK
  <2>3. StatusFits(p, o)'
    BY <2>2 DEF StatusFits, StatusOfLines, LinesOf
  <2> QED
    BY <1>2, <2>2, <2>3
<1>9. ASSUME NEW p \in env.acting, NEW o \in Orders, WriteStatus(p) PROVE OneOrderInv'
  <2>1. shown[p] = o
    BY <1>0, <1>9 DEF WriteStatus, Underway, TypeOK, OneOrder
  <2>2. computed[p] = StatusOfLines(o)
    BY <1>1, <1>9 DEF WriteStatus, StatusFits
  <2>3. line' = line /\ pc'[p] = "idle" /\ status'[o] = StatusOfLines(o)
    BY <1>0, <1>9, <2>1, <2>2 DEF WriteStatus, Return, Goto, TypeOK
  <2>4. StatusFits(p, o)'
    BY <2>3 DEF StatusFits, StatusOfLines, LinesOf
  <2> QED
    BY <1>2, <2>3, <2>4
<1>10. ASSUME NEW p \in env.acting, MovementLost(p) \/ ReceiptFails(p) \/ Restart(p)
       PROVE  OneOrderInv'
  BY <1>0, <1>10 DEF MovementLost, ReceiptFails, Restart
<1>11. CASE UNCHANGED vars
  BY <1>11
  DEF vars, tables, screen, OneOrderInv, Undisturbed, StatusFits, LinesOf, StatusOfLines
<1> QED
  BY <1>3, <1>4, <1>5, <1>6, <1>7, <1>8, <1>9, <1>10, <1>11 DEF Next

(* What holds in every environment, what holds when one user works         *)
(* undisturbed, and what holds on one order besides, together.             *)
THEOREM LinesInvariant == Spec => []LinesInv
<1>1. Init => LinesInv
  BY OrdersInit, CalmInit, OneOrderInit DEF LinesInv
<1>2. LinesInv /\ [Next]_vars => LinesInv'
  BY OrdersStep, CalmStep, OneOrderStep DEF LinesInv
<1> QED
  BY <1>1, <1>2, PTL DEF Spec

(* When one user works undisturbed, on however many orders, the movements  *)
(* of a line add up, between calls, to what it says has been received.     *)
THEOREM ReceiptsMatch == Spec => []PostedMatchesReceived
<1>1. LinesInv => PostedMatchesReceived
  BY DEF LinesInv, CalmInv, PostedMatchesReceived, Idle, Writes
<1> QED
  BY <1>1, LinesInvariant, PTL

(* When one user works undisturbed and there is a single order, its status *)
(* is, between calls, the one its lines give.  (With two orders it is not: *)
(* the dialog left open on one is confirmed on the screen of the other.)   *)
THEOREM StatusOfOneOrder ==
  ASSUME OneOrder
  PROVE  Spec => []StatusTracksLines
<1>1. LinesInv => StatusTracksLines
  <2> SUFFICES ASSUME LinesInv, Undisturbed, Idle, NEW o \in Orders, LinesOf(o) # {}
               PROVE  status[o] = StatusOfLines(o)
    BY DEF StatusTracksLines
  <2>1. /\ \A p \in env.acting : StatusFits(p, o)
        /\ env.acting = {} => \A i \in Items : line[i].order = NoOrder
        /\ env.acting \subseteq Procs
    BY EnvironmentsAssumption DEF LinesInv, OneOrderInv, OrdersInv, TypeOK
  <2>2. env.acting # {}
    BY <2>1, NamesAssumption DEF LinesOf
  <2> QED
    BY <2>1, <2>2 DEF StatusFits, Idle
<1> QED
  BY <1>1, LinesInvariant, PTL

=============================================================================
