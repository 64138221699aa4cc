---------------------------- MODULE OfficeProofs ----------------------------
(***************************************************************************)
(* Type correctness of the office, the numbers of orders, the rows that    *)
(* are referred to, and who an order or an edit reaches, for any number of *)
(* instances, partners, ids and orders.                                    *)
(*                                                                         *)
(* A number is read before the order that takes it is inserted, so what is *)
(* invariant is that the number an instance holds follows one that is used *)
(* already: numbers are never given back.  A partner, once it has had a    *)
(* row, can only be found in that row or nowhere, since a partner is       *)
(* entered once: that is what makes a stale form mistake only the deleted. *)
(***************************************************************************)
EXTENDS Office, TLAPS

USE BoundsAssumption DEF Ids, Numbers

LEMMA NoneTyped ==
  /\ NoRow \in Rows /\ NoForm \in Forms /\ Rest \in Tasks /\ Stopped \in Tasks
  /\ NoOrder \in Orders /\ OldOrder \in Orders
<1>1. NoRow \in Rows /\ NoForm \in Forms
  BY DEF NoRow, Rows, NoForm, Forms, People
<1>2. Rest \in Tasks
  BY DEF Rest, Tasks, Things
<1>3. Stopped = [next |-> "off", id |-> 0, number |-> 0, thing |-> Goods]
  BY DEF Rest, Stopped
<1>4. Stopped \in Tasks
  BY <1>3 DEF Tasks, Things
<1>5. NoOrder \in Orders /\ OldOrder \in Orders
  BY DEF NoOrder, OldOrder, Orders, People
<1> QED
  BY <1>1, <1>2, <1>4, <1>5

LEMMA InitType == Init => TypeOK
<1> SUFFICES ASSUME Init PROVE TypeOK
  OBVIOUS
<1>1. known \in SUBSET Parties /\ side \in Sides
  BY DEF Init
<1>2. known # {} => (CHOOSE t \in known : TRUE) \in known
  OBVIOUS
<1>3. partner \in [Ids -> Rows]
  BY <1>1, <1>2 DEF Init, NoRow, Rows, People
<1>4. order \in [Numbers -> Orders]
  <2>1. PICK old \in SUBSET ({1} \cap Numbers) :
          order = [n \in Numbers |-> IF n \in old THEN OldOrder ELSE NoOrder]
    BY DEF Init
  <2> QED
    BY <2>1, NoneTyped
<1>5. supplied \in [id : 0..MaxId, active : BOOLEAN] /\ entries \in [Things -> Nat]
  BY DEF Init
<1> QED
  BY <1>1, <1>3, <1>4, <1>5, NoneTyped DEF Init, TypeOK

(* The tasks a step leaves.                                                *)
LEMMA TaskTypes ==
  ASSUME TypeOK, NEW p \in Procs
  PROVE  /\ \A s \in {"off", "idle", "products", "partners", "users", "orders", "delete",
                       "insert", "log", "note"} : Then(p, s) => task' \in [Procs -> Tasks]
         /\ Done(p) => task' \in [Procs -> Tasks]
         /\ \A x \in Things : Logging(x) \in Tasks
         /\ \A i \in Ids : Deleting(i) \in Tasks
         /\ \A n \in Numbers : Inserting(n) \in Tasks
         /\ Close(p) => form' \in [Procs -> Forms]
<1>1. ASSUME NEW s \in {"off", "idle", "products", "partners", "users", "orders", "delete",
                       "insert", "log", "note"}, Then(p, s)
      PROVE  task' \in [Procs -> Tasks]
  <2>1. task' = [task EXCEPT ![p] = [task[p] EXCEPT !.next = s]]
    BY <1>1 DEF Then
  <2>2. [task[p] EXCEPT !.next = s] \in Tasks
    BY DEF TypeOK, Tasks
  <2> QED
    BY <2>1, <2>2 DEF TypeOK
<1>2. Done(p) => task' \in [Procs -> Tasks]
  BY NoneTyped DEF TypeOK, Done
<1>3. /\ \A x \in Things : Logging(x) \in Tasks
      /\ \A i \in Ids : Deleting(i) \in Tasks
      /\ \A n \in Numbers : Inserting(n) \in Tasks
  BY DEF Logging, Deleting, Inserting, Tasks, Things
<1>4. Close(p) => form' \in [Procs -> Forms]
  BY NoneTyped DEF TypeOK, Close
<1> QED
  BY <1>1, <1>2, <1>3, <1>4

(* A call goes on, or ends: the other instances are where they were.       *)
LEMMA NextTask ==
  ASSUME TypeOK, NEW p \in Procs
  PROVE  /\ \A s : Then(p, s) =>
              /\ task'[p].next = s /\ task'[p].thing = task[p].thing
              /\ \A q \in Procs : q # p => task'[q] = task[q]
         /\ Done(p) =>
              /\ task'[p].next = "idle"
              /\ \A q \in Procs : q # p => task'[q] = task[q]
<1>1. ASSUME NEW s, Then(p, s)
      PROVE  /\ task'[p].next = s /\ task'[p].thing = task[p].thing
             /\ \A q \in Procs : q # p => task'[q] = task[q]
  <2>1. task' = [task EXCEPT ![p] = [task[p] EXCEPT !.next = s]]
    BY <1>1 DEF Then
  <2>2. task'[p] = [task[p] EXCEPT !.next = s]
    BY <2>1 DEF TypeOK
  <2>3. task[p] \in Tasks
    BY DEF TypeOK
  <2>4. [task[p] EXCEPT !.next = s].next = s /\ [task[p] EXCEPT !.next = s].thing = task[p].thing
    BY <2>3 DEF Tasks
  <2> QED
    BY <2>1, <2>2, <2>4 DEF TypeOK
<1>2. ASSUME Done(p)
      PROVE  /\ task'[p].next = "idle"
             /\ \A q \in Procs : q # p => task'[q] = task[q]
  BY <1>2 DEF Done, Rest, TypeOK
<1> QED
  BY <1>1, <1>2

LEMMA JournalType ==
  ASSUME TypeOK, UNCHANGED side, NEW p \in Procs,
         Start(p) \/ Backfill(p) \/ Stop(p) \/ LogCreation(p) \/ LogOther(p)
  PROVE  TypeOK'
<1> USE DEF tables
<1>1. CASE Start(p)
  BY <1>1, TaskTypes DEF Start, TypeOK
<1>2. CASE Backfill(p)
  <2>1. After[task[p].next] \in {"partners", "users", "orders", "idle"}
    BY <1>2 DEF Backfill, After
  <2>2. entries' \in [Things -> Nat]
    <3>1. \A x \in Things : entries[x] + 0 \in Nat /\ entries[x] + 1 \in Nat
      BY DEF TypeOK
    <3>2. PICK old : \/ entries' = [x \in Things |-> entries[x] + IF x \in old THEN 1 ELSE 0]
                     \/ entries' = entries
      BY <1>2 DEF Backfill
    <3>3. \A x \in Things : entries[x] + (IF x \in old THEN 1 ELSE 0) \in Nat
      BY <3>1
    <3> QED
      BY <3>2, <3>3 DEF TypeOK
  <2>3. written' \in BOOLEAN /\ cut' \in BOOLEAN
    BY <1>2 DEF Backfill, TypeOK
  <2> QED
    BY <1>2, <2>1, <2>2, <2>3, TaskTypes DEF Backfill, TypeOK
<1>3. CASE Stop(p)
  BY <1>3, NoneTyped, TaskTypes DEF Stop, TypeOK
<1>4. CASE LogCreation(p)
  <2>1. task[p].thing \in Things
    BY DEF TypeOK, Tasks
  <2>2. entries' \in [Things -> Nat]
    <3>1. \/ entries' = [entries EXCEPT ![task[p].thing] = entries[task[p].thing] + 1]
          \/ entries' = entries
      BY <1>4 DEF LogCreation
    <3>2. entries[task[p].thing] + 1 \in Nat
      BY <2>1 DEF TypeOK
    <3> QED
      BY <3>1, <3>2 DEF TypeOK
  <2>3. written' \in BOOLEAN /\ cut' \in BOOLEAN
    BY <1>4 DEF LogCreation, TypeOK
  <2> QED
    BY <1>4, <2>2, <2>3, TaskTypes DEF LogCreation, TypeOK
<1>5. CASE LogOther(p)
  BY <1>5, TaskTypes DEF LogOther, TypeOK
<1> QED
  BY <1>1, <1>2, <1>3, <1>4, <1>5

LEMMA PartnersType ==
  ASSUME TypeOK, UNCHANGED side, NEW p \in Procs,
         \/ \E kind \in {"add", "order"} : OpenForm(p, kind)
         \/ \E t \in Parties : CreatePartner(p, t)
         \/ \E i \in Ids : OpenEdit(p, i) \/ CountUses(p, i) \/ ChoosePartner(p, i)
         \/ Cancel(p) \/ UpdatePartner(p) \/ DeletePartner(p)
  PROVE  TypeOK'
<1> USE DEF tables
<1>1. CASE \E kind \in {"add", "order"} : OpenForm(p, kind)
  <2>1. PICK kind \in {"add", "order"} : OpenForm(p, kind)
    BY <1>1
  <2>2. form' = [form EXCEPT ![p] = [form[p] EXCEPT !.kind = kind]]
    BY <2>1 DEF OpenForm
  <2>3. [form[p] EXCEPT !.kind = kind] \in Forms
    BY DEF TypeOK, Forms
  <2> QED
    BY <2>1, <2>2, <2>3 DEF OpenForm, TypeOK
<1>2. CASE \E t \in Parties : CreatePartner(p, t)
  <2>1. PICK t \in Parties : CreatePartner(p, t)
    BY <1>2
  <2>2. partner' \in [Ids -> Rows]
    <3>1. PICK i \in Ids : partner' = [partner EXCEPT ![i] = [who |-> t, shows |-> t]]
      BY <2>1 DEF CreatePartner
    <3>2. [who |-> t, shows |-> t] \in Rows
      BY DEF Rows, People
    <3> QED
      BY <3>1, <3>2 DEF TypeOK
  <2>3. task' \in [Procs -> Tasks]
    <3>1. Logging(t) \in Tasks
      BY TaskTypes DEF Things
    <3> QED
      BY <2>1, <3>1 DEF CreatePartner, TypeOK
  <2> QED
    BY <2>1, <2>2, <2>3, TaskTypes DEF CreatePartner, TypeOK
<1>3. CASE \E i \in Ids : OpenEdit(p, i)
  BY <1>3 DEF OpenEdit, TypeOK, Forms, Rows
<1>4. CASE \E i \in Ids : CountUses(p, i)
  BY <1>4, TaskTypes DEF CountUses, TypeOK
<1>5. CASE \E i \in Ids : ChoosePartner(p, i)
  <2>1. PICK i \in Ids : ChoosePartner(p, i)
    BY <1>5
  <2>2. form' = [form EXCEPT ![p] = [form[p] EXCEPT !.id = i, !.who = partner[i].who]]
    BY <2>1 DEF ChoosePartner
  <2>3. [form[p] EXCEPT !.id = i, !.who = partner[i].who] \in Forms
    <3>1. form[p] \in Forms /\ partner[i].who \in People /\ i \in 0..MaxId
      BY DEF TypeOK, Rows
    <3> QED
      BY <3>1 DEF Forms
  <2> QED
    BY <2>1, <2>2, <2>3 DEF ChoosePartner, TypeOK
<1>6. CASE Cancel(p)
  BY <1>6, TaskTypes DEF Cancel, TypeOK
<1>7. CASE UpdatePartner(p)
  <2>1. form[p].who \in People
    BY DEF TypeOK, Forms
  <2>2. ASSUME NEW i \in Ids PROVE [partner[i] EXCEPT !.shows = form[p].who] \in Rows
    BY <2>1 DEF TypeOK, Rows
  <2>3. \/ partner' = partner
        \/ partner' = [partner EXCEPT ![form[p].id] =
                         [partner[form[p].id] EXCEPT !.shows = form[p].who]]
    BY <1>7 DEF UpdatePartner
  <2>4. partner' \in [Ids -> Rows]
    BY <2>2, <2>3 DEF TypeOK
  <2> QED
    BY <1>7, <2>4, TaskTypes DEF UpdatePartner, TypeOK
<1>8. CASE DeletePartner(p)
  BY <1>8, TaskTypes, NoneTyped DEF DeletePartner, TypeOK
<1> QED
  BY <1>1, <1>2, <1>3, <1>4, <1>5, <1>6, <1>7, <1>8

LEMMA OrdersType ==
  ASSUME TypeOK, UNCHANGED side, NEW p \in Procs,
         (\E n \in Numbers : ReadNumber(p, n)) \/ InsertOrder(p) \/ OrderRefused(p)
  PROVE  TypeOK'
<1> USE DEF tables
<1>1. CASE \E n \in Numbers : ReadNumber(p, n)
  BY <1>1, TaskTypes DEF ReadNumber, TypeOK
<1>2. CASE InsertOrder(p)
  <2>1. [is |-> TRUE, id |-> form[p].id, chosen |-> form[p].who] \in Orders
    BY DEF TypeOK, Forms, Orders
  <2> DEFINE n == task[p].number
  <2>2. n \in Numbers
    BY <1>2 DEF InsertOrder
  <2>3. Logging(n) \in Tasks
    BY <2>2, TaskTypes DEF Things
  <2>4. task' \in [Procs -> Tasks] /\ order' \in [Numbers -> Orders]
    BY <1>2, <2>1, <2>3 DEF InsertOrder, TypeOK
  <2> QED
    BY <1>2, <2>4, TaskTypes DEF InsertOrder, TypeOK
<1>3. CASE OrderRefused(p)
  BY <1>3, TaskTypes DEF OrderRefused, TypeOK
<1> QED
  BY <1>1, <1>2, <1>3

LEMMA TypeStep == TypeOK /\ [Next]_vars => TypeOK'
<1> SUFFICES ASSUME TypeOK, [Next]_vars PROVE TypeOK'
  OBVIOUS
<1>1. CASE UNCHANGED vars
  BY <1>1 DEF vars, tables, TypeOK
<1>2. ASSUME UNCHANGED side, NEW i \in 0..MaxId, NEW a \in BOOLEAN, SaveProduct(i, a)
      PROVE TypeOK'
  BY <1>2 DEF SaveProduct, TypeOK
<1> QED
  BY <1>1, <1>2, JournalType, PartnersType, OrdersType DEF Next

(* Every variable has its type, for any number of instances, partners and  *)
(* orders (draw_suppliers_screen ... draw_dispatch_orders_screen).         *)
THEOREM OfficeTyped == Spec => []TypeOK
BY InitType, TypeStep, PTL DEF Spec

-----------------------------------------------------------------------------
(* Numbers of orders.                                                      *)

\* A number that was read follows one that is used.
NumbersReadFollow ==
  \A p \in Procs : At(p, "insert") => task[p].number - 1 \in Used \cup {0}

NumbersInv == TypeOK /\ NumbersReadFollow /\ NumbersFollow

LEMMA InitNumbers == Init => NumbersInv
<1> SUFFICES ASSUME Init PROVE NumbersReadFollow /\ NumbersFollow
  BY InitType DEF NumbersInv
<1>1. NumbersReadFollow
  BY DEF Init, Stopped, Rest, NumbersReadFollow, At
<1>2. PICK old \in SUBSET ({1} \cap Numbers) :
        order = [n \in Numbers |-> IF n \in old THEN OldOrder ELSE NoOrder]
  BY DEF Init
<1>3. Used = old
  BY <1>2 DEF Used, OldOrder, NoOrder
<1> QED
  BY <1>1, <1>3 DEF NumbersFollow

LEMMA NumbersStep == NumbersInv /\ [Next]_vars => NumbersInv'
<1> SUFFICES ASSUME NumbersInv, [Next]_vars
             PROVE  NumbersReadFollow' /\ NumbersFollow'
  BY TypeStep DEF NumbersInv
<1>0. task \in [Procs -> Tasks] /\ order \in [Numbers -> Orders]
  BY DEF NumbersInv, TypeOK
<1>1. CASE UNCHANGED vars
  BY <1>1 DEF vars, tables, NumbersInv, NumbersReadFollow, NumbersFollow, At, Used
<1>2. ASSUME NEW i \in 0..MaxId, NEW a \in BOOLEAN, SaveProduct(i, a)
      PROVE NumbersReadFollow' /\ NumbersFollow'
  BY <1>2 DEF SaveProduct, NumbersInv, NumbersReadFollow, NumbersFollow, At, Used
<1>3. ASSUME NEW p \in Procs, UNCHANGED order,
             \A q \in Procs : q # p => task'[q] = task[q],
             task'[p] = task[p] \/ task'[p].next # "insert"
      PROVE  NumbersReadFollow' /\ NumbersFollow'
  BY <1>3 DEF NumbersInv, NumbersReadFollow, NumbersFollow, At, Used
<1>4. ASSUME NEW p \in Procs,
             Start(p) \/ Backfill(p) \/ Stop(p) \/ LogCreation(p) \/ LogOther(p)
      PROVE  NumbersReadFollow' /\ NumbersFollow'
  <2>1. UNCHANGED order
    BY <1>4 DEF Start, Backfill, Stop, LogCreation, LogOther, tables
  <2>2. PICK s : task' = [task EXCEPT ![p].next = s] \/ task' = [task EXCEPT ![p] = Rest]
                 \/ task' = [task EXCEPT ![p] = Stopped]
    BY <1>4 DEF Start, Backfill, Stop, LogCreation, LogOther, Then, Done
  <2>3. \A q \in Procs : q # p => task'[q] = task[q]
    BY <1>0, <2>2
  <2>4. task'[p].next # "insert"
    <3>1. CASE Start(p)
      BY <3>1, NextTask DEF Start, NumbersInv
    <3>2. CASE Backfill(p)
      <4>1. After[task[p].next] \in {"partners", "users", "orders", "idle"}
        BY <3>2 DEF Backfill, After
      <4>2. PICK step \in {"partners", "users", "orders", "idle"} : Then(p, step)
        BY <3>2, <4>1 DEF Backfill
      <4>3. task'[p].next = step
        BY <4>2, NextTask DEF NumbersInv
      <4> QED
        BY <4>3
    <3>3. CASE Stop(p)
      <4>1. Stopped.next = "off"
        BY DEF Stopped, Rest
      <4> QED
        BY <1>0, <3>3, <4>1 DEF Stop
    <3>4. CASE LogCreation(p) \/ LogOther(p)
      BY <3>4, NextTask DEF LogCreation, LogOther, NumbersInv
    <3> QED
      BY <1>4, <3>1, <3>2, <3>3, <3>4
  <2> QED
    BY <1>3, <2>1, <2>3, <2>4
<1>5. ASSUME NEW p \in Procs,
             \/ \E kind \in {"add", "order"} : OpenForm(p, kind)
             \/ \E i \in Ids : OpenEdit(p, i) \/ CountUses(p, i) \/ ChoosePartner(p, i)
             \/ \E t \in Parties : CreatePartner(p, t)
             \/ Cancel(p) \/ UpdatePartner(p) \/ DeletePartner(p) \/ OrderRefused(p)
      PROVE  NumbersReadFollow' /\ NumbersFollow'
  <2> USE DEF tables
  <2>1. CASE \/ \E kind \in {"add", "order"} : OpenForm(p, kind)
             \/ \E i \in Ids : OpenEdit(p, i) \/ ChoosePartner(p, i)
             \/ Cancel(p)
    BY <1>3, <2>1 DEF OpenForm, OpenEdit, ChoosePartner, Cancel
  <2>2. CASE \E i \in Ids : CountUses(p, i)
    BY <1>0, <1>3, <2>2 DEF CountUses, Deleting
  <2>3. CASE \E t \in Parties : CreatePartner(p, t)
    BY <1>0, <1>3, <2>3 DEF CreatePartner, Logging
  <2>4. CASE UpdatePartner(p) \/ OrderRefused(p)
    BY <1>3, <2>4, NextTask DEF UpdatePartner, OrderRefused, NumbersInv
  <2>5. CASE DeletePartner(p)
    BY <1>3, <2>5, NextTask DEF DeletePartner, NumbersInv
  <2> QED
    BY <1>5, <2>1, <2>2, <2>3, <2>4, <2>5
<1>6. ASSUME NEW p \in Procs, NEW n \in Numbers, ReadNumber(p, n)
      PROVE  NumbersReadFollow' /\ NumbersFollow'
  <2>1. UNCHANGED order /\ n - 1 \in Used \cup {0}
    BY <1>6 DEF ReadNumber, IsNextNumber, tables
  <2>2. \A q \in Procs : task'[q] = IF q = p THEN Inserting(n) ELSE task[q]
    BY <1>0, <1>6 DEF ReadNumber
  <2> QED
    BY <2>1, <2>2 DEF NumbersInv, NumbersReadFollow, NumbersFollow, At, Used, Inserting
<1>7. ASSUME NEW p \in Procs, InsertOrder(p)
      PROVE  NumbersReadFollow' /\ NumbersFollow'
  <2> DEFINE n == task[p].number
  <2>1. n \in Numbers /\ n - 1 \in Used \cup {0}
    BY <1>7 DEF InsertOrder, NumbersInv, NumbersReadFollow
  <2>2. \A m \in Numbers :
          order'[m] = IF m = n THEN [is |-> TRUE, id |-> form[p].id, chosen |-> form[p].who]
                      ELSE order[m]
    BY <1>0, <1>7 DEF InsertOrder
  <2>3. Used' = Used \cup {n}
    BY <2>1, <2>2 DEF Used
  <2>4. \A q \in Procs : task'[q] = IF q = p THEN Logging(n) ELSE task[q]
    BY <1>0, <1>7 DEF InsertOrder
  <2> HIDE DEF n
  <2>5. NumbersReadFollow'
    BY <2>3, <2>4 DEF NumbersInv, NumbersReadFollow, At, Logging
  <2>6. NumbersFollow'
    <3>1. ASSUME NEW m \in 1..n PROVE m \in Used \cup {n}
      <4>1. CASE m = n
        BY <4>1
      <4>2. CASE m # n
        <5>1. n - 1 \in Used /\ m \in 1..n - 1
          BY <2>1, <4>2
        <5> QED
          BY <5>1 DEF NumbersInv, NumbersFollow
      <4> QED
        BY <4>1, <4>2
    <3> QED
      BY <2>3, <3>1 DEF NumbersInv, NumbersFollow
  <2> QED
    BY <2>5, <2>6
<1> QED
  BY <1>1, <1>2, <1>4, <1>5, <1>6, <1>7 DEF Next

(* The numbers of orders follow one another, for any number of instances   *)
(* and orders (db_create_purchase_order, db_create_dispatch_order).        *)
THEOREM NumbersAlwaysFollow == Spec => []NumbersFollow
<1>1. NumbersInv => NumbersFollow
  BY DEF NumbersInv
<1> QED
  BY <1>1, InitNumbers, NumbersStep, PTL DEF Spec

-----------------------------------------------------------------------------
(* Rows that are referred to.                                              *)

LEMMA InitReferences == Init => ReferencesPresent
<1> SUFFICES ASSUME Init PROVE ReferencesPresent
  OBVIOUS
<1>1. \A n \in Numbers : order[n].id = 0
  BY DEF Init, OldOrder, NoOrder
<1> QED
  BY <1>1 DEF Init, ReferencesPresent, Used

LEMMA ReferencesStep == TypeOK /\ ReferencesPresent /\ [Next]_vars => ReferencesPresent'
<1> SUFFICES ASSUME TypeOK, ReferencesPresent, [Next]_vars PROVE ReferencesPresent'
  OBVIOUS
<1>0. /\ partner \in [Ids -> Rows] /\ order \in [Numbers -> Orders]
      /\ supplied.id \in 0..MaxId
      /\ \A n \in Numbers : order[n].id \in 0..MaxId
  BY DEF TypeOK, Orders
<1>1. ASSUME UNCHANGED <<partner, order, supplied>> PROVE ReferencesPresent'
  BY <1>1 DEF ReferencesPresent, Used, Present
\* No row that was there goes.
<1>2. ASSUME UNCHANGED <<order, supplied>>, \A i \in Ids : Present(i) => Present(i)'
      PROVE  ReferencesPresent'
  BY <1>0, <1>2 DEF ReferencesPresent, Used
<1>3. ASSUME NEW p \in Procs,
             \/ Start(p) \/ Backfill(p) \/ Stop(p) \/ LogCreation(p) \/ LogOther(p)
             \/ \E kind \in {"add", "order"} : OpenForm(p, kind)
             \/ \E i \in Ids : OpenEdit(p, i) \/ CountUses(p, i) \/ ChoosePartner(p, i)
             \/ Cancel(p) \/ OrderRefused(p) \/ \E n \in Numbers : ReadNumber(p, n)
      PROVE  ReferencesPresent'
  <2>1. UNCHANGED <<partner, order, supplied>>
    BY <1>3 DEF Start, Backfill, Stop, LogCreation, LogOther, OpenForm, OpenEdit, CountUses,
                ChoosePartner, Cancel, OrderRefused, ReadNumber, tables
  <2> QED
    BY <1>1, <2>1
<1>4. ASSUME NEW p \in Procs, NEW t \in Parties, CreatePartner(p, t)
      PROVE  ReferencesPresent'
  <2>1. PICK k \in Ids : partner' = [partner EXCEPT ![k] = [who |-> t, shows |-> t]]
    BY <1>4 DEF CreatePartner
  <2>2. \A i \in Ids : Present(i) => Present(i)'
    BY <1>0, <2>1, NamesAssumption DEF Present
  <2> QED
    BY <1>2, <1>4, <2>2 DEF CreatePartner
<1>5. ASSUME NEW p \in Procs, UpdatePartner(p)
      PROVE  ReferencesPresent'
  <2>1. \/ partner' = partner
        \/ partner' = [partner EXCEPT ![form[p].id] =
                         [partner[form[p].id] EXCEPT !.shows = form[p].who]]
    BY <1>5 DEF UpdatePartner
  <2>2. \A i \in Ids : partner[i] \in Rows
    BY <1>0
  <2>3. \A i \in Ids : partner'[i].who = partner[i].who
    BY <1>0, <2>1, <2>2 DEF Rows
  <2> QED
    BY <1>2, <1>5, <2>3 DEF UpdatePartner, Present
<1>6. ASSUME NEW p \in Procs, DeletePartner(p)
      PROVE  ReferencesPresent'
  <2>1. CASE partner' = partner
    BY <1>1, <1>6, <2>1 DEF DeletePartner
  <2>2. CASE ~Referenced(task[p].id) /\ partner' = [partner EXCEPT ![task[p].id] = NoRow]
    <3>1. \A i \in Ids : i # task[p].id => partner'[i] = partner[i]
      BY <1>0, <2>2
    <3>2. UNCHANGED <<order, supplied>>
      BY <1>6 DEF DeletePartner
    <3> QED
      BY <1>0, <2>2, <3>1, <3>2 DEF ReferencesPresent, Referenced, Used, Present
  <2> QED
    BY <1>6, <2>1, <2>2 DEF DeletePartner
<1>7. ASSUME NEW p \in Procs, InsertOrder(p)
      PROVE  ReferencesPresent'
  <2>1. \A m \in Numbers : m # task[p].number => order'[m] = order[m]
    BY <1>0, <1>7 DEF InsertOrder
  <2>2. task[p].number \in Numbers /\ order'[task[p].number].id = form[p].id
    BY <1>0, <1>7 DEF InsertOrder
  <2>3. form[p].id # 0 => Present(form[p].id)
    BY <1>7 DEF InsertOrder
  <2>4. UNCHANGED <<partner, supplied>>
    BY <1>7 DEF InsertOrder
  <2> QED
    BY <2>1, <2>2, <2>3, <2>4 DEF ReferencesPresent, Used, Present
<1>8. ASSUME NEW i \in 0..MaxId, NEW a \in BOOLEAN, SaveProduct(i, a)
      PROVE  ReferencesPresent'
  BY <1>8 DEF SaveProduct, ReferencesPresent, Used, Present
<1>9. CASE UNCHANGED vars
  BY <1>1, <1>9 DEF vars, tables
<1> QED
  BY <1>3, <1>4, <1>5, <1>6, <1>7, <1>8, <1>9 DEF Next

(* No order and no product refers to a partner that is gone, for any       *)
(* number of instances, partners and orders (db_delete_supplier,           *)
(* db_delete_customer).                                                    *)
THEOREM ReferencesAlwaysPresent == Spec => []ReferencesPresent
BY OfficeTyped, InitReferences, ReferencesStep, PTL DEF Spec

-----------------------------------------------------------------------------
(* Who is reached.                                                         *)

\* t was entered, and is in row i if it is anywhere.
Belongs(t, i) == t \in known /\ \A j \in Ids : partner[j].who = t => j = i

RowsBelong ==
  \A i \in Ids :
    /\ Present(i) => Belongs(partner[i].who, i) /\ Belongs(partner[i].shows, i)
    /\ ~Present(i) => partner[i].shows = Nobody

OrdersBelong == \A n \in Used : order[n].id # 0 => Belongs(order[n].chosen, order[n].id)

FormsBelong ==
  \A p \in Procs :
    /\ form[p].id # 0 => Belongs(form[p].who, form[p].id)
    /\ form[p].kind = "edit" => form[p].id # 0

PartnersInv == TypeOK /\ RowsBelong /\ OrdersBelong /\ FormsBelong

(* What is invariant is enough.                                            *)
LEMMA PartnersFound == PartnersInv => OnlyTheDeletedAreMistaken
<1> SUFFICES ASSUME PartnersInv PROVE OnlyTheDeletedAreMistaken
  OBVIOUS
<1>1. ASSUME NEW i \in Ids, partner[i].shows # partner[i].who
      PROVE  Gone(partner[i].shows)
  <2>1. Present(i)
    BY <1>1 DEF PartnersInv, RowsBelong, Present
  <2> QED
    BY <1>1, <2>1 DEF PartnersInv, RowsBelong, Belongs, Gone
<1>2. ASSUME NEW n \in Used, order[n].id # 0, partner[order[n].id].who # order[n].chosen
      PROVE  Gone(order[n].chosen)
  BY <1>2 DEF PartnersInv, OrdersBelong, Belongs, Gone
<1> QED
  BY <1>1, <1>2 DEF OnlyTheDeletedAreMistaken

LEMMA InitPartners == Init => PartnersInv
<1> SUFFICES ASSUME Init PROVE RowsBelong /\ OrdersBelong /\ FormsBelong
  BY InitType DEF PartnersInv
<1>1. OrdersBelong
  <2>1. \A n \in Numbers : order[n].id = 0
    BY DEF Init, OldOrder, NoOrder
  <2> QED
    BY <2>1 DEF OrdersBelong, Used
<1>2. FormsBelong
  BY DEF Init, FormsBelong, NoForm
<1>3. RowsBelong
  <2> DEFINE t == CHOOSE x \in known : TRUE
  <2>1. known # {} => t \in known /\ t # Nobody
    BY NamesAssumption DEF Init
  <2>2. \A i \in Ids : partner[i] = IF i = 1 /\ known # {} THEN [who |-> t, shows |-> t] ELSE NoRow
    BY DEF Init
  <2> HIDE DEF t
  <2> QED
    BY <2>1, <2>2 DEF RowsBelong, Present, Belongs, NoRow
<1> QED
  BY <1>1, <1>2, <1>3

(* Rows are emptied, or taken by a partner that is new: whoever belongs to *)
(* a row still does.                                                       *)
LEMMA StillBelongs ==
  ASSUME PartnersInv, NEW new, known \subseteq known',
         \A t \in new : t \notin known,
         \A j \in Ids : partner'[j].who \in {partner[j].who, Nobody} \cup new
  PROVE  \A t, i : Belongs(t, i) => Belongs(t, i)'
BY NamesAssumption DEF Belongs, PartnersInv, TypeOK

LEMMA PartnersStep == PartnersInv /\ [Next]_vars => PartnersInv'
<1> SUFFICES ASSUME PartnersInv, [Next]_vars
             PROVE  RowsBelong' /\ OrdersBelong' /\ FormsBelong'
  BY TypeStep DEF PartnersInv
<1>0. /\ partner \in [Ids -> Rows] /\ order \in [Numbers -> Orders]
      /\ form \in [Procs -> Forms] /\ known \in SUBSET Parties
  BY DEF PartnersInv, TypeOK
<1>1. ASSUME UNCHANGED <<partner, order, known>>
      PROVE  RowsBelong' /\ OrdersBelong'
  BY <1>1 DEF PartnersInv, RowsBelong, OrdersBelong, Belongs, Used, Present
<1>2. ASSUME UNCHANGED <<partner, known, form>>
      PROVE  FormsBelong'
  BY <1>2 DEF PartnersInv, FormsBelong, Belongs
\* The form of p is closed, the others stay.
<1>3. ASSUME NEW p \in Procs, Close(p), \A t, i : Belongs(t, i) => Belongs(t, i)'
      PROVE  FormsBelong'
  <2>1. form'[p] = NoForm /\ \A q \in Procs : q # p => form'[q] = form[q]
    BY <1>0, <1>3 DEF Close
  <2> QED
    BY <1>3, <2>1 DEF PartnersInv, FormsBelong, NoForm
\* The form of p is filled from row i.
<1>4. ASSUME NEW p \in Procs, NEW i \in Ids, OpenEdit(p, i) \/ ChoosePartner(p, i)
      PROVE  FormsBelong'
  <2>1. /\ \A q \in Procs : q # p => form'[q] = form[q]
        /\ form'[p].id = i /\ form'[p].who = partner[i].who
        /\ Present(i) /\ UNCHANGED <<partner, known>>
    <3>1. CASE OpenEdit(p, i)
      BY <1>0, <3>1 DEF OpenEdit, tables
    <3>2. CASE ChoosePartner(p, i)
      <4>1. form' = [form EXCEPT ![p] = [form[p] EXCEPT !.id = i, !.who = partner[i].who]]
        BY <3>2 DEF ChoosePartner
      <4>2. /\ [form[p] EXCEPT !.id = i, !.who = partner[i].who].id = i
            /\ [form[p] EXCEPT !.id = i, !.who = partner[i].who].who = partner[i].who
        BY <1>0 DEF Forms
      <4> QED
        BY <1>0, <3>2, <4>1, <4>2 DEF ChoosePartner, tables
    <3> QED
      BY <1>4, <3>1, <3>2
  <2>2. Belongs(partner[i].who, i) /\ i # 0
    BY <2>1 DEF PartnersInv, RowsBelong
  <2> QED
    BY <2>1, <2>2 DEF PartnersInv, FormsBelong, Belongs
<1>5. ASSUME NEW p \in Procs, NEW kind \in {"add", "order"}, OpenForm(p, kind)
      PROVE  FormsBelong'
  <2>1. form' = [form EXCEPT ![p] = [form[p] EXCEPT !.kind = kind]] /\ form[p] = NoForm
    BY <1>5 DEF OpenForm
  <2>2. [form[p] EXCEPT !.kind = kind].id = 0 /\ [form[p] EXCEPT !.kind = kind].kind # "edit"
    BY <1>0, <2>1 DEF Forms, NoForm
  <2> QED
    BY <1>0, <1>5, <2>1, <2>2 DEF OpenForm, tables, PartnersInv, FormsBelong, Belongs
<1>6. ASSUME NEW p \in Procs, NEW t \in Parties, CreatePartner(p, t)
      PROVE  RowsBelong' /\ OrdersBelong' /\ FormsBelong'
  <2>1. PICK k \in Ids : IsNextId(k) /\ partner' = [partner EXCEPT ![k] = [who |-> t, shows |-> t]]
    BY <1>6 DEF CreatePartner
  <2>2. /\ t \notin known /\ known' = known \cup {t} /\ t # Nobody
        /\ Close(p) /\ UNCHANGED order
    BY <1>6, NamesAssumption DEF CreatePartner
  <2>3. \A j \in Ids : partner'[j] = IF j = k THEN [who |-> t, shows |-> t] ELSE partner[j]
    BY <1>0, <2>1
  <2>4. \A u, i : Belongs(u, i) => Belongs(u, i)'
    <3>1. /\ known \subseteq known' /\ \A x \in {t} : x \notin known
          /\ \A j \in Ids : partner'[j].who \in {partner[j].who, Nobody} \cup {t}
      BY <2>2, <2>3
    <3> QED
      BY <3>1, StillBelongs
  <2>5. Belongs(t, k)'
    <3>1. \A j \in Ids : partner[j].who # t
      BY <2>2 DEF PartnersInv, RowsBelong, Belongs, Present
    <3> QED
      BY <2>2, <2>3, <3>1 DEF Belongs
  <2>6. RowsBelong'
    BY <2>2, <2>3, <2>4, <2>5 DEF PartnersInv, RowsBelong, Present
  <2>7. OrdersBelong'
    BY <2>2, <2>4 DEF PartnersInv, OrdersBelong, Used
  <2> QED
    BY <1>3, <2>2, <2>4, <2>6, <2>7
<1>7. ASSUME NEW p \in Procs, UpdatePartner(p)
      PROVE  RowsBelong' /\ OrdersBelong' /\ FormsBelong'
  <2> DEFINE f == form[p]
  <2>1. UNCHANGED <<order, known>> /\ Close(p) /\ f.kind = "edit"
    BY <1>7 DEF UpdatePartner
  <2>2. f.id \in Ids /\ Belongs(f.who, f.id)
    <3>1. f.id \in 0..MaxId /\ f.id # 0
      BY <1>0, <2>1 DEF Forms, PartnersInv, FormsBelong
    <3> QED
      BY <3>1 DEF PartnersInv, FormsBelong
  <2>3. \A j \in Ids : /\ partner'[j].who = partner[j].who
                       /\ \/ partner'[j].shows = partner[j].shows
                          \/ j = f.id /\ Present(j) /\ partner'[j].shows = f.who
    <3>1. \/ partner' = partner
          \/ /\ Present(f.id)
             /\ partner' = [partner EXCEPT ![f.id] = [partner[f.id] EXCEPT !.shows = f.who]]
      BY <1>7 DEF UpdatePartner
    <3>2. \A j \in Ids : partner[j] \in Rows
      BY <1>0
    <3> QED
      BY <1>0, <2>2, <3>1, <3>2 DEF Rows
  <2> HIDE DEF f
  <2>4. \A u, i : Belongs(u, i) => Belongs(u, i)'
    BY <2>1, <2>3 DEF Belongs
  <2>5. RowsBelong'
    BY <2>2, <2>3, <2>4 DEF PartnersInv, RowsBelong, Present
  <2>6. OrdersBelong'
    BY <2>1, <2>4 DEF PartnersInv, OrdersBelong, Used
  <2> QED
    BY <1>3, <2>1, <2>4, <2>5, <2>6
<1>8. ASSUME NEW p \in Procs, DeletePartner(p)
      PROVE  RowsBelong' /\ OrdersBelong' /\ FormsBelong'
  <2>1. UNCHANGED <<order, known, form>>
    BY <1>8 DEF DeletePartner
  <2>2. \A j \in Ids : partner'[j] = partner[j] \/ partner'[j] = NoRow
    BY <1>0, <1>8 DEF DeletePartner
  <2>3. \A u, i : Belongs(u, i) => Belongs(u, i)'
    <3>1. \A j \in Ids : partner'[j].who \in {partner[j].who, Nobody}
      BY <2>2 DEF NoRow
    <3>2. \A t \in known : t # Nobody
      BY <1>0, NamesAssumption
    <3> QED
      BY <2>1, <3>1, <3>2 DEF Belongs
  <2>4. RowsBelong'
    BY <2>2, <2>3 DEF PartnersInv, RowsBelong, Present, NoRow
  <2> QED
    BY <2>1, <2>3, <2>4 DEF PartnersInv, OrdersBelong, FormsBelong, Used
<1>9. ASSUME NEW p \in Procs, InsertOrder(p)
      PROVE  RowsBelong' /\ OrdersBelong' /\ FormsBelong'
  <2>1. UNCHANGED <<partner, known>> /\ Close(p) /\ task[p].number \in Numbers
    BY <1>9 DEF InsertOrder
  <2>2. \A m \in Numbers :
          order'[m] = IF m = task[p].number
                      THEN [is |-> TRUE, id |-> form[p].id, chosen |-> form[p].who]
                      ELSE order[m]
    BY <1>0, <1>9 DEF InsertOrder
  <2>3. \A u, i : Belongs(u, i) => Belongs(u, i)'
    BY <2>1 DEF Belongs
  <2>4. RowsBelong'
    BY <2>1, <2>3 DEF PartnersInv, RowsBelong, Present
  <2>5. OrdersBelong'
    BY <2>1, <2>2, <2>3 DEF PartnersInv, OrdersBelong, FormsBelong, Used
  <2> QED
    BY <1>3, <2>1, <2>3, <2>4, <2>5
<1>10. ASSUME NEW p \in Procs, Stop(p) \/ Cancel(p)
      PROVE  RowsBelong' /\ OrdersBelong' /\ FormsBelong'
  <2>1. UNCHANGED <<partner, order, known>> /\ Close(p)
    BY <1>10 DEF Stop, Cancel, tables
  <2>2. \A u, i : Belongs(u, i) => Belongs(u, i)'
    BY <2>1 DEF Belongs
  <2> QED
    BY <1>1, <1>3, <2>1, <2>2
<1>11. ASSUME NEW p \in Procs,
              \/ Start(p) \/ Backfill(p) \/ LogCreation(p) \/ LogOther(p) \/ OrderRefused(p)
              \/ \E i \in Ids : CountUses(p, i)
              \/ \E n \in Numbers : ReadNumber(p, n)
       PROVE  RowsBelong' /\ OrdersBelong' /\ FormsBelong'
  <2>1. UNCHANGED <<partner, order, known, form>>
    BY <1>11 DEF Start, Backfill, LogCreation, LogOther, OrderRefused, CountUses, ReadNumber,
                 tables
  <2> QED
    BY <1>1, <1>2, <2>1
<1>12. ASSUME NEW i \in 0..MaxId, NEW a \in BOOLEAN, SaveProduct(i, a)
       PROVE  RowsBelong' /\ OrdersBelong' /\ FormsBelong'
  BY <1>1, <1>2, <1>12 DEF SaveProduct
<1>13. CASE UNCHANGED vars
  BY <1>1, <1>2, <1>13 DEF vars, tables
<1>14. ASSUME NEW p \in Procs,
              \/ \E kind \in {"add", "order"} : OpenForm(p, kind)
              \/ \E i \in Ids : OpenEdit(p, i) \/ ChoosePartner(p, i)
       PROVE  RowsBelong' /\ OrdersBelong' /\ FormsBelong'
  <2>1. UNCHANGED <<partner, order, known>>
    BY <1>14 DEF OpenForm, OpenEdit, ChoosePartner, tables
  <2> QED
    BY <1>1, <1>4, <1>5, <1>14, <2>1
<1> QED
  BY <1>6, <1>7, <1>8, <1>9, <1>10, <1>11, <1>12, <1>13, <1>14 DEF Next

(* A stale form mistakes only a partner that was deleted, for any number   *)
(* of instances, partners and ids (db_update_supplier,                     *)
(* db_create_purchase_order and their twins of customers).                 *)
THEOREM OnlyTheDeletedAreEverMistaken == Spec => []OnlyTheDeletedAreMistaken
BY InitPartners, PartnersStep, PartnersFound, PTL DEF Spec

-----------------------------------------------------------------------------
(***************************************************************************)
(* The journal of Office has the creation of everything once, and of       *)
(* nothing twice, for any number of instances that run one at a time, of   *)
(* partners and of orders.                                                 *)
(*                                                                         *)
(* An entry is written in a commit after the one that makes the thing it   *)
(* tells of, so what is invariant is that, as long as one instance runs at *)
(* a time, the entries it has still to write are of things that have none; *)
(* and, as long as nothing was cut short, that these are all that miss.    *)
(***************************************************************************)

Made == {Goods} \cup known \cup Used

Now == {Goods} \cup Used \cup ({partner[i].who : i \in Ids} \ {Nobody})

AllOff == \A p \in Procs : At(p, "off")

Alone == \A p, q \in Procs : ~At(p, "off") /\ ~At(q, "off") => p = q

Old == {Goods} \cup OldThings("partners") \cup OldThings("orders")

\* The entries that an instance has still to write.
Coming(p) ==
  CASE At(p, "products") -> Old
    [] At(p, "partners") -> OldThings("partners") \cup OldThings("orders")
    [] At(p, "users") \/ At(p, "orders") -> OldThings("orders")
    [] At(p, "log") -> {task[p].thing}
    [] OTHER -> {}

LoggedMade == \A p \in Procs : At(p, "log") => task[p].thing \in Made

EntriesMade == \A x \in Things : entries[x] # 0 => written /\ x \in Made

ComingLacks == \A p \in Procs : \A x \in Coming(p) : entries[x] = 0

EachOnce == \A x \in Things : entries[x] <= 1

NowEntered ==
  \A x \in Now :
    \/ entries[x] # 0
    \/ \E p \in Procs : x \in Coming(p)
    \/ x \in Old /\ ~written /\ AllOff

JournalInv ==
  /\ LoggedMade
  /\ EntriesMade
  /\ ~overlap => Alone /\ ComingLacks /\ EachOnce /\ (~cut => NowEntered)

(* What each commit of the backfill enters.                                *)
LEMMA OldValues ==
  /\ OldThings("products") = {Goods}
  /\ OldThings("partners") = {t \in Parties : side = "purchase" /\ \E i \in Ids : partner[i].who = t}
  /\ OldThings("users") = {}
  /\ OldThings("orders") = {n \in Used : side = "purchase"}
BY DEF OldThings

LEMMA InitJournal == Init => JournalInv
<1> SUFFICES ASSUME Init PROVE JournalInv
  OBVIOUS
<1>1. \A p \in Procs : task[p].next = "off"
  BY DEF Init, Stopped, Rest
<1>2. \A p \in Procs : Coming(p) = {}
  BY <1>1 DEF Coming, At
<1>3. \A x \in Things : entries[x] = 0
  BY DEF Init
<1>4. NowEntered
  <2>1. CASE side = "purchase"
    <3>1. \A i \in Ids : partner[i].who \in Parties \cup {Nobody}
      BY InitType DEF TypeOK, Rows, People
    <3>2. Now \subseteq Old
      BY <2>1, <3>1, OldValues DEF Now, Old
    <3> QED
      BY <1>1, <3>2 DEF Init, NowEntered, AllOff, At
  <2>2. CASE side # "purchase"
    <3>1. Used = {}
      <4>1. order = [n \in Numbers |-> NoOrder]
        BY <2>2 DEF Init
      <4> QED
        BY <4>1 DEF Used, NoOrder
    <3>2. \A i \in Ids : partner[i].who = Nobody
      BY <2>2 DEF Init, NoRow
    <3> QED
      BY <1>1, <3>1, <3>2 DEF Init, NowEntered, Now, Old, AllOff, At
  <2> QED
    BY <2>1, <2>2
<1> QED
  BY <1>1, <1>2, <1>3, <1>4
     DEF JournalInv, LoggedMade, EntriesMade, Alone, ComingLacks, EachOnce, At

(* What there is was made, and is a thing.                                 *)
LEMMA NowMade ==
  ASSUME PartnersInv
  PROVE  Now \subseteq Made /\ Made \subseteq Things
<1>1. \A i \in Ids : partner[i].who # Nobody => partner[i].who \in known
  BY DEF PartnersInv, RowsBelong, Belongs, Present
<1> QED
  BY <1>1 DEF PartnersInv, TypeOK, Now, Made, Things, Used

(* What the backfill enters was made before it started.                    *)
LEMMA OldMade ==
  ASSUME PartnersInv
  PROVE  /\ OldThings("products") = {Goods}
         /\ OldThings("users") = {}
         /\ OldThings("partners") \subseteq Made \cap Parties
         /\ OldThings("orders") \subseteq Made \cap Numbers
<1>1. OldThings("partners") \subseteq known
  <2>1. \A i \in Ids : partner[i].who \in Parties => partner[i].who \in known
    BY NamesAssumption DEF PartnersInv, RowsBelong, Belongs, Present
  <2> QED
    BY <2>1, OldValues
<1> QED
  BY <1>1, OldValues DEF PartnersInv, TypeOK, Made, Used

(* The others are stopped, and have nothing to enter.                      *)
LEMMA OthersOff ==
  ASSUME Alone, NEW p \in Procs, ~At(p, "off")
  PROVE  \A q \in Procs : q # p => At(q, "off") /\ Coming(q) = {}
BY DEF Alone, Coming, At

(* A running instance with nothing to enter takes a step that makes        *)
(* nothing, or one that is cut short.                                      *)
LEMMA QuietJournal ==
  ASSUME JournalInv, NEW p \in Procs, ~At(p, "off"),
         UNCHANGED <<entries, overlap, Made>>, Now' \subseteq Now, written => written',
         cut' \/ (UNCHANGED cut /\ Coming(p) = {}),
         Coming(p)' = {}, ~At(p, "log")',
         \A q \in Procs : q # p => task'[q] = task[q]
  PROVE  JournalInv'
<1>1. LoggedMade' /\ EntriesMade'
  BY DEF JournalInv, LoggedMade, EntriesMade, At
<1>2. ASSUME ~overlap
      PROVE  Alone' /\ ComingLacks' /\ EachOnce' /\ (~cut' => NowEntered')
  <2>1. Alone /\ ComingLacks /\ EachOnce /\ (~cut => NowEntered)
    BY <1>2 DEF JournalInv
  <2>2. \A q \in Procs : q # p => task[q].next = "off" /\ Coming(q) = {}
    BY <2>1, OthersOff DEF At
  <2>3. \A q \in Procs : q # p => task'[q].next = "off"
    BY <2>2
  <2>4. \A q \in Procs : Coming(q)' = {}
    BY <2>3 DEF Coming, At
  <2>5. Alone'
    BY <2>3 DEF Alone, At
  <2>6. ASSUME ~cut' PROVE NowEntered'
    <3>1. \A x \in Now : entries[x] # 0
      BY <2>1, <2>2, <2>6 DEF NowEntered, AllOff
    <3> QED
      BY <3>1 DEF NowEntered
  <2> QED
    BY <2>1, <2>4, <2>5, <2>6 DEF ComingLacks, EachOnce
<1> QED
  BY <1>1, <1>2 DEF JournalInv

(* A running instance that has nothing to enter makes a thing, and is      *)
(* about to enter it.                                                      *)
LEMMA MakingJournal ==
  ASSUME PartnersInv, JournalInv, NEW p \in Procs, At(p, "idle") \/ At(p, "insert"),
         NEW x \in Things \ Made,
         UNCHANGED <<entries, overlap, written, cut>>,
         Made' = Made \cup {x}, Now' \subseteq Now \cup {x},
         task' = [task EXCEPT ![p] = Logging(x)]
  PROVE  JournalInv'
<1>0. /\ task'[p].next = "log" /\ task'[p].thing = x
      /\ \A q \in Procs : q # p => task'[q] = task[q]
  BY DEF PartnersInv, TypeOK, Logging
<1>1. LoggedMade' /\ EntriesMade'
  BY <1>0 DEF JournalInv, LoggedMade, EntriesMade, At
<1>2. entries[x] = 0
  BY DEF JournalInv, EntriesMade
<1>3. ASSUME ~overlap
      PROVE  Alone' /\ ComingLacks' /\ EachOnce' /\ (~cut' => NowEntered')
  <2>1. Alone /\ EachOnce /\ (~cut => NowEntered) /\ ~At(p, "off")
    BY <1>3 DEF JournalInv, At
  <2>2. \A q \in Procs : q # p => task[q].next = "off" /\ Coming(q) = {}
    BY <2>1, OthersOff DEF At
  <2>3. \A q \in Procs : q # p => task'[q].next = "off"
    BY <1>0, <2>2
  <2>4. Coming(p)' = {x} /\ \A q \in Procs : q # p => Coming(q)' = {}
    BY <1>0, <2>3 DEF Coming, At
  <2>5. Alone'
    BY <2>3 DEF Alone, At
  <2>6. ASSUME ~cut PROVE NowEntered'
    <3>1. Coming(p) = {}
      BY DEF Coming, At
    <3>2. \A y \in Now : entries[y] # 0
      BY <2>1, <2>2, <2>6, <3>1 DEF NowEntered, AllOff
    <3> QED
      BY <2>4, <3>2 DEF NowEntered
  <2> QED
    BY <1>2, <2>1, <2>4, <2>5, <2>6 DEF ComingLacks, EachOnce
<1> QED
  BY <1>1, <1>3 DEF JournalInv

(* A running instance enters some of what it has to, or is cut short.      *)
LEMMA EnteringJournal ==
  ASSUME PartnersInv, JournalInv, NEW p \in Procs, ~At(p, "off"),
         NEW new \in SUBSET Coming(p),
         UNCHANGED <<overlap, Made, Now>>,
         \/ /\ \A x \in Things : entries'[x] = entries[x] + IF x \in new THEN 1 ELSE 0
            /\ written' = (written \/ new # {})
            /\ UNCHANGED cut
         \/ cut' /\ UNCHANGED <<entries, written>>,
         Coming(p)' = Coming(p) \ new, ~At(p, "off")', ~At(p, "log")',
         \A q \in Procs : q # p => task'[q] = task[q]
  PROVE  JournalInv'
<1>0. entries \in [Things -> Nat] /\ Made \subseteq Things /\ Now \subseteq Made
  BY NowMade DEF PartnersInv, TypeOK
<1>1. new \subseteq Made
  BY OldMade DEF JournalInv, LoggedMade, Coming, Old, Made
<1>2. \A x \in Things : entries'[x] = entries[x] \/ (x \in new /\ entries'[x] = entries[x] + 1)
  BY <1>0
<1>3. LoggedMade' /\ EntriesMade'
  <2>1. LoggedMade'
    BY DEF JournalInv, LoggedMade, At
  <2>2. ASSUME NEW x \in Things, entries'[x] # 0
        PROVE  written' /\ x \in Made
    <3>1. entries[x] # 0 => written /\ x \in Made
      BY DEF JournalInv, EntriesMade
    <3>2. CASE entries' = entries /\ written' = written
      BY <2>2, <3>1, <3>2
    <3>3. CASE written' = (written \/ new # {})
      <4>1. entries[x] # 0 \/ x \in new
        BY <1>0, <1>2, <2>2
      <4>2. written \/ new # {}
        BY <3>1, <4>1
      <4> QED
        BY <1>1, <3>1, <3>3, <4>1, <4>2
    <3> QED
      BY <3>2, <3>3
  <2> QED
    BY <2>1, <2>2 DEF EntriesMade
<1>4. ASSUME ~overlap
      PROVE  Alone' /\ ComingLacks' /\ EachOnce' /\ (~cut' => NowEntered')
  <2>1. Alone /\ ComingLacks /\ EachOnce /\ (~cut => NowEntered)
    BY <1>4 DEF JournalInv
  <2>2. \A q \in Procs : q # p => task[q].next = "off" /\ Coming(q) = {}
    BY <2>1, OthersOff DEF At
  <2>3. \A q \in Procs : q # p => task'[q].next = "off"
    BY <2>2
  <2>4. \A q \in Procs : q # p => Coming(q)' = {}
    BY <2>3 DEF Coming, At
  <2>5. Alone'
    BY <2>3 DEF Alone, At
  <2>6. ComingLacks' /\ EachOnce'
    <3>1. \A x \in Coming(p) : entries[x] = 0
      BY <2>1 DEF ComingLacks
    <3>2. Coming(p) \subseteq Things
      BY <1>0, OldMade DEF JournalInv, LoggedMade, Coming, Old, Made
    <3>3. EachOnce'
      BY <1>2, <2>1, <3>1 DEF EachOnce
    <3>4. ComingLacks'
      BY <1>2, <2>4, <3>1, <3>2 DEF ComingLacks
    <3> QED
      BY <3>3, <3>4
  <2>7. ASSUME ~cut' PROVE NowEntered'
    <3>1. /\ ~cut /\ \A x \in Things : entries'[x] = entries[x] + IF x \in new THEN 1 ELSE 0
      BY <2>7
    <3>2. \A x \in Now : entries[x] # 0 \/ x \in Coming(p)
      BY <2>1, <2>2, <3>1 DEF NowEntered, AllOff
    <3>3. \A x \in Now : entries'[x] # 0 \/ x \in Coming(p)'
      BY <1>0, <3>1, <3>2
    <3> QED
      BY <3>3 DEF NowEntered
  <2> QED
    BY <2>5, <2>6, <2>7
<1> QED
  BY <1>3, <1>4 DEF JournalInv

(* An instance starts: the journal has everything, or nothing.             *)
LEMMA StartingJournal ==
  ASSUME PartnersInv, JournalInv, NEW p \in Procs, Start(p), UNCHANGED side
  PROVE  JournalInv'
<1>0. /\ task[p].next = "off" /\ UNCHANGED <<entries, written, cut, Made, Now, Old>>
      /\ \A step : UNCHANGED OldThings(step)
  BY DEF Start, At, tables, Made, Now, Old, OldThings, Used
<1>1. task'[p].next = IF written THEN "idle" ELSE "products"
  BY NextTask DEF Start, PartnersInv
<1>2. \A q \in Procs : q # p => task'[q] = task[q]
  BY NextTask DEF Start, PartnersInv
<1>3. LoggedMade' /\ EntriesMade'
  BY <1>0, <1>1, <1>2 DEF JournalInv, LoggedMade, EntriesMade, At
<1>4. ASSUME ~overlap'
      PROVE  Alone' /\ ComingLacks' /\ EachOnce' /\ (~cut' => NowEntered')
  <2>1. ~overlap /\ AllOff
    BY <1>4 DEF Start, AllOff, At, PartnersInv, TypeOK
  <2>2. EachOnce /\ EntriesMade /\ (~cut => NowEntered)
    BY <2>1 DEF JournalInv
  <2>3. \A q \in Procs : Coming(q) = {}
    BY <2>1 DEF AllOff, Coming, At
  <2>4. \A q \in Procs : q # p => task'[q].next = "off"
    BY <1>2, <2>1 DEF AllOff, At
  <2>5. \A q \in Procs : q # p => Coming(q)' = {}
    BY <2>4 DEF Coming, At
  <2>6. Alone'
    BY <2>4 DEF Alone, At
  <2>7. CASE written
    <3>1. Coming(p)' = {}
      BY <1>1, <2>7 DEF Coming, At
    <3>2. ~cut => \A x \in Now : entries[x] # 0
      BY <2>2, <2>3, <2>7 DEF NowEntered
    <3> QED
      BY <1>0, <2>2, <2>5, <2>6, <3>1, <3>2 DEF ComingLacks, EachOnce, NowEntered
  <2>8. CASE ~written
    <3>1. Coming(p)' = Old
      BY <1>0, <1>1, <2>8 DEF Coming, At
    <3>2. \A x \in Things : entries[x] = 0
      BY <2>2, <2>8 DEF EntriesMade
    <3>3. Now \subseteq Things /\ Old \subseteq Things
      BY NowMade, OldMade DEF Old, Made
    <3>4. ~cut => Now \subseteq Old
      BY <2>2, <2>3, <3>2, <3>3 DEF NowEntered
    <3>5. ComingLacks'
      BY <1>0, <2>5, <3>1, <3>2, <3>3 DEF ComingLacks
    <3>6. ~cut' => NowEntered'
      BY <1>0, <3>1, <3>4 DEF NowEntered
    <3> QED
      BY <1>0, <2>2, <2>6, <3>5, <3>6 DEF EachOnce
  <2> QED
    BY <2>7, <2>8
<1> QED
  BY <1>3, <1>4 DEF JournalInv

(* A commit of the backfill, the entry of a thing just made.               *)
LEMMA EntryStep ==
  ASSUME PartnersInv, JournalInv, NEW p \in Procs, Backfill(p) \/ LogCreation(p),
         UNCHANGED side
  PROVE  JournalInv'
<1>0. /\ UNCHANGED <<overlap, Made, Now>>
      /\ \A step : UNCHANGED OldThings(step)
  BY DEF Backfill, LogCreation, Made, Now, Used, OldThings
<1>1. CASE LogCreation(p)
  <2> DEFINE x == task[p].thing
  <2>1. task[p].next = "log" /\ x \in Things /\ entries \in [Things -> Nat]
    BY <1>1 DEF LogCreation, At, PartnersInv, TypeOK, Tasks
  <2>2. /\ task'[p].next = "idle"
        /\ \A q \in Procs : q # p => task'[q] = task[q]
    BY <1>1, NextTask DEF LogCreation, PartnersInv
  <2>3. Coming(p) = {x} /\ Coming(p)' = {}
    BY <2>1, <2>2 DEF Coming, At
  <2>4. CASE /\ entries' = [entries EXCEPT ![x] = @ + 1]
             /\ written' = TRUE /\ UNCHANGED cut
    <3>1. \A y \in Things : entries'[y] = entries[y] + IF y \in {x} THEN 1 ELSE 0
      BY <2>1, <2>4
    <3>2. written' = (written \/ {x} # {})
      BY <2>4
    <3> HIDE DEF x
    <3>3. {x} \in SUBSET Coming(p) /\ Coming(p)' = Coming(p) \ {x}
      BY <2>3
    <3>4. ~At(p, "off") /\ ~At(p, "off")' /\ ~At(p, "log")'
      BY <2>1, <2>2 DEF At
    <3> QED
      BY <1>0, <2>2, <2>4, <3>1, <3>2, <3>3, <3>4, EnteringJournal
  <2>5. CASE cut' = TRUE /\ UNCHANGED <<entries, written>>
    <3>1. ~At(p, "off") /\ ~At(p, "log")'
      BY <2>1, <2>2 DEF At
    <3> QED
      BY <1>0, <2>2, <2>3, <2>5, <3>1, QuietJournal
  <2> QED
    BY <1>1, <2>4, <2>5 DEF LogCreation
<1>2. CASE Backfill(p)
  <2> DEFINE step == task[p].next
             new == OldThings(step)
  <2>1. step \in {"products", "partners", "users", "orders"}
    BY <1>2 DEF Backfill, After
  <2>2. /\ task'[p].next = After[step]
        /\ \A q \in Procs : q # p => task'[q] = task[q]
    BY <1>2, NextTask DEF Backfill, PartnersInv
  <2>3. After[step] \in {"partners", "users", "orders", "idle"}
    BY <2>1 DEF After
  <2>4. /\ new \in SUBSET Coming(p)
        /\ Coming(p)' = Coming(p) \ new
    <3>1. CASE step = "products"
      <4>1. task'[p].next = "partners"
        BY <2>2, <3>1 DEF After
      <4>2. Coming(p) = Old /\ Coming(p)' = OldThings("partners") \cup OldThings("orders")
        BY <1>0, <3>1, <4>1 DEF Coming, At
      <4> QED
        BY <3>1, <4>2, OldMade, NamesAssumption DEF Old, Numbers
    <3>2. CASE step = "partners"
      <4>1. task'[p].next = "users"
        BY <2>2, <3>2 DEF After
      <4>2. /\ Coming(p) = OldThings("partners") \cup OldThings("orders")
            /\ Coming(p)' = OldThings("orders")
        BY <1>0, <3>2, <4>1 DEF Coming, At
      <4> QED
        BY <3>2, <4>2, OldMade, NamesAssumption DEF Numbers
    <3>3. CASE step = "users"
      <4>1. task'[p].next = "orders"
        BY <2>2, <3>3 DEF After
      <4>2. Coming(p) = OldThings("orders") /\ Coming(p)' = OldThings("orders")
        BY <1>0, <3>3, <4>1 DEF Coming, At
      <4> QED
        BY <3>3, <4>2, OldMade
    <3>4. CASE step = "orders"
      <4>1. task'[p].next = "idle"
        BY <2>2, <3>4 DEF After
      <4>2. Coming(p) = OldThings("orders") /\ Coming(p)' = {}
        BY <1>0, <3>4, <4>1 DEF Coming, At
      <4> QED
        BY <3>4, <4>2
    <3> QED
      BY <2>1, <3>1, <3>2, <3>3, <3>4
  <2>5. \/ /\ \A x \in Things : entries'[x] = entries[x] + IF x \in new THEN 1 ELSE 0
           /\ written' = (written \/ new # {})
           /\ UNCHANGED cut
        \/ cut' /\ UNCHANGED <<entries, written>>
    BY <1>2 DEF Backfill
  <2>6. ~At(p, "off") /\ ~At(p, "off")' /\ ~At(p, "log")'
    BY <2>1, <2>2, <2>3 DEF At
  <2> HIDE DEF new, step
  <2> QED
    BY <1>0, <2>2, <2>4, <2>5, <2>6, EnteringJournal
<1> QED
  BY <1>1, <1>2

LEMMA JournalStep == PartnersInv /\ JournalInv /\ [Next]_vars => JournalInv'
<1> SUFFICES ASSUME PartnersInv, JournalInv, [Next]_vars PROVE JournalInv'
  OBVIOUS
<1>0. TypeOK
  BY DEF PartnersInv
\* Nothing of the journal, the things or the calls.
<1>1. ASSUME UNCHANGED <<side, partner, order, entries, written, task, known, overlap, cut>>
      PROVE  JournalInv'
  <2>1. /\ UNCHANGED <<Made, Now, Old, AllOff>>
        /\ \A p \in Procs : UNCHANGED Coming(p)
    BY <1>1 DEF Made, Now, Old, AllOff, Coming, OldThings, Used, At
  <2> QED
    BY <1>1, <2>1 DEF JournalInv, LoggedMade, EntriesMade, Alone, ComingLacks, EachOnce,
                      NowEntered, At
<1>2. ASSUME NEW p \in Procs, UNCHANGED side,
             Start(p) \/ Backfill(p) \/ LogCreation(p)
      PROVE  JournalInv'
  BY <1>2, StartingJournal, EntryStep
\* The instance p waits, or is at a statement that makes nothing.
<1>3. ASSUME NEW p \in Procs,
             task[p].next \in {"idle", "delete", "insert", "note"},
             task'[p].next \in {"off", "idle", "delete", "insert", "note"},
             \A q \in Procs : q # p => task'[q] = task[q],
             UNCHANGED <<entries, overlap, known, order>>, written => written',
             UNCHANGED cut \/ cut', Now' \subseteq Now
      PROVE  JournalInv'
  <2>1. ~At(p, "off") /\ ~At(p, "log")' /\ Coming(p) = {} /\ Coming(p)' = {}
    BY <1>3 DEF At, Coming
  <2>2. UNCHANGED Made
    BY <1>3 DEF Made, Used
  <2> QED
    BY <1>3, <2>1, <2>2, QuietJournal
<1>4. ASSUME NEW p \in Procs, Stop(p)
      PROVE  JournalInv'
  <2>1. /\ ~At(p, "off") /\ UNCHANGED <<entries, overlap, written, Made, Now>>
    BY <1>4 DEF Stop, tables, Made, Now, Used
  <2>2. task'[p].next = "off" /\ \A q \in Procs : q # p => task'[q] = task[q]
    BY <1>0, <1>4 DEF Stop, Stopped, Rest, TypeOK
  <2>3. ~At(p, "log")' /\ Coming(p)' = {}
    BY <2>2 DEF At, Coming
  <2>4. cut' \/ (UNCHANGED cut /\ Coming(p) = {})
    <3>1. CASE At(p, "idle")
      <4>1. cut \in BOOLEAN /\ cut' = (cut \/ ~At(p, "idle"))
        BY <1>0, <1>4 DEF Stop, TypeOK
      <4>2. UNCHANGED cut
        BY <3>1, <4>1
      <4>3. Coming(p) = {}
        BY <3>1 DEF At, Coming
      <4> QED
        BY <4>2, <4>3
    <3>2. CASE ~At(p, "idle")
      BY <1>4, <3>2 DEF Stop
    <3> QED
      BY <3>1, <3>2
  <2> QED
    BY <2>1, <2>2, <2>3, <2>4, QuietJournal
\* The statements that make nothing.
<1>5. ASSUME NEW p \in Procs,
             \/ LogOther(p) \/ OrderRefused(p)
             \/ \E i \in Ids : CountUses(p, i)
             \/ \E n \in Numbers : ReadNumber(p, n)
      PROVE  JournalInv'
  <2>1. UNCHANGED <<entries, overlap, known, order, cut, partner>> /\ (written => written')
    BY <1>0, <1>5 DEF LogOther, OrderRefused, CountUses, ReadNumber, tables, TypeOK
  <2>2. UNCHANGED Now
    BY <2>1 DEF Now, Used
  <2>3. /\ task[p].next \in {"idle", "insert", "note"}
        /\ task'[p].next \in {"idle", "delete", "insert"}
        /\ \A q \in Procs : q # p => task'[q] = task[q]
    <3>1. CASE LogOther(p) \/ OrderRefused(p)
      BY <1>0, <3>1, NextTask DEF LogOther, OrderRefused, At
    <3>2. CASE \E i \in Ids : CountUses(p, i)
      BY <1>0, <3>2 DEF CountUses, Deleting, At, TypeOK
    <3>3. CASE \E n \in Numbers : ReadNumber(p, n)
      BY <1>0, <3>3 DEF ReadNumber, Inserting, At, TypeOK
    <3> QED
      BY <1>5, <3>1, <3>2, <3>3
  <2> QED
    BY <1>3, <2>1, <2>2, <2>3
<1>6. ASSUME NEW p \in Procs, UpdatePartner(p) \/ DeletePartner(p)
      PROVE  JournalInv'
  <2>1. UNCHANGED <<entries, overlap, known, order, cut, written>>
    BY <1>6 DEF UpdatePartner, DeletePartner
  <2>2. \A i \in Ids : partner'[i].who \in {partner[i].who, Nobody}
    <3>1. CASE UpdatePartner(p)
      <4>1. \/ partner' = partner
            \/ partner' = [partner EXCEPT ![form[p].id] =
                             [partner[form[p].id] EXCEPT !.shows = form[p].who]]
        BY <3>1 DEF UpdatePartner
      <4>2. \A i \in Ids : [partner[i] EXCEPT !.shows = form[p].who].who = partner[i].who
        BY <1>0 DEF TypeOK, Rows
      <4> QED
        BY <1>0, <4>1, <4>2 DEF TypeOK
    <3>2. CASE DeletePartner(p)
      BY <1>0, <3>2 DEF DeletePartner, NoRow, TypeOK
    <3> QED
      BY <1>6, <3>1, <3>2
  <2>3. Now' \subseteq Now
    BY <2>1, <2>2 DEF Now, Used
  <2>4. /\ task[p].next \in {"idle", "delete"}
        /\ task'[p].next \in {"idle", "note"}
        /\ \A q \in Procs : q # p => task'[q] = task[q]
    BY <1>0, <1>6, NextTask DEF UpdatePartner, DeletePartner, At
  <2> QED
    BY <1>3, <2>1, <2>3, <2>4
<1>7. ASSUME NEW p \in Procs, NEW t \in Parties, CreatePartner(p, t)
      PROVE  JournalInv'
  <2>1. t \in Things \ Made
    BY <1>7, NamesAssumption DEF CreatePartner, Things, Made, Used, Numbers
  <2>2. Made' = Made \cup {t}
    BY <1>7 DEF CreatePartner, Made, Used
  <2>3. PICK i \in Ids : partner' = [partner EXCEPT ![i] = [who |-> t, shows |-> t]]
    BY <1>7 DEF CreatePartner
  <2>4. \A j \in Ids : partner'[j].who \in {partner[j].who, t}
    BY <1>0, <2>3 DEF TypeOK
  <2>5. Now' \subseteq Now \cup {t}
    BY <1>7, <2>4 DEF CreatePartner, Now, Used
  <2> QED
    BY <1>7, <2>1, <2>2, <2>5, MakingJournal DEF CreatePartner
<1>8. ASSUME NEW p \in Procs, InsertOrder(p)
      PROVE  JournalInv'
  <2> DEFINE n == task[p].number
  <2>1. n \in Numbers \ Used
    BY <1>8 DEF InsertOrder
  <2>2. \A m \in Numbers : order'[m].is = (m = n \/ order[m].is)
    BY <1>0, <1>8 DEF InsertOrder, TypeOK, Orders
  <2> HIDE DEF n
  <2>3. Used' = Used \cup {n}
    BY <2>1, <2>2 DEF Used
  <2>4. n \in Things \ Made
    BY <1>0, <2>1, NamesAssumption DEF Things, Made, TypeOK, Numbers
  <2>5. Made' = Made \cup {n} /\ Now' = Now \cup {n}
    BY <1>8, <2>3 DEF InsertOrder, Made, Now
  <2>6. task' = [task EXCEPT ![p] = Logging(n)]
    BY <1>8 DEF InsertOrder, n
  <2> QED
    BY <1>8, <2>4, <2>5, <2>6, MakingJournal DEF InsertOrder
<1>9. ASSUME UNCHANGED side,
             \/ UNCHANGED vars
             \/ \E p \in Procs : Cancel(p)
             \/ \E p \in Procs, kind \in {"add", "order"} : OpenForm(p, kind)
             \/ \E p \in Procs, i \in Ids : OpenEdit(p, i) \/ ChoosePartner(p, i)
             \/ \E i \in 0..MaxId, a \in BOOLEAN : SaveProduct(i, a)
      PROVE  JournalInv'
  BY <1>1, <1>9 DEF vars, tables, Cancel, OpenForm, OpenEdit, ChoosePartner, SaveProduct
<1> QED
  BY <1>2, <1>4, <1>5, <1>6, <1>7, <1>8, <1>9 DEF Next, vars

(* Nothing is entered twice, for any number of instances that run one at a *)
(* time and stop anywhere.                                                 *)
THEOREM NothingEnteredTwice == Spec => []EnteredOnce
<1>1. JournalInv => EnteredOnce
  BY DEF JournalInv, EachOnce, EnteredOnce
<1> QED
  BY <1>1, InitPartners, PartnersStep, InitJournal, JournalStep, PTL DEF Spec

(* Between calls everything is entered, for any number of instances that   *)
(* run one at a time, if none was stopped half way and no entry failed.    *)
THEOREM EverythingEntered == Spec => []AllEntered
<1>1. PartnersInv /\ JournalInv => AllEntered
  <2> SUFFICES ASSUME PartnersInv, JournalInv, ~overlap, ~cut, NEW p \in Procs, At(p, "idle"),
                      NEW x \in Now
               PROVE  entries[x] >= 1
    BY DEF AllEntered, Now
  <2>1. \A q \in Procs : Coming(q) = {}
    <3>1. ~At(p, "off") /\ Coming(p) = {}
      BY DEF At, Coming
    <3> QED
      BY <3>1, OthersOff DEF JournalInv
  <2>2. entries[x] # 0
    BY <2>1 DEF JournalInv, NowEntered, AllOff, At
  <2>3. entries[x] \in Nat
    BY NowMade DEF PartnersInv, TypeOK
  <2> QED
    BY <2>2, <2>3
<1> QED
  BY <1>1, InitPartners, PartnersStep, InitJournal, JournalStep, PTL DEF Spec
=============================================================================
