------------------------------- MODULE Office -------------------------------
(***************************************************************************)
(* Partners, numbered orders and the journal of actions, for any number of *)
(* application instances on one file: the screens of suppliers and of      *)
(* purchase orders, or those of customers and of dispatch orders, which    *)
(* are the same code on other tables (draw_suppliers_screen ...            *)
(* draw_dispatch_orders_screen and the calls of database.c they make), and *)
(* the start of an instance, which fills the journal if it is empty        *)
(* (db_backfill_audit_log).                                                *)
(*                                                                         *)
(* A partner is a model value, so that a row whose id is given again to    *)
(* another partner can be told from the first: tables that database.c made *)
(* give the largest id again once its row is deleted.  Those of schema.sql *)
(* would not (AUTOINCREMENT), but hold no column for what the INSERT       *)
(* names, so that no row is ever made in them (side "unmigrated").         *)
(*                                                                         *)
(* Every call is one or more commits, and each commit is a step; one that  *)
(* fails and changes nothing is left out where the call stops there.  The  *)
(* forms of an instance are open one at a time: one left open on a screen  *)
(* and used later behaves as that of another instance.                     *)
(***************************************************************************)
EXTENDS Integers

CONSTANTS
  Procs,      \* application instances
  Parties,    \* partners users enter
  MaxId,      \* bound: ids of partners
  MaxOrders,  \* bound: numbers of orders
  Sides,      \* which tables a behaviour is about: see side
  Goods,      \* the products, made before the journal was kept
  Nobody      \* no partner

ASSUME BoundsAssumption == MaxId \in Nat \ {0} /\ MaxOrders \in Nat
ASSUME SidesAssumption == Sides \subseteq {"purchase", "unmigrated", "dispatch"}
ASSUME NamesAssumption ==
  Nobody \notin Parties /\ Goods \notin Parties \cup {Nobody} \cup 1..MaxOrders
  /\ Parties \cap (1..MaxOrders) = {}

VARIABLES
  side,       \* suppliers and purchase orders, the same on a file that
              \* schema.sql has made, or customers and dispatch orders
  partner,    \* the partner whose row has an id, and whose details it holds
  order,      \* the order with a number: partner_id (0 is NULL), and history:
              \* the partner its user chose
  supplied,   \* the product: supplier_id and active
  entries,    \* "creation" rows of audit_log for each thing
  written,    \* audit_log has rows
  form,       \* the form an instance shows, and the row it was filled from
  task,       \* the call under way, and its next commit
  known,      \* history: partners entered so far
  overlap,    \* history: an instance started while another was running
  cut         \* history: a call was stopped half way, or an entry not written

tables == <<partner, order, supplied, entries, written>>
vars == <<side, tables, form, task, known, overlap, cut>>

Ids == 1..MaxId
Numbers == 1..MaxOrders
Things == Parties \cup Numbers \cup {Goods}
People == Parties \cup {Nobody}

NoRow == [who |-> Nobody, shows |-> Nobody]
NoOrder == [is |-> FALSE, id |-> 0, chosen |-> Nobody]
OldOrder == [is |-> TRUE, id |-> 0, chosen |-> Nobody]
NoForm == [kind |-> "none", id |-> 0, who |-> Nobody]
Rest == [next |-> "idle", id |-> 0, number |-> 0, thing |-> Goods]
Stopped == [Rest EXCEPT !.next = "off"]
Logging(x) == [next |-> "log", id |-> 0, number |-> 0, thing |-> x]
Deleting(i) == [next |-> "delete", id |-> i, number |-> 0, thing |-> Goods]
Inserting(n) == [next |-> "insert", id |-> 0, number |-> n, thing |-> Goods]

Rows == [who : People, shows : People]
Orders == [is : BOOLEAN, id : 0..MaxId, chosen : People]
Forms == [kind : {"none", "add", "edit", "order"}, id : 0..MaxId, who : People]
Tasks ==
  [next : {"off", "idle", "products", "partners", "users", "orders", "delete", "insert",
           "log", "note"},
   id : 0..MaxId, number : 0..MaxOrders, thing : Things]

TypeOK ==
  /\ side \in Sides
  /\ partner \in [Ids -> Rows]
  /\ order \in [Numbers -> Orders]
  /\ supplied \in [id : 0..MaxId, active : BOOLEAN]
  /\ entries \in [Things -> Nat]
  /\ written \in BOOLEAN
  /\ form \in [Procs -> Forms]
  /\ task \in [Procs -> Tasks]
  /\ known \in SUBSET Parties
  /\ overlap \in BOOLEAN /\ cut \in BOOLEAN

Present(i) == partner[i].who # Nobody
Used == {n \in Numbers : order[n].is}

\* A file of before the journal may hold a supplier and an order.
Init ==
  /\ side \in Sides
  /\ known \in {{}} \cup IF side = "purchase" THEN {{t} : t \in Parties} ELSE {}
  /\ partner = [i \in Ids |->
       IF i = 1 /\ known # {}
       THEN [who |-> CHOOSE t \in known : TRUE, shows |-> CHOOSE t \in known : TRUE]
       ELSE NoRow]
  /\ \E old \in SUBSET ({1} \cap Numbers) :
       /\ side # "purchase" => old = {}
       /\ order = [n \in Numbers |-> IF n \in old THEN OldOrder ELSE NoOrder]
  /\ supplied = [id |-> 0, active |-> TRUE]
  /\ entries = [x \in Things |-> 0]
  /\ written = FALSE
  /\ form = [p \in Procs |-> NoForm]
  /\ task = [p \in Procs |-> Stopped]
  /\ overlap = FALSE /\ cut = FALSE

At(p, step) == task[p].next = step
Then(p, step) == task' = [task EXCEPT ![p].next = step]
Done(p) == task' = [task EXCEPT ![p] = Rest]
Close(p) == form' = [form EXCEPT ![p] = NoForm]

-----------------------------------------------------------------------------
(* Start and stop.                                                         *)

\* Mutant: the journal is filled at every start.
StartAlways(p) ==
  /\ At(p, "off")
  /\ Then(p, "products")
  /\ overlap' = (overlap \/ \E q \in Procs : ~At(q, "off"))
  /\ UNCHANGED <<tables, form, known, cut>>

\* db_apply_schema, whose tables are there already, up to the test.
Start(p) ==
  /\ At(p, "off")
  /\ Then(p, IF written THEN "idle" ELSE "products")
  /\ overlap' = (overlap \/ \E q \in Procs : ~At(q, "off"))
  /\ UNCHANGED <<tables, form, known, cut>>

\* Mutant: the orders are left out.
OldThingsNoOrders(step) ==
  CASE step = "products" -> {Goods}
    [] step = "partners" -> {t \in Parties : side = "purchase" /\ \E i \in Ids : partner[i].who = t}
    [] OTHER -> {}

\* What each of the four INSERTs enters; that of users is not followed here.
\* schema.sql gives suppliers no created_at: their INSERT is not prepared.
OldThings(step) ==
  CASE step = "products" -> {Goods}
    [] step = "partners" -> {t \in Parties : side = "purchase" /\ \E i \in Ids : partner[i].who = t}
    [] step = "users" -> {}
    [] step = "orders" -> {n \in Used : side = "purchase"}

After == [products |-> "partners", partners |-> "users", users |-> "orders", orders |-> "idle"]

\* One of the four commits of the backfill.
Backfill(p) ==
  /\ task[p].next \in DOMAIN After
  /\ LET old == OldThings(task[p].next) IN
     \/ /\ entries' = [x \in Things |-> entries[x] + IF x \in old THEN 1 ELSE 0]
        /\ written' = (written \/ old # {})
        /\ UNCHANGED cut
     \/ /\ cut' = TRUE
        /\ UNCHANGED <<entries, written>>
  /\ Then(p, After[task[p].next])
  /\ UNCHANGED <<partner, order, supplied, form, known, overlap>>

Stop(p) ==
  /\ ~At(p, "off")
  /\ cut' = (cut \/ ~At(p, "idle"))
  /\ task' = [task EXCEPT ![p] = Stopped]
  /\ Close(p)
  /\ UNCHANGED <<tables, known, overlap>>

-----------------------------------------------------------------------------
(* db_log_audit, in a commit of its own, whose failure nobody looks at.    *)

LogCreation(p) ==
  /\ At(p, "log")
  /\ \/ /\ entries' = [entries EXCEPT ![task[p].thing] = @ + 1]
        /\ written' = TRUE
        /\ UNCHANGED cut
     \/ /\ cut' = TRUE
        /\ UNCHANGED <<entries, written>>
  /\ Done(p)
  /\ UNCHANGED <<partner, order, supplied, form, known, overlap>>

\* The entry of a change or of a deletion.
LogOther(p) ==
  /\ At(p, "note")
  /\ written' \in {written, TRUE}
  /\ Done(p)
  /\ UNCHANGED <<partner, order, supplied, entries, form, known, overlap, cut>>

-----------------------------------------------------------------------------
(* The screen of partners.  Its list is read again for every frame.        *)

OpenForm(p, kind) ==
  /\ At(p, "idle") /\ form[p] = NoForm
  /\ kind \in {"add", "order"}
  /\ form' = [form EXCEPT ![p].kind = kind]
  /\ UNCHANGED <<tables, task, known, overlap, cut>>

OpenEdit(p, i) ==
  /\ At(p, "idle") /\ form[p] = NoForm
  /\ Present(i)
  /\ form' = [form EXCEPT ![p] = [kind |-> "edit", id |-> i, who |-> partner[i].who]]
  /\ UNCHANGED <<tables, task, known, overlap, cut>>

Cancel(p) ==
  /\ At(p, "idle") /\ form[p] # NoForm
  /\ Close(p)
  /\ UNCHANGED <<tables, task, known, overlap, cut>>

\* i is the id of a new row: one more than the largest.
IsNextId(i) ==
  /\ i - 1 \in {0} \cup {j \in Ids : Present(j)}
  /\ \A j \in Ids : Present(j) => j < i

CreatePartner(p, t) ==
  /\ At(p, "idle") /\ form[p].kind = "add"
  /\ side # "unmigrated"
  /\ t \notin known
  /\ \E i \in Ids :
       /\ IsNextId(i)
       /\ partner' = [partner EXCEPT ![i] = [who |-> t, shows |-> t]]
  /\ known' = known \cup {t}
  /\ task' = [task EXCEPT ![p] = Logging(t)]
  /\ Close(p)
  /\ UNCHANGED <<order, supplied, entries, written, overlap, cut>>

\* Mutant: the UPDATE has no WHERE.
UpdateEveryPartner(p) ==
  LET f == form[p] IN
  /\ At(p, "idle") /\ f.kind = "edit"
  /\ partner' = [i \in Ids |-> IF Present(i) THEN [partner[i] EXCEPT !.shows = f.who] ELSE NoRow]
  /\ Then(p, "note")
  /\ Close(p)
  /\ UNCHANGED <<order, supplied, entries, written, known, overlap, cut>>

\* The details of the form go to the row with its id, if there is one; the
\* call succeeds, and is entered in the journal, when there is none.
UpdatePartner(p) ==
  LET f == form[p] IN
  /\ At(p, "idle") /\ f.kind = "edit"
  /\ partner' = IF Present(f.id)
                THEN [partner EXCEPT ![f.id].shows = f.who] ELSE partner
  /\ Then(p, "note")
  /\ Close(p)
  /\ UNCHANGED <<order, supplied, entries, written, known, overlap, cut>>

\* What the deletion counts: active products of a supplier, orders of a customer.
InUse(i) ==
  IF side = "dispatch" THEN \E n \in Used : order[n].id = i
  ELSE supplied.active /\ supplied.id = i

CountUses(p, i) ==
  /\ At(p, "idle") /\ form[p] = NoForm
  /\ Present(i) /\ ~InUse(i)
  /\ task' = [task EXCEPT ![p] = Deleting(i)]
  /\ UNCHANGED <<tables, form, known, overlap, cut>>

\* Mutant: foreign keys are not enforced (PRAGMA foreign_keys=ON left out).
ReferencedNot(i) == FALSE

\* PRAGMA foreign_keys=ON: archived products and orders count here.
Referenced(i) == supplied.id = i \/ \E n \in Used : order[n].id = i

DeletePartner(p) ==
  LET i == task[p].id IN
  /\ At(p, "delete")
  /\ \/ /\ ~Referenced(i)
        /\ partner' = [partner EXCEPT ![i] = NoRow]
        /\ Then(p, "note")
     \/ /\ Done(p)
        /\ UNCHANGED partner
  /\ UNCHANGED <<order, supplied, entries, written, form, known, overlap, cut>>

-----------------------------------------------------------------------------
(* The screen of orders.  The partners its form offers are those of when   *)
(* it was opened.                                                          *)

\* The form is opened and the partner picked in it; others may go meanwhile.
ChoosePartner(p, i) ==
  /\ At(p, "idle") /\ form[p] = [NoForm EXCEPT !.kind = "order"]
  /\ Present(i)
  /\ form' = [form EXCEPT ![p].id = i, ![p].who = partner[i].who]
  /\ UNCHANGED <<tables, task, known, overlap, cut>>

\* Mutant: COALESCE(MAX(number), 1) + 1
IsNextFromTwo(n) == n - 1 \in Used \cup {1} /\ \A m \in Used : m < n

\* COALESCE(MAX(number), 0) + 1
IsNextNumber(n) == n - 1 \in Used \cup {0} /\ \A m \in Used : m < n

ReadNumber(p, n) ==
  /\ At(p, "idle") /\ form[p].kind = "order"
  /\ side # "unmigrated"
  /\ IsNextNumber(n)
  /\ task' = [task EXCEPT ![p] = Inserting(n)]
  /\ UNCHANGED <<tables, form, known, overlap, cut>>

\* The number is still free, the partner still there.
InsertOrder(p) ==
  LET n == task[p].number IN
  /\ At(p, "insert")
  /\ n \in Numbers \ Used
  /\ form[p].id # 0 => Present(form[p].id)
  /\ order' = [order EXCEPT ![n] = [is |-> TRUE, id |-> form[p].id, chosen |-> form[p].who]]
  /\ task' = [task EXCEPT ![p] = Logging(n)]
  /\ Close(p)
  /\ UNCHANGED <<partner, supplied, entries, written, known, overlap, cut>>

\* The number was taken since it was read, the partner is gone, or the file is
\* locked: an error is shown and the form stays.
OrderRefused(p) ==
  /\ At(p, "insert")
  /\ Done(p)
  /\ UNCHANGED <<tables, form, known, overlap, cut>>

\* The panels of the catalog: the supplier of the product, its archiving.
SaveProduct(i, a) ==
  /\ side = "purchase"
  /\ i # 0 => Present(i)
  /\ supplied' = [id |-> i, active |-> a]
  /\ UNCHANGED <<partner, order, entries, written, form, task, known, overlap, cut>>

Next ==
  /\ UNCHANGED side
  /\ \/ \E p \in Procs :
          \/ Start(p) \/ Backfill(p) \/ Stop(p) \/ LogCreation(p) \/ LogOther(p)
          \/ \E kind \in {"add", "order"} : OpenForm(p, kind)
          \/ \E t \in Parties : CreatePartner(p, t)
          \/ \E i \in Ids : OpenEdit(p, i) \/ CountUses(p, i) \/ ChoosePartner(p, i)
          \/ Cancel(p) \/ UpdatePartner(p) \/ DeletePartner(p)
          \/ \E n \in Numbers : ReadNumber(p, n)
          \/ InsertOrder(p) \/ OrderRefused(p)
     \/ \E i \in 0..MaxId, a \in BOOLEAN : SaveProduct(i, a)

Spec == Init /\ [][Next]_vars

-----------------------------------------------------------------------------
(* Properties.                                                             *)

(* The numbers of orders follow one another, without a gap or a double,    *)
(* although they are computed outside the statement that uses them (db_    *)
(* create_purchase_order; README: "auto-numbered PO-0001, PO-0002").       *)
NumbersFollow == \A n \in Used : \A m \in 1..n : m \in Used

(* Whatever the order of counts, deletions, orders and saves, no order and *)
(* no product, archived or not, refers to a partner that is gone (README:  *)
(* "delete refuses if any active product still references that supplier").  *)
ReferencesPresent ==
  /\ \A n \in Used : order[n].id # 0 => Present(order[n].id)
  /\ supplied.id # 0 => Present(supplied.id)

(* A row holds the details of another partner, and an order goes to        *)
(* another partner than its user chose, only when the one that was meant   *)
(* has been deleted: its id may have been given again (db_update_supplier, *)
(* db_create_dispatch_order take the id a form was filled from).           *)
Gone(t) == \A i \in Ids : partner[i].who # t

OnlyTheDeletedAreMistaken ==
  /\ \A i \in Ids : partner[i].shows # partner[i].who => Gone(partner[i].shows)
  /\ \A n \in Used :
       order[n].id # 0 /\ partner[order[n].id].who # order[n].chosen => Gone(order[n].chosen)

(* Nothing is entered twice in the journal as created, wherever instances  *)
(* stop, as long as one runs at a time (db_backfill_audit_log: "Only runs  *)
(* once [...] so it never duplicates entries").                            *)
EnteredOnce == ~overlap => \A x \in Things : entries[x] <= 1

(* Between calls, the journal has the creation of everything there is, old *)
(* or new, if one instance runs at a time, none was stopped half way and   *)
(* every entry could be written (README: "reconstructs creation entries    *)
(* for every product/supplier/user/purchase-order that already existed").  *)
AllEntered ==
  ~overlap /\ ~cut /\ (\E p \in Procs : At(p, "idle")) =>
    \A x \in {Goods} \cup Used \cup ({partner[i].who : i \in Ids} \ {Nobody}) : entries[x] >= 1
=============================================================================
