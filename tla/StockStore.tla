----------------------------- MODULE StockStore -----------------------------
(***************************************************************************)
(* The stock tables of warehouse.db and the calls of inventory.c that      *)
(* write them: inv_post_movement, inv_delete_product (archive) and         *)
(* inv_restore_product, run by any number of application instances that    *)
(* share the file.  One step per SQL statement; SQLite's BEGIN IMMEDIATE   *)
(* lock, its rollback on error and its recovery after a crash are the      *)
(* external part, modelled from the calls of database.c.                   *)
(*                                                                         *)
(* An absent stock row is a quantity 0 (inv_post_movement inserts it       *)
(* before its update); the movements table is kept as the sum of its       *)
(* deltas per product and location; total_quantity, which the code sums    *)
(* over locations, is kept as the rows it was summed from.                 *)
(***************************************************************************)
EXTENDS Integers, FiniteSets, Sequences

CONSTANTS
  Procs,       \* application instances
  Products,    \* ids of the products table
  MaxProducts, \* WMS_MAX_PRODUCTS: slots of g_products
  Locations,   \* ids of the locations table
  Deltas,      \* quantities a caller may post
  MaxStock,    \* bound: no movement is started whose delta would lift a row of
               \* its product above it
  Nobody       \* the write lock is free

ASSUME DeltasAssumption == Deltas \subseteq Int
ASSUME NobodyAssumption == Nobody \notin Procs
ASSUME ProductsAssumption == Products \subseteq Nat /\ MaxProducts \in Nat
ASSUME ExistenceAssumption == Products # {} /\ Locations # {}
ASSUME MaxStockAssumption == MaxStock \in Nat

VARIABLES
  db,      \* committed tables: quantity, journal and active, as in StockLedger
  tx,      \* the tables as the open transaction sees them (db when none is open)
  lock,    \* instance holding SQLite's write lock, or Nobody
  pc,      \* next statement of each instance
  call,    \* the call each instance is executing
  slots,   \* slots[p]: g_products of instance p, each slot with the rows
           \* summed into its total_quantity
  doubled, \* history: products instance p has listed twice, and still lists
  writer   \* history: the instance whose commit last changed each product

vars == <<db, tx, lock, pc, call, slots, doubled, writer>>

Zero == [l \in Locations |-> 0]

Rows == [Products -> [Locations -> Int]]

Tables == [quantity : Rows, journal : Rows, active : SUBSET Products]

ProductSlots == [product : Products, rows : [Locations -> Int]]

Labels == {"idle", "down", "begin", "update", "log", "check", "clear",
           "deactivate", "activate", "commit", "settle"}

Kinds == {"none", "post", "archive", "restore"}

Calls == [kind : Kinds, product : Products, location : Locations, delta : Int]

CallOn(kind, pr) ==
  [kind |-> kind, product |-> pr,
   location |-> CHOOSE l \in Locations : TRUE, delta |-> 0]

NoCall == CallOn("none", CHOOSE pr \in Products : TRUE)

TypeOK ==
  /\ db \in Tables
  /\ tx \in Tables
  /\ lock \in Procs \cup {Nobody}
  /\ pc \in [Procs -> Labels]
  /\ call \in [Procs -> Calls]
  /\ slots \in [Procs -> Seq(ProductSlots)]
  /\ doubled \in [Procs -> SUBSET Products]
  /\ writer \in [Products -> Procs \cup {Nobody}]

\* No instance has been started.
Init ==
  /\ db = [quantity |-> [pr \in Products |-> Zero],
           journal |-> [pr \in Products |-> Zero],
           active |-> Products]
  /\ tx = db
  /\ lock = Nobody
  /\ pc = [p \in Procs |-> "down"]
  /\ call = [p \in Procs |-> NoCall]
  /\ slots = [p \in Procs |-> << >>]
  /\ doubled = [p \in Procs |-> {}]
  /\ writer = [pr \in Products |-> Nobody]

-----------------------------------------------------------------------------
(* The array g_products.  Every search of a product by its id stops at the *)
(* first slot that has it.                                                 *)

SlotsOf(s, pr) == {i \in DOMAIN s : s[i].product = pr}

Listed(s, pr) == SlotsOf(s, pr) # {}

IsFirst(s, pr, i) ==
  i \in SlotsOf(s, pr) /\ \A j \in SlotsOf(s, pr) : i <= j

ListedTwice(s, pr) == \E i, j \in SlotsOf(s, pr) : i # j

\* refresh_product_total.
Refreshed(s, pr) ==
  [i \in DOMAIN s |->
     IF IsFirst(s, pr, i) THEN [product |-> pr, rows |-> db.quantity[pr]] ELSE s[i]]

\* The last slot takes the place of the product that leaves.
Removed(s, pr) ==
  IF Listed(s, pr)
  THEN [i \in 1 .. Len(s) - 1 |-> IF IsFirst(s, pr, i) THEN s[Len(s)] ELSE s[i]]
  ELSE s

\* The row of the product in a new slot, whether or not another slot has it.
Appended(s, pr) ==
  IF Len(s) < MaxProducts THEN Append(s, [product |-> pr, rows |-> Zero]) ELSE s

\* The array of instance p becomes s.
Hold(p, s) ==
  /\ slots' = [slots EXCEPT ![p] = s]
  /\ doubled' = [doubled EXCEPT ![p] =
       {pr \in Products : ListedTwice(s, pr) \/ (pr \in doubled[p] /\ Listed(s, pr))}]

-----------------------------------------------------------------------------
(* Helpers: moving to the next statement, leaving a call, ROLLBACK.        *)

Goto(p, label) == pc' = [pc EXCEPT ![p] = label]

Start(p, c) ==
  /\ pc[p] = "idle"
  /\ call' = [call EXCEPT ![p] = c]
  /\ Goto(p, "begin")
  /\ UNCHANGED <<db, tx, lock, slots, doubled, writer>>

Return(p) ==
  /\ Goto(p, "idle")
  /\ call' = [call EXCEPT ![p] = NoCall]

Rollback == tx' = db /\ lock' = Nobody

FirstStatement(kind) ==
  CASE kind = "post" -> "update"
    [] kind = "archive" -> "check"
    [] OTHER -> "activate"

\* The rows after the movement, or the deletion of stock rows, that call c asks.
Added(rows, c) == [rows EXCEPT ![c.product][c.location] = @ + c.delta]

Cleared(rows, c) == [rows EXCEPT ![c.product] = Zero]

\* A statement of the open transaction of instance p, which then goes to label.
Statement(p, tables, label) ==
  /\ tx' = tables
  /\ Goto(p, label)
  /\ UNCHANGED <<db, lock, call, slots, doubled, writer>>

\* Mutant: a failed call gives the lock back without undoing its statements.
AbandonWithoutUndo(p) ==
  /\ lock' = Nobody
  /\ Return(p)
  /\ UNCHANGED <<db, tx, slots, doubled, writer>>

\* The call of p fails inside its transaction.
Abandon(p) ==
  /\ Rollback
  /\ Return(p)
  /\ UNCHANGED <<db, slots, doubled, writer>>

-----------------------------------------------------------------------------
(* The three calls.  A purchase or dispatch order, a return or a stock     *)
(* count names its product by the id stored in a row, so a movement may    *)
(* be asked of a product that is archived.                                 *)

StartPost(p, pr, l, d) ==
  /\ \A k \in Locations : db.quantity[pr][k] + d <= MaxStock
  /\ Start(p, [kind |-> "post", product |-> pr, location |-> l, delta |-> d])

StartArchive(p, pr) ==
  /\ Listed(slots[p], pr)
  /\ Start(p, CallOn("archive", pr))

StartRestore(p, pr) ==
  /\ pr \notin db.active
  /\ Start(p, CallOn("restore", pr))

-----------------------------------------------------------------------------
(* BEGIN IMMEDIATE, tried up to 8 times: it gets the lock, or the call     *)
(* gives up while somebody else holds it.                                  *)

BeginImmediate(p) ==
  /\ pc[p] = "begin"
  /\ lock = Nobody
  /\ lock' = p
  /\ Goto(p, FirstStatement(call[p].kind))
  /\ UNCHANGED <<db, tx, call, slots, doubled, writer>>

\* Mutant: the attempts to take the lock are not limited.
LockAwaited(p) ==
  /\ pc[p] = "begin"
  /\ lock # Nobody
  /\ UNCHANGED vars

LockUnavailable(p) ==
  /\ pc[p] = "begin"
  /\ lock # Nobody
  /\ Return(p)
  /\ UNCHANGED <<db, tx, lock, slots, doubled, writer>>

-----------------------------------------------------------------------------
(* inv_post_movement inside its transaction.                               *)

\* The rows behind the total that the screen of p shows of its call's product.
OnScreen(p) ==
  LET pr == call[p].product
  IN slots[p][CHOOSE i \in DOMAIN slots[p] : IsFirst(slots[p], pr, i)].rows

\* Mutant: the quantity is compared with what the screen shows.
EnoughOnScreen(p) ==
  /\ Listed(slots[p], call[p].product)
  /\ OnScreen(p)[call[p].location] + call[p].delta >= 0

Enough(p) ==
  tx.quantity[call[p].product][call[p].location] + call[p].delta >= 0

UpdateStock(p) ==
  /\ pc[p] = "update"
  /\ Enough(p)
  /\ Statement(p, [tx EXCEPT !.quantity = Added(@, call[p])], "log")

\* Mutant: the early return forgets the rollback.
InsufficientStockNoRollback(p) ==
  /\ pc[p] = "update"
  /\ ~Enough(p)
  /\ Return(p)
  /\ UNCHANGED <<db, tx, lock, slots, doubled, writer>>

InsufficientStock(p) ==
  /\ pc[p] = "update"
  /\ ~Enough(p)
  /\ Abandon(p)

InsertMovement(p) ==
  /\ pc[p] = "log"
  /\ Statement(p, [tx EXCEPT !.journal = Added(@, call[p])], "commit")

-----------------------------------------------------------------------------
(* inv_delete_product inside its transaction.  The sum of the rows is      *)
(* positive exactly when one row is: CHECK (quantity >= 0).  The attempt   *)
(* to set movements.product_id to NULL changes nothing: the column is NOT  *)
(* NULL and the result of the statement is not read.                       *)

Remaining(tables, pr) == \E l \in Locations : tables.quantity[pr][l] > 0

\* Mutant: the archive trusts the screen, not the tables.
CheckEmptyOnScreen(p) ==
  /\ pc[p] = "check"
  /\ Listed(slots[p], call[p].product) /\ OnScreen(p) = Zero
  /\ Statement(p, tx, "clear")

CheckEmpty(p) ==
  /\ pc[p] = "check"
  /\ ~Remaining(tx, call[p].product)
  /\ Statement(p, tx, "clear")

StockRemains(p) ==
  /\ pc[p] = "check"
  /\ Remaining(tx, call[p].product)
  /\ Abandon(p)

DeleteStockRows(p) ==
  /\ pc[p] = "clear"
  /\ Statement(p, [tx EXCEPT !.quantity = Cleared(@, call[p])], "deactivate")

Deactivate(p) ==
  /\ pc[p] = "deactivate"
  /\ Statement(p, [tx EXCEPT !.active = @ \ {call[p].product}], "commit")

(* inv_restore_product inside its transaction.                             *)

Activate(p) ==
  /\ pc[p] = "activate"
  /\ Statement(p, [tx EXCEPT !.active = @ \cup {call[p].product}], "commit")

-----------------------------------------------------------------------------
(* A statement whose result the code reads fails.                          *)
StatementError(p) ==
  /\ pc[p] \in {"update", "log", "deactivate", "activate"}
  /\ Abandon(p)

(* db_commit.  No caller reads its result: when COMMIT fails and SQLite    *)
(* takes the transaction back, the call goes on as if it had succeeded.    *)
Commit(p) ==
  /\ pc[p] = "commit"
  /\ db' = tx
  /\ lock' = Nobody
  /\ writer' = [writer EXCEPT ![call[p].product] = p]
  /\ Goto(p, "settle")
  /\ UNCHANGED <<tx, call, slots, doubled>>

CommitLost(p) ==
  /\ pc[p] = "commit"
  /\ Rollback
  /\ Goto(p, "settle")
  /\ UNCHANGED <<db, call, slots, doubled, writer>>

(* What each call does in memory after its commit, outside any             *)
(* transaction: refresh_product_total after a movement, the first slot     *)
(* removed after an archive, the row appended and refreshed after a        *)
(* restore.                                                                *)

\* Mutant: only a movement refreshes the total of its product.
RefreshedByMovement(s, c) ==
  CASE c.kind = "post" -> Refreshed(s, c.product)
    [] c.kind = "archive" -> Removed(s, c.product)
    [] OTHER -> Appended(s, c.product)

After(s, c) ==
  CASE c.kind = "post" -> Refreshed(s, c.product)
    [] c.kind = "archive" -> Removed(s, c.product)
    [] OTHER -> Refreshed(Appended(s, c.product), c.product)

Settle(p) ==
  /\ pc[p] = "settle"
  /\ Hold(p, After(slots[p], call[p]))
  /\ Return(p)
  /\ UNCHANGED <<db, tx, lock, writer>>

-----------------------------------------------------------------------------
(* An instance stops at any statement; SQLite rolls its transaction back   *)
(* for the next user of the file.  A start runs inv_init, which loads the  *)
(* active products in the order of their ids until the array is full.      *)

Crash(p) ==
  /\ pc[p] # "down"
  /\ Goto(p, "down")
  /\ call' = [call EXCEPT ![p] = NoCall]
  /\ Hold(p, << >>)
  /\ IF lock = p THEN Rollback ELSE UNCHANGED <<tx, lock>>
  /\ UNCHANGED <<db, writer>>

Loads(ids) ==
  /\ \A i, j \in DOMAIN ids : i < j => ids[i] < ids[j]
  /\ \A pr \in db.active :
       \/ \E i \in DOMAIN ids : ids[i] = pr
       \/ DOMAIN ids = 1 .. MaxProducts /\ \A i \in DOMAIN ids : ids[i] < pr

Restart(p) ==
  /\ pc[p] = "down"
  /\ Goto(p, "idle")
  /\ \E n \in 0 .. MaxProducts : \E ids \in [1 .. n -> db.active] :
       /\ Loads(ids)
       /\ Hold(p, [i \in 1 .. n |-> [product |-> ids[i], rows |-> db.quantity[ids[i]]]])
  /\ UNCHANGED <<db, tx, lock, call, writer>>

-----------------------------------------------------------------------------
Step(p) ==
  \/ BeginImmediate(p) \/ LockUnavailable(p)
  \/ UpdateStock(p) \/ InsufficientStock(p) \/ InsertMovement(p)
  \/ CheckEmpty(p) \/ StockRemains(p) \/ DeleteStockRows(p) \/ Deactivate(p)
  \/ Activate(p)
  \/ StatementError(p) \/ Commit(p) \/ CommitLost(p) \/ Settle(p)

Request(p) ==
  \E pr \in Products :
    \/ \E l \in Locations, d \in Deltas : StartPost(p, pr, l, d)
    \/ StartArchive(p, pr)
    \/ StartRestore(p, pr)

Next == \E p \in Procs : Request(p) \/ Step(p) \/ Crash(p) \/ Restart(p)

Spec == Init /\ [][Next]_vars

(* An instance is one GUI thread: a call that has started runs on to its   *)
(* return unless the process dies.  Nothing obliges a user to act, or a    *)
(* stopped instance to be started again.                                   *)
FairSpec == Spec /\ \A p \in Procs : WF_vars(Step(p))

-----------------------------------------------------------------------------
(* Properties.                                                             *)

(* The committed stock is always the sum of the committed movements: no    *)
(* crash, failed statement or lost commit of inv_post_movement leaves one  *)
(* without the other (inventory.c, "a crash can never leave a stock change *)
(* without its log entry").                                                *)
JournalMatchesStock == db.quantity = db.journal

(* No committed row is negative, although the callers never compare the    *)
(* quantity they take with the stock before the guarded UPDATE.            *)
NonNegativeStock == \A pr \in Products, l \in Locations : db.quantity[pr][l] >= 0

(* The tables change only as StockLedger allows: each call is one atomic   *)
(* step of the ledger or none at all.                                      *)
Ledger == INSTANCE StockLedger
            WITH quantity <- db.quantity, journal <- db.journal, active <- db.active

ImplementsLedger == Ledger!LedgerSpec

(* A call returns, successfully or not, unless its instance dies: no       *)
(* attempt to take the lock waits for ever.                                *)
CallsReturn ==
  \A p \in Procs : pc[p] = "begin" ~> pc[p] \in {"idle", "down"}

(* The instance whose commit was the last to touch a product displays,     *)
(* between calls, the sum of its rows in every slot it shows the product   *)
(* in, whatever failed or was lost since (refresh_product_total: "so the   *)
(* dashboard/list never shows stale totals").  Any other instance may      *)
(* still show an older total: nothing tells it of the commit before its    *)
(* next call on the product.  Excepted are the products an instance has    *)
(* listed twice: it restored one that it still listed, because another     *)
(* instance archived it or because the COMMIT of an earlier restore was    *)
(* lost, and refresh_product_total reaches the first of the slots only.    *)
LastWriterIsFresh ==
  \A p \in Procs : pc[p] = "idle" =>
    \A i \in DOMAIN slots[p] : LET pr == slots[p][i].product IN
      pr \notin doubled[p] /\ writer[pr] \in {p, Nobody}
        => slots[p][i].rows = db.quantity[pr]

(* The strengthening of LastWriterIsFresh: a product that was not doubled  *)
(* has one slot, and its total is fresh during calls too, except between   *)
(* the commit of a call and its refresh.                                   *)
FreshView ==
  \A p \in Procs :
    /\ \A pr \in Products : ListedTwice(slots[p], pr) => pr \in doubled[p]
    /\ \A i \in DOMAIN slots[p] : LET pr == slots[p][i].product IN
         /\ pr \notin doubled[p] /\ writer[pr] \in {p, Nobody}
         /\ pc[p] = "settle" => call[p].product # pr
         => slots[p][i].rows = db.quantity[pr]

(***************************************************************************)
(* What makes the invariants above inductive: outside a transaction the    *)
(* working tables are the committed ones, inside it they differ from them  *)
(* by what the statements executed so far have done, and by nothing else.  *)
(***************************************************************************)
InTransaction ==
  {"update", "log", "check", "clear", "deactivate", "activate", "commit"}

KindOf(label) ==
  CASE label \in {"update", "log"} -> {"post"}
    [] label \in {"check", "clear", "deactivate"} -> {"archive"}
    [] label = "activate" -> {"restore"}
    [] label \in {"begin", "commit", "settle"} -> {"post", "archive", "restore"}
    [] OTHER -> {"none"}

LockHeldInside == \A p \in Procs : lock = p <=> pc[p] \in InTransaction

CallFitsLabel ==
  \A p \in Procs :
    /\ call[p].kind \in KindOf(pc[p])
    /\ call[p].kind = "post" => call[p].delta \in Deltas

\* The effect of each call on the tables, as one step.
Moved(tables, c) ==
  [tables EXCEPT !.quantity = Added(@, c), !.journal = Added(@, c)]

HalfMoved(tables, c) == [tables EXCEPT !.quantity = Added(@, c)]

Fits(c) == db.quantity[c.product][c.location] + c.delta >= 0

WorkingTables(p) ==
  /\ pc[p] \in {"update", "check", "activate"} => tx = db
  /\ pc[p] = "log" => tx = HalfMoved(db, call[p]) /\ Fits(call[p])
  /\ pc[p] \in {"clear", "deactivate"} =>
       tx = db /\ db.quantity[call[p].product] = Zero
  /\ pc[p] = "commit" =>
       CASE call[p].kind = "post" -> tx = Moved(db, call[p]) /\ Fits(call[p])
         [] call[p].kind = "archive" ->
              /\ tx = [db EXCEPT !.active = @ \ {call[p].product}]
              /\ db.quantity[call[p].product] = Zero
         [] call[p].kind = "restore" ->
              tx = [db EXCEPT !.active = @ \cup {call[p].product}]

StoreInv ==
  /\ TypeOK
  /\ JournalMatchesStock
  /\ NonNegativeStock
  /\ LockHeldInside
  /\ CallFitsLabel
  /\ lock = Nobody => tx = db
  /\ \A p \in Procs : WorkingTables(p)
=============================================================================
