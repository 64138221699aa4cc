# SmartStock: a TLA+ model of the warehouse manager

SmartStock is a desktop program in C: a raylib screen loop (`main_window.c`), a
business layer (`core/inventory.c`, `core/hashtable.c`, `core/session.c`) and
SQLite (`db/database.c`, file `saves/warehouse.db` in WAL mode). One instance is
one thread that draws a frame, reads the mouse and the keyboard and, on a click,
makes a synchronous call. Nothing prevents several instances from having the
same file open; `BEGIN IMMEDIATE` with retries, the `version` column and the
comments about other writers exist for that case. Paths below are relative to
the root of the repository.

The interesting behaviour is therefore: several instances between SQL
statements, calls made of several commits in a row, what an instance remembers
in memory, in a session or in a dialog while the file changes (or is replaced),
instances that stop anywhere, and one user in front of an immediate-mode screen
whose dialogs and flags are static variables.

## Inventory

| Part | State | Operations | What is hard in it | Modules |
|---|---|---|---|---|
| Stock and movements (`inventory.c`, `database.c`) | `stock`, `movements`, `products.active`; SQLite's write lock; `total_quantity` of each product in memory | `inv_post_movement`, `inv_delete_product`, `inv_restore_product`, `refresh_product_total` | other writers, failure inside a transaction, crash, a COMMIT whose result nobody reads, stale totals | `StockLedger`, `StockStore`, `StockStoreProofs` |
| Hash table (`hashtable.c`) | entries, tombstones, count, capacity | `ht_init`, `ht_put`, `ht_get`, `ht_remove`, `ht_clear`, doubling | probing across tombstones, two entries of one key, order of reinsertion | `HashOps`, `HashTable`, `StringMap`, `IndexProofs` |
| Catalogue (`inventory.c`) | the array `g_products`, `g_product_count`, indexes by SKU and barcode | add, edit, archive, restore, search, `inv_init` | pointers into an array whose last slot moves, capacity | `Catalog`, `IndexProofs` |
| Purchase orders (`inventory.c`, `database.c`, `main_window.c`) | orders with a number and a status, lines with quantities ordered and received, a dialog with copies of them | create, add a line, receive, show another order | the number read outside its INSERT, four commits in a row, stale dialog, retry, crash | `Office`, `OrderLines` and their proofs |
| Edits and categories (`inventory.c`, `main_window.c`) | `version`, the copies in memory and in the edit panel, `categories` | edit, `inv_delete_category` | optimistic lock, a check in one commit and a deletion in another | `ProductEdits`, `ProductEditsProofs` |
| Stock count (`main_window.c`) | the total when the dialog opened | validate, cancel | stale total, total of all locations | `StockTake` |
| Transfers (`inventory.c`) | two movements of one call | `inv_transfer` | compensation, crash between the movements | `Transfer`, run inside `Dispatch` |
| Dispatch orders, returns | as purchase orders; `returns` | create, ship, return | as receipts, with stock that may be short and that others move | `Office`, `Dispatch` and their proofs |
| Suppliers and customers (`database.c`, `main_window.c`) | `suppliers`, `customers`, the references to them, the form filled from a row | create, edit, delete after a count | count then delete, an id given again, a form on a row that is gone | `Office`, `OfficeProofs` |
| Audit log and its backfill (`database.c`) | `audit_log` | an entry after each change; four INSERTs at the start on an empty log | entries in commits of their own, stop between commits, two starts at once | `Office` (entries of partners and orders), `OfficeProofs` |
| Sessions and roles (`session.c`, `database.c`, `main_window.c`) | `g_session`, `users`, `login_log`, the login screen | login, sign-up, lock, logout, change of role, exit | login over a locked session, results not looked at, count then insert of the first account | `Accounts`, `AccountsProofs` |
| Backup and restore (`inventory.c`) | a copy of the file | backup, restore, reload | the file replaced under open sessions and other instances | `Accounts`; the reload in `Catalog` and `Screens` |
| Screens, dialogs and forms of the catalog (`main_window.c`) | the screen, the dialog on it, the products it acts on, a flag for each field and list | every press and key | dialogs that replace one another, flags cleared from hand-written lists, the idle lock | `Forms`, `Screens`, `ScreensProofs` |
| Locations | one table | add | none: one INSERT | the form in `Forms` |
| Schema (`schema.sql`, `database.c`) | the tables | run at each start | the two define `purchase_orders` and `suppliers` with different columns, and the first wins on a new file | the start states of `Office` |
| Reports and exports (`database.c`, `python_scripts/`) | none | lists, CSV, PDF, XLSX | formatting | not modelled |
| Layout and drawing (`main_window.c`) | scroll, pages | draw | layout | not modelled |

How they interact. The screens call `inv_*` and `db_*`; every change of stock,
whoever asks for it (movement panel, receipt, shipment, return, count, transfer),
is a call of `inv_post_movement`. The modules keep this: `StockStore` has the
statements of that call and is shown to implement `StockLedger`, where a movement is
one step; `OrderLines`, `StockTake`, `Transfer` and `Dispatch` then use a movement as
one step, or as none when its COMMIT fails unnoticed. `Catalog` uses the operators
of `HashOps` for its two indexes, and `Screens` those of `Forms`. Orders are
split where the code splits them: the list of orders and the form that creates one,
beside the partners they name, are in `Office`; one order and its lines are in
`OrderLines` and `Dispatch`. Users and their sessions touch nothing of the rest but
the restore, which `Accounts` sees from the side of the sessions, `Catalog` from that
of the array and `Screens` from that of the dialogs.

## Modules and code

**StockLedger** states what the tables promise: a movement changes a stock row
and its journal together and never below zero, a product is archived only when it
holds nothing, nothing else changes a quantity.

**StockStore** has one action per SQL statement. `db` is the committed file, `tx`
what the open transaction sees, `lock` the holder of the write lock, `pc` the next
statement of each instance. `BeginImmediate` and `LockUnavailable` are
`db_begin_immediate_retry`; `UpdateStock`, `InsufficientStock` and
`InsertMovement` are the body of `inv_post_movement`; `CheckEmpty` to `Deactivate`
that of `inv_delete_product`; `Activate` that of `inv_restore_product`; `Settle` is
what each does in memory after its commit. `StatementError` covers the results
that the code reads, `CommitLost` a COMMIT that fails and whose result no caller
reads, `Crash` and `Restart` the end of a process and `inv_init`. The movements
are kept as their sum per product and location, and a missing stock row as 0.
`slots` is the array `g_products` of each instance: `Restart` loads it as `inv_init`
does, `Refreshed` is `refresh_product_total`, `Removed` the swap with the last slot,
`Appended` what a restore adds, even of a product that has a slot already. Two history
variables say whose totals on screen can be relied on (`LastWriterIsFresh`): `writer`,
the instance whose commit last touched a product, and `doubled`, the products that an
instance has listed twice and still lists, whose later slots no refresh reaches.

**HashOps** defines the functions of `hashtable.c` on a table value; **HashTable**
applies any sequence of them; **StringMap** is the map that `hashtable.h` promises.
The hash is a parameter. A recursive function in a definition stands for a loop of the
code; there is no recursive operator. `ht_put` stops at the first tombstone, so putting again a
key that is present can make a second entry of it: `MapWhileDistinct` says the
table is the map until that happens, `OnlyRewritesDuplicate` that nothing else
makes it happen.

**Catalog** is the memory of one instance: array, count, both indexes, and the
rows they stand for. A pointer into the array is a position. The two indexes are tables
of `HashOps` over one set of strings with one hash, as in the code. `Loaded` is the loop
of `inv_init`, row by row (`Entered`), until the array is full. `inv_search` asks the
SKU index, then reads the array for the SKUs that have the text as a part, but for the
position it has already; `SearchFindsEach` says a listed product is found first and
each other once.

**OrderLines** has the order screen, its dialogs and `inv_receive_po_item` as four
commits: `PostMovement`, `WriteReceived`, `ReadLines` (a read), `WriteStatus`.
`dialog` holds the static variables of `draw_po_detail_screen`, which survive a
change of screen. The four names of a status are constants, so that the module
describes the dispatch orders too. `posted` is what the movements of a line add up
to; `missed` is a history variable, the units of the movements whose COMMIT failed
(`MovementLost`) while the call went on. `env`, chosen at the start, says which
instances are in use, whether statements fail and instances stop, and whether lines
are added to an order already receiving: the safety properties hold in every
environment, `PostedMatchesReceived` and `StatusTracksLines` when the user is
`Undisturbed`.

**ProductEdits** has the edit panel with its copy of the version, the UPDATE
`WHERE id=? AND version=?`, and the three commits of `inv_delete_category`. `lost` is
a history variable: products of which an instance lost an update in a COMMIT that
failed. A refused save changes nothing and is left out. `KnownCategoryKept` says what a
deletion may take: the category of a product that another instance has saved since
the deleting one last knew of it, or that this one lost an update of, and no other.

**StockTake** has the count dialog. **Transfer** has `inv_transfer`: two movements
and a compensation. `lost` is a history variable too: the units of transfers cut
short, less those of transfers whose first movement was the one lost.

**Dispatch** composes what takes units out of the dock and brings them back. The
screen and `inv_ship_do_item` are an instance of `OrderLines` whose movement is, at
the same time, a movement of an instance of `Transfer`: `Ship` needs the units,
`ShipmentFails` is what happens without them. Returns are two more commits
(`PostReturn`, `RecordReturn`), with `absent` for the movements lost in a COMMIT.
`OtherMove` is any other screen, `TransferStep` a transfer under way. An instance is
one thread and starts nothing inside another call (`Free`).

**Office** has the four screens of suppliers, customers, purchase orders and dispatch
orders, which are the same code on other tables: `side` says which pair a behaviour
is about. A partner is a model value, apart from the id of its row, because SQLite
gives the largest id again after its row is deleted; `form` remembers both the id
that the static variables of the screen hold and the partner the user saw. The
deletion is a count (`CountUses`) and a DELETE (`DeletePartner`), a new order a read
of `MAX + 1` (`ReadNumber`) and an INSERT (`InsertOrder`). The count and the constraint
do not look at the same rows: archived products and purchase orders are not counted,
but the foreign keys see them. `entries` counts the "creation" rows of the audit log,
each written in a commit after the one it tells of (`LogCreation`), or by one of the
four commits of `db_backfill_audit_log` (`Backfill`) at the start of an instance.

**Accounts** has the tables `users` and `login_log`, a backup of both, and for each
instance its screen, `g_session` and the call under way. `session_login` is a check
of the password (`Verify`) and an INSERT of a row of the log (`OpenSession`), a
sign-up a count of users (`RoleOfNew`), an INSERT and a login whose result is not
looked at. The lock leaves the session open; the next login replaces it without
closing its row. `Restore` replaces both tables and logs this instance out, not the
others. Passwords and hashes are left out.

**Forms** is the focus of the four forms of the catalog, widget by widget in the order
they are drawn: each field has a flag of its own, each drop-down list another, each
widget clears the flags of a list written by hand, and Tab and Enter go through
`nav_handle_focus`. **Screens** is the loop of `gui_run` around them: a step is a frame
with one input; a button takes a press and a release. The toolbar buttons and F2 do
not look whether a dialog is open and replace it; `selected`, `editing` and `shown` are
the three products that the code keeps apart for its dialogs. `kind`, chosen at the
start, is the form whose flags are followed, so that the flags of one form are
multiplied only by the screens.

The `MC` modules give the constants that a configuration cannot write and the
symmetry sets. Definitions commented "Mutant" are plausible mistakes in the code,
used to see that each property can fail; no specification uses them.

## Runs

| Run | Question | Bounds |
|---|---|---|
| StockStoreShared | Do the tables, under two instances, failures and crashes, follow the ledger, does the last writer show the right total, and do calls return? | 2 instances, 1 product in 2 locations, arrays of 2 slots, movements of one unit, none started that would lift a row of the product above 1 |
| HashTableCalls | Is the table sound under any calls, and when is it a map? | 4 keys whose probes cross, 2 values, capacity 4 doubling to 8 |
| CatalogLists | Does the array follow the rows, and are its products found? | 3 products, 2 of one hash, 1 barcode, array of 2 |
| CatalogGhost | Are SKUs found by the index listed? No | the same, array of 3 |
| OrdersShared | Is nothing received beyond the order, or without its movement? Do stock and status follow the lines when nothing disturbs the user? | 2 instances, 1 order, 2 lines of up to 2 units, 3 units posted; one instance undisturbed or two with every fault |
| OrdersCarriedDialog | The status with two orders? No | 1 instance undisturbed, 2 orders, lines of 1 unit |
| EditsShared | Is an edit ever lost unseen, does a deletion take a category it could have counted? | 2 instances, 1 product, 1 category, 3 updates, 2 values |
| StockTakeLocations | Is a count recorded where it was made? No | 1 instance, 2 locations |
| DispatchShared | Do shipments, returns, transfers and other movements account for every unit, and do lines and returns say what happened? | 2 instances, 1 order, 1 line of 1 unit, 2 units posted, 2 locations of 1 unit, 1 unit lost, 1 returned |
| OfficeShared | Do numbers follow, references stay, partners keep their own details and orders, and is the journal complete? | 2 instances, 2 partners, 2 ids, 2 orders, each of the three sides |
| AccountsShared | Does a session close its own row, is who is inside who logged in, who becomes an administrator? | 2 instances, the seeded account and one other, 2 rows of the log, 2 ids, roles changed, files restored or users miscounted |
| ScreensDialogs | Are dialogs those of the product selected, and visible? Does one field take what is typed? Is a session left alone locked? | 2 products, each of the four forms in turn |

What the passing runs show is in their names: every property listed in their
configuration holds, and each was also seen to fail with a mistake put into the model
(the definitions commented "Mutant"). The type invariants of most modules are not
listed: they are a conjunct of the inductive invariant of the run, or a theorem.

Why the bounds are enough. Two instances give every race on one lock, one row, one
line or one version: each call touches one product, one order, one partner or one
account, and a third instance can only repeat what the second does. Every invariant
and action property of a passing run is also proved for all bounds (`StatusTracksLines` for a
single order, as it must be), so what the bounds decide is how much the runs, and the
mistakes put into the model, explore of it. A capacity of 4 instead of 4096, with four keys of which two share a
hash and one is offset, reaches collisions, wrap-around, reused tombstones and the
doubling, which come with 2868 products in the program; it is the same code at
another value of its parameter. In `DispatchShared` the quantities are one, so that
two shipments, a return and a transfer compete for the last unit of the dock, which
is where they can go wrong; lines of several units and partial shipments are in
`OrdersShared`, the same protocol. No line can be shipped beyond its order with a dock
of one unit: that property is left to `OrdersShared` and to the theorem
`NoOverShipment`. In `OfficeShared` two ids let the largest be deleted and given again
while the other stays, and a form or an order still name it. In `AccountsShared` two
rows of the log let one session take the row number that another holds from before a
restore; changes of role, restores and counts of users that fail are not mixed in one
behaviour, since roles matter only to `AdminsWerePromoted` and to who may use the panels,
and miscounts to `AdminsWerePromoted` alone; the theorems take any mixture.
In `StockStoreShared` two slots are enough for a product to be listed twice and for a
restore to find the array full; two movements under way can still put a unit in each
location. In `ScreensDialogs`
two products tell the one selected from another.

`MaxStock`, `MaxPosted`, `MaxVersion`, `MaxCapacity`, `MaxIndexCapacity`, `MaxLost`,
`MaxReturned`, `MaxId`, `MaxOrders`, `MaxLog` and `MaxUsers` only disable an action when it
would go past them. `Environments`, `Sides`, `Scenarios` and `Watched` are sets of kinds of
behaviour, of which each behaviour has one.

Deadlock is checked in every run.

Fairness. `StockStoreShared` uses `FairSpec`, weak fairness of the steps of each
instance inside a call: an instance is one thread, and a call that has started runs on
unless the process dies. Nothing is assumed of users, of restarts, or of crashes.
Retries of `BEGIN IMMEDIATE` are limited to eight, so an instance that does not get the
lock returns (`LockUnavailable`): this is why `CallsReturn` needs no strong fairness.
`Screens` has weak fairness of `Lock` alone: the loop of `gui_run` draws frame after
frame whether or not there is an input, and every frame of the two screens concerned
looks at `session_is_locked`. No input is fair, and neither is the passing of time.

## Where the code and its documentation part

The three runs that expect a violation each show one:

* `CatalogGhost`: after some archives and edits, the SKU of an archived product
  leads to another product (`inv_delete_product` removes one of two entries).
  `includes/core.h:59` says that database and index can never drift. The SKU typed
  in an order line is looked up there. After the index doubles, even a listed
  product can be found at a position it has left, because `ht_resize` places both
  entries again: `ListedFoundBeforeDoubling` is conditional for that reason.
* `OrdersCarriedDialog`: the Back button of an order works while its receipt dialog
  is open; confirmed later on another order, the receipt updates the status of that
  one. `README.md:133` says the status follows the lines.
* `StockTakeLocations`: what is counted at one location is compared with the total
  of all locations. `README.md:151` says the right difference is posted.

Others are visible in the models without a run of their own.

Stock and orders: a receipt whose line is not written after its movement was posted,
and is confirmed again, posts twice (hence `ReceivedWasPosted` and not equality in a
disturbed environment); adding a line sets a partly received order back to `commande`
(`env.late`); a total is stale after a movement of another instance, and, where
`inventory.c:44` says that the list never shows stale totals, even after a movement of
the same instance: a restore appends a slot without looking whether the product is
still listed (another instance archived it, or the COMMIT of a restore was lost), and
`refresh_product_total` stops at the first (`doubled`); a receipt for an
archived product is executed; a version conflict comes back at each new try until rows
are loaded again, at the next start; a transfer whose compensation fails loses its
units (`lost`).

Categories and partners: a category given to a product after its deletion has cleared
the products, or after they were counted, is taken from it, where `README.md:122` says
deletion is refused when a product uses the category (`KnownCategoryKept` says which
products are safe). An edit or an order meant for a partner that was deleted goes to
the one that has its id now (`OnlyTheDeletedAreMistaken`). An archived product, or a
purchase order, makes the deletion of a supplier fail although the screen announced no
use of it. On a file that `schema.sql` makes, `suppliers` and `purchase_orders` do not
have the columns that `database.c` names, and no row can be created in them
(`side = "unmigrated"`). Two instances that start on an empty journal enter everything
twice (`overlap`); one that stops half way leaves the rest out for good (`cut`).

Sessions and screens: the row of a session replaced after a lock is never closed; the
login after a sign-up is not looked at, and the screen changes all the same
(`bypassed`); a count of users that fails counts as none (`misread`); the screen of
backups reports a success whatever the copy did; the idle lock works on two screens
out of all; toolbar buttons and F2 work under an open dialog; the dialog of a movement
whose product a restore took away blocks the catalog and is not drawn (`stale`).
`inv_search` says that the exact SKU or barcode comes first; only the SKU index is
asked.

## Proofs

Eight modules hold theorems; `tlapm` checks them to the last leaf. They assume what
the modules assume of their constants, named where they are declared: names that are
different from the null value they share a variable with, natural bounds, statuses that
differ, and, where units are summed (`Dispatch`), finite sets of instances, lines and
locations. They assume nothing about sizes.

**StockStoreProofs.** `StoreInv` is what makes the safety properties inductive.
Stock and journal are equal in `db` only because they are equal in `tx` at the
moment of the COMMIT, so the invariant says, for each statement, how `tx` differs
from `db` (`WorkingTables`): by nothing before the UPDATE, by the stock after it, by
stock and journal after the INSERT. This stays true only if nobody else writes,
hence `LockHeldInside` (inside a transaction if and only if holding the lock) and
`tx = db` when the lock is free. From it: `TypeCorrect`, `JournalAlwaysMatches`,
`NeverNegative`, and `StoreImplementsLedger`, where the only steps that change `db`
are commits, and a commit is a `Post`, `Archive` or `Restore` of the ledger.
`LastWriterAlwaysFresh` needs one strengthening more, `FreshView`: what it says holds inside
calls too, but for the product of a call between its commit and `Settle`, and a product
that is not `doubled` has one slot. Then whatever the call appends, swaps or refreshes,
a slot of another product is one that was there before, and the slot of its own product,
being the only one, is the one refreshed (`SettledFresh`). Without `doubled` the
statement is false of the code, even for the first slot of a product: a swap can bring
forward a later one, never refreshed.

**OrderLinesProofs.** No instance locks a line between the dialog and the write, so
the argument is about what a dialog remembers: its quantity ordered never changes,
its quantity already received was posted, or lost in a COMMIT, and neither is ever
taken back (`DialogFits`), so the total it writes is at most what is ordered and at most what
was posted or lost (`Underway`). From this, `OrdersInv`: `NoOverReceipt`, `ReceiptsArePosted`,
`TypeCorrect`. An undisturbed user has more (`CalmInv`): what a dialog remembers is still what
its line says, and the only line whose movements differ from it is the one whose
quantity is about to be written, which is `ReceiptsMatch`. The status needs in addition that there is
one order (`OneOrderInv`): it fits its lines but between the commit that writes a line
and the one that writes the status, and what the latter will write has been computed
from them. With two orders the dialog of one may be confirmed on the other, as
`OrdersCarriedDialog` shows, so `StatusOfOneOrder` has that hypothesis. `LinesInv`, the
conjunction of the three, is checked in `OrdersShared`.

**ProductEditsProofs.** `CopiesBehind`: a copy is never ahead of its row, and at equal
versions has its fields, as long as its instance lost no update of the product.
Two instances cannot both write version n + 1 because the UPDATE compares. From it
`NoLostUpdate`; from `PanelFollowsSlot`, `LostUpdateRefused`; `CategoriesAlwaysPresent`
rests on the foreign key alone. `DeletionTakesNothingKnown` is an action property; its
strengthening, `GivenSinceCount`, says that from the count to the commit that clears the
category, whatever product has it got it in a save this instance does not know.

**DispatchProofs.** Each step of `Dispatch` is a step of the instance of `OrderLines`
or leaves the variables of the orders as they are (`DispatchImplementsOrders`): a
shipment, which needs stock, is a movement of `OrderLines`, which may be refused
without a reason. What `OrderLinesProofs` shows holds then of the dispatch orders
with every failure: `NoOverShipment`, `ShipmentsHaveLeft`. The units are a sum over
locations and instances. The sum of the community modules is a fold, of which nothing is
known at first; the first part of the module shows, from a smallest set for which it
would fail, that the recursive function it stands for exists and that elements may be
summed in any order, then what a sum becomes when one value changes (`SumOfChanged`) or one
element joins or leaves. With that, each movement keeps `StockInv` (types and
`UnitsAccountedFor`: what was brought in is in a location, on its way or lost) and each
commit of a return keeps `ReturnsInv` (the returns posted, lost and about to be posted
fit the bound): `UnitsConserved`, `ReturnsArePosted`, `DispatchTypeCorrect`. The three parts
are needed together for `DispatchImplementsStock`: a shipment is a movement out of the
dock in `Transfer` because `OrderLines` says it has units, and a return one into it because
of `ReturnsInv`.

**IndexProofs.** Its first part is about any table. The probes of a key visit each slot
once (`Probes`), so the first slot met of a set is one of it, and no other comes before
it. `Consistent` says that a live entry is met before any empty slot and that the
count is that of the live slots; `Roomy`, that a free slot is left. `Placing`, `Removing`, `Resizing` and
`Putting` say what each function does to the entries, and to the answer for every
other key: a removal leaves a tombstone, so it cuts no entry off; a doubling places
fewer entries than would crowd the new table. From these: `TableSound`, `EntriesAlwaysReachable`,
`LastPutAlwaysFound`, `OnlyRewritesEverDuplicate`, and `MapUntilDuplicate`, the refinement of `StringMap` by a table
without two entries of a key. The second part is `CatalogInv`: rows have different SKUs (`RowsApart`),
each slot in use is the copy of an active row and no two of one (`Lists`), and the SKU
index leads to each, as long as it has not doubled (`Points`). Ghost entries are
allowed by it, as they must be. The last slot that takes the place of the archived one
is indexed again, and `Putting` says that the other lookups do not change. From it:
`ListAlwaysSound`, `ListAlwaysFollows`, `ListedAlwaysFound`, `SearchAlwaysFindsEach`. `TextsAssumption` is what the code
has by its types (both indexes take strings, the empty barcode is not indexed),
`PartsAssumption` what `strstr` gives, `NullAssumption` says a position is not the null
pointer. A recursive function (doubling, loading, search) is shown to exist, and what it returns is
shown from the least step that would break it.

**AccountsProofs.** Typing carries the bounds of ids and rows. `InsideAlwaysAsEntered` is
inductive with it. `AdminsAlwaysPromoted` needs `SeedFirst`: once an instance runs and
nothing was misread, the seeded account is there, so a count never finds none;
it must also be in the backup, which may come back. `SessionAlwaysOwnsRow` needs
`NobodyHasRow` (no session, no row); the argument is that a new row is one past the
log, so no fresh session has its number, while sessions older than a restore are
excepted by `fresh`, and what they close is in `strayed`.

**OfficeProofs.** `NumbersAlwaysFollow` needs `NumbersReadFollow`: a number read, and not yet
inserted, comes just after one in use, and stays so because orders are never
deleted; what is inserted is then either refused as taken or the next. `ReferencesAlwaysPresent` is
inductive by the foreign keys, for every interleaving of counts and deletions.
`OnlyTheDeletedAreEverMistaken` needs `PartnersInv`: whoever a row, an order or a form
shows either is the partner of the row with that id, or has no row at all and cannot
get one again (`known`).

For the journal, `JournalInv` is about the entries that an instance has still to write
(`Coming`): as long as one instance runs at a time, each is of a thing that has no entry
yet, so writing it does not make two (`NothingEnteredTwice`); as long as nothing was cut
short, they are all that misses, so none misses when the instance waits for its user
(`EverythingEntered`). The partners that the backfill finds were entered by a user or
were in the file: that is `PartnersInv` again.

**ScreensProofs.** `ScreensInv` adds `SelectionListed` (what is selected is listed, unless a
restore came since): it is what keeps `DialogsAlwaysDrawn`, and with it
`DialogsAlwaysOfSelected`, through the buttons that replace an open dialog. `OneFieldAlways` is about a
frame: `FormDrawn` shows, widget after widget, that at the end the flag set is the one
of the press or, if nothing was pressed, the one there was, and that each field not
pressed has given up its turn. `WidgetTurn` is one widget: it takes the focus only if it was
pressed, and a field that was not gives it up when anything else was. `FormsDrawn` says that
each field of the four forms has its turn. `FormInv` carries the flags over the
frames of other dialogs and the buttons that open or close a form. `ScreensTypeCorrect` is the
type invariant.

Only model-checked: liveness (`CallsReturn`, `LockComes`), which is out of the prover's
reach, and the three violations, of which a counterexample is all there is to show.
`StatusTracksLines` is checked on one order and proved for one.

## What is not modelled

* Layout and drawing, pages and scrolling, and what is typed into fields; the search
  box and its focus; names, texts, prices and dates of rows.
* Reports, lists and exports: reads, with no state of their own.
* Rights: any user is taken to have them, since the code asks `session_can` before an
  operation and never inside one. The copy of the role that a session keeps is in
  `Accounts`; the third role, `manager`, changes nothing there.
* The limits of 256 rows read of a list (lines of an order, partners, orders): out of
  TLC's reach together with the rest of the protocol.
* Read errors inside a transaction and a corrupt file. SQLite is external: its write
  lock, its rollback after an error or a crash, its foreign keys, its ids and its copy
  of pages are taken as documented.
* Several instances of `Catalog` on one file: the indexes of an instance that lists a
  product twice. The arrays themselves and their totals are in `StockStore`.
* Renaming categories, `db_find_or_create_category` and adding locations: one or two
  statements each. The entries of the audit log for products, users and counts, written
  as those of partners and orders are.
* The statements of `db_apply_schema`, idempotent and in a straight line; `Office` starts
  from what they leave. `seed_user.c`, a tool apart, and vendored libraries.

## What is left

In the order in which it would add most:

1. Several arrays of `Catalog` over one file and over the rows of `StockStore`, with the
   creation of a product and of its initial quantity, two calls whose second may fail.
2. The search box and the dialogs of the other screens in `Forms`, when their fields grow
   flags of the same kind.
3. Theorems: what `SearchFindsEach` says of the barcode index and of names, once
   `inv_search` has them; what remains true of a lookup after the index has doubled (the
   position found was that of the SKU at some time); two locations of `StockTake`, with
   the total corrected.
