---------------------------- MODULE ProductEdits ----------------------------
(***************************************************************************)
(* The edit panel of the catalog and inv_update_product's optimistic lock, *)
(* with inv_delete_category, run by several application instances.  Each   *)
(* instance edits the copies it loaded when it started (g_products); only  *)
(* the restore of a backup, which is left out, loads them again.           *)
(*                                                                         *)
(* An update is one step, BEGIN IMMEDIATE to COMMIT, because it is alone   *)
(* under the write lock; a deletion of a category is three commits.  The   *)
(* fields of a product other than its category are one value.  A save      *)
(* refused before it reaches the table, by the lock or as a conflict       *)
(* changes nothing, neither in the file nor in the copy, and is left out.  *)
(* Products are all active: archiving is in StockStore.                    *)
(***************************************************************************)
EXTENDS Integers

CONSTANTS
  Procs,        \* application instances
  Products,     \* ids of active products
  Categories,   \* ids of the categories present at the start
  Values,       \* what the edited fields may hold
  MaxVersion,   \* bound: updates of one product
  NoCategory,   \* category_id NULL
  Nothing       \* no panel is open, no category is being deleted

ASSUME MaxVersionAssumption == MaxVersion \in Nat
ASSUME NamesAssumption == NoCategory \notin Categories /\ Nothing \notin Products

VARIABLES
  row,        \* products table: version, value, category
  categories, \* categories table
  slot,       \* g_products of each instance
  panel,      \* edit panel: the product, and its slot when the panel opened
  deletion,   \* category an instance is deleting, and the commit it is at
  lost        \* history: instances, and products whose update they lost in a
              \* COMMIT that failed and that no caller looks at

vars == <<row, categories, slot, panel, deletion, lost>>

Rows == [version : Nat, value : Values, category : Categories \cup {NoCategory}]

NoDeletion == [category |-> NoCategory, at |-> "idle"]

Deletions ==
  [category : Categories \cup {NoCategory}, at : {"idle", "clear", "delete"}]

TypeOK ==
  /\ row \in [Products -> Rows]
  /\ categories \in SUBSET Categories
  /\ slot \in [Procs -> [Products -> Rows]]
  /\ panel \in [Procs -> [product : Products \cup {Nothing}, seen : Rows]]
  /\ deletion \in [Procs -> Deletions]
  /\ lost \in SUBSET (Procs \X Products)

Init ==
  /\ row \in [Products -> [version : {0}, value : Values, category : {NoCategory}]]
  /\ categories = Categories
  /\ slot = [p \in Procs |-> row]
  /\ panel \in [Procs -> [product : {Nothing}, seen : {row[pr] : pr \in Products}]]
  /\ deletion = [p \in Procs |-> NoDeletion]
  /\ lost = {}

AtRest(p) == deletion[p] = NoDeletion

Close(p) == panel' = [panel EXCEPT ![p].product = Nothing]

-----------------------------------------------------------------------------
(* The edit panel.                                                         *)

OpenPanel(p, pr) ==
  /\ AtRest(p)
  /\ panel[p].product = Nothing
  /\ panel' = [panel EXCEPT ![p] = [product |-> pr, seen |-> slot[p][pr]]]
  /\ UNCHANGED <<row, categories, slot, deletion, lost>>

Cancel(p) ==
  /\ AtRest(p)
  /\ panel[p].product # Nothing
  /\ Close(p)
  /\ UNCHANGED <<row, categories, slot, deletion, lost>>

\* Mutant: the UPDATE names the row only by its id.
MatchesById(r, seen) == TRUE

\* WHERE id = ? AND version = ?
Matches(r, seen) == r.version = seen.version

\* What the UPDATE writes in the row, foreign key permitting.
Written(r, v, c) == [version |-> r.version + 1, value |-> v, category |-> c]

\* What the instance then keeps: the fields saved, and its own version plus one.
Kept(s, v, c) == [version |-> s.version + 1, value |-> v, category |-> c]

\* Mutant: the version column is not incremented.
SaveSameVersion(p, v, c) ==
  LET pr == panel[p].product IN
  /\ AtRest(p)
  /\ pr \in Products
  /\ row[pr].version < MaxVersion
  /\ c \in categories \cup {NoCategory}
  /\ Matches(row[pr], panel[p].seen)
  /\ row' = [row EXCEPT ![pr] = [@ EXCEPT !.value = v, !.category = c]]
  /\ slot' = [slot EXCEPT ![p][pr] = [@ EXCEPT !.value = v, !.category = c]]
  /\ Close(p)
  /\ UNCHANGED <<categories, deletion, lost>>

Save(p, v, c) ==
  LET pr == panel[p].product IN
  /\ AtRest(p)
  /\ pr \in Products
  /\ row[pr].version < MaxVersion
  /\ c \in categories \cup {NoCategory}
  /\ Matches(row[pr], panel[p].seen)
  /\ \/ row' = [row EXCEPT ![pr] = Written(@, v, c)] /\ UNCHANGED lost
     \/ lost' = lost \cup {<<p, pr>>} /\ UNCHANGED row
  /\ slot' = [slot EXCEPT ![p][pr] = Kept(@, v, c)]
  /\ Close(p)
  /\ UNCHANGED <<categories, deletion>>

-----------------------------------------------------------------------------
(* inv_delete_category: count the products that use it, clear the column   *)
(* where it still is, delete it.  No transaction is opened.                *)

InUse(c) == \E pr \in Products : row[pr].category = c

\* Mutant: the products that use the category are not counted.
CountProductsNot(p, c) ==
  /\ AtRest(p)
  /\ panel[p].product = Nothing
  /\ deletion' = [deletion EXCEPT ![p] = [category |-> c, at |-> "clear"]]
  /\ UNCHANGED <<row, categories, slot, panel, lost>>

CountProducts(p, c) ==
  /\ AtRest(p)
  /\ panel[p].product = Nothing
  /\ ~InUse(c)
  /\ deletion' = [deletion EXCEPT ![p] = [category |-> c, at |-> "clear"]]
  /\ UNCHANGED <<row, categories, slot, panel, lost>>

ClearCategory(p) ==
  /\ deletion[p].at = "clear"
  /\ row' = [pr \in Products |->
       IF row[pr].category = deletion[p].category
       THEN [row[pr] EXCEPT !.category = NoCategory] ELSE row[pr]]
  /\ deletion' = [deletion EXCEPT ![p].at = "delete"]
  /\ UNCHANGED <<categories, slot, panel, lost>>

DeleteCategory(p) ==
  /\ deletion[p].at = "delete"
  /\ categories' = IF InUse(deletion[p].category)
                   THEN categories ELSE categories \ {deletion[p].category}
  /\ deletion' = [deletion EXCEPT ![p] = NoDeletion]
  /\ UNCHANGED <<row, slot, panel, lost>>

\* The instance stops, wherever it is, and inv_init loads the rows again.
Restart(p) ==
  /\ slot' = [slot EXCEPT ![p] = row]
  /\ Close(p)
  /\ deletion' = [deletion EXCEPT ![p] = NoDeletion]
  /\ lost' = {d \in lost : d[1] # p}
  /\ UNCHANGED <<row, categories>>

Next ==
  \E p \in Procs :
    \/ \E pr \in Products : OpenPanel(p, pr)
    \/ Cancel(p)
    \/ \E v \in Values, c \in Categories \cup {NoCategory} : Save(p, v, c)
    \/ \E c \in Categories : CountProducts(p, c)
    \/ ClearCategory(p) \/ DeleteCategory(p)
    \/ Restart(p)

Spec == Init /\ [][Next]_vars

-----------------------------------------------------------------------------
(* Properties.                                                             *)

(* A save that goes through replaces the fields its user had on screen,    *)
(* unless the instance has lost an update of the product: inv_update_      *)
(* product, "Prevents two managers from silently clobbering each other's   *)
(* edits to price/threshold/etc".                                          *)
SavesOverWhatWasSeen ==
  [][\A p \in Procs, pr \in Products :
       /\ <<p, pr>> \notin lost
       /\ row'[pr].version # row[pr].version
       /\ panel'[p] # panel[p]
       => row[pr].value = panel[p].seen.value]_vars

(* The row of a product never refers to a category that is gone, whatever  *)
(* the order in which edits and deletions of categories reach the file.    *)
CategoriesPresent ==
  \A pr \in Products : row[pr].category \in categories \cup {NoCategory}

(* Deleting a category takes it from no product whose last save the        *)
(* deleting instance knows of (inv_delete_category, "only ACTIVE products  *)
(* block deletion"; README, "refuses if active products still reference    *)
(* the category"): what it may take is only what another instance saved    *)
(* after the count, or over an update this one lost.                       *)
KnownCategoryKept ==
  [][\A p \in Procs, pr \in Products :
       /\ deletion'[p] # deletion[p]
       /\ row'[pr].category # row[pr].category
       /\ <<p, pr>> \notin lost
       => slot[p][pr].version < row[pr].version]_vars

(* The copy kept after a commit that was lost is ahead of the row by one   *)
(* version and gets no further: the next save of it is refused.            *)
AheadByOneAtMost ==
  \A p \in Procs, pr \in Products : slot[p][pr].version <= row[pr].version + 1

(***************************************************************************)
(* The invariant behind the optimistic lock: a copy is never ahead of the  *)
(* row, and one with the row's version has the row's fields, as long as    *)
(* its instance has lost no update of the product.                         *)
(***************************************************************************)
Behind(copy, r) ==
  /\ copy.version <= r.version
  /\ copy.version = r.version => copy.value = r.value

PanelFollowsSlot ==
  \A p \in Procs, pr \in Products :
    panel[p].product = pr => panel[p].seen.version = slot[p][pr].version

CopiesBehind ==
  \A p \in Procs, pr \in Products :
    <<p, pr>> \notin lost =>
      /\ Behind(slot[p][pr], row[pr])
      /\ panel[p].product = pr => Behind(panel[p].seen, row[pr])

EditsInv ==
  /\ TypeOK
  /\ AheadByOneAtMost
  /\ PanelFollowsSlot
  /\ CopiesBehind

\* What took the category since it was counted was saved by another instance.
GivenSinceCount ==
  \A p \in Procs : deletion[p].at = "clear" =>
    /\ deletion[p].category \in Categories
    /\ \A pr \in Products :
         row[pr].category = deletion[p].category /\ <<p, pr>> \notin lost
         => slot[p][pr].version < row[pr].version
=============================================================================
