------------------------- MODULE ProductEditsProofs -------------------------
EXTENDS ProductEdits, TLAPS

(* A row that a save has written, and the copy kept of it, are rows. *)
LEMMA SavedRows ==
  ASSUME NEW r \in Rows, NEW v \in Values, NEW c \in Categories \cup {NoCategory}
  PROVE  Written(r, v, c) \in Rows /\ Kept(r, v, c) \in Rows
BY DEF Written, Kept, Rows

(* The tables and the copies start well typed. *)
LEMMA TypeInit == Init => TypeOK
BY DEF Init, TypeOK, Rows, Deletions, NoDeletion

(* Every step keeps the types, whether or not commits fail. *)
LEMMA TypeStep == TypeOK /\ [Next]_vars => TypeOK'
<1> SUFFICES ASSUME TypeOK, [Next]_vars PROVE TypeOK'
  OBVIOUS
<1> USE DEF TypeOK
<1>1. ASSUME NEW p \in Procs, NEW pr \in Products, OpenPanel(p, pr) PROVE TypeOK'
  BY <1>1 DEF OpenPanel
<1>2. ASSUME NEW p \in Procs, Cancel(p) PROVE TypeOK'
  BY <1>2 DEF Cancel, Close
<1>3. ASSUME NEW p \in Procs, NEW v \in Values,
             NEW c \in Categories \cup {NoCategory}, Save(p, v, c)
      PROVE  TypeOK'
  <2> DEFINE pr == panel[p].product
  <2>1. pr \in Products
    BY <1>3 DEF Save
  <2>2. /\ Written(row[pr], v, c) \in Rows
        /\ Kept(slot[p][pr], v, c) \in Rows
    BY <2>1, SavedRows
  <2>3. row' \in [Products -> Rows] /\ slot' \in [Procs -> [Products -> Rows]]
    BY <1>3, <2>1, <2>2 DEF Save
  <2>4. lost' \in SUBSET (Procs \X Products)
    BY <1>3, <2>1 DEF Save
  <2>5. panel' \in [Procs -> [product : Products \cup {Nothing}, seen : Rows]]
    BY <1>3 DEF Save, Close
  <2> QED
    BY <1>3, <2>3, <2>4, <2>5 DEF Save
<1>5. ASSUME NEW p \in Procs, NEW c \in Categories, CountProducts(p, c) PROVE TypeOK'
  BY <1>5 DEF CountProducts, Deletions
<1>6. ASSUME NEW p \in Procs, ClearCategory(p) PROVE TypeOK'
  <2>1. \A pr \in Products : [row[pr] EXCEPT !.category = NoCategory] \in Rows
    BY DEF Rows
  <2>2. row' \in [Products -> Rows]
    BY <1>6, <2>1 DEF ClearCategory
  <2>3. deletion' \in [Procs -> Deletions]
    BY <1>6 DEF ClearCategory, Deletions
  <2> QED
    BY <1>6, <2>2, <2>3 DEF ClearCategory
<1>7. ASSUME NEW p \in Procs, DeleteCategory(p) PROVE TypeOK'
  BY <1>7 DEF DeleteCategory, Deletions, NoDeletion
<1>8. ASSUME NEW p \in Procs, Restart(p) PROVE TypeOK'
  BY <1>8 DEF Restart, Close, Deletions, NoDeletion
<1>9. CASE UNCHANGED vars
  BY <1>9 DEF vars
<1> QED
  BY <1>1, <1>2, <1>3, <1>5, <1>6, <1>7, <1>8, <1>9 DEF Next

(* The rows, the copies and the deletions under way keep their types. *)
THEOREM TypeCorrect == Spec => []TypeOK
<1> QED
  BY TypeInit, TypeStep, PTL DEF Spec

-----------------------------------------------------------------------------
(* A copy behind a row stays behind it when the row is saved again or loses *)
(* its category.                                                            *)
LEMMA BehindSaved ==
  ASSUME NEW copy \in Rows, NEW r \in Rows, NEW v, NEW c, Behind(copy, r)
  PROVE  /\ Behind(copy, Written(r, v, c))
         /\ copy.version # Written(r, v, c).version
BY DEF Behind, Written, Rows

(* The copies loaded at the start are the rows themselves. *)
LEMMA EditsInit == Init => EditsInv
<1> SUFFICES ASSUME Init PROVE EditsInv
  OBVIOUS
<1>1. TypeOK
  BY TypeInit
<1> QED
  BY <1>1, NamesAssumption
  DEF Init, EditsInv, AheadByOneAtMost, PanelFollowsSlot, CopiesBehind, Behind, TypeOK, Rows

(* Every step keeps the invariant, the loss of a commit included. *)
LEMMA EditsStep == EditsInv /\ [Next]_vars => EditsInv'
<1> SUFFICES ASSUME EditsInv, [Next]_vars PROVE EditsInv'
  OBVIOUS
<1>0. TypeOK /\ TypeOK'
  BY TypeStep DEF EditsInv
<1> USE <1>0, NamesAssumption DEF EditsInv, AheadByOneAtMost, PanelFollowsSlot, CopiesBehind
<1>1. ASSUME NEW p \in Procs, NEW pr \in Products, OpenPanel(p, pr) PROVE EditsInv'
  BY <1>1 DEF OpenPanel, TypeOK
<1>2. ASSUME NEW p \in Procs, Cancel(p) PROVE EditsInv'
  BY <1>2 DEF Cancel, Close, TypeOK
<1>3. ASSUME NEW p \in Procs, NEW v \in Values,
             NEW c \in Categories \cup {NoCategory}, Save(p, v, c)
      PROVE  EditsInv'
  <2> DEFINE pr == panel[p].product
  <2>1. /\ pr \in Products
        /\ row[pr].version = panel[p].seen.version
        /\ slot[p][pr].version = row[pr].version
    BY <1>3 DEF Save, Matches
  <2>2. /\ slot' = [slot EXCEPT ![p][pr] = Kept(@, v, c)]
        /\ panel' = [panel EXCEPT ![p].product = Nothing]
    BY <1>3 DEF Save, Close
  <2>3. PanelFollowsSlot'
    BY <2>1, <2>2 DEF TypeOK
  <2>4. CASE row' = [row EXCEPT ![pr] = Written(@, v, c)] /\ UNCHANGED lost
    <3>1. AheadByOneAtMost'
      BY <2>1, <2>2, <2>4 DEF Kept, Written, TypeOK, Rows
    <3>2. Behind(slot[p][pr], row[pr]) =>
            Behind(Kept(slot[p][pr], v, c), Written(row[pr], v, c))
      BY <2>1 DEF Behind, Kept, Written, TypeOK, Rows
    <3>3. ASSUME NEW q \in Procs, NEW qr \in Products, <<q, qr>> \notin lost
          PROVE  Behind(slot'[q][qr], row'[qr])
      <4>1. CASE q = p /\ qr = pr
        BY <2>1, <2>2, <2>4, <3>2, <3>3, <4>1 DEF TypeOK
      <4>2. CASE q # p /\ qr = pr
        BY <2>1, <2>2, <2>4, <3>3, <4>2, BehindSaved DEF TypeOK
      <4>3. CASE qr # pr
        BY <2>1, <2>2, <2>4, <3>3, <4>3 DEF TypeOK
      <4> QED
        BY <4>1, <4>2, <4>3
    <3>4. ASSUME NEW q \in Procs, NEW qr \in Products, <<q, qr>> \notin lost,
                 panel'[q].product = qr
          PROVE  Behind(panel'[q].seen, row'[qr])
      <4>1. q # p /\ panel'[q] = panel[q]
        BY <2>2, <3>4 DEF TypeOK
      <4>2. CASE qr = pr
        BY <2>1, <2>4, <3>4, <4>1, <4>2, BehindSaved DEF TypeOK
      <4>3. CASE qr # pr
        BY <2>1, <2>4, <3>4, <4>1, <4>3 DEF TypeOK
      <4> QED
        BY <4>2, <4>3
    <3> QED
      BY <2>3, <2>4, <3>1, <3>3, <3>4
  <2>5. CASE lost' = lost \cup {<<p, pr>>} /\ UNCHANGED row
    <3>1. AheadByOneAtMost'
      BY <2>1, <2>2, <2>5 DEF Kept, TypeOK, Rows
    <3>2. ASSUME NEW q \in Procs, NEW qr \in Products, <<q, qr>> \notin lost'
          PROVE  /\ <<q, qr>> \notin lost
                 /\ slot'[q][qr] = slot[q][qr]
                 /\ panel'[q].product = qr => panel'[q] = panel[q]
      BY <2>1, <2>2, <2>5, <3>2 DEF TypeOK
    <3> QED
      BY <2>3, <2>5, <3>1, <3>2
  <2> QED
    BY <1>3, <2>4, <2>5 DEF Save
<1>5. ASSUME NEW p \in Procs, NEW c \in Categories, CountProducts(p, c) PROVE EditsInv'
  BY <1>5 DEF CountProducts
<1>6. ASSUME NEW p \in Procs, ClearCategory(p) PROVE EditsInv'
  <2>1. \A pr \in Products : /\ row'[pr].version = row[pr].version
                             /\ row'[pr].value = row[pr].value
    BY <1>6 DEF ClearCategory, TypeOK, Rows
  <2> QED
    BY <1>6, <2>1 DEF ClearCategory, Behind
<1>7. ASSUME NEW p \in Procs, DeleteCategory(p) PROVE EditsInv'
  BY <1>7 DEF DeleteCategory
<1>8. ASSUME NEW p \in Procs, Restart(p) PROVE EditsInv'
  <2>1. \A pr \in Products : Behind(row[pr], row[pr])
    BY DEF Behind, TypeOK, Rows
  <2>2. \A q \in Procs, pr \in Products : q # p /\ <<q, pr>> \notin lost' => <<q, pr>> \notin lost
    BY <1>8 DEF Restart
  <2> QED
    BY <1>8, <2>1, <2>2 DEF Restart, Close, TypeOK, Rows
<1>9. CASE UNCHANGED vars
  BY <1>9 DEF vars, TypeOK
<1> QED
  BY <1>1, <1>2, <1>3, <1>5, <1>6, <1>7, <1>8, <1>9 DEF Next

(* The inductive invariant of the optimistic lock. *)
THEOREM CopiesStayBehind == Spec => []EditsInv
<1> QED
  BY EditsInit, EditsStep, PTL DEF Spec

-----------------------------------------------------------------------------
(* A step that raises the version of a row and changes a panel is a save    *)
(* from that panel, and the panel showed the row's fields.                  *)
LEMMA SaveStep ==
  ASSUME EditsInv, Next, NEW p \in Procs, NEW pr \in Products,
         <<p, pr>> \notin lost,
         row'[pr].version # row[pr].version, panel'[p] # panel[p]
  PROVE  row[pr].value = panel[p].seen.value
<1>0. TypeOK
  BY DEF EditsInv
<1>1. \A q \in Procs : ~ClearCategory(q)
  BY <1>0 DEF ClearCategory
<1>2. PICK q \in Procs, v \in Values, c \in Categories \cup {NoCategory} : Save(q, v, c)
  BY <1>1
  DEF Next, OpenPanel, Cancel, CountProducts, DeleteCategory, Restart
<1>3. p = q /\ panel[p].product = pr
  BY <1>0, <1>2 DEF Save, Close, TypeOK
<1>4. Matches(row[pr], panel[p].seen) /\ Behind(panel[p].seen, row[pr])
  BY <1>2, <1>3 DEF Save, EditsInv, CopiesBehind
<1> QED
  BY <1>4 DEF Matches, Behind

(* An instance whose commits all reached the file never replaces fields     *)
(* that its user has not seen, however many instances edit the product.     *)
THEOREM NoLostUpdate == Spec => SavesOverWhatWasSeen
<1>1. EditsInv /\ [Next]_vars =>
        [\A p \in Procs, pr \in Products :
           /\ <<p, pr>> \notin lost
           /\ row'[pr].version # row[pr].version
           /\ panel'[p] # panel[p]
           => row[pr].value = panel[p].seen.value]_vars
  BY SaveStep
<1> QED
  BY CopiesStayBehind, <1>1, PTL DEF Spec, SavesOverWhatWasSeen

(* A copy whose update was lost stays one version ahead at most. *)
THEOREM LostUpdateRefused == Spec => []AheadByOneAtMost
<1>1. EditsInv => AheadByOneAtMost
  BY DEF EditsInv
<1> QED
  BY <1>1, CopiesStayBehind, PTL

-----------------------------------------------------------------------------
(* Every step keeps the categories of the rows in the table of categories. *)
LEMMA CategoriesStep ==
  TypeOK /\ CategoriesPresent /\ [Next]_vars => CategoriesPresent'
<1> SUFFICES ASSUME TypeOK, CategoriesPresent, [Next]_vars PROVE CategoriesPresent'
  OBVIOUS
<1> USE DEF CategoriesPresent
<1>1. ASSUME NEW p \in Procs, NEW v \in Values,
             NEW c \in Categories \cup {NoCategory}, Save(p, v, c)
      PROVE  CategoriesPresent'
  BY <1>1 DEF Save, Written, TypeOK
<1>2. ASSUME NEW p \in Procs, ClearCategory(p) PROVE CategoriesPresent'
  BY <1>2 DEF ClearCategory, TypeOK, Rows
<1>3. ASSUME NEW p \in Procs, DeleteCategory(p) PROVE CategoriesPresent'
  BY <1>3 DEF DeleteCategory, InUse
<1>4. CASE UNCHANGED <<row, categories>>
  BY <1>4
<1> QED
  BY <1>1, <1>2, <1>3, <1>4
  DEF Next, OpenPanel, Cancel, CountProducts, Restart, vars

(* Foreign keys hold across the three commits of a deletion, lost or not. *)
THEOREM CategoriesAlwaysPresent == Spec => []CategoriesPresent
<1>1. Init => CategoriesPresent
  BY DEF Init, CategoriesPresent
<1> QED
  BY <1>1, CategoriesStep, TypeCorrect, PTL DEF Spec

-----------------------------------------------------------------------------
(* A row that holds a category being deleted was saved since it was counted: *)
(* the instance that counted it can save nothing until it is done.          *)
LEMMA GivenStep ==
  EditsInv /\ GivenSinceCount /\ [Next]_vars => GivenSinceCount'
<1> SUFFICES ASSUME EditsInv, GivenSinceCount, [Next]_vars PROVE GivenSinceCount'
  OBVIOUS
<1>0. TypeOK /\ CopiesBehind
  BY DEF EditsInv
<1> USE <1>0, NamesAssumption DEF GivenSinceCount, TypeOK, Deletions
<1>1. ASSUME NEW p \in Procs, NEW v \in Values,
             NEW c \in Categories \cup {NoCategory}, Save(p, v, c)
      PROVE  GivenSinceCount'
  <2> DEFINE pr == panel[p].product
  <2>1. /\ pr \in Products
        /\ deletion[p].at # "clear"
        /\ deletion' = deletion
        /\ \A q \in Procs : q # p => slot'[q] = slot[q]
        /\ \A q \in Procs, qr \in Products :
             q # p => (<<q, qr>> \in lost' <=> <<q, qr>> \in lost)
    BY <1>1 DEF Save, AtRest, NoDeletion
  <2>2. \/ row' = row
        \/ row' = [row EXCEPT ![pr] = Written(@, v, c)]
    BY <1>1 DEF Save
  <2>3. ASSUME NEW q \in Procs, q # p, NEW qr \in Products, <<q, qr>> \notin lost,
               row'[qr] # row[qr]
        PROVE  slot[q][qr].version < row'[qr].version
    <3>1. qr = pr /\ row'[qr].version = row[qr].version + 1
      BY <2>1, <2>2, <2>3 DEF Written
    <3>2. /\ slot[q][qr].version \in Nat /\ row[qr].version \in Nat
          /\ slot[q][qr].version <= row[qr].version
      BY <2>3 DEF CopiesBehind, Behind, Rows
    <3> QED
      BY <3>1, <3>2
  <2> QED
    BY <2>1, <2>3
<1>2. ASSUME NEW p \in Procs, NEW c \in Categories, CountProducts(p, c)
      PROVE  GivenSinceCount'
  BY <1>2 DEF CountProducts, InUse
<1>3. ASSUME NEW p \in Procs, ClearCategory(p) PROVE GivenSinceCount'
  <2>1. \A pr \in Products :
          /\ row'[pr].version = row[pr].version
          /\ row'[pr].category \in {row[pr].category, NoCategory}
    BY <1>3 DEF ClearCategory, Rows
  <2> QED
    BY <1>3, <2>1 DEF ClearCategory
<1>4. ASSUME NEW p \in Procs, DeleteCategory(p) PROVE GivenSinceCount'
  BY <1>4 DEF DeleteCategory, NoDeletion
<1>5. ASSUME NEW p \in Procs, Restart(p) PROVE GivenSinceCount'
  BY <1>5 DEF Restart, NoDeletion
<1>6. CASE UNCHANGED <<row, slot, deletion, lost>>
  BY <1>6
<1> QED
  BY <1>1, <1>2, <1>3, <1>4, <1>5, <1>6 DEF Next, OpenPanel, Cancel, vars

(* A row loses its category without a new version only to the deletion of  *)
(* it, by an instance that counted it.                                     *)
LEMMA DeletionStep ==
  ASSUME TypeOK, GivenSinceCount, Next, NEW p \in Procs, NEW pr \in Products,
         <<p, pr>> \notin lost,
         deletion'[p] # deletion[p], row'[pr].category # row[pr].category
  PROVE  slot[p][pr].version < row[pr].version
<1>1. PICK q \in Procs : ClearCategory(q)
  BY DEF Next, OpenPanel, Cancel, Save, CountProducts, DeleteCategory, Restart
<1>2. q = p /\ deletion[p].at = "clear"
  BY <1>1 DEF ClearCategory, TypeOK
<1>3. row[pr].category = deletion[p].category
  BY <1>1, <1>2 DEF ClearCategory, TypeOK
<1> QED
  BY <1>2, <1>3 DEF GivenSinceCount

(* However deletions, saves and restarts cross, deleting a category takes  *)
(* it from no product whose last save the deleting instance knows of.      *)
THEOREM DeletionTakesNothingKnown == Spec => KnownCategoryKept
<1>1. Init => GivenSinceCount
  BY DEF Init, GivenSinceCount, NoDeletion
<1>2. EditsInv /\ GivenSinceCount /\ [Next]_vars =>
        [\A p \in Procs, pr \in Products :
           /\ deletion'[p] # deletion[p]
           /\ row'[pr].category # row[pr].category
           /\ <<p, pr>> \notin lost
           => slot[p][pr].version < row[pr].version]_vars
  BY DeletionStep DEF EditsInv
<1> QED
  BY CopiesStayBehind, GivenStep, <1>1, <1>2, PTL DEF Spec, KnownCategoryKept
=============================================================================
