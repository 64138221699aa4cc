---------------------------- MODULE ScreensProofs ----------------------------
(***************************************************************************)
(* The dialogs act on the product selected, and are drawn, for any number  *)
(* of products.  What is needed beside the two properties is that the      *)
(* product selected is listed, as long as no restore has replaced the list *)
(* after it was selected: no button but the archiving takes a product out  *)
(* of the list, and it gives up the selection.                             *)
(*                                                                         *)
(* One field of a form takes what is typed, and one of its lists is open,  *)
(* for any of the four forms: an induction over the widgets of a frame     *)
(* (FormDrawn), as a minimal counterexample, then one over the steps.      *)
(***************************************************************************)
EXTENDS Screens, FiniteSetTheorems, TLAPS

SelectionListed ==
  /\ listed \subseteq Products
  /\ selected # NoProduct => selected \in listed \/ stale

ScreensInv == SelectionListed /\ DialogsOfSelected /\ DialogsDrawn

LEMMA InitScreens == Init => ScreensInv
BY DEF Init, ScreensInv, SelectionListed, DialogsOfSelected, DialogsDrawn

(* A frame that leaves the dialogs, the products they act on and the list. *)
LEMMA StillScreens ==
  ASSUME ScreensInv, UNCHANGED <<catalog, categories, listed>>
  PROVE ScreensInv'
BY DEF ScreensInv, SelectionListed, DialogsOfSelected, DialogsDrawn, catalog, categories

(* The rows and the toolbar of the catalog.                                *)
LEMMA ToolbarScreens ==
  ASSUME ScreensInv,
         \/ \E x \in Products : SelectRow(x) \/ ArchiveRow(x) \/ EditRow(x)
         \/ NewProductButton \/ NewProductKey \/ MovementButton \/ HistoryButton
         \/ ArchiveButton \/ ManageButton
  PROVE ScreensInv'
<1> USE ProductsAssumption
    DEF ScreensInv, SelectionListed, DialogsOfSelected, DialogsDrawn, OnToolbar, categories
<1>1. CASE \E x \in Products : SelectRow(x) \/ ArchiveRow(x) \/ EditRow(x)
  BY <1>1 DEF SelectRow, ArchiveRow, EditRow, Selects
<1>2. CASE NewProductButton \/ NewProductKey
  BY <1>2 DEF NewProductButton, NewProductKey
<1>3. CASE MovementButton
  BY <1>3 DEF MovementButton
<1>4. CASE HistoryButton \/ ArchiveButton
  BY <1>4 DEF HistoryButton, ArchiveButton
<1>5. CASE ManageButton
  BY <1>5 DEF ManageButton
<1> QED
  BY <1>1, <1>2, <1>3, <1>4, <1>5

(* The buttons of the dialogs.                                             *)
LEMMA DialogScreens ==
  ASSUME ScreensInv,
         \/ \E x \in Products : SaveNew(x)
         \/ SaveEdit \/ ConfirmArchive \/ PostMovement \/ AddLocation
         \/ CancelForm \/ CloseDialog \/ AskCategory \/ AnswerCategory
  PROVE ScreensInv'
<1> USE DEF ScreensInv, SelectionListed, DialogsOfSelected, DialogsDrawn, InDialog,
            categories, Kinds
<1>1. CASE \E x \in Products : SaveNew(x)
  BY <1>1 DEF SaveNew, Submitted, ButtonOf
<1>2. CASE SaveEdit
  BY <1>2 DEF SaveEdit
<1>3. CASE ConfirmArchive
  BY <1>3 DEF ConfirmArchive
<1>4. CASE PostMovement \/ AddLocation
  BY <1>4 DEF PostMovement, AddLocation
<1>5. CASE CancelForm \/ CloseDialog
  <2>1. panel' = "none" /\ UNCHANGED <<listed, selected>> /\ InDialog
    BY <1>5, Zenon DEF CancelForm, CloseDialog
  <2> QED
    BY <2>1
<1>6. CASE AskCategory \/ AnswerCategory
  <2>1. panel' \notin {"edit", "archive", "history", "movement"}
    BY <1>6 DEF AskCategory, AnswerCategory
  <2>2. UNCHANGED <<listed, selected, stale, side, renaming>>
    BY <1>6, Zenon DEF AskCategory, AnswerCategory
  <2> QED
    BY <2>1, <2>2
<1> QED
  BY <1>1, <1>2, <1>3, <1>4, <1>5, <1>6

LEMMA NextScreens == ScreensInv /\ [Next]_vars => ScreensInv'
<1> SUFFICES ASSUME ScreensInv, [Next]_vars PROVE ScreensInv'
  OBVIOUS
<1>1. CASE \/ \E x \in Products : SelectRow(x) \/ ArchiveRow(x) \/ EditRow(x)
           \/ NewProductButton \/ NewProductKey \/ MovementButton \/ HistoryButton
           \/ ArchiveButton \/ ManageButton
  BY <1>1, ToolbarScreens
<1>2. CASE \/ \E x \in Products : SaveNew(x)
           \/ SaveEdit \/ ConfirmArchive \/ PostMovement \/ AddLocation
           \/ CancelForm \/ CloseDialog \/ AskCategory \/ AnswerCategory
  BY <1>2, DialogScreens
<1>3. CASE \/ Login \/ Logout \/ FormInput \/ LeaveCatalog \/ Back
           \/ IdleLimit \/ SplashEnds \/ Lock \/ Redraw \/ UNCHANGED vars
  <2>1. UNCHANGED <<catalog, categories, listed>>
    BY <1>3 DEF Login, Logout, FormInput, LeaveCatalog, Back, IdleLimit, SplashEnds,
                Lock, Redraw, vars
  <2> QED
    BY <2>1, StillScreens
<1>4. CASE EnterCategory \/ GoToScreen \/ OpenSideDialog \/ CloseSideDialog
  BY <1>4 DEF EnterCategory, GoToScreen, OpenSideDialog, CloseSideDialog, OnCategories,
              catalog, categories, ScreensInv, SelectionListed, DialogsOfSelected, DialogsDrawn
<1>5. CASE RestoreDatabase \/ \E x \in Products : RestoreProduct(x)
  BY <1>5 DEF RestoreDatabase, RestoreProduct, catalog, categories, ScreensInv,
              SelectionListed, DialogsOfSelected, DialogsDrawn
<1> QED
  BY <1>1, <1>2, <1>3, <1>4, <1>5 DEF Next, Input

(* A dialog that edits, archives or lists the movements of a product is    *)
(* the one of the product selected, for every set of products.             *)
THEOREM DialogsAlwaysOfSelected == Spec => []DialogsOfSelected
<1>1. ScreensInv => DialogsOfSelected
  BY DEF ScreensInv
<1> QED
  BY <1>1, InitScreens, NextScreens, PTL DEF Spec

(* A dialog that blocks its screen is drawn, unless a restore has taken    *)
(* its product away, for every set of products.                            *)
THEOREM DialogsAlwaysDrawn == Spec => []DialogsDrawn
<1>1. ScreensInv => DialogsDrawn
  BY DEF ScreensInv
<1> QED
  BY <1>1, InitScreens, NextScreens, PTL DEF Spec

-----------------------------------------------------------------------------
(* The widgets of a form, in one frame.                                    *)

(* A nonempty set of numbers has a least one.                              *)
LEMMA LeastNat ==
  ASSUME NEW B \in SUBSET Nat, B # {}
  PROVE  \E m \in B : \A k \in B : m <= k
<1> DEFINE R == OpToRel(<, Nat)
<1>1. \A k, m \in Nat : k < m => <<k, m>> \in R
  BY DEF OpToRel
<1>2. IsWellFoundedOn(R, Nat)
  BY NatLessThanWellFounded
<1> HIDE DEF R
<1>3. PICK m \in B : \A k \in B : ~(<<k, m>> \in R)
  BY <1>2, WFMin
<1>4. \A k \in B : ~(k < m)
  BY <1>1, <1>3
<1>5. \A k \in B : m <= k
  BY <1>4
<1> QED
  BY <1>5

(* The widgets of a form are its fields and its lists, each drawn once.    *)
LEMMA FormsDrawn ==
  ASSUME NEW k \in Kinds
  PROVE  /\ Len(FormOf[k].drawn) \in Nat
         /\ Widgets(k) = {FormOf[k].drawn[i] : i \in 1..Len(FormOf[k].drawn)}
         /\ Fields(k) \subseteq Widgets(k) /\ Fields(k) \cap Lists = {} /\ "nowhere" \notin Fields(k)
         /\ Widgets(k) \subseteq Fields(k) \cup Lists
         /\ DOMAIN FormOf[k].order = 1..Len(FormOf[k].order)
         /\ Len(FormOf[k].order) \in Nat \ {0}
         /\ \A i \in 1..Len(FormOf[k].order) : FormOf[k].order[i] \in Fields(k)
         /\ FormOf[k].order[1] = Head(FormOf[k].order)
<1>1. CASE k = "add"
  <2>1. FormOf[k] = AddForm
    BY <1>1 DEF FormOf
  <2>2. /\ Len(AddForm.drawn) = 12 /\ DOMAIN AddForm.drawn = 1..12
        /\ Len(AddForm.order) = 8 /\ DOMAIN AddForm.order = 1..8
    BY DEF AddForm
  <2>3. Fields(k) = {"sku", "name", "brand", "description", "price", "threshold",
                    "barcode", "initial"}
    BY <2>1 DEF AddForm, Fields, Range
  <2> QED
    BY <2>1, <2>2, <2>3 DEF AddForm, Fields, Widgets, Range, Lists
<1>2. CASE k = "edit"
  <2>1. FormOf[k] = EditForm
    BY <1>2 DEF FormOf
  <2>2. /\ Len(EditForm.drawn) = 9 /\ DOMAIN EditForm.drawn = 1..9
        /\ Len(EditForm.order) = 5 /\ DOMAIN EditForm.order = 1..5
    BY DEF EditForm
  <2>3. Fields(k) = {"name", "price", "threshold", "brand", "description"}
    BY <2>1 DEF EditForm, Fields, Range
  <2> QED
    BY <2>1, <2>2, <2>3 DEF EditForm, Fields, Widgets, Range, Lists
<1>3. CASE k = "movement"
  <2>1. FormOf[k] = MovementForm
    BY <1>3 DEF FormOf
  <2>2. /\ Len(MovementForm.drawn) = 3 /\ DOMAIN MovementForm.drawn = 1..3
        /\ Len(MovementForm.order) = 2 /\ DOMAIN MovementForm.order = 1..2
    BY DEF MovementForm
  <2>3. Fields(k) = {"qty", "reason"}
    BY <2>1 DEF MovementForm, Fields, Range
  <2> QED
    BY <2>1, <2>2, <2>3 DEF MovementForm, Fields, Widgets, Range, Lists
<1>4. CASE k = "locations"
  <2>1. FormOf[k] = LocationForm
    BY <1>4 DEF FormOf
  <2>2. /\ Len(LocationForm.drawn) = 5 /\ DOMAIN LocationForm.drawn = 1..5
        /\ Len(LocationForm.order) = 5 /\ DOMAIN LocationForm.order = 1..5
    BY DEF LocationForm
  <2>3. Fields(k) = {"code", "aisle", "shelf", "bin", "capacity"}
    BY <2>1 DEF LocationForm, Fields, Range
  <2> QED
    BY <2>1, <2>2, <2>3 DEF LocationForm, Fields, Widgets, Range, Lists
<1> QED
  BY <1>1, <1>2, <1>3, <1>4 DEF Kinds

(* The field that the tabulation leaves is one of its order.               *)
LEMMA CurrentInOrder ==
  ASSUME NEW k \in Kinds, NEW f
  PROVE  Current(k, f) \in 1..Len(FormOf[k].order)
<1> DEFINE order == FormOf[k].order
           at == {i \in DOMAIN order : order[i] \in f.on}
<1>1. DOMAIN order = 1..Len(order) /\ Len(order) \in Nat \ {0}
  BY FormsDrawn
<1>2. CASE at = {}
  BY <1>1, <1>2 DEF Current
<1>3. CASE at # {}
  <2>1. at \subseteq 1..Len(order)
    BY <1>1
  <2> HIDE DEF at
  <2>2. \E m \in at : \A j \in at : m <= j
    BY <1>3, <1>1, <2>1, LeastNat
  <2>3. (CHOOSE i \in at : \A j \in at : i <= j) \in at
    BY <2>2
  <2> QED
    BY <1>3, <2>1, <2>3 DEF Current, at
<1> QED
  BY <1>2, <1>3

(* Tab and Enter move the focus to one field of the form.                  *)
LEMMA FocusMoves ==
  ASSUME NEW k \in Kinds, NEW f, NEW e, Moves(k, f, e)
  PROVE  \E w \in Fields(k) : nav_handle_focus(k, f, e) = [f EXCEPT !.on = {w}]
<1> DEFINE n == Len(FormOf[k].order)
           step == IF e.key = "previous" THEN n - 1 ELSE 1
           to == 1 + ((Current(k, f) - 1 + step) % n)
<1>1. n \in Nat \ {0}
  BY FormsDrawn
<1>2. to \in 1..n
  <2>1. Current(k, f) - 1 + step \in Int
    BY <1>1, CurrentInOrder
  <2> QED
    BY <1>1, <2>1
<1>3. FormOf[k].order[to] \in Fields(k)
  BY <1>2, FormsDrawn
<1> QED
  BY <1>3 DEF nav_handle_focus

-----------------------------------------------------------------------------
Single(S) == \A a, b \in S : a = b

OneEach(f) == Single(f.on) /\ Single(f.open)

(* An input is a key or a press.                                           *)
OneInput(e) == e.key = "none" \/ e.at = "nowhere"

(* What one widget does: it may take the focus only if it was pressed, and *)
(* a field that was not gives it up if anything else was.                  *)
LEMMA WidgetTurn ==
  ASSUME NEW k \in Kinds, NEW f \in FormStates(k), NEW e, NEW moved \in BOOLEAN,
         NEW w \in Widgets(k), Single(f.open), moved => e.at = "nowhere"
  PROVE  LET g == Widget(k, f, e, moved, w)
         IN  /\ g \in FormStates(k)
             /\ Single(g.open)
             /\ g.on \subseteq f.on \cup ({e.at} \ {"nowhere"})
             /\ ~moved /\ w \in Fields(k) /\ w \in g.on => e.at \in {w, "nowhere"}
<1>1. CASE w \in Lists
  <2>1. w \notin Fields(k) /\ Widget(k, f, e, moved, w) = Opener(k, f, e, w)
    BY <1>1, FormsDrawn DEF Widget
  <2>2. CASE e.at = w /\ f.open \subseteq {w}
    <3> DEFINE g == [on |-> f.on \ Off(k, w), open |-> {w} \ f.open,
                     adding |-> FALSE, naming |-> f.naming]
    <3>1. Opener(k, f, e, w) = g
      BY <2>2 DEF Opener, FormStates
    <3>2. g \in FormStates(k)
      BY <1>1 DEF FormStates
    <3> QED
      BY <2>1, <3>1, <3>2 DEF Single
  <2>3. CASE ~(e.at = w /\ f.open \subseteq {w})
    BY <2>1, <2>3 DEF Opener
  <2> QED
    BY <2>2, <2>3
<1>2. CASE w \notin Lists /\ moved
  BY <1>2 DEF Widget
<1>3. CASE w \notin Lists /\ ~moved
  <2>1. w \in Fields(k) /\ Widget(k, f, e, moved, w) = Field(k, f, e, w) /\ w # "nowhere"
    BY <1>3, FormsDrawn DEF Widget
  <2>2. CASE ~GuiTextBox(f, e, w)
    BY <2>1, <2>2 DEF Field, GuiTextBox
  <2>3. CASE GuiTextBox(f, e, w) /\ w \in f.on
    BY <2>1, <2>3 DEF Field, GuiTextBox, FormStates
  <2>4. CASE GuiTextBox(f, e, w) /\ w \notin f.on
    BY <2>1, <2>4 DEF Field, GuiTextBox, FormStates
  <2> QED
    BY <2>2, <2>3, <2>4
<1> QED
  BY <1>1, <1>2, <1>3

Turns(t, k, f, e, moved, n) ==
  t = [i \in 0..n |-> IF i = 0 THEN f ELSE Widget(k, t[i - 1], e, moved, FormOf[k].drawn[i])]

LEMMA DrawnIs ==
  ASSUME NEW k, NEW f, NEW e, NEW moved, NEW n, n = Len(FormOf[k].drawn)
  PROVE  Drawn(k, f, e, moved) = (CHOOSE t : Turns(t, k, f, e, moved, n))[n]
BY DEF Drawn, Turns

(* The function that Drawn is defined by exists.                           *)
LEMMA TurnsExist ==
  ASSUME NEW k, NEW f, NEW e, NEW moved, NEW n \in Nat
  PROVE  \E t : Turns(t, k, f, e, moved, n)
<1> DEFINE B == {m \in Nat : ~ \E t : Turns(t, k, f, e, moved, m)}
<1>1. \E t : Turns(t, k, f, e, moved, 0)
  <2>1. Turns([i \in 0..0 |-> f], k, f, e, moved, 0)
    BY DEF Turns
  <2> QED
    BY <2>1
<1>2. ASSUME NEW m \in Nat \ {0}, \E t : Turns(t, k, f, e, moved, m - 1)
      PROVE  \E t : Turns(t, k, f, e, moved, m)
  <2>1. PICK t : Turns(t, k, f, e, moved, m - 1)
    BY <1>2
  <2> DEFINE u == [i \in 0..m |->
                     IF i = 0 THEN f ELSE Widget(k, t[i - 1], e, moved, FormOf[k].drawn[i])]
  <2>2. \A i \in 0..(m - 1) : u[i] = t[i]
    BY <2>1 DEF Turns
  <2>3. \A i \in 0..m : i # 0 => i - 1 \in 0..(m - 1)
    OBVIOUS
  <2>4. \A i \in 0..m :
          u[i] = IF i = 0 THEN f ELSE Widget(k, u[i - 1], e, moved, FormOf[k].drawn[i])
    BY <2>2, <2>3
  <2>5. Turns(u, k, f, e, moved, m)
    BY <2>4 DEF Turns
  <2> QED
    BY <2>5
<1>3. SUFFICES ASSUME B # {} PROVE FALSE
  OBVIOUS
<1>4. PICK m \in B : \A j \in B : m <= j
  BY <1>3, LeastNat
<1>5. m # 0
  BY <1>1
<1>6. m - 1 \in Nat /\ m - 1 \notin B
  <2>1. B \subseteq Nat
    OBVIOUS
  <2> HIDE DEF B
  <2> QED
    BY <1>4, <1>5, <2>1
<1>7. \E t : Turns(t, k, f, e, moved, m - 1)
  BY <1>6
<1> QED
  BY <1>2, <1>5, <1>7

(* After every widget, one field at most takes what is typed: that of the  *)
(* press, since each other field has given up its turn, or the one that    *)
(* had it before, since nothing was pressed.                               *)
LEMMA FormDrawn ==
  ASSUME NEW k \in Kinds, NEW f \in FormStates(k), NEW e, NEW moved \in BOOLEAN,
         OneEach(f), moved => e.at = "nowhere"
  PROVE  Drawn(k, f, e, moved) \in FormStates(k) /\ OneEach(Drawn(k, f, e, moved))
<1> DEFINE n == Len(FormOf[k].drawn)
           drawn == FormOf[k].drawn
           G(g, i) == /\ g \in FormStates(k)
                      /\ Single(g.open)
                      /\ g.on \subseteq f.on \cup ({e.at} \ {"nowhere"})
                      /\ ~moved /\ e.at # "nowhere" =>
                           \A j \in 1..i : drawn[j] \in Fields(k) /\ drawn[j] \in g.on
                                           => e.at = drawn[j]
<1>0. n \in Nat /\ \A i \in 1..n : drawn[i] \in Widgets(k)
  BY FormsDrawn
<1>1. PICK t : Turns(t, k, f, e, moved, n) /\ Drawn(k, f, e, moved) = t[n]
  <2>1. \E t : Turns(t, k, f, e, moved, n)
    BY <1>0, TurnsExist
  <2> QED
    BY <2>1, DrawnIs
<1>2. t[0] = f /\ \A i \in 1..n : t[i] = Widget(k, t[i - 1], e, moved, drawn[i])
  BY <1>0, <1>1 DEF Turns
<1>3. G(t[0], 0)
  BY <1>2 DEF OneEach
<1>4. ASSUME NEW i \in 1..n, G(t[i - 1], i - 1) PROVE G(t[i], i)
  <2>0. PICK g, h, w : g = t[i - 1] /\ h = t[i] /\ w = drawn[i]
    OBVIOUS
  <2>1. h = Widget(k, g, e, moved, w) /\ w \in Widgets(k)
    BY <2>0, <1>0, <1>2
  <2>2. g \in FormStates(k) /\ Single(g.open)
    BY <2>0, <1>4
  <2>3. /\ h \in FormStates(k)
        /\ Single(h.open)
        /\ h.on \subseteq g.on \cup ({e.at} \ {"nowhere"})
        /\ ~moved /\ w \in Fields(k) /\ w \in h.on => e.at \in {w, "nowhere"}
    BY <2>1, <2>2, WidgetTurn
  <2>4. h.on \subseteq f.on \cup ({e.at} \ {"nowhere"})
    BY <2>0, <2>3, <1>4
  <2>5. ASSUME ~moved, e.at # "nowhere", NEW j \in 1..i, drawn[j] \in Fields(k),
               drawn[j] \in h.on
        PROVE  e.at = drawn[j]
    <3>1. CASE j = i
      BY <2>0, <2>3, <2>5, <3>1
    <3>2. CASE j # i /\ drawn[j] \in g.on
      <4>1. j \in 1..(i - 1)
        BY <3>2
      <4> QED
        BY <2>0, <4>1, <3>2, <2>5, <1>4
    <3>3. CASE drawn[j] \notin g.on
      BY <2>3, <2>5, <3>3
    <3> QED
      BY <3>1, <3>2, <3>3
  <2> QED
    BY <2>0, <2>3, <2>4, <2>5
<1>5. G(t[n], n)
  <2> DEFINE B == {i \in Nat : i <= n /\ ~G(t[i], i)}
  <2> HIDE DEF G
  <2> SUFFICES ASSUME B # {} PROVE FALSE
    BY <1>0
  <2>1. PICK i \in B : \A j \in B : i <= j
    BY LeastNat
  <2>2. i \in Nat /\ i <= n /\ i # 0
    BY <1>3, <2>1
  <2>3. i \in 1..n /\ i - 1 \in Nat /\ i - 1 <= n
    BY <1>0, <2>2
  <2>4. i - 1 \notin B
    <3>1. B \subseteq Nat
      OBVIOUS
    <3> HIDE DEF B
    <3> QED
      BY <2>1, <2>2, <2>3, <3>1
  <2>5. G(t[i - 1], i - 1)
    BY <2>3, <2>4
  <2>6. G(t[i], i)
    BY <1>4, <2>3, <2>5
  <2> QED
    BY <2>1, <2>6
<1>6. Single(t[n].on)
  <2>1. CASE e.at = "nowhere"
    BY <2>1, <1>5 DEF OneEach, Single
  <2>2. CASE e.at # "nowhere"
    <3>1. ASSUME NEW a \in t[n].on PROVE a = e.at
      <4>1. a \in Fields(k)
        BY <1>5 DEF FormStates
      <4>2. PICK j \in 1..n : drawn[j] = a
        BY <4>1, FormsDrawn
      <4> QED
        BY <4>1, <4>2, <2>2, <1>5
    <3> QED
      BY <3>1 DEF Single
  <2> QED
    BY <2>1, <2>2
<1> QED
  BY <1>1, <1>5, <1>6 DEF OneEach

(* A frame of the form, whatever its input.                                *)
LEMMA FormAfter ==
  ASSUME NEW k \in Kinds, NEW f \in FormStates(k), NEW e, OneEach(f), OneInput(e)
  PROVE  After(k, f, e) \in FormStates(k) /\ OneEach(After(k, f, e))
<1>1. PICK g : /\ g = Focused(k, f)
               /\ g \in FormStates(k) /\ OneEach(g)
  <2>1. Head(FormOf[k].order) \in Fields(k)
    BY FormsDrawn
  <2>2. [f EXCEPT !.on = {Head(FormOf[k].order)}] \in FormStates(k)
    BY <2>1 DEF FormStates
  <2>3. OneEach([f EXCEPT !.on = {Head(FormOf[k].order)}])
    BY DEF OneEach, Single, FormStates
  <2> QED
    BY <2>2, <2>3 DEF Focused
<1>2. PICK h : /\ h = nav_handle_focus(k, g, e)
               /\ h \in FormStates(k) /\ OneEach(h)
  <2>1. CASE Moves(k, g, e)
    <3>1. PICK w \in Fields(k) : nav_handle_focus(k, g, e) = [g EXCEPT !.on = {w}]
      BY <2>1, FocusMoves
    <3>2. [g EXCEPT !.on = {w}] \in FormStates(k)
      BY <1>1 DEF FormStates
    <3>3. OneEach([g EXCEPT !.on = {w}])
      BY <1>1 DEF OneEach, Single, FormStates
    <3> QED
      BY <3>1, <3>2, <3>3
  <2>2. CASE ~Moves(k, g, e)
    BY <1>1, <2>2 DEF nav_handle_focus
  <2> QED
    BY <2>1, <2>2
<1>3. Moves(k, g, e) \in BOOLEAN /\ (Moves(k, g, e) => e.at = "nowhere")
  BY DEF Moves, OneInput
<1>4. PICK d : /\ d = Drawn(k, h, e, Moves(k, g, e))
               /\ d \in FormStates(k) /\ OneEach(d)
  BY <1>2, <1>3, FormDrawn
<1>5. After(k, f, e) = Chosen(d, e)
  BY <1>1, <1>2, <1>4 DEF After
<1>6. Chosen(d, e) \in FormStates(k) /\ OneEach(Chosen(d, e))
  BY <1>4 DEF Chosen, FormStates, OneEach, Single
<1> QED
  BY <1>5, <1>6

LEMMA EventsOneInput ==
  /\ OneInput(Idle) /\ OneInput(PressElsewhere) /\ OneInput(Key("enter"))
  /\ \A k \in Kinds : \A f \in FormStates(k) : \A e \in Events(k, f) : OneInput(e)
<1>1. \A key : OneInput(Key(key))
  BY DEF OneInput, Idle, Key
<1>2. \A at : OneInput(Press(at))
  BY DEF OneInput, Idle, Press
<1>3. \A at, r : OneInput([Press(at) EXCEPT !.row = r])
  BY DEF OneInput, Idle, Press
<1>4. OneInput(Idle)
  BY DEF OneInput, Idle
<1>5. ASSUME NEW k \in Kinds, NEW f \in FormStates(k), NEW e \in Events(k, f)
      PROVE  OneInput(e)
  <2>1. CASE f.open = {}
    <3>1. \/ e \in {Key("next"), Key("previous"), Key("enter")}
          \/ e \in {Press(w) : w \in Widgets(k) \cup {"elsewhere"}}
      BY <2>1 DEF Events
    <3> QED
      BY <1>1, <1>2, <3>1
  <2>2. CASE f.open # {}
    <3> DEFINE drawn == FormOf[k].drawn
               under == {drawn[i] : i \in {i \in DOMAIN drawn :
                           \E j \in 1..i - 1 : drawn[j] \in f.open}} \cup {"elsewhere"}
    <3>1. \/ e \in {Key("next"), Key("previous"), Key("enter")}
          \/ e \in {Press(w) : w \in Widgets(k) \cup {"elsewhere"}}
          \/ e \in {[Press(w) EXCEPT !.row = r] : w \in under, r \in RowsOf(k, f)}
      BY <2>2 DEF Events
    <3> HIDE DEF under
    <3> QED
      BY <1>1, <1>2, <1>3, <3>1
  <2> QED
    BY <2>1, <2>2
<1> QED
  BY <1>1, <1>2, <1>4, <1>5 DEF PressElsewhere

-----------------------------------------------------------------------------
(* The form that is followed, in every step.                               *)
FormInv == kind \in Watched /\ form \in FormStates(kind) /\ OneEach(form)

FormUntouched == UNCHANGED <<kind, form>>

LEMMA InitForm == Init => FormInv
BY DEF Init, FormInv, Closed, FormStates, OneEach, Single

LEMMA DrawsForm ==
  ASSUME FormInv, UNCHANGED kind, NEW k \in Kinds, NEW g, NEW e, OneInput(e),
         kind = k => g \in FormStates(k) /\ OneEach(g), Draws(k, g, e)
  PROVE  FormInv'
<1>1. CASE kind = k
  BY <1>1, FormAfter DEF FormInv, Draws
<1>2. CASE kind # k
  BY <1>2 DEF FormInv, Draws
<1> QED
  BY <1>1, <1>2

(* The flags when the frame of a press has begun, and those of the form    *)
(* that a toolbar button takes from the screen.                            *)
LEMMA SettledForm ==
  ASSUME FormInv
  PROVE  /\ \A k \in Kinds : kind = k => Settled(k) \in FormStates(k) /\ OneEach(Settled(k))
         /\ Left \in FormStates(kind) /\ OneEach(Left)
<1>1. ASSUME NEW k \in Kinds, kind = k
      PROVE  Settled(k) \in FormStates(k) /\ OneEach(Settled(k))
  BY <1>1, FormAfter, EventsOneInput DEF Settled, FormInv
<1>2. kind \in Kinds
  BY WatchedAssumption DEF FormInv
<1>3. Left \in FormStates(kind) /\ OneEach(Left)
  BY <1>1, <1>2 DEF Left, FormInv
<1> QED
  BY <1>1, <1>3

LEMMA ButtonForm ==
  ASSUME FormInv, UNCHANGED kind, NEW k \in Kinds, ButtonOf(k)
  PROVE  FormInv'
BY SettledForm, DrawsForm, EventsOneInput DEF ButtonOf

LEMMA SubmittedForm ==
  ASSUME FormInv, UNCHANGED kind, NEW k \in Kinds, Submitted(k)
  PROVE  FormInv'
<1>1. CASE ButtonOf(k)
  BY <1>1, ButtonForm
<1>2. CASE kind = k /\ Draws(k, form, Key("enter"))
  BY <1>2, DrawsForm, EventsOneInput DEF FormInv
<1> QED
  BY <1>1, <1>2 DEF Submitted

(* Flags that a button clears.                                             *)
LEMMA ClearedForm ==
  ASSUME NEW k, NEW f \in FormStates(k), OneEach(f), NEW s, NEW b \in BOOLEAN
  PROVE  LET g == [f EXCEPT !.open = @ \cap s]
             h == [f EXCEPT !.open = {}, !.adding = b]
             i == [f EXCEPT !.open = {}]
         IN  /\ g \in FormStates(k) /\ OneEach(g)
             /\ h \in FormStates(k) /\ OneEach(h)
             /\ i \in FormStates(k) /\ OneEach(i)
BY DEF FormStates, OneEach, Single

LEMMA ToolbarForm ==
  ASSUME FormInv,
         \/ \E x \in Products : SelectRow(x) \/ ArchiveRow(x) \/ EditRow(x)
         \/ NewProductButton \/ NewProductKey \/ MovementButton \/ HistoryButton
         \/ ArchiveButton \/ ManageButton
  PROVE FormInv'
<1> USE WatchedAssumption
<1>0. UNCHANGED kind /\ kind \in Kinds
  BY DEF FormInv, OnToolbar, SelectRow, ArchiveRow, EditRow, NewProductButton,
         NewProductKey, MovementButton, HistoryButton, ArchiveButton, ManageButton
<1>1. CASE \E x \in Products : SelectRow(x) \/ ArchiveRow(x)
  BY <1>0, <1>1 DEF SelectRow, ArchiveRow, FormInv
<1>2. CASE \E x \in Products : EditRow(x)
  <2> DEFINE g == [form EXCEPT !.on = {"name"}, !.open = @ \ {"status", "supplier"}]
  <2>1. Draws("edit", g, PressElsewhere)
    BY <1>2 DEF EditRow
  <2>2. "name" \in Fields("edit")
    BY DEF Fields, FormOf, EditForm, Range
  <2>3. kind = "edit" => g \in FormStates("edit") /\ OneEach(g)
    BY <2>2 DEF FormInv, FormStates, OneEach, Single
  <2> HIDE DEF g
  <2> QED
    BY <1>0, <2>1, <2>3, DrawsForm, EventsOneInput DEF Kinds
<1>3. CASE NewProductButton
  <2> DEFINE g == [Left EXCEPT !.open = {}, !.adding = FALSE]
  <2>1. Draws("add", g, Idle)
    BY <1>3 DEF NewProductButton
  <2>2. g \in FormStates(kind) /\ OneEach(g)
    BY SettledForm, ClearedForm
  <2> HIDE DEF g
  <2> QED
    BY <1>0, <2>1, <2>2, DrawsForm, EventsOneInput DEF Kinds
<1>4. CASE NewProductKey
  <2>1. PICK g : /\ g = IF panel = kind THEN After(kind, form, Idle) ELSE form
                 /\ form' = IF kind = "add" THEN [g EXCEPT !.open = @ \cap {"cat"}] ELSE g
    BY <1>4 DEF NewProductKey
  <2>2. g \in FormStates(kind) /\ OneEach(g)
    BY <1>0, <2>1, FormAfter, EventsOneInput DEF FormInv
  <2>3. [g EXCEPT !.open = @ \cap {"cat"}] \in FormStates(kind)
        /\ OneEach([g EXCEPT !.open = @ \cap {"cat"}])
    BY <2>2, ClearedForm
  <2> QED
    BY <1>0, <2>1, <2>2, <2>3 DEF FormInv
<1>5. CASE MovementButton
  <2>1. CASE kind = "movement" /\ selected \in listed
    <3> DEFINE g == [Left EXCEPT !.open = {}]
    <3>1. Draws("movement", g, Idle)
      BY <1>5, <2>1 DEF MovementButton
    <3>2. g \in FormStates(kind) /\ OneEach(g)
      BY SettledForm, ClearedForm
    <3> HIDE DEF g
    <3> QED
      BY <1>0, <3>1, <3>2, DrawsForm, EventsOneInput DEF Kinds
  <2>2. CASE ~(kind = "movement" /\ selected \in listed)
    <3>1. form' \in {[form EXCEPT !.open = {}], Left}
      BY <1>5, <2>2 DEF MovementButton
    <3>2. [form EXCEPT !.open = {}] \in FormStates(kind)
          /\ OneEach([form EXCEPT !.open = {}])
      BY ClearedForm DEF FormInv
    <3> QED
      BY <1>0, <3>1, <3>2, SettledForm DEF FormInv
  <2> QED
    BY <2>1, <2>2
<1>6. CASE HistoryButton \/ ArchiveButton
  BY <1>0, <1>6, SettledForm DEF HistoryButton, ArchiveButton, FormInv
<1>7. CASE ManageButton
  <2>1. Draws("locations", form, Idle) \/ UNCHANGED form
    BY <1>7 DEF ManageButton
  <2> QED
    BY <1>0, <2>1, DrawsForm, EventsOneInput DEF FormInv, Kinds
<1> QED
  BY <1>1, <1>2, <1>3, <1>4, <1>5, <1>6, <1>7

LEMMA NextForm == FormInv /\ [Next]_vars => FormInv'
<1> SUFFICES ASSUME FormInv, [Next]_vars PROVE FormInv'
  OBVIOUS
<1>0. UNCHANGED kind /\ kind \in Kinds
  <2>1. kind \in Kinds
    BY WatchedAssumption DEF FormInv
  <2> QED
    BY <2>1 DEF Next, Input, vars, flags, Login, Logout, FormInput, SelectRow, ArchiveRow, EditRow,
       NewProductButton, NewProductKey, MovementButton, HistoryButton, ArchiveButton, ManageButton,
       LeaveCatalog, SaveNew, RestoreProduct, SaveEdit, ConfirmArchive, PostMovement, AddLocation,
       CancelForm, CloseDialog, AskCategory, AnswerCategory, EnterCategory, GoToScreen,
       OpenSideDialog, CloseSideDialog, Back, RestoreDatabase, IdleLimit, SplashEnds, Lock, Redraw,
       OnToolbar, InDialog, OnCategories
<1>1. CASE \/ \E x \in Products : SelectRow(x) \/ ArchiveRow(x) \/ EditRow(x)
           \/ NewProductButton \/ NewProductKey \/ MovementButton \/ HistoryButton
           \/ ArchiveButton \/ ManageButton
  BY <1>1, ToolbarForm
<1>2. CASE \/ \E x \in Products : SaveNew(x)
           \/ SaveEdit \/ PostMovement \/ AddLocation
  <2>1. \E k \in Kinds : Submitted(k)
    BY <1>2 DEF SaveNew, SaveEdit, PostMovement, AddLocation, Kinds
  <2> QED
    BY <1>0, <2>1, SubmittedForm
<1>3. CASE CancelForm
  BY <1>0, <1>3, ButtonForm DEF CancelForm
<1>4. CASE FormInput \/ Redraw
  <2>1. \E e \in Events(kind, form) \cup {Idle} : Draws(kind, form, e)
    BY <1>4 DEF FormInput, Redraw
  <2> QED
    BY <1>0, <2>1, DrawsForm, EventsOneInput DEF FormInv
<1>5. CASE \/ Login \/ Logout \/ LeaveCatalog \/ Back
           \/ IdleLimit \/ SplashEnds \/ Lock \/ UNCHANGED vars
           \/ ConfirmArchive \/ CloseDialog \/ AskCategory \/ AnswerCategory
           \/ EnterCategory \/ GoToScreen \/ OpenSideDialog \/ CloseSideDialog
           \/ RestoreDatabase \/ \E x \in Products : RestoreProduct(x)
  <2>1. UNCHANGED form
    BY <1>5 DEF Login, Logout, LeaveCatalog, Back, IdleLimit, SplashEnds, Lock, vars, flags,
        ConfirmArchive, CloseDialog, AskCategory, AnswerCategory, EnterCategory, GoToScreen,
        OpenSideDialog, CloseSideDialog, OnCategories, RestoreDatabase, RestoreProduct
  <2> QED
    BY <1>0, <2>1 DEF FormInv
<1> QED
  BY <1>1, <1>2, <1>3, <1>4, <1>5 DEF Next, Input

(* What is typed goes to one field, and one list is open, in every form    *)
(* and whatever the input of each frame.                                   *)
THEOREM OneFieldAlways == Spec => []OneFieldOneList
<1>1. ASSUME NEW S, Single(S) PROVE Cardinality(S) <= 1
  <2>1. CASE S = {}
    BY <2>1, FS_EmptySet
  <2>2. CASE S # {}
    <3>1. PICK x : S = {x}
      BY <1>1, <2>2 DEF Single
    <3> QED
      BY <3>1, FS_Singleton
  <2> QED
    BY <2>1, <2>2
<1>2. FormInv => OneFieldOneList
  BY <1>1 DEF FormInv, OneEach, OneFieldOneList
<1> QED
  BY <1>2, InitForm, NextForm, PTL DEF Spec

-----------------------------------------------------------------------------
(* The rest of the types.                                                  *)
ScreensTyped ==
  /\ screen \in ScreenNames /\ logged \in BOOLEAN /\ idle \in BOOLEAN
  /\ panel \in Panels /\ side \in SidePanels /\ renaming \in BOOLEAN
  /\ listed \subseteq Products
  /\ {selected, editing, shown} \subseteq Products \cup {NoProduct}
  /\ stale \in BOOLEAN

LEMMA NextTyped == ScreensTyped /\ [Next]_vars => ScreensTyped'
<1> SUFFICES ASSUME ScreensTyped, [Next]_vars PROVE ScreensTyped'
  OBVIOUS
<1> USE DEF ScreensTyped, ScreenNames, Panels, SidePanels, Kinds
<1>1. CASE \/ \E x \in Products : SelectRow(x) \/ ArchiveRow(x) \/ EditRow(x)
           \/ NewProductButton \/ NewProductKey \/ MovementButton \/ HistoryButton
           \/ ArchiveButton \/ ManageButton
  <2>1. idle' = FALSE /\ UNCHANGED <<screen, logged, side, renaming, listed>>
    BY <1>1 DEF SelectRow, ArchiveRow, EditRow, NewProductButton, NewProductKey, MovementButton,
                HistoryButton, ArchiveButton, ManageButton, OnToolbar, Touch, session, categories
  <2>2. CASE \E x \in Products : SelectRow(x) \/ ArchiveRow(x) \/ EditRow(x)
    BY <2>1, <2>2 DEF SelectRow, ArchiveRow, EditRow, Selects
  <2>3. CASE NewProductButton \/ NewProductKey \/ MovementButton
    BY <2>1, <2>3 DEF NewProductButton, NewProductKey, MovementButton
  <2>4. CASE HistoryButton \/ ArchiveButton
    BY <2>1, <2>4 DEF HistoryButton, ArchiveButton
  <2>5. CASE ManageButton
    BY <2>1, <2>5 DEF ManageButton
  <2> QED
    BY <1>1, <2>2, <2>3, <2>4, <2>5
<1>2. CASE \/ \E x \in Products : SaveNew(x)
           \/ SaveEdit \/ ConfirmArchive \/ PostMovement \/ AddLocation
           \/ CancelForm \/ CloseDialog \/ AskCategory \/ AnswerCategory
  <2>1. idle' = FALSE /\ UNCHANGED <<screen, logged, side, renaming, editing, shown, stale>>
    BY <1>2, Zenon DEF SaveNew, SaveEdit, ConfirmArchive, PostMovement, AddLocation, CancelForm,
                CloseDialog, AskCategory, AnswerCategory, InDialog, Touch, session, categories
  <2>2. CASE \E x \in Products : SaveNew(x)
    BY <2>1, <2>2 DEF SaveNew
  <2>3. CASE SaveEdit \/ PostMovement \/ AddLocation
    BY <2>1, <2>3 DEF SaveEdit, PostMovement, AddLocation
  <2>4. CASE ConfirmArchive
    BY <2>1, <2>4 DEF ConfirmArchive
  <2>5. CASE CancelForm \/ CloseDialog
    <3>1. panel' = "none" /\ UNCHANGED <<listed, selected>>
      BY <2>5, Zenon DEF CancelForm, CloseDialog
    <3> QED
      BY <2>1, <3>1
  <2>6. CASE AskCategory \/ AnswerCategory
    BY <2>1, <2>6 DEF AskCategory, AnswerCategory
  <2> QED
    BY <1>2, <2>2, <2>3, <2>4, <2>5, <2>6
<1>3. CASE \/ Login \/ Logout \/ FormInput \/ LeaveCatalog \/ Back
           \/ IdleLimit \/ SplashEnds \/ Lock \/ Redraw \/ UNCHANGED vars
  <2>1. UNCHANGED <<catalog, categories, listed>>
    BY <1>3 DEF Login, Logout, FormInput, LeaveCatalog, Back, IdleLimit, SplashEnds,
                Lock, Redraw, vars
  <2>2. screen' \in ScreenNames /\ logged' \in BOOLEAN /\ idle' \in BOOLEAN
    BY <1>3 DEF Login, Logout, FormInput, LeaveCatalog, Back, IdleLimit, SplashEnds,
                Lock, Redraw, vars, session, Touch
  <2> QED
    BY <2>1, <2>2 DEF catalog, categories
<1>4. CASE EnterCategory \/ GoToScreen \/ OpenSideDialog \/ CloseSideDialog
  <2>1. UNCHANGED <<logged, catalog, listed>> /\ idle' = FALSE
    BY <1>4 DEF EnterCategory, GoToScreen, OpenSideDialog, CloseSideDialog, OnCategories, Touch
  <2>2. screen' \in ScreenNames /\ side' \in SidePanels /\ renaming' \in BOOLEAN
    BY <1>4 DEF EnterCategory, GoToScreen, OpenSideDialog, CloseSideDialog, categories
  <2> QED
    BY <2>1, <2>2 DEF catalog
<1>5. CASE RestoreDatabase
  BY <1>5 DEF RestoreDatabase, Touch, categories
<1>6. CASE \E x \in Products : RestoreProduct(x)
  BY <1>6 DEF RestoreProduct, Touch, session, catalog, categories
<1> QED
  BY <1>1, <1>2, <1>3, <1>4, <1>5, <1>6 DEF Next, Input

(* Screens, dialogs, products and flags keep their types, for any          *)
(* products.                                                               *)
THEOREM ScreensTypeCorrect == Spec => []TypeOK
<1>1. Init => ScreensTyped
  BY DEF Init, ScreensTyped, ScreenNames, Panels, SidePanels
<1>2. ScreensTyped /\ FormInv => TypeOK
  BY DEF ScreensTyped, FormInv, TypeOK
<1> QED
  BY <1>1, <1>2, InitForm, NextForm, NextTyped, PTL DEF Spec
=============================================================================
