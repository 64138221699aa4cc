-------------------------------- MODULE Forms --------------------------------
(***************************************************************************)
(* The forms of the catalog screen, frame by frame: a new product, the     *)
(* edit of a product, a movement, a new location (gui_run).  Each field    *)
(* has a flag of its own that says it takes what is typed, each drop-down  *)
(* list a flag that says it is open, and every widget of the form, in the  *)
(* order it is drawn, may change the flags of others.  What is typed is    *)
(* left out.                                                               *)
(*                                                                         *)
(* A frame has at most one input: a key, or a press of the mouse at some   *)
(* place, which may be a row of an open list drawn over a widget.          *)
(***************************************************************************)
EXTENDS Integers, Sequences, Functions

Kinds == {"add", "edit", "movement", "locations"}

Lists == {"cat", "unit", "status", "supplier", "loc"}

\* The widgets as they are drawn, then the fields as Tab visits them.
AddForm ==
  [drawn |-> <<"sku", "name", "cat", "unit", "brand", "status", "description",
               "supplier", "barcode", "price", "threshold", "initial">>,
   order |-> <<"sku", "name", "brand", "description", "price", "threshold",
               "barcode", "initial">>]

EditForm ==
  [drawn |-> <<"name", "cat", "unit", "brand", "status", "description",
               "supplier", "price", "threshold">>,
   order |-> <<"name", "price", "threshold", "brand", "description">>]

MovementForm == [drawn |-> <<"loc", "qty", "reason">>, order |-> <<"qty", "reason">>]

LocationForm ==
  [drawn |-> <<"code", "aisle", "shelf", "bin", "capacity">>,
   order |-> <<"code", "aisle", "shelf", "bin", "capacity">>]

FormOf ==
  [add |-> AddForm, edit |-> EditForm, movement |-> MovementForm, locations |-> LocationForm]

Fields(k) == Range(FormOf[k].order)

Widgets(k) == Range(FormOf[k].drawn)

\* on: the fields that take what is typed; open: the lists; adding, naming:
\* cat_adding_new, edit_new_cat.
Closed == [on |-> {}, open |-> {}, adding |-> FALSE, naming |-> FALSE]

FormStates(k) ==
  [on : SUBSET Fields(k), open : SUBSET (Widgets(k) \cap Lists),
   adding : BOOLEAN, naming : BOOLEAN]

Idle == [key |-> "none", at |-> "nowhere", row |-> "none"]

Key(key) == [Idle EXCEPT !.key = key]

Press(at) == [Idle EXCEPT !.at = at]

PressElsewhere == Press("elsewhere")

-----------------------------------------------------------------------------
\* The flags that a widget switches off when it takes the focus, or a list
\* when it is opened or closed: the code has a list of them for each.
OffInAdd(w) ==
  LET kept == IF w \in {"price", "threshold", "initial", "barcode"} THEN {} ELSE {"barcode"}
  IN  Fields("add") \ (kept \cup {w})

OffInEdit(w) ==
  IF w \in {"name", "cat", "unit"} THEN {"name", "price", "threshold"} \ {w}
  ELSE Fields("edit") \ {w}

Off(k, w) ==
  CASE k = "add" -> OffInAdd(w)
    [] k = "edit" -> OffInEdit(w)
    [] OTHER -> Fields(k) \ {w}

\* The first field has the focus when nothing has.
Focused(k, f) ==
  IF f.on = {} /\ f.open = {} /\ ~f.naming
  THEN [f EXCEPT !.on = {Head(FormOf[k].order)}] ELSE f

\* current of nav_handle_focus: the first field in focus, or the first field.
Current(k, f) ==
  LET order == FormOf[k].order
      at == {i \in DOMAIN order : order[i] \in f.on}
  IN  IF at = {} THEN 1 ELSE CHOOSE i \in at : \A j \in at : i <= j

\* Enter on the last field does not move the focus but submits the form.
Moves(k, f, e) ==
  /\ f.open = {}
  /\ \/ e.key \in {"next", "previous"}
     \/ e.key = "enter" /\ Current(k, f) < Len(FormOf[k].order)

Submits(k, f, e) ==
  /\ f.open = {}
  /\ e.key = "enter" /\ Current(k, f) = Len(FormOf[k].order)

\* Mutant: the flag of the field that is left stays.
NavKeeping(k, f, e) ==
  LET order == FormOf[k].order
      step == IF e.key = "previous" THEN Len(order) - 1 ELSE 1
  IN  IF Moves(k, f, e)
      THEN [f EXCEPT !.on = @ \cup {order[1 + ((Current(k, f) - 1 + step) % Len(order))]}]
      ELSE f

nav_handle_focus(k, f, e) ==
  LET order == FormOf[k].order
      step == IF e.key = "previous" THEN Len(order) - 1 ELSE 1
  IN  IF Moves(k, f, e)
      THEN [f EXCEPT !.on = {order[1 + ((Current(k, f) - 1 + step) % Len(order))]}]
      ELSE f

\* The text box of raygui asks for a change of mode: to leave it on Enter or a
\* press outside, to enter it on a press inside.
GuiTextBox(f, e, w) ==
  IF w \in f.on THEN e.key = "enter" \/ e.at \notin {w, "nowhere"} ELSE e.at = w

Field(k, f, e, w) ==
  IF ~GuiTextBox(f, e, w) THEN f
  ELSE IF w \in f.on THEN [f EXCEPT !.on = @ \ {w}]
  ELSE [f EXCEPT !.on = (@ \cup {w}) \ Off(k, w)]

\* A list opens, or closes, only when no other is open.
Opener(k, f, e, w) ==
  IF e.at = w /\ f.open \subseteq {w}
  THEN [f EXCEPT !.open = {w} \ @, !.adding = FALSE, !.on = @ \ Off(k, w)]
  ELSE f

\* No field changes mode when Tab has moved.
Widget(k, f, e, moved, w) ==
  IF w \in Lists THEN Opener(k, f, e, w)
  ELSE IF moved THEN f ELSE Field(k, f, e, w)

\* The widgets of the form in turn.
Drawn(k, f, e, moved) ==
  LET drawn == FormOf[k].drawn
      until[i \in 0..Len(drawn)] ==
        IF i = 0 THEN f ELSE Widget(k, until[i - 1], e, moved, drawn[i])
  IN  until[Len(drawn)]

\* The rows of the lists of a form, over the rest of it.  "new" is the row
\* that asks for the name of a category, with two buttons.
AddRows(f) ==
  IF "cat" \notin f.open THEN {"option"}
  ELSE IF f.adding THEN {"confirm", "cancel"} ELSE {"option", "new"}

RowsOf(k, f) == IF k = "add" THEN AddRows(f) ELSE {"option"}

Chosen(f, e) ==
  LET named == \/ e.row = "confirm"
               \/ e.key = "enter" /\ "cat" \in f.open /\ f.adding /\ f.naming
  IN  CASE e.row = "option" -> [f EXCEPT !.open = {}]
        [] e.row = "new" -> [f EXCEPT !.adding = TRUE, !.naming = TRUE,
             !.on = @ \ {"sku", "name", "price", "threshold", "initial"}]
        [] named -> [f EXCEPT !.adding = FALSE, !.open = @ \ {"cat"}]
        [] e.row = "cancel" -> [f EXCEPT !.adding = FALSE]
        [] OTHER -> f

\* A frame of the form.
After(k, f, e) ==
  LET g == Focused(k, f)
  IN  Chosen(Drawn(k, nav_handle_focus(k, g, e), e, Moves(k, g, e)), e)

\* What may be done to the form, its buttons apart: a row covers what is drawn
\* after its list.
Events(k, f) ==
  LET drawn == FormOf[k].drawn
      under == {drawn[i] : i \in {i \in DOMAIN drawn :
                  \E j \in 1..i - 1 : drawn[j] \in f.open}} \cup {"elsewhere"}
  IN  {Key("next"), Key("previous"), Key("enter")}
      \cup {Press(w) : w \in Widgets(k) \cup {"elsewhere"}}
      \cup IF f.open = {} THEN {}
           ELSE {[Press(w) EXCEPT !.row = r] : w \in under, r \in RowsOf(k, f)}
=============================================================================
