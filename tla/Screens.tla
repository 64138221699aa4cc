------------------------------- MODULE Screens -------------------------------
(***************************************************************************)
(* One application instance as its user sees it: the loop of gui_run, with *)
(* the screen it draws, the dialog open over the catalog and the one over  *)
(* the list of categories, the product that is selected, the products the  *)
(* dialogs act on, and the idle lock.  A step is a frame with one input,   *)
(* or with none; a button takes a press and a release, two frames that are *)
(* taken together.                                                         *)
(*                                                                         *)
(* The instance has the file to itself (Accounts, Office, ProductEdits and *)
(* StockStore have several).  Which rows are listed on which page is left  *)
(* out, and so are roles: any user may be an administrator.                *)
(***************************************************************************)
EXTENDS Forms, FiniteSets

CONSTANTS
  Products,  \* ids of products
  NoProduct, \* -1: none is selected
  Watched    \* bound: the forms whose flags are followed, one in a behaviour

ASSUME ProductsAssumption == NoProduct \notin Products
ASSUME WatchedAssumption == Watched \subseteq Kinds

VARIABLES
  screen,    \* g_screen
  logged,    \* g_session.active
  idle,      \* more than 300 s since the last input
  panel,     \* panel: the dialog of the catalog
  side,      \* cat_screen_panel: the dialog of the list of categories
  renaming,  \* cat_renaming
  listed,    \* all_products: new products and archived ones are not told apart
  selected,  \* selected_product_id
  editing,   \* edit_product_id
  shown,     \* the product whose movements are in mv_history
  stale,     \* history: a restore replaced the list after the product was selected
  kind, form \* the form that is followed, and its flags

session == <<screen, logged>>
catalog == <<panel, selected, editing, shown, stale>>
categories == <<side, renaming>>
flags == <<kind, form>>
vars == <<session, idle, catalog, categories, listed, flags>>

\* "report" is any of the twelve screens that leave all this as it is.
ScreenNames == {"splash", "login", "categories", "main", "archived", "backup", "report"}

Panels ==
  Kinds \cup {"none", "archive", "history", "users", "manage categories",
              "delete category", "rename category"}

SidePanels == {"none", "add", "rename", "delete", "users"}

TypeOK ==
  /\ screen \in ScreenNames /\ logged \in BOOLEAN /\ idle \in BOOLEAN
  /\ panel \in Panels /\ side \in SidePanels /\ renaming \in BOOLEAN
  /\ listed \subseteq Products
  /\ {selected, editing, shown} \subseteq Products \cup {NoProduct}
  /\ stale \in BOOLEAN
  /\ kind \in Watched /\ form \in FormStates(kind)

Init ==
  /\ screen = "splash" /\ logged = FALSE /\ idle = FALSE
  /\ panel = "none" /\ side = "none" /\ renaming = FALSE
  /\ listed \in SUBSET Products
  /\ selected = NoProduct /\ editing = NoProduct /\ shown = NoProduct
  /\ stale = FALSE
  /\ kind \in Watched /\ form = Closed

-----------------------------------------------------------------------------
(* Time and the session.                                                   *)

\* An input: the session is touched before the lock is looked at.
Touch == idle' = FALSE

IdleLimit ==
  /\ logged /\ ~idle
  /\ idle' = TRUE
  /\ UNCHANGED <<session, catalog, categories, listed, flags>>

SplashEnds ==
  /\ screen = "splash"
  /\ screen' = "login"
  /\ UNCHANGED <<logged, idle, catalog, categories, listed, flags>>

\* Mutant: the list of categories does not lock.
LockCatalogOnly ==
  /\ screen = "main" /\ logged /\ idle
  /\ screen' = "login"
  /\ UNCHANGED <<logged, idle, catalog, categories, listed, flags>>

\* The start of a frame without an input.  The session stays.
Lock ==
  /\ screen \in {"main", "categories"} /\ logged /\ idle
  /\ screen' = "login"
  /\ UNCHANGED <<logged, idle, catalog, categories, listed, flags>>

\* Someone logs in, over the session of the lock if there is one.  After a
\* sign-up the screen changes even if the login failed, and the session is then
\* the one that was there, or none.
Login ==
  /\ screen = "login"
  /\ screen' = "categories" /\ logged' \in {logged, TRUE}
  /\ Touch
  /\ UNCHANGED <<catalog, categories, listed, flags>>

\* Its button, on both screens, does not look whether a dialog is open, and
\* leaves it open.
Logout ==
  /\ screen \in {"main", "categories"}
  /\ screen' = "login" /\ logged' = FALSE
  /\ Touch
  /\ UNCHANGED <<catalog, categories, listed, flags>>

-----------------------------------------------------------------------------
(* The forms.                                                              *)

\* The flags, if they are followed, are g once the frame has begun, and the
\* form k is drawn with the input e.
Draws(k, g, e) == form' = IF kind = k THEN After(k, g, e) ELSE form

Settled(k) == IF kind = k THEN After(k, form, PressElsewhere) ELSE form

\* A button of the form k is pressed, then released with no list open.
ButtonOf(k) ==
  /\ panel = k /\ screen = "main"
  /\ kind = k => Settled(k).open = {}
  /\ Draws(k, Settled(k), Idle)

\* It is submitted, by its button or by Enter on the last field.
Submitted(k) ==
  /\ panel = k /\ screen = "main"
  /\ \/ ButtonOf(k)
     \/ kind = k /\ Submits(k, Focused(k, form), Key("enter")) /\ Draws(k, form, Key("enter"))

\* Any other input, or none, while the watched form is on the screen.
FormInput ==
  /\ screen = "main" /\ panel = kind
  /\ kind = "movement" => selected \in listed
  /\ \E e \in Events(kind, form) :
       ~Submits(kind, Focused(kind, form), e) /\ Draws(kind, form, e)
  /\ Touch
  /\ UNCHANGED <<session, catalog, categories, listed, kind>>

Redraw ==
  /\ screen = "main" /\ panel = kind /\ ~(logged /\ idle)
  /\ kind = "movement" => selected \in listed
  /\ Draws(kind, form, Idle)
  /\ UNCHANGED <<session, idle, catalog, categories, listed, kind>>

-----------------------------------------------------------------------------
(* The catalog behind its dialogs: the toolbar and the rows.               *)

\* The mouse is pressed, then released, on the toolbar: the dialog that was
\* open sees the press, the one that opens sees the release.
OnToolbar ==
  /\ screen = "main"
  /\ Touch
  /\ UNCHANGED <<session, categories, listed, kind>>

Left == IF panel = kind THEN Settled(kind) ELSE form

Selects(x) == selected' = x /\ stale' = FALSE

\* Mutant: a row is selected under an open dialog.
SelectUnderDialog(x) ==
  /\ OnToolbar
  /\ x \in listed
  /\ Selects(x)
  /\ UNCHANGED <<panel, editing, shown, form>>

SelectRow(x) ==
  /\ OnToolbar
  /\ panel = "none"
  /\ x \in listed
  /\ Selects(x)
  /\ UNCHANGED <<panel, editing, shown, form>>

\* "Supprimer" of a row.
ArchiveRow(x) ==
  /\ OnToolbar
  /\ panel = "none"
  /\ x \in listed
  /\ Selects(x) /\ editing' = x
  /\ panel' = "archive"
  /\ UNCHANGED <<shown, form>>

\* "Modifier" of a row; the form is drawn with the same press.
EditRow(x) ==
  /\ OnToolbar
  /\ panel = "none"
  /\ x \in listed
  /\ Selects(x) /\ editing' = x
  /\ panel' = "edit"
  /\ Draws("edit", [form EXCEPT !.on = {"name"}, !.open = @ \ {"status", "supplier"}],
           PressElsewhere)
  /\ UNCHANGED shown

\* The next four work under an open dialog, and take its place.
NewProductButton ==
  /\ OnToolbar
  /\ panel' = "add"
  /\ Draws("add", [Left EXCEPT !.open = {}, !.adding = FALSE], Idle)
  /\ UNCHANGED <<selected, editing, shown, stale>>

\* At the end of the frame, when the dialog has been drawn.
NewProductKey ==
  /\ OnToolbar
  /\ panel' = "add"
  /\ LET g == IF panel = kind THEN After(kind, form, Idle) ELSE form
     IN  form' = IF kind = "add" THEN [g EXCEPT !.open = @ \cap {"cat"}] ELSE g
  /\ UNCHANGED <<selected, editing, shown, stale>>

MovementButton ==
  /\ OnToolbar
  /\ selected # NoProduct
  /\ panel' = "movement"
  /\ IF kind = "movement" /\ selected \in listed
     THEN Draws("movement", [Left EXCEPT !.open = {}], Idle)
     ELSE form' = IF kind = "movement" THEN [form EXCEPT !.open = {}] ELSE Left
  /\ UNCHANGED <<selected, editing, shown, stale>>

HistoryButton ==
  /\ OnToolbar
  /\ selected # NoProduct
  /\ panel' = "history"
  /\ shown' = selected
  /\ form' = Left
  /\ UNCHANGED <<selected, editing, stale>>

ArchiveButton ==
  /\ OnToolbar
  /\ selected \in listed
  /\ editing' = selected
  /\ panel' = "archive"
  /\ form' = Left
  /\ UNCHANGED <<selected, shown, stale>>

\* The buttons that look whether a dialog is open.
ManageButton ==
  /\ OnToolbar
  /\ panel = "none"
  /\ \E p \in {"manage categories", "locations", "users"} :
       /\ panel' = p
       /\ IF p = "locations" THEN Draws("locations", form, Idle) ELSE UNCHANGED form
  /\ UNCHANGED <<selected, editing, shown, stale>>

LeaveCatalog ==
  /\ screen = "main" /\ panel = "none"
  /\ screen' \in {"categories", "report"}
  /\ Touch
  /\ UNCHANGED <<logged, catalog, categories, listed, flags>>

-----------------------------------------------------------------------------
(* What the dialogs do.                                                    *)

InDialog ==
  /\ Touch
  /\ UNCHANGED <<session, categories, kind, editing, shown, stale>>

\* validate_product_fields or inv_add_product may refuse.
SaveNew(x) ==
  /\ Submitted("add")
  /\ \/ /\ x \notin listed
        /\ listed' = listed \cup {x}
        /\ panel' = "none"
     \/ UNCHANGED <<listed, panel>>
  /\ UNCHANGED selected
  /\ InDialog

SaveEdit ==
  /\ Submitted("edit")
  /\ panel' \in {panel, "none"}
  /\ UNCHANGED <<listed, selected>>
  /\ InDialog

\* Mutant: the product that has left the list stays selected.
ConfirmArchiveSelected ==
  /\ screen = "main" /\ panel = "archive"
  /\ listed' \in {listed, listed \ {editing}}
  /\ UNCHANGED selected
  /\ panel' = "none"
  /\ UNCHANGED form
  /\ InDialog

\* Mutant: no product is 0 here and -1 elsewhere.
ConfirmArchiveZero ==
  /\ screen = "main" /\ panel = "archive"
  /\ listed' = listed \ {editing} /\ selected' = 0
  /\ panel' = "none"
  /\ UNCHANGED form
  /\ InDialog

\* Refused when the product has stock, or by the file.  A product that is no
\* longer listed is archived like another.
ConfirmArchive ==
  /\ screen = "main" /\ panel = "archive"
  /\ \/ listed' = listed \ {editing} /\ selected' = NoProduct
     \/ UNCHANGED <<listed, selected>>
  /\ panel' = "none"
  /\ UNCHANGED form
  /\ InDialog

\* The dialog is drawn only for a product that is listed.
PostMovement ==
  /\ selected \in listed
  /\ Submitted("movement")
  /\ panel' \in {panel, "none"}
  /\ UNCHANGED <<listed, selected>>
  /\ InDialog

AddLocation ==
  /\ Submitted("locations")
  /\ UNCHANGED <<listed, selected, panel>>
  /\ InDialog

CancelForm ==
  /\ \E k \in Kinds : ButtonOf(k)
  /\ panel = "movement" => selected \in listed
  /\ panel' = "none"
  /\ UNCHANGED <<listed, selected>>
  /\ InDialog

CloseDialog ==
  /\ screen = "main" /\ panel \in {"archive", "history", "users", "manage categories"}
  /\ panel' = "none"
  /\ UNCHANGED <<listed, selected, form>>
  /\ InDialog

AskCategory ==
  /\ screen = "main" /\ panel = "manage categories"
  /\ panel' \in {"delete category", "rename category"}
  /\ UNCHANGED <<listed, selected, form>>
  /\ InDialog

\* Done, refused or given up: the list of categories comes back.
AnswerCategory ==
  /\ screen = "main" /\ panel \in {"delete category", "rename category"}
  /\ panel' = "manage categories"
  /\ UNCHANGED <<listed, selected, form>>
  /\ InDialog

-----------------------------------------------------------------------------
(* The list of categories.                                                 *)

OnCategories ==
  /\ screen = "categories"
  /\ Touch
  /\ UNCHANGED <<logged, catalog, listed, flags>>

EnterCategory ==
  /\ OnCategories
  /\ side = "none"
  /\ screen' = "main"
  /\ UNCHANGED categories

GoToScreen ==
  /\ OnCategories
  /\ side = "none"
  /\ screen' \in {"archived", "backup", "report"}
  /\ UNCHANGED categories

OpenSideDialog ==
  /\ OnCategories
  /\ side = "none"
  /\ \/ side' = "add" /\ renaming' = FALSE
     \/ side' = "rename" /\ renaming' = TRUE
     \/ side' \in {"delete", "users"} /\ UNCHANGED renaming
  /\ UNCHANGED screen

\* Confirmed, whatever comes of it, or given up.
CloseSideDialog ==
  /\ OnCategories
  /\ side # "none"
  /\ side' = "none"
  /\ renaming' = (renaming /\ side # "rename")
  /\ UNCHANGED screen

-----------------------------------------------------------------------------
(* The other screens.                                                      *)

Back ==
  /\ screen \in {"archived", "backup", "report"}
  /\ \/ screen' = "categories"
     \/ screen = "report" /\ screen' = "main"
  /\ Touch
  /\ UNCHANGED <<logged, catalog, categories, listed, flags>>

RestoreProduct(x) ==
  /\ screen = "archived" /\ x \notin listed
  /\ listed' = listed \cup {x}
  /\ Touch
  /\ UNCHANGED <<session, catalog, categories, flags>>

\* The list of the file, whatever it holds, replaces the one in memory; the
\* dialog and the selection of the catalog stay.
RestoreDatabase ==
  /\ screen = "backup"
  /\ listed' \in SUBSET Products /\ stale' = TRUE
  /\ screen' = "login" /\ logged' = FALSE
  /\ Touch
  /\ UNCHANGED <<panel, selected, editing, shown, categories, flags>>

Input ==
  \/ Login \/ Logout
  \/ FormInput
  \/ \E x \in Products : SelectRow(x) \/ ArchiveRow(x) \/ EditRow(x)
  \/ NewProductButton \/ NewProductKey \/ MovementButton \/ HistoryButton
  \/ ArchiveButton \/ ManageButton \/ LeaveCatalog
  \/ \E x \in Products : SaveNew(x) \/ RestoreProduct(x)
  \/ SaveEdit \/ ConfirmArchive \/ PostMovement \/ AddLocation
  \/ CancelForm \/ CloseDialog \/ AskCategory \/ AnswerCategory
  \/ EnterCategory \/ GoToScreen \/ OpenSideDialog \/ CloseSideDialog
  \/ Back \/ RestoreDatabase

Next == Input \/ IdleLimit \/ SplashEnds \/ Lock \/ Redraw

\* The loop draws frame after frame, and each frame looks at the lock.
Spec == Init /\ [][Next]_vars /\ WF_vars(Lock)

-----------------------------------------------------------------------------
(* Properties.                                                             *)

(* The dialogs that edit a product, archive it or list its movements are   *)
(* those of the product selected, whatever was clicked behind them since   *)
(* they were opened, even across a logout, a restore and another login.    *)
DialogsOfSelected ==
  /\ panel \in {"edit", "archive"} => selected # NoProduct /\ editing = selected
  /\ panel = "history" => selected # NoProduct /\ shown = selected

(* A dialog that blocks its screen is drawn: the one of a movement needs   *)
(* its product in the list, those of the categories need cat_renaming to   *)
(* agree with them.  The exception is a product selected before a restore. *)
DialogsDrawn ==
  /\ panel = "movement" => selected # NoProduct /\ (selected \in listed \/ stale)
  /\ side = "add" => ~renaming
  /\ side = "rename" => renaming

(* What is typed goes to one field of the form, and one list is open, for  *)
(* all that the lists of flags each widget clears are not complete.        *)
OneFieldOneList == Cardinality(form.on) <= 1 /\ Cardinality(form.open) <= 1

(* A session left alone on the catalog or the list of categories is locked *)
(* in the end (session_is_locked).                                         *)
LockComes ==
  logged /\ idle /\ screen \in {"main", "categories"} ~> screen = "login" \/ ~idle
=============================================================================
