\* Two products, each form in turn.
SPECIFICATION Spec
CONSTANTS
  Products = {x1, x2}
  NoProduct = NoProduct
  Watched = {"add", "edit", "movement", "locations"}
INVARIANTS
  TypeOK
  DialogsOfSelected
  DialogsDrawn
  OneFieldOneList
PROPERTY LockComes
