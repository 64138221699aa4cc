\* Two instances ship, take back and move the units of one product.
SPECIFICATION Spec
CONSTANTS
  Procs = {p1, p2}
  Orders = {o1}
  Items = {i1}
  Quantities = {1}
  MaxPosted = 2
  NoOrder = NoOrder
  NoItem = NoItem
  Draft = "brouillon"
  Placed = "confirmee"
  Partial = "expedie_partiel"
  Complete = "expedie"
  Dock = Dock
  Locations = {Dock, L2}
  MaxStock = 1
  MaxLost = 1
  MaxReturned = 1
SYMMETRY Symmetric
INVARIANTS
  TypeOK
  UnitsAccountedFor
  ShippedHasLeft
  RecordedWasReturned
