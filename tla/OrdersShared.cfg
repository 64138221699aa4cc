\* One order of two lines: one instance undisturbed, or two with faults.
SPECIFICATION Spec
CONSTANTS
  Procs = {p1, p2}
  Orders = {o1}
  Items = {i1, i2}
  Quantities = {1, 2}
  MaxPosted = 3
  Environments <- CalmOrNot
  Draft = "brouillon"
  Placed = "commande"
  Partial = "recu_partiel"
  Complete = "recu"
  NoOrder = NoOrder
  NoItem = NoItem
SYMMETRY Symmetric
INVARIANTS
  NeverOverReceived
  ReceivedWasPosted
  PostedMatchesReceived
  StatusTracksLines
  LinesInv
