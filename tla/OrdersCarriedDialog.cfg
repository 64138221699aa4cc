\* A receipt dialog still open on the screen of another order.
SPECIFICATION Spec
CONSTANTS
  Procs = {p1}
  Orders = {o1, o2}
  Items = {i1, i2}
  Quantities = {1}
  MaxPosted = 2
  Environments <- Calm
  Draft = "brouillon"
  Placed = "commande"
  Partial = "recu_partiel"
  Complete = "recu"
  NoOrder = NoOrder
  NoItem = NoItem
INVARIANT StatusTracksLines
