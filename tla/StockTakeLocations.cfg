\* One instance, a product kept in two locations.
SPECIFICATION Spec
CONSTANTS
  Procs = {p1}
  Locations = {L1, L2}
  MaxStock = 2
INVARIANT CountIsRecorded
