\* Two instances, two partners and two ids, two orders.
SPECIFICATION Spec
CONSTANTS
  Procs = {p1, p2}
  Parties = {t1, t2}
  MaxId = 2
  MaxOrders = 2
  Sides = {"purchase", "unmigrated", "dispatch"}
  Goods = goods
  Nobody = Nobody
SYMMETRY Symmetric
INVARIANTS
  NumbersFollow
  ReferencesPresent
  OnlyTheDeletedAreMistaken
  EnteredOnce
  AllEntered
