\* Two instances on one product kept in two locations.
SPECIFICATION FairSpec
CONSTANTS
  Procs = {p1, p2}
  Products = {1}
  MaxProducts = 2
  Locations = {L1, L2}
  Deltas <- MCUnitDeltas
  MaxStock = 1
  Nobody = Nobody
INVARIANTS
  JournalMatchesStock
  NonNegativeStock
  StoreInv
  LastWriterIsFresh
PROPERTIES
  ImplementsLedger
  CallsReturn
