\* Any sequence of puts, removals and clears.
SPECIFICATION TableSpec
CONSTANTS
  k1 = k1
  k2 = k2
  k3 = k3
  k4 = k4
  Keys <- MCKeys
  Hash <- MCHash
  Values = {v1, v2}
  Empty = Empty
  Tombstone = Tombstone
  NoValue = NoValue
  InitCapacity = 4
  MaxCapacity = 8
INVARIANTS
  Sound
  EveryEntryReachable
PROPERTIES
  LastPutFound
  MapWhileDistinct
  OnlyRewritesDuplicate
