\* Two instances, the seeded account and one that signs up, one backup.
SPECIFICATION Spec
CONSTANTS
  Procs = {p1, p2}
  Names = {medaz, user}
  Seed = medaz
  MaxLog = 2
  MaxUsers = 2
  Scenarios <- OneAtATime
  NoOne = NoOne
SYMMETRY Symmetric
INVARIANTS
  SessionOwnsRow
  InsideAsEntered
  AdminsWerePromoted
