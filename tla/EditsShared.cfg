\* Two instances that edit one product and delete its category.
SPECIFICATION Spec
CONSTANTS
  Procs = {p1, p2}
  Products = {pr1}
  Categories = {c1}
  Values = {v1, v2}
  MaxVersion = 3
  NoCategory = NoCategory
  Nothing = Nothing
SYMMETRY Symmetric
INVARIANTS
  EditsInv
PROPERTIES
  SavesOverWhatWasSeen
  KnownCategoryKept
