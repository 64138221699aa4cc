\* Three products, one barcode, an array of two slots.
SPECIFICATION Spec
CONSTANTS
  s1 = s1
  s2 = s2
  s3 = s3
  b1 = b1
  Skus <- MCSkus
  Barcodes <- MCBarcodes
  Keys <- MCKeys
  Hash <- MCHash
  Empty = Empty
  Tombstone = Tombstone
  NoValue = NoValue
  NoBarcode = NoBarcode
  PartsOf <- MCParts
  MaxProducts = 2
  IndexCapacity = 8
  MaxIndexCapacity = 8
INVARIANTS
  ListIsSound
  ListedFoundBeforeDoubling
  SearchFindsEach
PROPERTY ListFollowsRows
