\* A SKU that finds the slot of another product.
SPECIFICATION Spec
CONSTANTS
  s1 = s1
  s2 = s2
  s3 = s3
  b1 = b1
  Skus <- MCSkus
  Barcodes <- MCBarcodes
  Keys <- MCKeys
  Hash <- MCHash
  Empty = Empty
  Tombstone = Tombstone
  NoValue = NoValue
  NoBarcode = NoBarcode
  PartsOf <- MCParts
  MaxProducts = 3
  IndexCapacity = 8
  MaxIndexCapacity = 8
INVARIANT FoundIsListed
