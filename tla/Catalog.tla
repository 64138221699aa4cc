------------------------------ MODULE Catalog ------------------------------
(***************************************************************************)
(* The catalogue of one application instance: the products table, the      *)
(* array g_products with its count, and the two hash indexes that hold     *)
(* pointers into the array (here: positions).  inv_add_product,            *)
(* inv_update_product as the edit panel calls it, inv_delete_product,      *)
(* inv_restore_product and inv_init each run as one step: the instance has *)
(* the file to itself and its transactions succeed (StockStore and         *)
(* ProductEdits have the other cases).  A slot keeps its contents when the  *)
(* count moves below it, as the array does.                                *)
(***************************************************************************)
EXTENDS HashOps, Sequences, Functions

CONSTANTS
  Skus, Barcodes,    \* keys of the two indexes
  NoBarcode,         \* the empty barcode, never indexed
  PartsOf,           \* PartsOf[s]: the SKUs that are part of the SKU s
  MaxProducts,       \* WMS_MAX_PRODUCTS
  IndexCapacity,     \* capacity given to ht_init
  MaxIndexCapacity   \* bound: no call but a reload once the SKU index is larger

ASSUME TextsAssumption ==
  Skus \subseteq Keys /\ Barcodes \subseteq Keys /\ NoBarcode \notin Barcodes
ASSUME PartsAssumption == \A s \in Skus : s \in PartsOf[s] /\ PartsOf[s] \subseteq Skus
ASSUME BoundsAssumption == MaxProducts \in Nat \ {0} /\ IndexCapacity \in Nat \ {0}
ASSUME NullAssumption == NoValue \notin 1..MaxProducts

VARIABLES
  rows,       \* rows[id]: the products table
  slots,      \* slots[i]: the array g_products
  count,      \* g_product_count
  bySku,      \* g_by_sku
  byBarcode   \* g_by_barcode

vars == <<rows, slots, count, bySku, byBarcode>>

Positions == 1..MaxProducts

Slot == [sku : Skus, barcode : Barcodes \cup {NoBarcode}]

Blank == [sku |-> NoValue, barcode |-> NoBarcode]

Listed == {slots[i].sku : i \in 1..count}

PositionOf(sku) == CHOOSE i \in 1..count : slots[i].sku = sku

IdOf(sku) == CHOOSE id \in DOMAIN rows : rows[id].sku = sku

inv_find_by_sku(sku) == ht_get(bySku, sku)

inv_find_by_barcode(barcode) == ht_get(byBarcode, barcode)

\* The positions found for a text that is a SKU, after the one that the index
\* gave: a scan that skips one position.  Names and barcodes, searched in the
\* same way, are left out.
Scanned(query, found, skip) ==
  LET upto[i \in 0..count] ==
        IF i = 0 THEN found
        ELSE IF i # skip /\ query \in PartsOf[slots[i].sku]
             THEN Append(upto[i - 1], i) ELSE upto[i - 1]
  IN  upto[count]

Exactly(i) == IF i = NoValue THEN <<>> ELSE <<i>>

\* Mutant: the product found by the index is met again in the array.
SearchTwice(query) == Scanned(query, Exactly(inv_find_by_sku(query)), NoValue)

inv_search(query) ==
  LET exact == inv_find_by_sku(query)
  IN  Scanned(query, Exactly(exact), exact)

-----------------------------------------------------------------------------
(* index_product: the entries of slot i in each index.                     *)

SkuIndexed(t, array, i) == ht_put(t, array[i].sku, i)

BarcodeIndexed(t, array, i) ==
  IF array[i].barcode = NoBarcode THEN t
  ELSE ht_put(t, array[i].barcode, i)

IndexSlot(array, i) ==
  /\ bySku' = SkuIndexed(bySku, array, i)
  /\ byBarcode' = BarcodeIndexed(byBarcode, array, i)

Memory ==
  [slots |-> slots, count |-> count, bySku |-> bySku, byBarcode |-> byBarcode]

\* The row of a product takes the next slot.
Entered(m, row) ==
  LET i == m.count + 1
      array == [m.slots EXCEPT ![i] = [sku |-> row.sku, barcode |-> row.barcode]]
  IN  [slots |-> array, count |-> i, bySku |-> SkuIndexed(m.bySku, array, i),
       byBarcode |-> BarcodeIndexed(m.byBarcode, array, i)]

\* The active rows, by id, as long as there are slots, in empty indexes.
Loaded ==
  LET upto[id \in 0..Len(rows)] ==
        IF id = 0
        THEN [slots |-> slots, count |-> 0, bySku |-> ht_init(IndexCapacity),
              byBarcode |-> ht_init(IndexCapacity)]
        ELSE IF rows[id].active /\ upto[id - 1].count < MaxProducts
             THEN Entered(upto[id - 1], rows[id]) ELSE upto[id - 1]
  IN  upto[Len(rows)]

Becomes(m) ==
  /\ slots' = m.slots
  /\ count' = m.count
  /\ bySku' = m.bySku
  /\ byBarcode' = m.byBarcode

-----------------------------------------------------------------------------
Init ==
  /\ rows = <<>>
  /\ slots = [i \in Positions |-> Blank]
  /\ count = 0
  /\ bySku = ht_init(IndexCapacity)
  /\ byBarcode = ht_init(IndexCapacity)

\* validate_product_fields asks the index, the INSERT asks UNIQUE (sku).
Unused(sku) ==
  /\ inv_find_by_sku(sku) = NoValue
  /\ \A id \in DOMAIN rows : rows[id].sku # sku

AddProduct(sku, barcode) ==
  /\ Unused(sku)
  /\ count < MaxProducts
  /\ rows' = Append(rows, [sku |-> sku, barcode |-> barcode, active |-> TRUE])
  /\ Becomes(Entered(Memory, [sku |-> sku, barcode |-> barcode]))

\* Mutant: the slot keeps the barcode that the row has lost.
UpdateRowOnly(sku) ==
  /\ sku \in Listed
  /\ rows' = [rows EXCEPT ![IdOf(sku)].barcode = NoBarcode]
  /\ UNCHANGED <<slots, count, bySku, byBarcode>>

\* The edit panel fills every field of the update but the barcode.
UpdateProduct(sku) ==
  /\ sku \in Listed
  /\ rows' = [rows EXCEPT ![IdOf(sku)].barcode = NoBarcode]
  /\ slots' = [slots EXCEPT ![PositionOf(sku)].barcode = NoBarcode]
  /\ IndexSlot(slots', PositionOf(sku))
  /\ UNCHANGED count

\* Mutant: the product moved into the freed slot is not indexed again.
ArchiveWithoutReindex(sku) ==
  /\ sku \in Listed
  /\ rows' = [rows EXCEPT ![IdOf(sku)].active = FALSE]
  /\ slots' = [slots EXCEPT ![PositionOf(sku)] = slots[count]]
  /\ count' = count - 1
  /\ bySku' = ht_remove(bySku, sku)
  /\ UNCHANGED byBarcode

\* Mutant: the last slot is dropped, whichever product was archived.
ArchiveLastSlot(sku) ==
  /\ sku \in Listed
  /\ rows' = [rows EXCEPT ![IdOf(sku)].active = FALSE]
  /\ count' = count - 1
  /\ bySku' = ht_remove(bySku, sku)
  /\ UNCHANGED <<slots, byBarcode>>

\* The last slot takes the place of the archived one.
ArchiveProduct(sku) ==
  LET i == PositionOf(sku)
      array == [slots EXCEPT ![i] = slots[count]]
      skuTable == ht_remove(bySku, sku)
      barcodeTable == IF slots[i].barcode = NoBarcode THEN byBarcode
                      ELSE ht_remove(byBarcode, slots[i].barcode)
  IN  /\ sku \in Listed
      /\ rows' = [rows EXCEPT ![IdOf(sku)].active = FALSE]
      /\ slots' = array
      /\ count' = count - 1
      /\ bySku' = IF i < count THEN SkuIndexed(skuTable, array, i) ELSE skuTable
      /\ byBarcode' = IF i < count THEN BarcodeIndexed(barcodeTable, array, i)
                      ELSE barcodeTable

\* At capacity the row becomes active and gets no slot.
RestoreProduct(sku) ==
  /\ \E id \in DOMAIN rows : rows[id].sku = sku /\ ~rows[id].active
  /\ rows' = [rows EXCEPT ![IdOf(sku)].active = TRUE]
  /\ IF count < MaxProducts
     THEN Becomes(Entered(Memory, rows[IdOf(sku)]))
     ELSE Becomes(Memory)

\* inv_shutdown and inv_init: a new start, or the restore of a backup.
Reload ==
  /\ Becomes(Loaded)
  /\ UNCHANGED rows

Next ==
  \/ /\ bySku.capacity <= MaxIndexCapacity
     /\ \E sku \in Skus :
          \/ \E barcode \in Barcodes \cup {NoBarcode} : AddProduct(sku, barcode)
          \/ UpdateProduct(sku)
          \/ ArchiveProduct(sku)
          \/ RestoreProduct(sku)
  \/ Reload

Spec == Init /\ [][Next]_vars

-----------------------------------------------------------------------------
(* Properties.                                                             *)

TypeOK ==
  /\ rows \in Seq([sku : Skus, barcode : Barcodes \cup {NoBarcode}, active : BOOLEAN])
  /\ count \in 0..MaxProducts
  /\ \A i \in Positions : slots[i] \in Slot \cup {Blank}

(* The array lists no product twice and none that is archived, with the    *)
(* barcode of its row, even once it has been full; no call writes past it. *)
ListIsSound ==
  /\ TypeOK
  /\ \A i, j \in 1..count : slots[i].sku = slots[j].sku => i = j
  /\ \A i \in 1..count :
       LET row == rows[IdOf(slots[i].sku)]
       IN  row.active /\ row.barcode = slots[i].barcode

(* A call on products changes the list as it changes the active rows: the  *)
(* swap with the last slot loses no other product and brings none back.    *)
(* A product restored while the array is full is the only one left out.    *)
ActiveSkus == {rows[id].sku : id \in {id \in DOMAIN rows : rows[id].active}}

ListFollowsRows ==
  [][rows' # rows =>
       /\ Listed \ Listed' = ActiveSkus \ ActiveSkus'
       /\ Listed' \ Listed = IF count < MaxProducts
                             THEN ActiveSkus' \ ActiveSkus ELSE {}]_vars

(* A listed product is found by its SKU, at its own position, whatever     *)
(* moved in the array since it was indexed.                                *)
ListedFound == \A i \in 1..count : inv_find_by_sku(slots[i].sku) = i

(* The same, until the index doubles: ht_resize places again entries that  *)
(* later ones had superseded (see ListedFound).                            *)
ListedFoundBeforeDoubling == bySku.capacity = IndexCapacity => ListedFound

(* The SKU of a listed product finds that product first, and the others    *)
(* that contain it once each, whatever moved in the array: the index and   *)
(* the scan, which skips what the index gave, agree.  For a SKU that is    *)
(* not listed the index may give a ghost (see FoundIsListed).              *)
SearchFindsEach ==
  bySku.capacity = IndexCapacity =>
    \A query \in Listed :
      LET found == inv_search(query)
      IN  /\ slots[found[1]].sku = query
          /\ IsInjective(found)
          /\ Range(found) = {i \in 1..count : query \in PartsOf[slots[i].sku]}

(* A SKU found by the index is the SKU of the product it points to         *)
(* (core.h: "add/update/delete all update BOTH sqlite and the in-memory    *)
(* hash index inside the same call so they can never drift").              *)
FoundIsListed ==
  \A sku \in Skus :
    LET i == inv_find_by_sku(sku)
    IN  i # NoValue => i <= count /\ slots[i].sku = sku
=============================================================================
