----------------------------- MODULE MCCatalog -----------------------------
(* Three products of which two share a hash, one barcode.                  *)
EXTENDS Catalog, TLC

CONSTANTS s1, s2, s3, b1

MCSkus == {s1, s2, s3}

MCHash == (s1 :> 3) @@ (s2 :> 3) @@ (s3 :> 2) @@ (b1 :> 0)

\* "A1" is part of "A12" and "A123".
MCParts == (s1 :> {s1}) @@ (s2 :> {s1, s2}) @@ (s3 :> {s1, s2, s3})

MCBarcodes == {b1}

MCKeys == MCSkus \cup MCBarcodes
=============================================================================
