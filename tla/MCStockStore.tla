---------------------------- MODULE MCStockStore ----------------------------
(* StockStore on small instances: movements of one unit, in or out; the    *)
(* other constants are in the configurations.                              *)
EXTENDS StockStore

MCUnitDeltas == {-1, 1}
=============================================================================
