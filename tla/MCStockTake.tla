---------------------------- MODULE MCStockTake ----------------------------
(* StockTake on small instances: the values of its constants are in the    *)
(* configurations.                                                         *)
EXTENDS StockTake
=============================================================================
