----------------------------- MODULE StringMap -----------------------------
(* What hashtable.h promises: a map from strings to pointers.              *)
CONSTANTS Keys, Values, NoValue

VARIABLE map   \* map[k]: the value of k, NoValue when absent

MapInit == map = [k \in Keys |-> NoValue]

MapPut(k, v) == map' = [map EXCEPT ![k] = v]

MapRemove(k) == map' = [map EXCEPT ![k] = NoValue]

MapClear == map' = [k \in Keys |-> NoValue]

MapNext ==
  \/ \E k \in Keys : MapRemove(k) \/ \E v \in Values : MapPut(k, v)
  \/ MapClear
=============================================================================
