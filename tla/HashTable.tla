----------------------------- MODULE HashTable -----------------------------
(***************************************************************************)
(* The hash table of hashtable.c under any sequence of ht_put, ht_remove   *)
(* and ht_clear, and how far it is the map that hashtable.h promises: a    *)
(* table with two entries of one key, which ht_put can make, is not.       *)
(***************************************************************************)
EXTENDS HashOps

CONSTANTS
  Values,       \* pointers stored
  InitCapacity, \* capacity given by ht_init (4096 for the two indexes)
  MaxCapacity   \* bound: no put is made that would double the table above it

ASSUME CapacityAssumption == InitCapacity \in Nat \ {0} /\ MaxCapacity \in Nat
ASSUME NoValueAssumption == NoValue \notin Values

VARIABLE table

Slots == [key : Keys \cup {Empty, Tombstone}, value : Values \cup {NoValue}]

TableTyped ==
  /\ \/ table.capacity = InitCapacity
     \/ \E c \in InitCapacity..MaxCapacity : table.capacity = 2 * c /\ 2 * c <= MaxCapacity
  /\ table.count \in 0..table.capacity
  /\ table.slots \in [Indexes(table) -> Slots]

TableInit == table = ht_init(InitCapacity)

PutKey(k, v) ==
  /\ Crowded(table) => 2 * table.capacity <= MaxCapacity
  /\ table' = ht_put(table, k, v)

RemoveKey(k) == table' = ht_remove(table, k)

Clear == table' = ht_clear(table)

TableNext ==
  \/ \E k \in Keys, v \in Values : PutKey(k, v)
  \/ \E k \in Keys : RemoveKey(k)
  \/ Clear

TableSpec == TableInit /\ [][TableNext]_table

-----------------------------------------------------------------------------
(* Properties.                                                             *)

(* count is the number of live slots, through removals and reinsertion:    *)
(* the load factor that triggers the doubling is computed from it.         *)
CountIsLive == table.count = Cardinality(LiveSlots(table))

(* At most 7 slots in 10 are live, so the unbounded loop of ht_put always  *)
(* meets a free slot.                                                      *)
SlotToSpare == 10 * Cardinality(LiveSlots(table)) <= 7 * table.capacity

(* The structure stays sound, whatever the calls.                          *)
Sound == TableTyped /\ CountIsLive /\ SlotToSpare

(* No live entry is cut off from its hash by an empty slot: a lookup that  *)
(* stops at the first empty slot misses nothing.                           *)
EveryEntryReachable ==
  \A i \in LiveSlots(table) :
    LET k == table.slots[i].key
        d == CHOOSE d \in Indexes(table) : Probe(table, k, d) = i
    IN  \A e \in 0..d - 1 : Probe(table, k, e) \notin EmptySlots(table)

(* ht_get answers with the value of the last ht_put of the key, even when  *)
(* an older entry of the key is still in the table.                        *)
LastPutFound ==
  [][\A k \in Keys, v \in Values : PutKey(k, v) => ht_get(table', k) = v]_table

(* A table without two entries of one key behaves as the map it stands     *)
(* for, whatever the call, across collisions, tombstones and doubling.     *)
Map == INSTANCE StringMap WITH map <- [k \in Keys |-> ht_get(table, k)]

Distinct(t) == \A k \in Keys : Cardinality(SlotsOf(t, k)) <= 1

MapWhileDistinct == Map!MapInit /\ [][Distinct(table) => Map!MapNext]_table

(* Only putting again a key that is present makes a second entry of it     *)
(* (into a tombstone that precedes its entry): a catalogue that is loaded  *)
(* and added to, where each key is put once, keeps its keys distinct.      *)
OnlyRewritesDuplicate ==
  [][Distinct(table) /\ ~Distinct(table') =>
       \E k \in Keys, v \in Values : Has(table, k) /\ PutKey(k, v)]_table
=============================================================================
