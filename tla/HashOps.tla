------------------------------ MODULE HashOps ------------------------------
(***************************************************************************)
(* The table of hashtable.c as a value: open addressing with linear        *)
(* probing, tombstones and doubling.  A table is a record of its capacity, *)
(* its count and its slots; the hash (FNV-1a in the code) is any function  *)
(* of the keys, since nothing depends on which one it is.                  *)
(***************************************************************************)
EXTENDS Integers, FiniteSets

CONSTANTS
  Keys,       \* the strings used as keys
  Hash,       \* Hash[k]: the hash of key k
  Empty,      \* key of a slot never used (NULL)
  Tombstone,  \* key of a slot whose entry was removed
  NoValue     \* what a lookup returns for an absent key (NULL)

ASSUME HashAssumption == Hash \in [Keys -> Nat]
ASSUME MarksAssumption == Empty \notin Keys /\ Tombstone \notin Keys /\ Empty # Tombstone

FreeSlot(mark) == [key |-> mark, value |-> NoValue]

ht_init(capacity) ==
  [capacity |-> capacity, count |-> 0,
   slots |-> [i \in 0..capacity - 1 |-> FreeSlot(Empty)]]

Indexes(t) == 0..t.capacity - 1

ht_clear(t) == ht_init(t.capacity)

EmptySlots(t) == {i \in Indexes(t) : t.slots[i].key = Empty}

LiveSlots(t) == {i \in Indexes(t) : t.slots[i].key \in Keys}

SlotsOf(t, k) == {i \in Indexes(t) : t.slots[i].key = k}

-----------------------------------------------------------------------------
(* Probing: the slots of t in the order a search for k visits them, and    *)
(* the first of a set of slots that it meets.                              *)

Probe(t, k, d) ==
  LET i == (Hash[k] % t.capacity) + d
  IN  IF i < t.capacity THEN i ELSE i - t.capacity

FirstMet(t, k, S) ==
  Probe(t, k, CHOOSE d \in Indexes(t) :
                /\ Probe(t, k, d) \in S
                /\ \A e \in 0..d - 1 : Probe(t, k, e) \notin S)

\* The slots at which a lookup of k ends: its entries and the empty slots.
Has(t, k) ==
  LET stops == SlotsOf(t, k) \cup EmptySlots(t)
  IN  stops # {} /\ FirstMet(t, k, stops) \in SlotsOf(t, k)

Found(t, k) == FirstMet(t, k, SlotsOf(t, k) \cup EmptySlots(t))

ht_get(t, k) == IF Has(t, k) THEN t.slots[Found(t, k)].value ELSE NoValue

\* Mutant: a removed entry leaves an empty slot behind.
RemoveToEmpty(t, k) ==
  IF Has(t, k)
  THEN [t EXCEPT !.slots[Found(t, k)] = FreeSlot(Empty), !.count = @ - 1]
  ELSE t

ht_remove(t, k) ==
  IF Has(t, k)
  THEN [t EXCEPT !.slots[Found(t, k)] = FreeSlot(Tombstone), !.count = @ - 1]
  ELSE t

-----------------------------------------------------------------------------
(* Insertion stops at the first slot that is free or already holds k.      *)

Place(t, k, v) ==
  LET i == FirstMet(t, k, (Indexes(t) \ LiveSlots(t)) \cup SlotsOf(t, k))
  IN  [t EXCEPT !.slots[i] = [key |-> k, value |-> v],
                !.count = IF i \in SlotsOf(t, k) THEN @ ELSE @ + 1]

\* (count + 1) / capacity > 0.7
Crowded(t) == 10 * (t.count + 1) > 7 * t.capacity

\* Mutant: the live entries are copied to the same index, not placed again.
DoubledInPlace(t) ==
  [capacity |-> 2 * t.capacity, count |-> t.count,
   slots |-> [i \in 0..2 * t.capacity - 1 |->
                IF i \in LiveSlots(t) THEN t.slots[i] ELSE FreeSlot(Empty)]]

\* ht_resize: the live entries, in slot order, placed in a table twice as large,
\* which they never crowd.
ht_resize(t) ==
  LET upto[i \in 0..t.capacity] ==
        IF i = 0 THEN ht_init(2 * t.capacity)
        ELSE LET e == t.slots[i - 1]
             IN  IF e.key \in Keys THEN Place(upto[i - 1], e.key, e.value) ELSE upto[i - 1]
  IN  upto[t.capacity]

\* Mutant: the table is never enlarged.
PutWithoutGrowth(t, k, v) == Place(t, k, v)

\* Mutant: the table is enlarged after the entry is placed.
PutThenGrow(t, k, v) ==
  LET placed == Place(t, k, v)
  IN  IF Crowded(t) THEN ht_resize(placed) ELSE placed

ht_put(t, k, v) == Place(IF Crowded(t) THEN ht_resize(t) ELSE t, k, v)
=============================================================================
