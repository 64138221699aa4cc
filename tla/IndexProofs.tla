---------------------------- MODULE IndexProofs ----------------------------
(***************************************************************************)
(* The hash table for any keys, hash, capacity and calls, and the array of *)
(* the catalogue that one of its tables indexes.                           *)
(*                                                                         *)
(* The probes of a key visit every slot once (Probes), so the first of a   *)
(* set of slots is met after none of it (FirstIsMet).  What the functions  *)
(* of hashtable.c keep is Consistent: an entry is met before any empty     *)
(* slot, and count is the number of entries.  Placing, Removing, Resizing  *)
(* and Putting say what each does to the entries and the answers of every  *)
(* key; they hold of any table, the SKU index included, of which the       *)
(* second half says what the calls on products make.                       *)
(*                                                                         *)
(* A recursive function is a CHOOSE, of which nothing is known before it   *)
(* is shown to exist: RefillsExist, LoadsExist and ScansExist do, each     *)
(* from the least number for which it would not.                           *)
(***************************************************************************)
EXTENDS HashTable, Catalog, FiniteSetTheorems, SequenceTheorems, TLAPS

(* A nonempty set of numbers has a least one.                              *)
LEMMA LeastNat ==
  ASSUME NEW B \in SUBSET Nat, B # {}
  PROVE  \E m \in B : \A k \in B : m <= k
<1> DEFINE R == OpToRel(<, Nat)
<1>1. \A k, m \in Nat : k < m => <<k, m>> \in R
  BY DEF OpToRel
<1>2. IsWellFoundedOn(R, Nat)
  BY NatLessThanWellFounded
<1> HIDE DEF R
<1>3. PICK m \in B : \A k \in B : ~(<<k, m>> \in R)
  BY <1>2, WFMin
<1>4. \A k \in B : ~(k < m)
  BY <1>1, <1>3
<1>5. \A k \in B : m <= k
  BY <1>4
<1> QED
  BY <1>5

(* A slot, live or not, with values in V.                                  *)
Entry(V) == [key : Keys \cup {Empty, Tombstone}, value : V \cup {NoValue}]

(* A table with values in V.                                               *)
Shaped(t, V) ==
  \E c \in Nat \ {0}, n \in Nat : \E s \in [0..c - 1 -> Entry(V)] :
    t = [capacity |-> c, count |-> n, slots |-> s]

LEMMA ShapeFields ==
  ASSUME NEW V, NEW t, Shaped(t, V)
  PROVE  /\ t.capacity \in Nat \ {0} /\ t.count \in Nat
         /\ t.slots \in [Indexes(t) -> Entry(V)]
         /\ IsFiniteSet(Indexes(t)) /\ Cardinality(Indexes(t)) = t.capacity
<1>1. t.capacity \in Nat \ {0} /\ t.count \in Nat /\ t.slots \in [Indexes(t) -> Entry(V)]
  BY DEF Shaped, Indexes
<1>2. IsFiniteSet(0..t.capacity - 1) /\ Cardinality(0..t.capacity - 1) = t.capacity
  <2>1. PICK c \in Nat \ {0} : c = t.capacity
    BY <1>1
  <2>2. 0 \in Int /\ c - 1 \in Int /\ 0 <= c - 1 /\ c - 1 - 0 + 1 = c
    BY <2>1
  <2>3. IsFiniteSet(0..c - 1) /\ Cardinality(0..c - 1) = c
    BY <2>2, FS_Interval
  <2> QED
    BY <2>1, <2>3
<1> QED
  BY <1>1, <1>2 DEF Indexes

(* The probes of a key go once through all slots.                          *)
LEMMA Probes ==
  ASSUME NEW t, t.capacity \in Nat \ {0}, NEW k \in Keys
  PROVE  /\ \A d \in Indexes(t) : Probe(t, k, d) \in Indexes(t)
         /\ \A i \in Indexes(t) : \E d \in Indexes(t) : Probe(t, k, d) = i
         /\ \A d, e \in Indexes(t) : Probe(t, k, d) = Probe(t, k, e) => d = e
<1>0. PICK c \in Nat \ {0} : c = t.capacity
  OBVIOUS
<1>1. PICK r \in 0..c - 1 : r = Hash[k] % c
  BY HashAssumption
<1>2. ASSUME NEW d \in Int PROVE Probe(t, k, d) = IF r + d < c THEN r + d ELSE r + d - c
  <2>1. Probe(t, k, d) = LET i == r + d IN IF i < c THEN i ELSE i - c
    BY <1>0, <1>1, Zenon DEF Probe
  <2> QED
    BY <2>1
<1>3. \A d \in 0..c - 1 : Probe(t, k, d) \in 0..c - 1
  BY <1>1, <1>2
<1>4. ASSUME NEW i \in 0..c - 1 PROVE \E d \in 0..c - 1 : Probe(t, k, d) = i
  <2>1. CASE r <= i
    <3>1. i - r \in 0..c - 1 /\ Probe(t, k, i - r) = i
      BY <1>1, <1>2, <2>1
    <3> QED
      BY <3>1
  <2>2. CASE ~(r <= i)
    <3>1. i - r + c \in 0..c - 1 /\ Probe(t, k, i - r + c) = i
      BY <1>1, <1>2, <2>2
    <3> QED
      BY <3>1
  <2> QED
    BY <2>1, <2>2
<1>5. \A d, e \in 0..c - 1 : Probe(t, k, d) = Probe(t, k, e) => d = e
  BY <1>1, <1>2
<1> QED
  BY <1>0, <1>3, <1>4, <1>5 DEF Indexes

(* The d-th probe of k is the first that falls in S.                       *)
Met(t, k, S, d) ==
  /\ d \in Indexes(t)
  /\ Probe(t, k, d) \in S
  /\ \A e \in 0..d - 1 : Probe(t, k, e) \notin S

(* The first slot met of a set is met after none of it; none other is.     *)
LEMMA FirstIsMet ==
  ASSUME NEW t, t.capacity \in Nat \ {0}, NEW k \in Keys, NEW S,
         S \subseteq Indexes(t), S # {}
  PROVE  \E d : Met(t, k, S, d) /\ FirstMet(t, k, S) = Probe(t, k, d)
<1> DEFINE B == {d \in Indexes(t) : Probe(t, k, d) \in S}
<1>1. B # {} /\ B \in SUBSET Nat
  <2>1. PICK i \in S : i \in Indexes(t)
    OBVIOUS
  <2>2. PICK d \in Indexes(t) : Probe(t, k, d) = i
    BY <2>1, Probes
  <2> QED
    BY <2>1, <2>2 DEF Indexes
<1>2. PICK d \in B : \A e \in B : d <= e
  <2> HIDE DEF B
  <2> QED
    BY <1>1, LeastNat
<1>3. \A e \in 0..d - 1 : e \in Indexes(t) /\ ~(d <= e)
  BY <1>2 DEF Indexes
<1>4. Met(t, k, S, d)
  BY <1>2, <1>3 DEF Met
<1> QED
  BY <1>4, Zenon DEF FirstMet, Met

LEMMA MetOnce ==
  ASSUME NEW t, t.capacity \in Nat \ {0}, NEW k, NEW S, NEW d, NEW e,
         Met(t, k, S, d), Met(t, k, S, e)
  PROVE  d = e
<1>1. d \in Nat /\ e \in Nat
  BY DEF Met, Indexes
<1>2. ~(d < e)
  BY <1>1 DEF Met
<1>3. ~(e < d)
  BY <1>1 DEF Met
<1> QED
  BY <1>1, <1>2, <1>3

-----------------------------------------------------------------------------
(* Lookups.                                                                *)

(* No live entry is behind an empty slot.                                  *)
Reached(t, k, i) ==
  \E d \in Indexes(t) :
    Probe(t, k, d) = i /\ \A e \in 0..d - 1 : Probe(t, k, e) \notin EmptySlots(t)

Reachable(t) == \A i \in LiveSlots(t) : Reached(t, t.slots[i].key, i)

LEMMA SlotsParted ==
  ASSUME NEW V, NEW t, Shaped(t, V), NEW k \in Keys
  PROVE  /\ SlotsOf(t, k) \subseteq LiveSlots(t) /\ LiveSlots(t) \subseteq Indexes(t)
         /\ EmptySlots(t) \subseteq Indexes(t) /\ EmptySlots(t) \cap LiveSlots(t) = {}
         /\ \A i \in SlotsOf(t, k) : t.slots[i].key = k
BY MarksAssumption DEF SlotsOf, LiveSlots, EmptySlots

(* A lookup finds the first entry of its key, if there is one.             *)
LEMMA LookupFinds ==
  ASSUME NEW V, NEW t, Shaped(t, V), Reachable(t), NEW k \in Keys
  PROVE  /\ Has(t, k) <=> SlotsOf(t, k) # {}
         /\ Has(t, k) => \E d : Met(t, k, SlotsOf(t, k), d) /\ Found(t, k) = Probe(t, k, d)
<1> DEFINE stops == SlotsOf(t, k) \cup EmptySlots(t)
<1>1. t.capacity \in Nat \ {0} /\ stops \subseteq Indexes(t)
  BY ShapeFields, SlotsParted
<1>2. Has(t, k) <=> stops # {} /\ FirstMet(t, k, stops) \in SlotsOf(t, k)
  BY DEF Has
<1>3. CASE stops = {}
  BY <1>2, <1>3
<1>4. CASE stops # {}
  <2>1. PICK d : Met(t, k, stops, d) /\ FirstMet(t, k, stops) = Probe(t, k, d)
    <3> HIDE DEF stops
    <3> QED
      BY <1>1, <1>4, FirstIsMet
  <2>2. ASSUME NEW i \in SlotsOf(t, k) PROVE Probe(t, k, d) \in SlotsOf(t, k)
    <3>1. Reached(t, k, i)
      BY SlotsParted DEF Reachable
    <3>2. PICK e \in Indexes(t) :
            Probe(t, k, e) = i /\ \A b \in 0..e - 1 : Probe(t, k, b) \notin EmptySlots(t)
      BY <3>1 DEF Reached
    <3>3. d \in Nat /\ e \in Nat /\ ~(e < d)
      BY <2>1, <3>2 DEF Met, Indexes
    <3>4. CASE d = e
      BY <3>2, <3>4
    <3>5. CASE d # e
      <4>1. d \in 0..e - 1
        BY <3>3, <3>5
      <4> QED
        BY <4>1, <3>2, <2>1 DEF Met
    <3> QED
      BY <3>4, <3>5
  <2>3. SlotsOf(t, k) # {} <=> Probe(t, k, d) \in SlotsOf(t, k)
    BY <2>2
  <2>4. Probe(t, k, d) \in SlotsOf(t, k) => Met(t, k, SlotsOf(t, k), d)
    BY <2>1 DEF Met
  <2> QED
    BY <1>2, <1>4, <2>1, <2>3, <2>4 DEF Found
<1> QED
  BY <1>3, <1>4

(* The answer depends on the entries of the key alone.                     *)
LEMMA SameAnswer ==
  ASSUME NEW V, NEW t, Shaped(t, V), Reachable(t), NEW u, Shaped(u, V), Reachable(u),
         NEW k \in Keys, u.capacity = t.capacity, SlotsOf(u, k) = SlotsOf(t, k),
         \A i \in SlotsOf(t, k) : u.slots[i].value = t.slots[i].value
  PROVE  ht_get(u, k) = ht_get(t, k)
<1>1. Has(t, k) <=> Has(u, k)
  BY LookupFinds
<1>2. CASE Has(t, k)
  <2>1. PICK d : Met(t, k, SlotsOf(t, k), d) /\ Found(t, k) = Probe(t, k, d)
    BY <1>2, LookupFinds
  <2>2. PICK e : Met(u, k, SlotsOf(u, k), e) /\ Found(u, k) = Probe(u, k, e)
    BY <1>1, <1>2, LookupFinds
  <2>3. Met(t, k, SlotsOf(t, k), e) /\ Found(u, k) = Probe(t, k, e)
    BY <2>2 DEF Met, Probe, Indexes
  <2>4. d = e
    BY <2>1, <2>3, ShapeFields, MetOnce
  <2>5. Found(u, k) = Found(t, k) /\ Found(t, k) \in SlotsOf(t, k)
    BY <2>1, <2>3, <2>4 DEF Met
  <2> QED
    BY <1>1, <1>2, <2>5 DEF ht_get
<1> QED
  BY <1>1, <1>2 DEF ht_get

(* With one entry of the key, or none.                                     *)
LEMMA OnlyAnswer ==
  ASSUME NEW V, NEW t, Shaped(t, V), Reachable(t), NEW k \in Keys
  PROVE  /\ SlotsOf(t, k) = {} => ht_get(t, k) = NoValue
         /\ \A i : SlotsOf(t, k) = {i} => ht_get(t, k) = t.slots[i].value
<1>1. SlotsOf(t, k) = {} => ht_get(t, k) = NoValue
  BY LookupFinds DEF ht_get
<1>2. ASSUME NEW i, SlotsOf(t, k) = {i} PROVE ht_get(t, k) = t.slots[i].value
  <2>1. Has(t, k) /\ Found(t, k) \in SlotsOf(t, k)
    BY <1>2, LookupFinds DEF Met
  <2> QED
    BY <1>2, <2>1 DEF ht_get
<1> QED
  BY <1>1, <1>2

-----------------------------------------------------------------------------
(* Placing an entry.                                                       *)
(* Where an insertion of k may stop.                                       *)
Places(t, k) == (Indexes(t) \ LiveSlots(t)) \cup SlotsOf(t, k)

(* What Place makes of a table: k in the first slot that may take it.      *)
PlacedAt(t, k, v, i, u) ==
  u = [capacity |-> t.capacity,
       count |-> IF i \in SlotsOf(t, k) THEN t.count ELSE t.count + 1,
       slots |-> [t.slots EXCEPT ![i] = [key |-> k, value |-> v]]]

LEMMA PlaceIs ==
  ASSUME NEW V, NEW t, Shaped(t, V), NEW k \in Keys, NEW v, Places(t, k) # {}
  PROVE  \E d : /\ Met(t, k, Places(t, k), d)
                /\ PlacedAt(t, k, v, Probe(t, k, d), Place(t, k, v))
<1>1. t.capacity \in Nat \ {0} /\ Places(t, k) \subseteq Indexes(t)
  BY ShapeFields DEF Places, SlotsOf
<1>2. PICK d : Met(t, k, Places(t, k), d) /\ FirstMet(t, k, Places(t, k)) = Probe(t, k, d)
  BY <1>1, FirstIsMet
<1>3. PICK i : i = Probe(t, k, d)
  OBVIOUS
<1>4. Place(t, k, v) = [t EXCEPT !.slots[i] = [key |-> k, value |-> v],
                                 !.count = IF i \in SlotsOf(t, k) THEN @ ELSE @ + 1]
  BY <1>2, <1>3 DEF Place, Places
<1>5. PICK c, n, s : t = [capacity |-> c, count |-> n, slots |-> s]
  BY DEF Shaped
<1>6. PlacedAt(t, k, v, i, Place(t, k, v))
  BY <1>4, <1>5 DEF PlacedAt
<1> QED
  BY <1>2, <1>3, <1>6

LEMMA PlacedSlots ==
  ASSUME NEW V, NEW t, Shaped(t, V), NEW k \in Keys, NEW v \in V,
         NEW i \in Places(t, k), NEW u, PlacedAt(t, k, v, i, u)
  PROVE  /\ Shaped(u, V) /\ u.capacity = t.capacity
         /\ Indexes(u) = Indexes(t)
         /\ LiveSlots(u) = LiveSlots(t) \cup {i}
         /\ EmptySlots(u) = EmptySlots(t) \ {i}
         /\ SlotsOf(u, k) = SlotsOf(t, k) \cup {i}
         /\ \A k2 \in Keys \ {k} : SlotsOf(u, k2) = SlotsOf(t, k2)
         /\ u.slots[i] = [key |-> k, value |-> v]
         /\ \A j \in Indexes(t) \ {i} : u.slots[j] = t.slots[j]
<1>1. PICK c \in Nat \ {0}, n \in Nat : \E s \in [0..c - 1 -> Entry(V)] :
        t = [capacity |-> c, count |-> n, slots |-> s]
  BY DEF Shaped
<1>2. PICK s \in [0..c - 1 -> Entry(V)] : t = [capacity |-> c, count |-> n, slots |-> s]
  BY <1>1
<1>3. i \in 0..c - 1
  BY <1>2 DEF Places, Indexes, SlotsOf
<1>4. PICK m \in Nat : m = IF i \in SlotsOf(t, k) THEN t.count ELSE t.count + 1
  BY <1>2
<1>5. PICK r : r = [s EXCEPT ![i] = [key |-> k, value |-> v]]
  OBVIOUS
<1>6. r \in [0..c - 1 -> Entry(V)]
  BY <1>3, <1>5 DEF Entry
<1>7. u = [capacity |-> c, count |-> m, slots |-> r]
  BY <1>2, <1>4, <1>5 DEF PlacedAt
<1>8. Shaped(u, V)
  BY <1>6, <1>7 DEF Shaped
<1>9. u.slots[i] = [key |-> k, value |-> v] /\ \A j \in Indexes(t) \ {i} : u.slots[j] = t.slots[j]
  BY <1>2, <1>3, <1>5, <1>7 DEF Indexes
<1>10. u.capacity = t.capacity /\ Indexes(u) = Indexes(t) /\ i \in Indexes(t)
  BY <1>2, <1>3, <1>7 DEF Indexes
<1>11. LiveSlots(u) = LiveSlots(t) \cup {i}
  BY <1>9, <1>10 DEF LiveSlots
<1>12. EmptySlots(u) = EmptySlots(t) \ {i}
  BY <1>9, <1>10, MarksAssumption DEF EmptySlots
<1>13. SlotsOf(u, k) = SlotsOf(t, k) \cup {i}
  BY <1>9, <1>10 DEF SlotsOf
<1>14. ASSUME NEW k2 \in Keys \ {k} PROVE SlotsOf(u, k2) = SlotsOf(t, k2)
  <2>1. t.slots[i].key # k2
    BY <1>10 DEF Places, LiveSlots, SlotsOf
  <2> QED
    BY <1>9, <1>10, <2>1 DEF SlotsOf
<1> QED
  BY <1>8, <1>9, <1>10, <1>11, <1>12, <1>13, <1>14

(* A placed entry can be found, and hides no other.                        *)
LEMMA PlacedReachable ==
  ASSUME NEW V, NEW t, Shaped(t, V), Reachable(t), NEW k \in Keys, NEW v \in V,
         NEW d, Met(t, k, Places(t, k), d), NEW u, PlacedAt(t, k, v, Probe(t, k, d), u)
  PROVE  Reachable(u) /\ ht_get(u, k) = v
<1>1. PICK i : i = Probe(t, k, d) /\ i \in Places(t, k)
  BY DEF Met
<1>2. /\ Shaped(u, V) /\ Indexes(u) = Indexes(t)
      /\ LiveSlots(u) = LiveSlots(t) \cup {i} /\ EmptySlots(u) = EmptySlots(t) \ {i}
      /\ SlotsOf(u, k) = SlotsOf(t, k) \cup {i}
      /\ u.slots[i] = [key |-> k, value |-> v]
      /\ \A j \in Indexes(t) \ {i} : u.slots[j] = t.slots[j]
      /\ u.capacity = t.capacity
  BY <1>1, PlacedSlots
<1>3. \A k2, e : Probe(u, k2, e) = Probe(t, k2, e)
  BY <1>2 DEF Probe
<1>4. d \in Indexes(u) /\ d \in Nat /\ \A e \in 0..d - 1 : Probe(u, k, e) \notin Places(t, k)
  BY <1>2, <1>3 DEF Met, Indexes
<1>5. EmptySlots(t) \subseteq Places(t, k) /\ SlotsOf(t, k) \subseteq Places(t, k)
  BY SlotsParted DEF Places
<1>6. Reached(u, k, i)
  BY <1>1, <1>2, <1>3, <1>4, <1>5 DEF Reached
<1>7. ASSUME NEW j \in LiveSlots(u) PROVE Reached(u, u.slots[j].key, j)
  <2>1. CASE j = i
    BY <1>2, <1>6, <2>1
  <2>2. CASE j # i
    <3>1. j \in LiveSlots(t) /\ u.slots[j].key = t.slots[j].key
      BY <1>2, <2>2, SlotsParted
    <3>2. Reached(t, t.slots[j].key, j)
      BY <3>1 DEF Reachable
    <3> QED
      BY <1>2, <1>3, <3>1, <3>2 DEF Reached
  <2> QED
    BY <2>1, <2>2
<1>8. Reachable(u)
  BY <1>7 DEF Reachable
<1>9. Met(u, k, SlotsOf(u, k), d)
  <2>1. \A e \in 0..d - 1 : Probe(u, k, e) # i /\ Probe(u, k, e) \notin SlotsOf(t, k)
    BY <1>1, <1>4, <1>5
  <2> QED
    BY <1>1, <1>2, <1>3, <1>4, <2>1 DEF Met
<1>10. Has(u, k) /\ Found(u, k) = i
  <2>1. Has(u, k)
    BY <1>2, <1>8, LookupFinds
  <2>2. PICK e : Met(u, k, SlotsOf(u, k), e) /\ Found(u, k) = Probe(u, k, e)
    BY <1>2, <1>8, <2>1, LookupFinds
  <2>3. e = d
    BY <1>2, <1>9, <2>2, ShapeFields, MetOnce
  <2> QED
    BY <1>1, <1>3, <2>1, <2>2, <2>3
<1> QED
  BY <1>2, <1>8, <1>10 DEF ht_get

(* The tables that the functions of hashtable.c make: entries that a       *)
(* lookup reaches, values of V, the count of the live slots.               *)
Consistent(t, V) ==
  /\ Shaped(t, V)
  /\ Reachable(t)
  /\ \A i \in LiveSlots(t) : t.slots[i].value \in V
  /\ t.count = Cardinality(LiveSlots(t))

LEMMA LiveAreFinite ==
  ASSUME NEW V, NEW t, Shaped(t, V)
  PROVE  /\ IsFiniteSet(LiveSlots(t)) /\ Cardinality(LiveSlots(t)) \in Nat
         /\ Cardinality(LiveSlots(t)) <= t.capacity
         /\ Cardinality(LiveSlots(t)) < t.capacity => Indexes(t) \ LiveSlots(t) # {}
<1>1. LiveSlots(t) \subseteq Indexes(t)
  BY DEF LiveSlots
<1>2. IsFiniteSet(LiveSlots(t)) /\ Cardinality(LiveSlots(t)) <= Cardinality(Indexes(t))
  BY <1>1, ShapeFields, FS_Subset
<1>3. Cardinality(LiveSlots(t)) \in Nat
  BY <1>2, FS_CardinalityType
<1>4. t.capacity \in Nat /\ Cardinality(Indexes(t)) = t.capacity
  BY ShapeFields
<1>5. ASSUME Indexes(t) \ LiveSlots(t) = {} PROVE Cardinality(LiveSlots(t)) = t.capacity
  <2>1. LiveSlots(t) = Indexes(t)
    BY <1>1, <1>5
  <2> QED
    BY <1>4, <2>1
<1> QED
  BY <1>2, <1>3, <1>4, <1>5

(* From t to u, one entry of k more at most, which a lookup finds.         *)
Enters(t, k, v, u) ==
  /\ u.capacity = t.capacity
  /\ u.count \in {t.count, t.count + 1}
  /\ ht_get(u, k) = v
  /\ SlotsOf(t, k) = {} => \E i : SlotsOf(u, k) = {i}
  /\ \A k2 \in Keys \ {k} : SlotsOf(u, k2) = SlotsOf(t, k2) /\ ht_get(u, k2) = ht_get(t, k2)

LEMMA Placing ==
  ASSUME NEW V, NEW t, Consistent(t, V), NEW k \in Keys, NEW v \in V, t.count < t.capacity,
         NEW u, u = Place(t, k, v)
  PROVE  Consistent(u, V) /\ Enters(t, k, v, u)
<1>1. Shaped(t, V) /\ Reachable(t)
  BY DEF Consistent
<1>2. Places(t, k) # {}
  BY <1>1, LiveAreFinite DEF Consistent, Places
<1>3. PICK d : Met(t, k, Places(t, k), d) /\ PlacedAt(t, k, v, Probe(t, k, d), u)
  BY <1>1, <1>2, PlaceIs
<1>4. PICK i : i = Probe(t, k, d) /\ i \in Places(t, k) /\ PlacedAt(t, k, v, i, u)
  BY <1>3 DEF Met
<1>5. /\ Shaped(u, V) /\ Indexes(u) = Indexes(t)
      /\ LiveSlots(u) = LiveSlots(t) \cup {i}
      /\ SlotsOf(u, k) = SlotsOf(t, k) \cup {i}
      /\ u.slots[i] = [key |-> k, value |-> v]
      /\ \A j \in Indexes(t) \ {i} : u.slots[j] = t.slots[j]
      /\ u.capacity = t.capacity
      /\ \A k2 \in Keys \ {k} : SlotsOf(u, k2) = SlotsOf(t, k2)
  BY <1>1, <1>4, PlacedSlots
<1>6. Reachable(u) /\ ht_get(u, k) = v
  BY <1>1, <1>3, PlacedReachable
<1>7. \A j \in LiveSlots(u) : u.slots[j].value \in V
  <2>1. LiveSlots(t) \subseteq Indexes(t)
    BY DEF LiveSlots
  <2> QED
    BY <1>5, <2>1 DEF Consistent
<1>8. u.count = Cardinality(LiveSlots(u)) /\ u.count \in {t.count, t.count + 1}
  <2>1. IsFiniteSet(LiveSlots(t)) /\ t.count = Cardinality(LiveSlots(t))
    BY <1>1, LiveAreFinite DEF Consistent
  <2>2. u.count = IF i \in SlotsOf(t, k) THEN t.count ELSE t.count + 1
    BY <1>4 DEF PlacedAt
  <2>3. i \in SlotsOf(t, k) <=> i \in LiveSlots(t)
    BY <1>1, <1>4, SlotsParted DEF Places
  <2>4. CASE i \in LiveSlots(t)
    <3>1. LiveSlots(u) = LiveSlots(t)
      BY <1>5, <2>4
    <3> QED
      BY <2>1, <2>2, <2>3, <2>4, <3>1
  <2>5. CASE i \notin LiveSlots(t)
    <3>1. Cardinality(LiveSlots(t) \cup {i}) = Cardinality(LiveSlots(t)) + 1
      BY <2>1, <2>5, FS_AddElement
    <3> QED
      BY <1>5, <2>1, <2>2, <2>3, <2>5, <3>1
  <2> QED
    BY <2>4, <2>5
<1>9. ASSUME NEW k2 \in Keys \ {k} PROVE ht_get(u, k2) = ht_get(t, k2)
  <2>1. i \notin SlotsOf(t, k2)
    <3>1. u.slots[i].key # k2
      BY <1>5
    <3> QED
      BY <1>5, <3>1 DEF SlotsOf
  <2>2. \A j \in SlotsOf(t, k2) : u.slots[j].value = t.slots[j].value
    BY <1>5, <2>1 DEF SlotsOf
  <2> QED
    BY <1>1, <1>5, <1>6, <2>2, SameAnswer
<1>10. Consistent(u, V)
  BY <1>5, <1>6, <1>7, <1>8 DEF Consistent
<1>11. SlotsOf(t, k) = {} => \E j : SlotsOf(u, k) = {j}
  BY <1>5
<1> QED
  BY <1>5, <1>6, <1>8, <1>9, <1>10, <1>11 DEF Enters

-----------------------------------------------------------------------------
(* Starting and removing.                                                  *)
LEMMA Starting ==
  ASSUME NEW V, NEW c \in Nat \ {0}, NEW u, u = ht_init(c)
  PROVE  /\ Consistent(u, V) /\ u.capacity = c /\ u.count = 0
         /\ \A k \in Keys : SlotsOf(u, k) = {} /\ ht_get(u, k) = NoValue
<1>1. PICK s : s = [i \in 0..c - 1 |-> FreeSlot(Empty)]
  OBVIOUS
<1>2. s \in [0..c - 1 -> Entry(V)] /\ \A i \in 0..c - 1 : s[i].key = Empty
  BY <1>1 DEF FreeSlot, Entry
<1>3. u = [capacity |-> c, count |-> 0, slots |-> s]
  BY <1>1 DEF ht_init
<1>4. Shaped(u, V)
  BY <1>2, <1>3 DEF Shaped
<1>5. LiveSlots(u) = {} /\ \A k \in Keys : SlotsOf(u, k) = {}
  BY <1>2, <1>3, MarksAssumption DEF LiveSlots, SlotsOf, Indexes
<1>6. Consistent(u, V)
  BY <1>3, <1>4, <1>5, FS_EmptySet DEF Consistent, Reachable
<1>7. ASSUME NEW k \in Keys PROVE ht_get(u, k) = NoValue
  BY <1>4, <1>5, <1>6, OnlyAnswer DEF Consistent
<1> QED
  BY <1>3, <1>5, <1>6, <1>7

LEMMA Removing ==
  ASSUME NEW V, NEW t, Consistent(t, V), NEW k \in Keys, NEW u, u = ht_remove(t, k)
  PROVE  /\ Consistent(u, V) /\ u.capacity = t.capacity /\ u.count <= t.count
         /\ SlotsOf(u, k) \subseteq SlotsOf(t, k)
         /\ SlotsOf(t, k) # {} => SlotsOf(u, k) # SlotsOf(t, k)
         /\ \A k2 \in Keys \ {k} : /\ SlotsOf(u, k2) = SlotsOf(t, k2)
                                   /\ ht_get(u, k2) = ht_get(t, k2)
<1>0. Shaped(t, V) /\ Reachable(t) /\ t.count \in Nat
  BY ShapeFields DEF Consistent
<1>1. CASE ~Has(t, k)
  <2>1. u = t /\ SlotsOf(t, k) = {}
    BY <1>0, <1>1, LookupFinds DEF ht_remove
  <2> QED
    BY <1>0, <2>1
<1>2. CASE Has(t, k)
  <2>1. PICK i : i = Found(t, k) /\ i \in SlotsOf(t, k)
    BY <1>0, <1>2, LookupFinds DEF Met
  <2>2. PICK c \in Nat \ {0}, n \in Nat : \E s \in [0..c - 1 -> Entry(V)] :
          t = [capacity |-> c, count |-> n, slots |-> s]
    BY <1>0 DEF Shaped
  <2>3. PICK s \in [0..c - 1 -> Entry(V)] : t = [capacity |-> c, count |-> n, slots |-> s]
    BY <2>2
  <2>4. PICK r : r = [s EXCEPT ![i] = FreeSlot(Tombstone)]
    OBVIOUS
  <2>5. u = [capacity |-> c, count |-> n - 1, slots |-> r]
    BY <1>2, <2>1, <2>3, <2>4 DEF ht_remove
  <2>6. i \in 0..c - 1
    BY <2>1, <2>3 DEF SlotsOf, Indexes
  <2>7. r \in [0..c - 1 -> Entry(V)]
    BY <2>4, <2>6 DEF Entry, FreeSlot
  <2>8. u.slots[i].key = Tombstone /\ \A j \in Indexes(t) \ {i} : u.slots[j] = t.slots[j]
    BY <2>3, <2>4, <2>5, <2>6 DEF Indexes, FreeSlot
  <2>9. Indexes(u) = Indexes(t) /\ u.capacity = t.capacity /\ i \in Indexes(t)
    BY <2>3, <2>5, <2>6 DEF Indexes
  <2>10. LiveSlots(u) = LiveSlots(t) \ {i}
    BY <2>8, <2>9, MarksAssumption DEF LiveSlots
  <2>11. EmptySlots(u) = EmptySlots(t)
    BY <2>1, <2>8, <2>9, MarksAssumption DEF EmptySlots, SlotsOf
  <2>12. SlotsOf(u, k) = SlotsOf(t, k) \ {i}
    BY <2>8, <2>9, MarksAssumption DEF SlotsOf
  <2>13. \A k2 \in Keys \ {k} : SlotsOf(u, k2) = SlotsOf(t, k2) /\ i \notin SlotsOf(t, k2)
    BY <2>1, <2>8, <2>9, MarksAssumption DEF SlotsOf
  <2>14. i \in LiveSlots(t) /\ LiveSlots(t) \subseteq Indexes(t)
    BY <1>0, <2>1, SlotsParted
  <2>15. n - 1 = Cardinality(LiveSlots(u)) /\ n - 1 \in Nat
    <3>1. IsFiniteSet(LiveSlots(t)) /\ n = Cardinality(LiveSlots(t))
      BY <1>0, <2>3, LiveAreFinite DEF Consistent
    <3>2. Cardinality(LiveSlots(u)) = Cardinality(LiveSlots(t)) - 1
      BY <2>10, <2>14, <3>1, FS_RemoveElement
    <3>3. Cardinality(LiveSlots(u)) \in Nat
      BY <2>10, <3>1, FS_RemoveElement, FS_CardinalityType
    <3> QED
      BY <3>1, <3>2, <3>3
  <2>16. Shaped(u, V)
    BY <2>5, <2>7, <2>15 DEF Shaped
  <2>17. Reachable(u)
    <3>1. ASSUME NEW j \in LiveSlots(u) PROVE Reached(u, u.slots[j].key, j)
      <4>1. j \in LiveSlots(t) /\ u.slots[j].key = t.slots[j].key
        BY <2>8, <2>10, <2>14
      <4>2. Reached(t, t.slots[j].key, j)
        BY <1>0, <4>1 DEF Reachable
      <4>3. \A e, k2 : Probe(u, k2, e) = Probe(t, k2, e)
        BY <2>9 DEF Probe
      <4> QED
        BY <2>9, <2>11, <4>1, <4>2, <4>3 DEF Reached
    <3> QED
      BY <3>1 DEF Reachable
  <2>18. Consistent(u, V)
    <3>1. \A j \in LiveSlots(u) : u.slots[j].value \in V
      BY <2>8, <2>10, <2>14 DEF Consistent
    <3>2. u.count = Cardinality(LiveSlots(u))
      BY <2>5, <2>15
    <3> QED
      BY <2>16, <2>17, <3>1, <3>2 DEF Consistent
  <2>19. ASSUME NEW k2 \in Keys \ {k} PROVE ht_get(u, k2) = ht_get(t, k2)
    <3>1. \A j \in SlotsOf(t, k2) : u.slots[j].value = t.slots[j].value
      BY <2>8, <2>13 DEF SlotsOf
    <3> QED
      BY <1>0, <2>9, <2>13, <2>16, <2>17, <3>1, SameAnswer
  <2>20. u.count <= t.count
    BY <2>3, <2>5
  <2> QED
    BY <2>1, <2>9, <2>12, <2>13, <2>18, <2>19, <2>20
<1> QED
  BY <1>1, <1>2

-----------------------------------------------------------------------------
(* Doubling.                                                               *)

(* The table once the slots of t below i were placed again, given what it  *)
(* was before the last of them.                                            *)
Refilled(t, g, i) ==
  IF i = 0 THEN ht_init(2 * t.capacity)
  ELSE IF t.slots[i - 1].key \in Keys
       THEN Place(g, t.slots[i - 1].key, t.slots[i - 1].value) ELSE g

Refills(f, t, n) == f = [i \in 0..n |-> Refilled(t, f[i - 1], i)]

LEMMA ResizeIs ==
  ASSUME NEW t, NEW n, n = t.capacity
  PROVE  ht_resize(t) = (CHOOSE f : Refills(f, t, n))[n]
BY DEF ht_resize, Refills, Refilled

(* The function that ht_resize is defined by exists.                       *)
LEMMA RefillsExist ==
  ASSUME NEW t, NEW n \in Nat
  PROVE  \E f : Refills(f, t, n)
<1> DEFINE B == {m \in Nat : ~ \E f : Refills(f, t, m)}
<1>1. \E f : Refills(f, t, 0)
  <2>1. Refills([i \in 0..0 |-> Refilled(t, t, 0)], t, 0)
    BY DEF Refills, Refilled
  <2> QED
    BY <2>1
<1>2. ASSUME NEW m \in Nat \ {0}, \E f : Refills(f, t, m - 1)
      PROVE  \E f : Refills(f, t, m)
  <2>1. PICK f : Refills(f, t, m - 1)
    BY <1>2
  <2> DEFINE g == [i \in 0..m |-> Refilled(t, f[i - 1], i)]
  <2>2. \A i \in 0..(m - 1) : g[i] = f[i]
    BY <2>1 DEF Refills
  <2>3. \A i \in 0..m : i # 0 => i - 1 \in 0..(m - 1)
    OBVIOUS
  <2>4. \A i \in 0..m : g[i] = Refilled(t, g[i - 1], i)
    BY <2>2, <2>3 DEF Refilled
  <2>5. Refills(g, t, m)
    BY <2>4 DEF Refills
  <2> QED
    BY <2>5
<1>3. SUFFICES ASSUME B # {} PROVE FALSE
  OBVIOUS
<1>4. PICK m \in B : \A j \in B : m <= j
  BY <1>3, LeastNat
<1>5. m # 0
  BY <1>1
<1>6. m - 1 \in Nat /\ m - 1 \notin B
  <2>1. B \subseteq Nat
    OBVIOUS
  <2> HIDE DEF B
  <2> QED
    BY <1>4, <1>5, <2>1
<1>7. \E f : Refills(f, t, m - 1)
  BY <1>6
<1> QED
  BY <1>2, <1>5, <1>7

(* The entries that a doubling has placed again before slot i.             *)
Below(t, i) == {j \in LiveSlots(t) : j < i}

LEMMA BelowNext ==
  ASSUME NEW V, NEW t, Shaped(t, V), NEW i \in Indexes(t)
  PROVE  /\ Cardinality(Below(t, i)) \in Nat /\ Cardinality(Below(t, i + 1)) \in Nat
         /\ Cardinality(Below(t, i + 1)) =
              Cardinality(Below(t, i)) + (IF i \in LiveSlots(t) THEN 1 ELSE 0)
         /\ Cardinality(Below(t, i + 1)) <= Cardinality(LiveSlots(t))
<1>1. i \in Nat /\ LiveSlots(t) \subseteq Nat
  BY ShapeFields DEF Indexes, LiveSlots
<1>2. /\ IsFiniteSet(Below(t, i)) /\ IsFiniteSet(Below(t, i + 1))
      /\ Cardinality(Below(t, i + 1)) <= Cardinality(LiveSlots(t))
  <2>1. Below(t, i) \subseteq LiveSlots(t) /\ Below(t, i + 1) \subseteq LiveSlots(t)
    BY DEF Below
  <2>2. IsFiniteSet(LiveSlots(t))
    BY LiveAreFinite
  <2> QED
    BY <2>1, <2>2, FS_Subset
<1>3. Cardinality(Below(t, i)) \in Nat /\ Cardinality(Below(t, i + 1)) \in Nat
  BY <1>2, FS_CardinalityType
<1>4. CASE i \in LiveSlots(t)
  <2>1. Below(t, i + 1) = Below(t, i) \cup {i} /\ i \notin Below(t, i)
    BY <1>1, <1>4 DEF Below
  <2>2. Cardinality(Below(t, i) \cup {i}) = Cardinality(Below(t, i)) + 1
    BY <1>2, <2>1, FS_AddElement
  <2> QED
    BY <1>2, <1>3, <1>4, <2>1, <2>2
<1>5. CASE i \notin LiveSlots(t)
  <2>1. Below(t, i + 1) = Below(t, i)
    BY <1>1, <1>5 DEF Below
  <2> QED
    BY <1>2, <1>3, <1>5, <2>1
<1> QED
  BY <1>4, <1>5

(* A set of one element or none.                                           *)
Single(S) == \A a, b \in S : a = b

(* A table that was loaded from the slots of t below i.                    *)
LoadedTo(t, V, g, i) ==
  /\ Consistent(g, V) /\ g.capacity = 2 * t.capacity
  /\ g.count <= Cardinality(Below(t, i))
  /\ \A k \in Keys :
       /\ SlotsOf(t, k) \cap Below(t, i) = {} => SlotsOf(g, k) = {}
       /\ Single(SlotsOf(t, k)) => Single(SlotsOf(g, k))
       /\ \A j \in Below(t, i) : SlotsOf(t, k) = {j} => ht_get(g, k) = t.slots[j].value

LEMMA LoadedStep ==
  ASSUME NEW V, NEW t, Consistent(t, V), NEW i \in Indexes(t),
         NEW g, LoadedTo(t, V, g, i)
  PROVE  LoadedTo(t, V, Refilled(t, g, i + 1), i + 1)
<1>0. /\ Shaped(t, V) /\ t.capacity \in Nat \ {0} /\ i \in Nat /\ (i + 1) - 1 = i
      /\ Shaped(g, V) /\ g.count \in Nat
  BY ShapeFields DEF Consistent, Indexes, LoadedTo
<1>1. PICK m \in Nat, n \in Nat :
        /\ m = Cardinality(Below(t, i)) /\ n = Cardinality(Below(t, i + 1))
        /\ n = m + (IF i \in LiveSlots(t) THEN 1 ELSE 0)
        /\ n <= t.capacity
  <2>1. Cardinality(LiveSlots(t)) <= t.capacity /\ Cardinality(LiveSlots(t)) \in Nat
    BY <1>0, LiveAreFinite
  <2>2. /\ Cardinality(Below(t, i)) \in Nat /\ Cardinality(Below(t, i + 1)) \in Nat
        /\ Cardinality(Below(t, i + 1)) =
             Cardinality(Below(t, i)) + (IF i \in LiveSlots(t) THEN 1 ELSE 0)
        /\ Cardinality(Below(t, i + 1)) <= Cardinality(LiveSlots(t))
    BY <1>0, BelowNext
  <2>3. Cardinality(Below(t, i + 1)) <= t.capacity
    BY <1>0, <2>1, <2>2
  <2> QED
    BY <2>2, <2>3
<1>2. CASE i \notin LiveSlots(t)
  <2>1. t.slots[i].key \notin Keys
    BY <1>2 DEF LiveSlots
  <2>2. Refilled(t, g, i + 1) = g
    BY <1>0, <2>1 DEF Refilled
  <2>3. Below(t, i + 1) = Below(t, i)
    <3>1. LiveSlots(t) \subseteq Nat
      BY <1>0 DEF LiveSlots, Indexes
    <3> QED
      BY <1>0, <1>2, <3>1 DEF Below
  <2> QED
    BY <2>2, <2>3 DEF LoadedTo
<1>3. CASE i \in LiveSlots(t)
  <2>1. PICK k, v : k = t.slots[i].key /\ v = t.slots[i].value
    OBVIOUS
  <2>2. k \in Keys /\ v \in V /\ i \in SlotsOf(t, k)
    BY <1>3, <2>1 DEF LiveSlots, Consistent, SlotsOf
  <2>3. PICK u : u = Place(g, k, v) /\ u = Refilled(t, g, i + 1)
    BY <1>0, <2>1, <2>2 DEF Refilled
  <2>4. Consistent(g, V) /\ g.capacity = 2 * t.capacity /\ g.count <= m
    BY <1>1 DEF LoadedTo
  <2>5. g.count < g.capacity /\ n = m + 1
    BY <1>0, <1>1, <1>3, <2>4
  <2>6a. Consistent(u, V) /\ Enters(g, k, v, u)
    BY <2>2, <2>3, <2>4, <2>5, Placing
  <2>6. /\ Consistent(u, V) /\ u.capacity = g.capacity
        /\ u.count \in {g.count, g.count + 1}
        /\ ht_get(u, k) = v
        /\ SlotsOf(g, k) = {} => \E x : SlotsOf(u, k) = {x}
        /\ \A k2 \in Keys \ {k} : /\ SlotsOf(u, k2) = SlotsOf(g, k2)
                                  /\ ht_get(u, k2) = ht_get(g, k2)
    BY <2>6a DEF Enters
  <2>7. u.count <= n
    BY <1>0, <2>4, <2>5, <2>6
  <2>8. Below(t, i + 1) = Below(t, i) \cup {i} /\ i \notin Below(t, i)
    <3>1. LiveSlots(t) \subseteq Nat
      BY <1>0 DEF LiveSlots, Indexes
    <3> QED
      BY <1>0, <1>3, <3>1 DEF Below
  <2>9. ASSUME NEW k2 \in Keys
        PROVE  /\ SlotsOf(t, k2) \cap Below(t, i + 1) = {} => SlotsOf(u, k2) = {}
               /\ Single(SlotsOf(t, k2)) => Single(SlotsOf(u, k2))
               /\ \A j \in Below(t, i + 1) :
                    SlotsOf(t, k2) = {j} => ht_get(u, k2) = t.slots[j].value
    <3>1. CASE k2 = k
      <4>1. SlotsOf(t, k) \cap Below(t, i + 1) # {}
        BY <2>2, <2>8
      <4>2. ASSUME Single(SlotsOf(t, k)) PROVE Single(SlotsOf(u, k))
        <5>1. SlotsOf(t, k) = {i}
          BY <2>2, <4>2 DEF Single
        <5>2. SlotsOf(g, k) = {}
          BY <2>2, <2>8, <5>1 DEF LoadedTo
        <5> QED
          BY <2>6, <5>2 DEF Single
      <4>3. ASSUME NEW j, SlotsOf(t, k) = {j} PROVE ht_get(u, k) = t.slots[j].value
        BY <2>1, <2>2, <2>6, <4>3
      <4> QED
        BY <3>1, <4>1, <4>2, <4>3
    <3>2. CASE k2 # k
      <4>1. SlotsOf(u, k2) = SlotsOf(g, k2) /\ ht_get(u, k2) = ht_get(g, k2)
        BY <2>6, <3>2
      <4>2. i \notin SlotsOf(t, k2)
        BY <2>1, <3>2 DEF SlotsOf
      <4>3. /\ SlotsOf(t, k2) \cap Below(t, i) = {} => SlotsOf(g, k2) = {}
            /\ Single(SlotsOf(t, k2)) => Single(SlotsOf(g, k2))
            /\ \A j \in Below(t, i) : SlotsOf(t, k2) = {j} => ht_get(g, k2) = t.slots[j].value
        BY DEF LoadedTo
      <4> QED
        BY <2>8, <4>1, <4>2, <4>3
    <3> QED
      BY <3>1, <3>2
  <2>10. u.capacity = 2 * t.capacity
    BY <2>4, <2>6
  <2> QED
    BY <1>1, <2>3, <2>6, <2>7, <2>9, <2>10 DEF LoadedTo
<1> QED
  BY <1>2, <1>3

LEMMA Resizing ==
  ASSUME NEW V, NEW t, Consistent(t, V), NEW u, u = ht_resize(t)
  PROVE  /\ Consistent(u, V) /\ u.capacity = 2 * t.capacity /\ u.count <= t.count
         /\ \A k \in Keys :
              /\ SlotsOf(t, k) = {} => SlotsOf(u, k) = {}
              /\ Single(SlotsOf(t, k)) => Single(SlotsOf(u, k)) /\ ht_get(u, k) = ht_get(t, k)
<1>0. Shaped(t, V) /\ Reachable(t) /\ LiveSlots(t) \subseteq Indexes(t)
  BY DEF Consistent, LiveSlots
<1>1. PICK n \in Nat \ {0} : n = t.capacity /\ Indexes(t) = 0..n - 1
  BY <1>0, ShapeFields DEF Indexes
<1>2. PICK f : Refills(f, t, n) /\ u = f[n]
  <2>1. \E f : Refills(f, t, n)
    BY <1>1, RefillsExist
  <2> QED
    BY <1>1, <2>1, ResizeIs
<1>3. \A i \in 0..n : f[i] = Refilled(t, f[i - 1], i)
  BY <1>2 DEF Refills
<1>4. LoadedTo(t, V, f[0], 0)
  <2>1. f[0] = ht_init(2 * n)
    BY <1>1, <1>3 DEF Refilled
  <2>2. 2 * n \in Nat \ {0}
    BY <1>1
  <2>3. /\ Consistent(f[0], V) /\ f[0].capacity = 2 * n /\ f[0].count = 0
        /\ \A k \in Keys : SlotsOf(f[0], k) = {}
    BY <2>1, <2>2, Starting
  <2>4. Below(t, 0) = {}
    BY <1>0, <1>1 DEF Below
  <2>5. Cardinality(Below(t, 0)) = 0
    BY <2>4, FS_EmptySet
  <2> QED
    BY <1>1, <2>3, <2>4, <2>5 DEF LoadedTo, Single
<1>5. ASSUME NEW i \in 1..n, LoadedTo(t, V, f[i - 1], i - 1) PROVE LoadedTo(t, V, f[i], i)
  <2>1. i - 1 \in Indexes(t) /\ (i - 1) + 1 = i
    BY <1>1
  <2>2. LoadedTo(t, V, Refilled(t, f[i - 1], (i - 1) + 1), (i - 1) + 1)
    BY <1>5, <2>1, LoadedStep
  <2> QED
    BY <1>3, <2>1, <2>2
<1>6. LoadedTo(t, V, f[n], n)
  <2> DEFINE B == {i \in Nat : i <= n /\ ~LoadedTo(t, V, f[i], i)}
  <2> SUFFICES ASSUME B # {} PROVE FALSE
    BY <1>1
  <2>1. PICK i \in B : \A j \in B : i <= j
    BY LeastNat
  <2>2. i \in Nat /\ i <= n /\ i # 0
    BY <1>4, <2>1
  <2>3. i \in 1..n /\ i - 1 \in Nat /\ i - 1 <= n
    BY <1>1, <2>2
  <2>4. i - 1 \notin B
    <3>1. B \subseteq Nat
      OBVIOUS
    <3> HIDE DEF B
    <3> QED
      BY <2>1, <2>2, <2>3, <3>1
  <2>5. LoadedTo(t, V, f[i - 1], i - 1)
    BY <2>3, <2>4
  <2>6. LoadedTo(t, V, f[i], i)
    BY <1>5, <2>3, <2>5
  <2> QED
    BY <2>1, <2>6
<1>7. Below(t, n) = LiveSlots(t)
  BY <1>0, <1>1 DEF Below
<1>8. /\ Consistent(u, V) /\ u.capacity = 2 * t.capacity /\ u.count <= t.count
      /\ \A k \in Keys :
           /\ SlotsOf(t, k) \cap LiveSlots(t) = {} => SlotsOf(u, k) = {}
           /\ Single(SlotsOf(t, k)) => Single(SlotsOf(u, k))
           /\ \A j \in LiveSlots(t) : SlotsOf(t, k) = {j} => ht_get(u, k) = t.slots[j].value
  BY <1>2, <1>6, <1>7 DEF LoadedTo, Consistent
<1>9. ASSUME NEW k \in Keys, Single(SlotsOf(t, k)) PROVE ht_get(u, k) = ht_get(t, k)
  <2>1. CASE SlotsOf(t, k) = {}
    <3>1. SlotsOf(u, k) = {}
      BY <1>8, <2>1
    <3> QED
      BY <1>0, <1>8, <2>1, <3>1, OnlyAnswer DEF Consistent
  <2>2. CASE SlotsOf(t, k) # {}
    <3>1. PICK j : SlotsOf(t, k) = {j}
      BY <1>9, <2>2 DEF Single
    <3>2. j \in LiveSlots(t)
      BY <1>0, <3>1, SlotsParted
    <3>3. ht_get(t, k) = t.slots[j].value
      BY <1>0, <3>1, OnlyAnswer
    <3> QED
      BY <1>8, <3>1, <3>2, <3>3
  <2> QED
    BY <2>1, <2>2
<1> QED
  BY <1>8, <1>9

-----------------------------------------------------------------------------
(* Putting, with the doubling if there is one.                             *)
(* The load that ht_put keeps.                                             *)
Roomy(t) == 10 * t.count <= 7 * t.capacity

LEMMA Putting ==
  ASSUME NEW V, NEW t, Consistent(t, V), Roomy(t), NEW k \in Keys, NEW v \in V,
         NEW u, u = ht_put(t, k, v)
  PROVE  /\ Consistent(u, V) /\ Roomy(u)
         /\ u.capacity = IF Crowded(t) THEN 2 * t.capacity ELSE t.capacity
         /\ ht_get(u, k) = v
         /\ SlotsOf(t, k) = {} => Single(SlotsOf(u, k))
         /\ \A k2 \in Keys \ {k} :
              /\ Single(SlotsOf(t, k2)) => Single(SlotsOf(u, k2))
              /\ Single(SlotsOf(t, k2)) \/ ~Crowded(t) => ht_get(u, k2) = ht_get(t, k2)
<1>0. t.capacity \in Nat \ {0} /\ t.count \in Nat
  BY ShapeFields DEF Consistent
<1>1. PICK g : g = IF Crowded(t) THEN ht_resize(t) ELSE t
  OBVIOUS
<1>2. u = Place(g, k, v)
  BY <1>1 DEF ht_put
<1>3. /\ Consistent(g, V) /\ g.count <= t.count
      /\ g.capacity = IF Crowded(t) THEN 2 * t.capacity ELSE t.capacity
      /\ \A k2 \in Keys :
           /\ SlotsOf(t, k2) = {} => SlotsOf(g, k2) = {}
           /\ Single(SlotsOf(t, k2)) => Single(SlotsOf(g, k2)) /\ ht_get(g, k2) = ht_get(t, k2)
           /\ ~Crowded(t) => ht_get(g, k2) = ht_get(t, k2)
  <2>1. CASE Crowded(t)
    <3>1. g = ht_resize(t)
      BY <1>1, <2>1
    <3> QED
      BY <2>1, <3>1, Resizing
  <2>2. CASE ~Crowded(t)
    <3>1. g = t
      BY <1>1, <2>2
    <3> QED
      BY <1>0, <2>2, <3>1
  <2> QED
    BY <2>1, <2>2
<1>4. g.count \in Nat /\ g.capacity \in Nat /\ 10 * (g.count + 1) <= 7 * g.capacity
  <2>1. g.count \in Nat /\ g.capacity \in Nat
    BY <1>3, ShapeFields DEF Consistent
  <2>2. 10 * (t.count + 1) > 7 * t.capacity <=> Crowded(t)
    BY DEF Crowded
  <2>3. 10 * t.count <= 7 * t.capacity
    BY DEF Roomy
  <2>4. PICK n \in Nat, c \in Nat \ {0}, m \in Nat, e \in Nat :
          n = t.count /\ c = t.capacity /\ m = g.count /\ e = g.capacity
    BY <1>0, <2>1
  <2>5. 10 * n <= 7 * c /\ m <= n
    BY <1>3, <2>3, <2>4
  <2>6. CASE Crowded(t)
    <3>1. e = 2 * c
      BY <1>3, <2>4, <2>6
    <3>2. 10 * (m + 1) <= 7 * e
      BY <2>4, <2>5, <3>1
    <3> QED
      BY <2>4, <3>2
  <2>7. CASE ~Crowded(t)
    <3>1. e = c /\ 10 * (n + 1) <= 7 * c
      BY <1>3, <2>2, <2>4, <2>7
    <3>2. 10 * (m + 1) <= 7 * e
      BY <2>4, <2>5, <3>1
    <3> QED
      BY <2>4, <3>2
  <2> QED
    BY <2>6, <2>7
<1>5. Consistent(u, V) /\ Enters(g, k, v, u)
  <2>1. g.count < g.capacity
    BY <1>4
  <2> QED
    BY <1>2, <1>3, <2>1, Placing
<1>6. Roomy(u)
  BY <1>4, <1>5 DEF Enters, Roomy
<1>7. SlotsOf(t, k) = {} => Single(SlotsOf(u, k))
  BY <1>3, <1>5 DEF Enters, Single
<1> QED
  BY <1>3, <1>5, <1>6, <1>7 DEF Enters

-----------------------------------------------------------------------------
(* The table under any calls.                                              *)
TableInv ==
  /\ Consistent(table, Values)
  /\ Roomy(table)
  /\ \/ table.capacity = InitCapacity
     \/ \E c \in InitCapacity..MaxCapacity : table.capacity = 2 * c /\ 2 * c <= MaxCapacity

LEMMA TableStarts == TableInit => TableInv
<1> SUFFICES ASSUME TableInit PROVE TableInv
  OBVIOUS
<1>1. InitCapacity \in Nat \ {0} /\ table = ht_init(InitCapacity)
  BY CapacityAssumption DEF TableInit
<1>2. Consistent(table, Values) /\ table.capacity = InitCapacity /\ table.count = 0
  BY <1>1, Starting
<1>3. Roomy(table)
  BY <1>1, <1>2 DEF Roomy
<1> QED
  BY <1>2, <1>3 DEF TableInv

LEMMA TableStep == TableInv /\ [TableNext]_table => TableInv'
<1> SUFFICES ASSUME TableInv, [TableNext]_table PROVE TableInv'
  OBVIOUS
<1>0. /\ Consistent(table, Values) /\ Roomy(table)
      /\ table.capacity \in Nat \ {0} /\ table.count \in Nat
      /\ InitCapacity \in Nat \ {0} /\ MaxCapacity \in Nat
  BY ShapeFields, CapacityAssumption DEF TableInv, Consistent
<1>1. ASSUME NEW k \in Keys, NEW v \in Values, PutKey(k, v) PROVE TableInv'
  <2>1. /\ Consistent(table', Values) /\ Roomy(table')
        /\ table'.capacity = IF Crowded(table) THEN 2 * table.capacity ELSE table.capacity
    BY <1>0, <1>1, Putting DEF PutKey
  <2>2. CASE Crowded(table)
    <3>1. PICK c \in Nat : c = table.capacity
      BY <1>0
    <3>2. c = InitCapacity \/ \E b \in InitCapacity..MaxCapacity : c = 2 * b
      BY <3>1 DEF TableInv
    <3>3. 2 * c <= MaxCapacity
      BY <1>1, <2>2, <3>1 DEF PutKey
    <3>4. c \in InitCapacity..MaxCapacity
      BY <1>0, <3>1, <3>2, <3>3
    <3> QED
      BY <2>1, <2>2, <3>1, <3>3, <3>4 DEF TableInv
  <2>3. CASE ~Crowded(table)
    BY <2>1, <2>3 DEF TableInv
  <2> QED
    BY <2>2, <2>3
<1>2. ASSUME NEW k \in Keys, RemoveKey(k) PROVE TableInv'
  <2>1. Consistent(table', Values) /\ table'.capacity = table.capacity /\ table'.count <= table.count
    BY <1>0, <1>2, Removing DEF RemoveKey
  <2>2. table'.count \in Nat
    BY <2>1, ShapeFields DEF Consistent
  <2>3. Roomy(table')
    BY <1>0, <2>1, <2>2 DEF Roomy
  <2> QED
    BY <2>1, <2>3 DEF TableInv
<1>3. CASE Clear
  <2>1. table' = ht_init(table.capacity)
    BY <1>3 DEF Clear, ht_clear
  <2>2. Consistent(table', Values) /\ table'.capacity = table.capacity /\ table'.count = 0
    BY <1>0, <2>1, Starting
  <2>3. Roomy(table')
    BY <1>0, <2>2 DEF Roomy
  <2> QED
    BY <2>2, <2>3 DEF TableInv
<1>4. CASE UNCHANGED table
  BY <1>4 DEF TableInv
<1> QED
  BY <1>1, <1>2, <1>3, <1>4 DEF TableNext

LEMMA TableAlways == TableSpec => []TableInv
BY TableStarts, TableStep, PTL DEF TableSpec

(* For any keys, hash, values and capacities, and any calls: the table     *)
(* keeps its shape, counts its live slots, and always has room for one     *)
(* more, so that the loop of ht_put ends.                                  *)
THEOREM TableSound == TableSpec => []Sound
<1>1. ASSUME TableInv PROVE Sound
  <2>0. Consistent(table, Values) /\ Shaped(table, Values) /\ Roomy(table)
    BY <1>1 DEF TableInv, Consistent
  <2>1. table.slots \in [Indexes(table) -> Slots]
    BY <2>0, ShapeFields DEF Entry, Slots
  <2>2. CountIsLive
    BY <2>0 DEF Consistent, CountIsLive
  <2>3. table.count \in 0..table.capacity
    <3>1. Cardinality(LiveSlots(table)) \in Nat /\ Cardinality(LiveSlots(table)) <= table.capacity
      BY <2>0, LiveAreFinite
    <3>2. table.capacity \in Nat
      BY <2>0, ShapeFields
    <3> QED
      BY <2>2, <3>1, <3>2 DEF CountIsLive
  <2>4. SlotToSpare
    BY <2>0, <2>2 DEF Roomy, CountIsLive, SlotToSpare
  <2> QED
    BY <1>1, <2>1, <2>2, <2>3, <2>4 DEF Sound, TableTyped, TableInv
<1> QED
  BY <1>1, TableAlways, PTL

(* No removal and no doubling ever cuts an entry off from its hash.        *)
THEOREM EntriesAlwaysReachable == TableSpec => []EveryEntryReachable
<1>1. ASSUME TableInv PROVE EveryEntryReachable
  <2>0. Shaped(table, Values) /\ Reachable(table) /\ table.capacity \in Nat \ {0}
    BY <1>1, ShapeFields DEF TableInv, Consistent
  <2>1. ASSUME NEW i \in LiveSlots(table)
        PROVE  LET k == table.slots[i].key
                   d == CHOOSE d \in Indexes(table) : Probe(table, k, d) = i
               IN  \A e \in 0..d - 1 : Probe(table, k, e) \notin EmptySlots(table)
    <3>1. PICK k \in Keys : k = table.slots[i].key
      BY DEF LiveSlots
    <3>2. PICK d \in Indexes(table) :
            /\ Probe(table, k, d) = i
            /\ \A e \in 0..d - 1 : Probe(table, k, e) \notin EmptySlots(table)
      BY <2>0, <3>1 DEF Reachable, Reached
    <3>3. \A e \in Indexes(table) : Probe(table, k, e) = i => e = d
      BY <2>0, <3>2, Probes
    <3>4. (CHOOSE e \in Indexes(table) : Probe(table, k, e) = i) = d
      BY <3>2, <3>3
    <3> QED
      BY <3>1, <3>2, <3>4
  <2> QED
    BY <2>1 DEF EveryEntryReachable
<1> QED
  BY <1>1, TableAlways, PTL

(* A key just put is found with its value, whatever else the table holds.  *)
THEOREM LastPutAlwaysFound == TableSpec => LastPutFound
<1>1. ASSUME TableInv
      PROVE  \A k \in Keys, v \in Values : PutKey(k, v) => ht_get(table', k) = v
  BY <1>1, Putting DEF TableInv, PutKey
<1> QED
  BY <1>1, TableAlways, PTL DEF LastPutFound

LEMMA DistinctIsSingle ==
  ASSUME NEW V, NEW t, Shaped(t, V)
  PROVE  Distinct(t) <=> \A k \in Keys : Single(SlotsOf(t, k))
<1>1. ASSUME NEW S, IsFiniteSet(S) PROVE Cardinality(S) <= 1 <=> Single(S)
  <2>1. Cardinality(S) \in Nat /\ (Cardinality(S) = 0 <=> S = {})
    BY <1>1, FS_CardinalityType, FS_EmptySet
  <2>2. Cardinality(S) = 1 <=> \E x : S = {x}
    BY <1>1, FS_Singleton
  <2>3. Single(S) <=> S = {} \/ \E x : S = {x}
    BY DEF Single
  <2> QED
    BY <2>1, <2>2, <2>3
<1>2. ASSUME NEW k \in Keys PROVE IsFiniteSet(SlotsOf(t, k))
  <2>1. SlotsOf(t, k) \subseteq Indexes(t)
    BY DEF SlotsOf
  <2> QED
    BY <2>1, ShapeFields, FS_Subset
<1> QED
  BY <1>1, <1>2 DEF Distinct

(* While no key has two entries, every call does to the table what it      *)
(* does to the map of StringMap, whatever collides, was removed or is      *)
(* moved by a doubling.                                                    *)
THEOREM MapUntilDuplicate == TableSpec => MapWhileDistinct
<1>1. TableInit => Map!MapInit
  <2> SUFFICES ASSUME TableInit PROVE [k \in Keys |-> ht_get(table, k)] = [k \in Keys |-> NoValue]
    BY DEF Map!MapInit
  <2>1. InitCapacity \in Nat \ {0} /\ table = ht_init(InitCapacity)
    BY CapacityAssumption DEF TableInit
  <2> QED
    BY <2>1, Starting
<1>2. ASSUME TableInv, TableNext, Distinct(table) PROVE Map!MapNext
  <2>0. /\ Consistent(table, Values) /\ Shaped(table, Values) /\ Roomy(table)
        /\ \A k \in Keys : Single(SlotsOf(table, k))
    BY <1>2, DistinctIsSingle DEF TableInv, Consistent
  <2>1. ASSUME NEW k \in Keys, NEW v \in Values, PutKey(k, v) PROVE Map!MapPut(k, v)
    <3>1. /\ ht_get(table', k) = v
          /\ \A k2 \in Keys \ {k} : ht_get(table', k2) = ht_get(table, k2)
      BY <2>0, <2>1, Putting DEF PutKey
    <3>2. [k2 \in Keys |-> ht_get(table', k2)]
            = [[k2 \in Keys |-> ht_get(table, k2)] EXCEPT ![k] = v]
      BY <3>1
    <3> QED
      BY <3>2 DEF Map!MapPut
  <2>2. ASSUME NEW k \in Keys, RemoveKey(k) PROVE Map!MapRemove(k)
    <3>1. /\ Consistent(table', Values)
          /\ SlotsOf(table', k) \subseteq SlotsOf(table, k)
          /\ SlotsOf(table, k) # {} => SlotsOf(table', k) # SlotsOf(table, k)
          /\ \A k2 \in Keys \ {k} : ht_get(table', k2) = ht_get(table, k2)
      BY <2>0, <2>2, Removing DEF RemoveKey
    <3>2. SlotsOf(table', k) = {}
      BY <2>0, <3>1 DEF Single
    <3>3. ht_get(table', k) = NoValue
      BY <3>1, <3>2, OnlyAnswer DEF Consistent
    <3>4. [k2 \in Keys |-> ht_get(table', k2)]
            = [[k2 \in Keys |-> ht_get(table, k2)] EXCEPT ![k] = NoValue]
      BY <3>1, <3>3
    <3> QED
      BY <3>4 DEF Map!MapRemove
  <2>3. ASSUME Clear PROVE Map!MapClear
    <3>1. table' = ht_init(table.capacity) /\ table.capacity \in Nat \ {0}
      BY <2>0, <2>3, ShapeFields DEF Clear, ht_clear
    <3>2. \A k \in Keys : ht_get(table', k) = NoValue
      BY <3>1, Starting
    <3>3. [k \in Keys |-> ht_get(table', k)] = [k \in Keys |-> NoValue]
      BY <3>2
    <3> QED
      BY <3>3 DEF Map!MapClear
  <2>4. \/ \E k \in Keys, v \in Values : Map!MapPut(k, v)
        \/ \E k \in Keys : Map!MapRemove(k)
        \/ Map!MapClear
    <3>1. CASE \E k \in Keys, v \in Values : PutKey(k, v)
      BY <2>1, <3>1, Zenon
    <3>2. CASE \E k \in Keys : RemoveKey(k)
      BY <2>2, <3>2, Zenon
    <3> QED
      BY <1>2, <2>3, <3>1, <3>2, Zenon DEF TableNext
  <2> QED
    BY <2>4, Zenon DEF Map!MapNext
<1> QED
  BY <1>1, <1>2, TableAlways, PTL DEF TableSpec, MapWhileDistinct

(* Nothing but a new put of a key that is present gives a key two entries. *)
THEOREM OnlyRewritesEverDuplicate == TableSpec => OnlyRewritesDuplicate
<1>1. ASSUME TableInv, TableNext, Distinct(table), ~Distinct(table')
      PROVE  \E k \in Keys, v \in Values : Has(table, k) /\ PutKey(k, v)
  <2>0. /\ Consistent(table, Values) /\ Shaped(table, Values) /\ Reachable(table)
        /\ Roomy(table) /\ \A k \in Keys : Single(SlotsOf(table, k))
    BY <1>1, DistinctIsSingle DEF TableInv, Consistent
  <2>1. ASSUME Consistent(table', Values), \A k \in Keys : Single(SlotsOf(table', k)) PROVE FALSE
    BY <1>1, <2>1, DistinctIsSingle DEF Consistent
  <2>2. ASSUME NEW k \in Keys, NEW v \in Values, PutKey(k, v), ~Has(table, k) PROVE FALSE
    <3>1. SlotsOf(table, k) = {}
      BY <2>0, <2>2, LookupFinds
    <3>2. /\ Consistent(table', Values)
          /\ SlotsOf(table, k) = {} => Single(SlotsOf(table', k))
          /\ \A k2 \in Keys \ {k} : Single(SlotsOf(table, k2)) => Single(SlotsOf(table', k2))
      BY <2>0, <2>2, Putting DEF PutKey
    <3> QED
      BY <2>0, <2>1, <3>1, <3>2
  <2>3. ASSUME NEW k \in Keys, RemoveKey(k) PROVE FALSE
    <3>1. /\ Consistent(table', Values)
          /\ SlotsOf(table', k) \subseteq SlotsOf(table, k)
          /\ \A k2 \in Keys \ {k} : SlotsOf(table', k2) = SlotsOf(table, k2)
      BY <2>0, <2>3, Removing DEF RemoveKey
    <3>2. \A k2 \in Keys : Single(SlotsOf(table', k2))
      BY <2>0, <3>1 DEF Single
    <3> QED
      BY <2>1, <3>1, <3>2
  <2>4. CASE Clear
    <3>1. table' = ht_init(table.capacity) /\ table.capacity \in Nat \ {0}
      BY <2>0, <2>4, ShapeFields DEF Clear, ht_clear
    <3>2. Consistent(table', Values) /\ \A k \in Keys : SlotsOf(table', k) = {}
      BY <3>1, Starting
    <3> QED
      BY <2>1, <3>2 DEF Single
  <2> QED
    BY <1>1, <2>2, <2>3, <2>4 DEF TableNext
<1> QED
  BY <1>1, TableAlways, PTL DEF TableSpec, OnlyRewritesDuplicate

-----------------------------------------------------------------------------
(***************************************************************************)
(* The catalogue, whose SKU index is such a table of positions of the      *)
(* array.                                                                  *)
(***************************************************************************)
(* A row of products.                                                      *)
Row == [sku : Skus, barcode : Barcodes \cup {NoBarcode}, active : BOOLEAN]

(* A slot is the copy of an active row.                                    *)
Shows(x, row) == row.active /\ x = [sku |-> row.sku, barcode |-> row.barcode]

(* UNIQUE (sku).                                                           *)
RowsApart(r) == r \in Seq(Row) /\ \A a, b \in DOMAIN r : r[a].sku = r[b].sku => a = b

(* The first n slots of s are active rows of r, none twice.                *)
Lists(s, n, r) ==
  /\ s \in [Positions -> Slot \cup {Blank}]
  /\ n \in 0..MaxProducts
  /\ \A i \in 1..n : \E id \in DOMAIN r : Shows(s[i], r[id])
  /\ \A i, j \in 1..n : s[i].sku = s[j].sku => i = j

(* They are found in t, if it has not doubled.                             *)
Points(s, n, t) ==
  /\ Consistent(t, Positions)
  /\ Roomy(t)
  /\ IndexCapacity <= t.capacity
  /\ t.capacity = IndexCapacity => \A i \in 1..n : ht_get(t, s[i].sku) = i

CatalogInv == RowsApart(rows) /\ Lists(slots, count, rows) /\ Points(slots, count, bySku)

(* Indexing one slot, when the others are indexed already.                 *)
LEMMA Pointing ==
  ASSUME IndexCapacity \in Nat \ {0}, NEW s, NEW n \in Nat, NEW i \in 1..n, i \in Positions,
         s[i].sku \in Skus,
         \A j \in 1..n : s[j].sku \in Skus /\ (s[j].sku = s[i].sku => j = i),
         NEW t, Consistent(t, Positions), Roomy(t), IndexCapacity <= t.capacity,
         t.capacity = IndexCapacity => \A j \in (1..n) \ {i} : ht_get(t, s[j].sku) = j
  PROVE  Points(s, n, SkuIndexed(t, s, i))
<1>1. PICK u : u = ht_put(t, s[i].sku, i)
  OBVIOUS
<1>2. SkuIndexed(t, s, i) = u
  BY <1>1 DEF SkuIndexed
<1>3. /\ Consistent(u, Positions) /\ Roomy(u)
      /\ u.capacity = IF Crowded(t) THEN 2 * t.capacity ELSE t.capacity
      /\ ht_get(u, s[i].sku) = i
      /\ \A k \in Skus \ {s[i].sku} : ~Crowded(t) => ht_get(u, k) = ht_get(t, k)
  BY TextsAssumption, <1>1, Putting
<1>4. t.capacity \in Nat \ {0}
  BY ShapeFields DEF Consistent
<1>5. IndexCapacity <= u.capacity
  BY <1>3, <1>4
<1>6. u.capacity = IndexCapacity => ~Crowded(t) /\ t.capacity = IndexCapacity
  BY <1>3, <1>4
<1>7. ASSUME u.capacity = IndexCapacity, NEW j \in 1..n PROVE ht_get(u, s[j].sku) = j
  <2>1. CASE j = i
    BY <1>3, <2>1
  <2>2. CASE j # i
    BY <1>3, <1>6, <1>7, <2>2
  <2> QED
    BY <2>1, <2>2
<1> QED
  BY <1>2, <1>3, <1>5, <1>7 DEF Points

(* A row takes the next slot.                                              *)
LEMMA Entering ==
  ASSUME IndexCapacity \in Nat \ {0}, MaxProducts \in Nat,
         NEW r, RowsApart(r), NEW m, Lists(m.slots, m.count, r), Points(m.slots, m.count, m.bySku),
         m.count < MaxProducts,
         NEW row, NEW id \in DOMAIN r, r[id].active,
         row.sku = r[id].sku, row.barcode = r[id].barcode,
         \A i \in 1..m.count : m.slots[i].sku # row.sku
  PROVE  LET e == Entered(m, row)
         IN  /\ Lists(e.slots, e.count, r) /\ Points(e.slots, e.count, e.bySku)
             /\ e.count = m.count + 1
             /\ \A i \in 1..m.count : e.slots[i] = m.slots[i]
             /\ e.slots[m.count + 1].sku = row.sku
<1>0. PICK t : t = m.bySku
  OBVIOUS
<1>1. PICK n \in 0..MaxProducts, s \in [Positions -> Slot \cup {Blank}] :
        n = m.count /\ s = m.slots
  BY DEF Lists
<1>2. PICK x : x = [sku |-> row.sku, barcode |-> row.barcode]
  OBVIOUS
<1>3. PICK a : a = [s EXCEPT ![n + 1] = x]
  OBVIOUS
<1>4. PICK e : e = Entered(m, row)
  OBVIOUS
<1>5. e.slots = a /\ e.count = n + 1 /\ e.bySku = SkuIndexed(t, a, n + 1)
  BY <1>0, <1>1, <1>2, <1>3, <1>4 DEF Entered
<1>6. r[id] \in Row
  BY DEF RowsApart
<1>7. x \in Slot /\ x.sku = row.sku /\ x.sku \in Skus /\ Shows(x, r[id])
  BY <1>2, <1>6 DEF Row, Slot, Shows
<1>8. n \in Nat /\ n + 1 \in Positions /\ n + 1 \in 1..n + 1 /\ n + 1 \in 0..MaxProducts
  BY <1>1 DEF Positions
<1>9. a \in [Positions -> Slot \cup {Blank}] /\ a[n + 1] = x
  BY <1>3, <1>7, <1>8
<1>10. \A i \in 1..n : a[i] = s[i] /\ i # n + 1
  BY <1>3, <1>8 DEF Positions
<1>11. \A i \in 1..n + 1 : i = n + 1 \/ i \in 1..n
  BY <1>8
<1>12. Lists(a, n + 1, r)
  <2>1. ASSUME NEW i \in 1..n + 1 PROVE \E id2 \in DOMAIN r : Shows(a[i], r[id2])
    <3>1. CASE i = n + 1
      BY <1>7, <1>9, <3>1
    <3>2. CASE i \in 1..n
      BY <1>1, <1>10, <3>2 DEF Lists
    <3> QED
      BY <1>11, <3>1, <3>2
  <2>2. ASSUME NEW i \in 1..n + 1, NEW j \in 1..n + 1, a[i].sku = a[j].sku PROVE i = j
    <3>1. CASE i \in 1..n /\ j \in 1..n
      BY <1>1, <1>10, <2>2, <3>1 DEF Lists
    <3>2. ASSUME NEW b \in 1..n PROVE a[b].sku # a[n + 1].sku
      BY <1>1, <1>7, <1>9, <1>10
    <3> QED
      BY <1>11, <2>2, <3>1, <3>2
  <2> QED
    BY <1>8, <1>9, <2>1, <2>2 DEF Lists
<1>13. Points(a, n + 1, e.bySku)
  <2>1. \A j \in 1..n + 1 : a[j].sku \in Skus
    <3>1. ASSUME NEW j \in 1..n + 1 PROVE a[j].sku \in Skus
      <4>1. PICK id2 \in DOMAIN r : Shows(a[j], r[id2])
        BY <1>12 DEF Lists
      <4>2. r[id2] \in Row
        BY DEF RowsApart
      <4> QED
        BY <4>1, <4>2 DEF Shows, Row
    <3> QED
      BY <3>1
  <2>2. \A j \in 1..n + 1 : a[j].sku = a[n + 1].sku => j = n + 1
    BY <1>8, <1>12 DEF Lists
  <2>3. /\ Consistent(t, Positions) /\ Roomy(t) /\ IndexCapacity <= t.capacity
        /\ t.capacity = IndexCapacity => \A j \in 1..n : ht_get(t, s[j].sku) = j
    BY <1>0, <1>1 DEF Points
  <2>4. t.capacity = IndexCapacity => \A j \in (1..n + 1) \ {n + 1} : ht_get(t, a[j].sku) = j
    BY <1>10, <1>11, <2>3
  <2>5. Points(a, n + 1, SkuIndexed(t, a, n + 1))
    BY <1>8, <2>1, <2>2, <2>3, <2>4, Pointing
  <2> QED
    BY <1>5, <2>5
<1>14. /\ Lists(e.slots, e.count, r) /\ Points(e.slots, e.count, e.bySku)
       /\ e.count = m.count + 1
       /\ \A i \in 1..m.count : e.slots[i] = m.slots[i]
       /\ e.slots[m.count + 1].sku = row.sku
  BY <1>1, <1>5, <1>7, <1>9, <1>10, <1>12, <1>13
<1> QED
  BY <1>4, <1>14

-----------------------------------------------------------------------------
(* Loading: what each row makes of the array and the indexes.              *)
Unloaded ==
  [slots |-> slots, count |-> 0, bySku |-> ht_init(IndexCapacity),
   byBarcode |-> ht_init(IndexCapacity)]

(* The memory once row id is read, given what it was before.               *)
LoadedRow(m, id) ==
  IF id = 0 THEN Unloaded
  ELSE IF rows[id].active /\ m.count < MaxProducts THEN Entered(m, rows[id]) ELSE m

Loads(f, n) == f = [id \in 0..n |-> LoadedRow(f[id - 1], id)]

LEMMA LoadedIs ==
  ASSUME NEW n, n = Len(rows)
  PROVE  Loaded = (CHOOSE f : Loads(f, n))[n]
BY DEF Loaded, Loads, LoadedRow, Unloaded

(* The function that Loaded is defined by exists.                          *)
LEMMA LoadsExist ==
  ASSUME NEW n \in Nat
  PROVE  \E f : Loads(f, n)
<1> DEFINE B == {m \in Nat : ~ \E f : Loads(f, m)}
<1>1. \E f : Loads(f, 0)
  <2>1. Loads([id \in 0..0 |-> LoadedRow(Unloaded, id)], 0)
    BY DEF Loads, LoadedRow
  <2> QED
    BY <2>1
<1>2. ASSUME NEW m \in Nat \ {0}, \E f : Loads(f, m - 1)
      PROVE  \E f : Loads(f, m)
  <2>1. PICK f : Loads(f, m - 1)
    BY <1>2
  <2> DEFINE g == [id \in 0..m |-> LoadedRow(f[id - 1], id)]
  <2>2. \A id \in 0..(m - 1) : g[id] = f[id]
    BY <2>1 DEF Loads
  <2>3. \A id \in 0..m : id # 0 => id - 1 \in 0..(m - 1)
    OBVIOUS
  <2>4. \A id \in 0..m : g[id] = LoadedRow(g[id - 1], id)
    BY <2>2, <2>3 DEF LoadedRow
  <2>5. Loads(g, m)
    BY <2>4 DEF Loads
  <2> QED
    BY <2>5
<1>3. SUFFICES ASSUME B # {} PROVE FALSE
  OBVIOUS
<1>4. PICK m \in B : \A j \in B : m <= j
  BY <1>3, LeastNat
<1>5. m # 0
  BY <1>1
<1>6. m - 1 \in Nat /\ m - 1 \notin B
  <2>1. B \subseteq Nat
    OBVIOUS
  <2> HIDE DEF B
  <2> QED
    BY <1>4, <1>5, <2>1
<1>7. \E f : Loads(f, m - 1)
  BY <1>6
<1> QED
  BY <1>2, <1>5, <1>7

(* The first rows, loaded: the list is of them alone.                      *)
Upto(m, id) ==
  /\ Lists(m.slots, m.count, rows)
  /\ Points(m.slots, m.count, m.bySku)
  /\ \A i \in 1..m.count : \E b \in 1..id : m.slots[i].sku = rows[b].sku

LEMMA Unlisted ==
  ASSUME RowsApart(rows),
         slots \in [Positions -> Slot \cup {Blank}], NEW id
  PROVE  Upto(Unloaded, id)
<1>1. PICK u : u = ht_init(IndexCapacity)
  OBVIOUS
<1>2. Unloaded.slots = slots /\ Unloaded.count = 0 /\ Unloaded.bySku = u
  BY <1>1 DEF Unloaded
<1>3. Consistent(u, Positions) /\ u.capacity = IndexCapacity /\ u.count = 0
  BY BoundsAssumption, <1>1, Starting
<1>4. Roomy(u) /\ IndexCapacity <= u.capacity
  BY BoundsAssumption, <1>3 DEF Roomy
<1>5. Lists(slots, 0, rows) /\ Points(slots, 0, u)
  BY BoundsAssumption, <1>3, <1>4 DEF Lists, Points
<1> QED
  BY <1>2, <1>5 DEF Upto

LEMMA LoadingStep ==
  ASSUME RowsApart(rows),
         NEW id \in DOMAIN rows, NEW m, Upto(m, id - 1)
  PROVE  Upto(LoadedRow(m, id), id)
<1>1. id \in Nat \ {0} /\ 1..id - 1 \subseteq 1..id /\ id \in 1..id /\ rows[id] \in Row
      /\ \A b \in 1..id - 1 : b \in DOMAIN rows /\ b # id
  BY DEF RowsApart
<1>2. CASE rows[id].active /\ m.count < MaxProducts
  <2>1. PICK e : e = Entered(m, rows[id])
    OBVIOUS
  <2>2. e = LoadedRow(m, id)
    BY <1>1, <1>2, <2>1 DEF LoadedRow
  <2>3. \A i \in 1..m.count : m.slots[i].sku # rows[id].sku
    BY <1>1 DEF Upto, RowsApart
  <2>4. /\ Lists(e.slots, e.count, rows) /\ Points(e.slots, e.count, e.bySku)
        /\ e.count = m.count + 1
        /\ \A i \in 1..m.count : e.slots[i] = m.slots[i]
        /\ e.slots[m.count + 1].sku = rows[id].sku
    BY BoundsAssumption, <1>2, <2>1, <2>3, Entering DEF Upto
  <2>5. m.count \in Nat
    BY DEF Upto, Lists
  <2>6. ASSUME NEW i \in 1..e.count PROVE \E b \in 1..id : e.slots[i].sku = rows[b].sku
    <3>1. i = m.count + 1 \/ i \in 1..m.count
      BY <2>4, <2>5
    <3>2. CASE i \in 1..m.count
      BY <1>1, <2>4, <3>2 DEF Upto
    <3> QED
      BY <1>1, <2>4, <3>1, <3>2
  <2> QED
    BY <2>2, <2>4, <2>6 DEF Upto
<1>3. CASE ~(rows[id].active /\ m.count < MaxProducts)
  <2>1. LoadedRow(m, id) = m
    BY <1>1, <1>3 DEF LoadedRow
  <2> QED
    BY <1>1, <2>1 DEF Upto
<1> QED
  BY <1>2, <1>3

LEMMA Loading ==
  ASSUME RowsApart(rows),
         slots \in [Positions -> Slot \cup {Blank}]
  PROVE  LET m == Loaded
         IN  Lists(m.slots, m.count, rows) /\ Points(m.slots, m.count, m.bySku)
<1>1. PICK n \in Nat : n = Len(rows) /\ DOMAIN rows = 1..n
  BY DEF RowsApart
<1>2. PICK f : Loads(f, n) /\ Loaded = f[n]
  BY <1>1, LoadedIs, LoadsExist
<1> DEFINE B == {id \in 0..n : ~Upto(f[id], id)}
<1>3. ASSUME B # {} PROVE FALSE
  <2>1. B \in SUBSET Nat
    OBVIOUS
  <2> HIDE DEF B
  <2>2. PICK id \in B : \A j \in B : id <= j
    BY <1>3, <2>1, LeastNat
  <2> USE DEF B
  <2>3. f[id] = LoadedRow(f[id - 1], id)
    BY <1>2 DEF Loads
  <2>4. CASE id = 0
    <3>1. f[id] = Unloaded
      BY <2>3, <2>4 DEF LoadedRow
    <3> QED
      BY <3>1, Unlisted
  <2>5. CASE id # 0
    <3>1. id \in 1..n /\ id - 1 \in 0..n /\ ~(id <= id - 1)
      BY <2>5
    <3>2. Upto(f[id - 1], id - 1)
      <4>1. id - 1 \notin B
        BY <2>2, <3>1
      <4> QED
        BY <3>1, <4>1
    <3>3. Upto(f[id], id)
      BY <1>1, <2>3, <3>1, <3>2, LoadingStep
    <3> QED
      BY <3>3
  <2> QED
    BY <2>4, <2>5
<1>4. Upto(f[n], n)
  BY <1>3
<1> QED
  BY <1>2, <1>4 DEF Upto

-----------------------------------------------------------------------------
(* The calls.                                                              *)
(* A row with one field changed.                                           *)
LEMMA RowExcept ==
  ASSUME NEW r \in Row, NEW b \in Barcodes \cup {NoBarcode}, NEW act \in BOOLEAN
  PROVE  /\ [r EXCEPT !.barcode = b] = [sku |-> r.sku, barcode |-> b, active |-> r.active]
         /\ [r EXCEPT !.active = act] = [sku |-> r.sku, barcode |-> r.barcode, active |-> act]
<1>1. PICK e : e = [r EXCEPT !.barcode = b]
  OBVIOUS
<1>2. e \in Row /\ e.sku = r.sku /\ e.barcode = b /\ e.active = r.active
  BY <1>1 DEF Row
<1>3. e = [sku |-> r.sku, barcode |-> b, active |-> r.active]
  BY <1>2 DEF Row
<1>4. PICK g : g = [r EXCEPT !.active = act]
  OBVIOUS
<1>5. g \in Row /\ g.sku = r.sku /\ g.barcode = r.barcode /\ g.active = act
  BY <1>4 DEF Row
<1>6. g = [sku |-> r.sku, barcode |-> r.barcode, active |-> act]
  BY <1>5 DEF Row
<1> QED
  BY <1>1, <1>3, <1>4, <1>6

LEMMA RowReplaced ==
  ASSUME RowsApart(rows), NEW id \in DOMAIN rows, NEW x \in Row, x.sku = rows[id].sku,
         NEW r, r = [rows EXCEPT ![id] = x]
  PROVE  /\ RowsApart(r) /\ DOMAIN r = DOMAIN rows /\ r[id] = x
         /\ \A b \in DOMAIN rows \ {id} : r[b] = rows[b]
<1>1. PICK n \in Nat : n = Len(rows) /\ DOMAIN rows = 1..n
  BY DEF RowsApart
<1>2. rows \in [1..n -> Row]
  BY <1>1 DEF RowsApart
<1>3. r \in [1..n -> Row] /\ r[id] = x /\ \A b \in (1..n) \ {id} : r[b] = rows[b]
  BY <1>1, <1>2
<1>4. r \in Seq(Row)
  BY <1>1, ExceptSeq DEF RowsApart
<1>5. \A b \in 1..n : r[b].sku = rows[b].sku
  BY <1>3
<1> QED
  BY <1>1, <1>3, <1>4, <1>5 DEF RowsApart

(* A product has one row, and one slot if it is listed.                    *)
LEMMA IdIs ==
  ASSUME RowsApart(rows), NEW id \in DOMAIN rows
  PROVE  IdOf(rows[id].sku) = id
BY DEF RowsApart, IdOf

LEMMA PositionIs ==
  ASSUME CatalogInv, NEW k \in Listed
  PROVE  /\ PositionOf(k) \in 1..count
         /\ slots[PositionOf(k)].sku = k
         /\ IdOf(k) \in DOMAIN rows
         /\ Shows(slots[PositionOf(k)], rows[IdOf(k)])
<1>1. PICK i \in 1..count : slots[i].sku = k
  BY DEF Listed
<1>2. \A j \in 1..count : slots[j].sku = k => j = i
  BY <1>1 DEF CatalogInv, Lists
<1>3. PositionOf(k) = i
  BY <1>1, <1>2 DEF PositionOf
<1>4. PICK id \in DOMAIN rows : Shows(slots[i], rows[id])
  BY DEF CatalogInv, Lists
<1>5. rows[id].sku = k
  BY <1>1, <1>4 DEF Shows
<1>6. IdOf(k) = id
  BY <1>5, IdIs DEF CatalogInv
<1> QED
  BY <1>1, <1>3, <1>4, <1>6

(* The list changes as the active rows do.                                 *)
Follows ==
  /\ Listed \ Listed' = ActiveSkus \ ActiveSkus'
  /\ Listed' \ Listed
       = IF count < MaxProducts THEN ActiveSkus' \ ActiveSkus ELSE {}

LEMMA ActiveIs ==
  \A k : k \in ActiveSkus <=> \E id \in DOMAIN rows : rows[id].active /\ rows[id].sku = k
BY DEF ActiveSkus

LEMMA ListedActive ==
  ASSUME CatalogInv PROVE Listed \subseteq ActiveSkus /\ Listed \subseteq Skus
<1>1. ASSUME NEW i \in 1..count PROVE slots[i].sku \in ActiveSkus /\ slots[i].sku \in Skus
  <2>1. PICK id \in DOMAIN rows : Shows(slots[i], rows[id])
    BY DEF CatalogInv, Lists
  <2>2. rows[id] \in Row
    BY DEF CatalogInv, RowsApart
  <2> QED
    BY <2>1, <2>2, ActiveIs DEF Shows, Row
<1> QED
  BY <1>1 DEF Listed

LEMMA Adding ==
  ASSUME CatalogInv,
         NEW k \in Skus, NEW b \in Barcodes \cup {NoBarcode}, AddProduct(k, b)
  PROVE  CatalogInv' /\ Follows
<1>1. PICK x : x = [sku |-> k, barcode |-> b, active |-> TRUE]
  OBVIOUS
<1>2. PICK n \in Nat : n = Len(rows) /\ DOMAIN rows = 1..n
  BY DEF CatalogInv, RowsApart
<1>3. /\ rows' = Append(rows, x) /\ x \in Row /\ rows \in Seq(Row)
      /\ \A id \in DOMAIN rows : rows[id].sku # k
  BY <1>1 DEF AddProduct, Unused, Row, CatalogInv, RowsApart
<1>4. /\ rows' \in Seq(Row) /\ DOMAIN rows' = 1..n + 1 /\ rows'[n + 1] = x
      /\ \A id \in DOMAIN rows : id \in DOMAIN rows' /\ rows'[id] = rows[id]
  BY <1>2, <1>3
<1>5. \A id \in 1..n + 1 : id = n + 1 \/ id \in DOMAIN rows
  BY <1>2
<1>6. RowsApart(rows')
  <2>1. ASSUME NEW c \in 1..n + 1, NEW d \in 1..n + 1, rows'[c].sku = rows'[d].sku PROVE c = d
    <3>1. CASE c \in DOMAIN rows /\ d \in DOMAIN rows
      BY <1>4, <2>1, <3>1 DEF CatalogInv, RowsApart
    <3>2. \A e \in DOMAIN rows : rows'[e].sku # rows'[n + 1].sku
      BY <1>1, <1>3, <1>4
    <3> QED
      BY <1>5, <2>1, <3>1, <3>2
  <2> QED
    BY <1>4, <2>1 DEF RowsApart
<1>7. PICK m : m = Memory
  OBVIOUS
<1>8. m.slots = slots /\ m.count = count /\ m.bySku = bySku
  BY <1>7 DEF Memory
<1>9. Lists(slots, count, rows')
  BY <1>4 DEF CatalogInv, Lists
<1>10. PICK row : row = [sku |-> k, barcode |-> b]
  OBVIOUS
<1>11. PICK e : e = Entered(m, row)
  OBVIOUS
<1>12. ASSUME NEW i \in 1..count PROVE slots[i].sku # k
  <2>1. PICK id \in DOMAIN rows : Shows(slots[i], rows[id])
    BY DEF CatalogInv, Lists
  <2> QED
    BY <1>3, <2>1 DEF Shows
<1>13. count < MaxProducts
  BY DEF AddProduct
<1>14. n + 1 \in DOMAIN rows' /\ rows'[n + 1].active /\ rows'[n + 1].sku = row.sku
       /\ rows'[n + 1].barcode = row.barcode /\ row.sku = k
  BY <1>1, <1>4, <1>10
<1>15. Points(slots, count, bySku)
  BY DEF CatalogInv
<1>16. /\ Lists(e.slots, e.count, rows') /\ Points(e.slots, e.count, e.bySku)
       /\ e.count = count + 1
       /\ \A i \in 1..count : e.slots[i] = slots[i]
       /\ e.slots[count + 1].sku = k
  BY BoundsAssumption, <1>6, <1>8, <1>9, <1>11, <1>12, <1>13, <1>14, <1>15, Entering
<1>17. slots' = e.slots /\ count' = e.count /\ bySku' = e.bySku
  BY <1>7, <1>10, <1>11 DEF AddProduct, Becomes
<1>18. CatalogInv'
  BY <1>6, <1>16, <1>17 DEF CatalogInv
<1>19. Listed' = Listed \cup {k}
  <2>1. count \in Nat
    BY DEF CatalogInv, Lists
  <2> QED
    BY <1>16, <1>17, <2>1 DEF Listed
<1>20. ActiveSkus' = ActiveSkus \cup {k}
  BY <1>1, <1>4, <1>5 DEF ActiveSkus
<1>21. k \notin Listed /\ k \notin ActiveSkus
  BY <1>3, <1>12 DEF Listed, ActiveSkus
<1> QED
  BY <1>13, <1>18, <1>19, <1>20, <1>21 DEF Follows

LEMMA Updating ==
  ASSUME CatalogInv, NEW k \in Skus, UpdateProduct(k)
  PROVE  CatalogInv' /\ Follows
<1>1. PICK p : p = PositionOf(k)
  OBVIOUS
<1>2. PICK id : id = IdOf(k)
  OBVIOUS
<1>3. /\ p \in 1..count /\ slots[p].sku = k /\ id \in DOMAIN rows /\ Shows(slots[p], rows[id])
      /\ p \in Positions /\ count' = count
  <2>1. p \in 1..count /\ slots[p].sku = k /\ id \in DOMAIN rows /\ Shows(slots[p], rows[id])
    BY <1>1, <1>2, PositionIs DEF UpdateProduct
  <2> QED
    BY BoundsAssumption, <2>1 DEF CatalogInv, Lists, Positions, UpdateProduct
<1>4. rows[id] \in Row /\ rows[id].sku = k /\ rows[id].active
  BY <1>3 DEF CatalogInv, RowsApart, Shows
<1>5. PICK x : x = [sku |-> k, barcode |-> NoBarcode, active |-> TRUE]
  OBVIOUS
<1>6. rows' = [rows EXCEPT ![id] = x] /\ x \in Row /\ x.sku = rows[id].sku
  <2>1. x = [rows[id] EXCEPT !.barcode = NoBarcode]
    <3>1. rows[id].active = TRUE
      BY <1>4 DEF Row
    <3> QED
      BY <1>4, <1>5, <3>1, RowExcept, Zenon
  <2>2. rows' = [rows EXCEPT ![id] = [rows[id] EXCEPT !.barcode = NoBarcode]]
    BY <1>2 DEF UpdateProduct
  <2> QED
    BY <1>4, <1>5, <2>1, <2>2 DEF Row
<1>7. /\ RowsApart(rows') /\ DOMAIN rows' = DOMAIN rows /\ rows'[id] = x
      /\ \A b \in DOMAIN rows \ {id} : rows'[b] = rows[b]
  BY <1>3, <1>6, RowReplaced DEF CatalogInv
<1>8. PICK y : y = [sku |-> k, barcode |-> NoBarcode]
  OBVIOUS
<1>9. /\ slots' \in [Positions -> Slot \cup {Blank}] /\ slots'[p] = y
      /\ \A i \in Positions \ {p} : slots'[i] = slots[i]
  <2>1. slots \in [Positions -> Slot \cup {Blank}]
    BY DEF CatalogInv, Lists
  <2>2. y = [slots[p] EXCEPT !.barcode = NoBarcode]
    BY <1>3, <1>4, <1>8 DEF Shows
  <2>3. slots' = [slots EXCEPT ![p] = [slots[p] EXCEPT !.barcode = NoBarcode]]
    BY <1>1 DEF UpdateProduct
  <2>4. y \in Slot
    BY <1>8 DEF Slot
  <2> QED
    BY <1>3, <2>1, <2>2, <2>3, <2>4
<1>10. count \in 0..MaxProducts /\ \A i \in 1..count : i \in Positions
  BY BoundsAssumption DEF CatalogInv, Lists, Positions
<1>11. \A i \in 1..count : slots'[i].sku = slots[i].sku /\ slots[i].sku \in Skus
  <2>1. \A i \in 1..count : slots[i].sku \in Skus
    BY ListedActive DEF Listed
  <2> QED
    BY <1>3, <1>8, <1>9, <1>10, <2>1
<1>12. Lists(slots', count, rows')
  <2>1. ASSUME NEW i \in 1..count PROVE \E b \in DOMAIN rows' : Shows(slots'[i], rows'[b])
    <3>1. CASE i = p
      <4>1. Shows(y, x)
        BY <1>5, <1>8 DEF Shows
      <4> QED
        BY <1>3, <1>7, <1>9, <3>1, <4>1
    <3>2. CASE i # p
      <4>1. PICK b \in DOMAIN rows : Shows(slots[i], rows[b])
        BY DEF CatalogInv, Lists
      <4>2. slots[i].sku # k
        BY <1>3, <3>2 DEF CatalogInv, Lists
      <4>3. b # id
        BY <1>4, <4>1, <4>2 DEF Shows
      <4> QED
        BY <1>7, <1>9, <1>10, <3>2, <4>1, <4>3
    <3> QED
      BY <3>1, <3>2
  <2> QED
    BY <1>9, <1>10, <1>11, <2>1 DEF CatalogInv, Lists
<1>13. Points(slots', count, bySku')
  <2>1. bySku' = SkuIndexed(bySku, slots', p)
    BY <1>1 DEF UpdateProduct, IndexSlot
  <2>2. /\ Consistent(bySku, Positions) /\ Roomy(bySku) /\ IndexCapacity <= bySku.capacity
        /\ bySku.capacity = IndexCapacity =>
             \A i \in (1..count) \ {p} : ht_get(bySku, slots'[i].sku) = i
    BY <1>11 DEF CatalogInv, Points
  <2>3. \A i \in 1..count : slots'[i].sku \in Skus /\ (slots'[i].sku = slots'[p].sku => i = p)
    BY <1>3, <1>11 DEF CatalogInv, Lists
  <2>4. count \in Nat /\ slots'[p].sku \in Skus
    BY <1>3, <1>10, <1>11
  <2>5. Points(slots', count, SkuIndexed(bySku, slots', p))
    BY BoundsAssumption, <1>3, <2>2, <2>3, <2>4, Pointing
  <2> QED
    BY <2>1, <2>5
<1>14. CatalogInv'
  BY <1>3, <1>7, <1>12, <1>13 DEF CatalogInv
<1>15. Listed' = Listed
  BY <1>3, <1>11 DEF Listed
<1>16. ActiveSkus' = ActiveSkus
  <2>1. \A b \in DOMAIN rows : (rows'[b].active <=> rows[b].active) /\ rows'[b].sku = rows[b].sku
    BY <1>4, <1>5, <1>7
  <2> QED
    BY <1>7, <2>1 DEF ActiveSkus
<1> QED
  BY <1>14, <1>15, <1>16 DEF Follows

LEMMA Restoring ==
  ASSUME CatalogInv, NEW k \in Skus, RestoreProduct(k)
  PROVE  CatalogInv' /\ Follows
<1>1. PICK id \in DOMAIN rows : rows[id].sku = k /\ ~rows[id].active
  BY DEF RestoreProduct
<1>2. id = IdOf(k)
  BY <1>1, IdIs DEF CatalogInv
<1>3. rows[id] \in Row
  BY DEF CatalogInv, RowsApart
<1>4. PICK x : x = [sku |-> k, barcode |-> rows[id].barcode, active |-> TRUE]
  OBVIOUS
<1>5. rows' = [rows EXCEPT ![id] = x] /\ x \in Row /\ x.sku = rows[id].sku
  <2>1. x = [rows[id] EXCEPT !.active = TRUE]
    BY <1>1, <1>3, <1>4, RowExcept, Zenon
  <2>2. rows' = [rows EXCEPT ![id] = [rows[id] EXCEPT !.active = TRUE]]
    BY <1>2 DEF RestoreProduct
  <2> QED
    BY <1>1, <1>3, <1>4, <2>1, <2>2 DEF Row
<1>6. /\ RowsApart(rows') /\ DOMAIN rows' = DOMAIN rows /\ rows'[id] = x
      /\ \A b \in DOMAIN rows \ {id} : rows'[b] = rows[b]
  BY <1>5, RowReplaced DEF CatalogInv
<1>7. ASSUME NEW i \in 1..count
      PROVE  slots[i].sku # k /\ \E b \in DOMAIN rows' : Shows(slots[i], rows'[b])
  <2>1. PICK b \in DOMAIN rows : Shows(slots[i], rows[b])
    BY DEF CatalogInv, Lists
  <2>2. b # id
    BY <1>1, <2>1 DEF Shows
  <2>3. rows[b].sku # k
    BY <1>1, <2>2 DEF CatalogInv, RowsApart
  <2> QED
    BY <1>6, <2>1, <2>2, <2>3 DEF Shows
<1>8. Lists(slots, count, rows') /\ Points(slots, count, bySku)
  BY <1>7 DEF CatalogInv, Lists
<1>9. ActiveSkus' = ActiveSkus \cup {k}
  <2>1. \A b \in DOMAIN rows \ {id} : (rows'[b].active <=> rows[b].active) /\ rows'[b].sku = rows[b].sku
    BY <1>6
  <2>2. rows'[id].active /\ rows'[id].sku = k /\ ~rows[id].active
    BY <1>1, <1>4, <1>6
  <2> QED
    BY <1>6, <2>1, <2>2 DEF ActiveSkus
<1>10. k \notin ActiveSkus /\ k \notin Listed
  <2>1. k \notin ActiveSkus
    BY <1>1 DEF ActiveSkus, CatalogInv, RowsApart
  <2> QED
    BY <1>7, <2>1 DEF Listed
<1>11. PICK m : m = Memory
  OBVIOUS
<1>12. m.slots = slots /\ m.count = count /\ m.bySku = bySku
  BY <1>11 DEF Memory
<1>13. CASE count < MaxProducts
  <2>1. PICK e : e = Entered(m, rows[id])
    OBVIOUS
  <2>2. /\ Lists(e.slots, e.count, rows') /\ Points(e.slots, e.count, e.bySku)
        /\ e.count = count + 1
        /\ \A i \in 1..count : e.slots[i] = slots[i]
        /\ e.slots[count + 1].sku = k
    <3>1. /\ id \in DOMAIN rows' /\ rows'[id].active
          /\ rows[id].sku = rows'[id].sku /\ rows[id].barcode = rows'[id].barcode
      BY <1>1, <1>4, <1>6
    <3> QED
      BY BoundsAssumption, <1>1, <1>6, <1>7, <1>8, <1>12, <1>13, <2>1, <3>1, Entering
  <2>3. slots' = e.slots /\ count' = e.count /\ bySku' = e.bySku
    BY <1>2, <1>11, <1>13, <2>1 DEF RestoreProduct, Becomes
  <2>4. CatalogInv'
    BY <1>6, <2>2, <2>3 DEF CatalogInv
  <2>5. Listed' = Listed \cup {k}
    <3>1. count \in Nat
      BY DEF CatalogInv, Lists
    <3> QED
      BY <2>2, <2>3, <3>1 DEF Listed
  <2> QED
    BY <1>9, <1>10, <1>13, <2>4, <2>5 DEF Follows
<1>14. CASE ~(count < MaxProducts)
  <2>1. slots' = slots /\ count' = count /\ bySku' = bySku
    BY <1>11, <1>12, <1>14 DEF RestoreProduct, Becomes
  <2>2. CatalogInv' /\ Listed' = Listed
    BY <1>6, <1>8, <2>1 DEF CatalogInv, Listed
  <2> QED
    BY <1>9, <1>14, <2>2 DEF Follows
<1> QED
  BY <1>13, <1>14

(* The slots that are left are those of the other products.                *)
LEMMA Archiving ==
  ASSUME CatalogInv, NEW k \in Skus, ArchiveProduct(k)
  PROVE  CatalogInv' /\ Follows
<1>1. PICK p : p = PositionOf(k)
  OBVIOUS
<1>2. PICK id : id = IdOf(k)
  OBVIOUS
<1>3. p \in 1..count /\ slots[p].sku = k /\ id \in DOMAIN rows /\ Shows(slots[p], rows[id])
  BY <1>1, <1>2, PositionIs DEF ArchiveProduct
<1>4. PICK n \in 0..MaxProducts : n = count /\ count' = n - 1 /\ 1..n \subseteq Positions
  BY BoundsAssumption DEF ArchiveProduct, CatalogInv, Lists, Positions
<1>5. rows[id] \in Row /\ rows[id].sku = k /\ rows[id].active
  BY <1>3 DEF CatalogInv, RowsApart, Shows
<1>6. PICK x : x = [sku |-> k, barcode |-> rows[id].barcode, active |-> FALSE]
  OBVIOUS
<1>7. rows' = [rows EXCEPT ![id] = x] /\ x \in Row /\ x.sku = rows[id].sku
  <2>1. x = [rows[id] EXCEPT !.active = FALSE]
    BY <1>5, <1>6, RowExcept, Zenon
  <2>2. rows' = [rows EXCEPT ![id] = [rows[id] EXCEPT !.active = FALSE]]
    BY <1>2 DEF ArchiveProduct
  <2> QED
    BY <1>5, <1>6, <2>1, <2>2 DEF Row
<1>8. /\ RowsApart(rows') /\ DOMAIN rows' = DOMAIN rows /\ rows'[id] = x
      /\ \A b \in DOMAIN rows \ {id} : rows'[b] = rows[b]
  BY <1>3, <1>7, RowReplaced DEF CatalogInv
<1>9. PICK a : a = [slots EXCEPT ![p] = slots[n]]
  OBVIOUS
<1>10. slots' = a
  BY <1>1, <1>4, <1>9 DEF ArchiveProduct
<1>11. /\ a \in [Positions -> Slot \cup {Blank}]
       /\ a[p] = slots[n]
       /\ \A i \in (1..n) \ {p} : a[i] = slots[i]
  <2>1. slots \in [Positions -> Slot \cup {Blank}] /\ n \in 1..n /\ n \in Positions
    BY <1>3, <1>4 DEF CatalogInv, Lists
  <2> QED
    BY <1>3, <1>4, <1>9, <2>1
<1>12. ASSUME NEW i \in 1..n - 1
       PROVE  /\ i \in 1..n /\ i # n
              /\ \E j \in (1..n) \ {p} : a[i] = slots[j] /\ j = IF i = p THEN n ELSE i
  <2>1. i \in 1..n /\ i # n /\ n \in 1..n
    BY <1>4
  <2> QED
    BY <1>11, <2>1
<1>13. \A i, j \in 1..n : slots[i].sku = slots[j].sku => i = j
  BY <1>4 DEF CatalogInv, Lists
<1>14. \A i \in 1..n : slots[i].sku \in Skus
  BY <1>4, ListedActive DEF Listed
<1>15. \A i \in 1..n - 1 : a[i].sku \in Skus /\ a[i].sku # k
  BY <1>3, <1>4, <1>12, <1>13, <1>14
<1>16. \A i, j \in 1..n - 1 : a[i].sku = a[j].sku => i = j
  BY <1>12, <1>13
<1>17. Lists(a, n - 1, rows')
  <2>1. ASSUME NEW i \in 1..n - 1 PROVE \E b \in DOMAIN rows' : Shows(a[i], rows'[b])
    <3>1. PICK j \in 1..n : a[i] = slots[j]
      BY <1>12
    <3>2. PICK b \in DOMAIN rows : Shows(slots[j], rows[b])
      BY <1>4 DEF CatalogInv, Lists
    <3>3. b # id
      BY <1>5, <1>15, <3>1, <3>2 DEF Shows
    <3> QED
      BY <1>8, <3>1, <3>2, <3>3
  <2>2. n - 1 \in 0..MaxProducts
    BY BoundsAssumption, <1>3, <1>4
  <2> QED
    BY <1>11, <1>16, <2>1, <2>2 DEF Lists
<1>18. PICK t : t = ht_remove(bySku, k)
  OBVIOUS
<1>19. bySku' = IF p < n THEN SkuIndexed(t, a, p) ELSE t
  BY <1>1, <1>4, <1>9, <1>18 DEF ArchiveProduct
<1>20. /\ Consistent(t, Positions) /\ Roomy(t) /\ t.capacity = bySku.capacity
       /\ \A k2 \in Skus \ {k} : ht_get(t, k2) = ht_get(bySku, k2)
  <2>1. Consistent(bySku, Positions) /\ Roomy(bySku)
    BY DEF CatalogInv, Points
  <2>2. /\ Consistent(t, Positions) /\ t.capacity = bySku.capacity /\ t.count <= bySku.count
        /\ \A k2 \in Skus \ {k} : ht_get(t, k2) = ht_get(bySku, k2)
    BY TextsAssumption, <1>18, <2>1, Removing
  <2>3. t.count \in Nat /\ bySku.count \in Nat /\ bySku.capacity \in Nat
    BY <2>1, <2>2, ShapeFields DEF Consistent
  <2>4. Roomy(t)
    BY <2>1, <2>2, <2>3 DEF Roomy
  <2> QED
    BY <2>2, <2>4
<1>21. IndexCapacity <= t.capacity
  BY <1>20 DEF CatalogInv, Points
<1>22. t.capacity = IndexCapacity => \A i \in (1..n - 1) \ {p} : ht_get(t, a[i].sku) = i
  <2>1. ASSUME t.capacity = IndexCapacity, NEW i \in (1..n - 1) \ {p}
        PROVE  ht_get(t, a[i].sku) = i
    <3>1. ht_get(bySku, slots[i].sku) = i
      BY <1>4, <1>12, <1>20, <2>1 DEF CatalogInv, Points
    <3>2. a[i] = slots[i]
      BY <1>11, <1>12
    <3> QED
      BY <1>15, <1>20, <3>1, <3>2
  <2> QED
    BY <2>1
<1>23. Points(a, n - 1, bySku')
  <2>1. CASE p < n
    <3>1. p \in 1..n - 1 /\ n - 1 \in Nat /\ p \in Positions
      BY <1>3, <1>4, <2>1
    <3>2. Points(a, n - 1, SkuIndexed(t, a, p))
      BY BoundsAssumption, <1>15, <1>16, <1>20, <1>21, <1>22, <3>1, Pointing
    <3> QED
      BY <1>19, <2>1, <3>2
  <2>2. CASE ~(p < n)
    <3>1. p \notin 1..n - 1
      BY <1>3, <1>4, <2>2
    <3> QED
      BY <1>19, <1>20, <1>21, <1>22, <2>2, <3>1 DEF Points
  <2> QED
    BY <2>1, <2>2
<1>24. CatalogInv'
  BY <1>4, <1>8, <1>10, <1>17, <1>23 DEF CatalogInv
<1>25. Listed' = Listed \ {k}
  <2>1. ASSUME NEW i \in 1..n - 1 PROVE a[i].sku \in Listed \ {k}
    BY <1>4, <1>12, <1>15 DEF Listed
  <2>2. ASSUME NEW i \in 1..n, slots[i].sku # k PROVE \E j \in 1..n - 1 : a[j].sku = slots[i].sku
    <3>1. CASE i = n
      <4>1. p \in 1..n - 1
        BY <1>3, <1>4, <2>2, <3>1
      <4> QED
        BY <1>11, <3>1, <4>1
    <3>2. CASE i # n
      <4>1. i \in 1..n - 1 /\ i # p
        BY <1>3, <1>4, <2>2, <3>2
      <4> QED
        BY <1>11, <4>1
    <3> QED
      BY <3>1, <3>2
  <2> QED
    BY <1>4, <1>10, <2>1, <2>2 DEF Listed
<1>26. ActiveSkus' = ActiveSkus \ {k}
  <2>1. \A b \in DOMAIN rows \ {id} :
          (rows'[b].active <=> rows[b].active) /\ rows'[b].sku = rows[b].sku /\ rows[b].sku # k
    <3>1. \A b \in DOMAIN rows \ {id} : rows[b].sku # k
      BY <1>3, <1>5 DEF CatalogInv, RowsApart
    <3> QED
      BY <1>8, <3>1
  <2>2. ~rows'[id].active /\ rows[id].sku = k
    BY <1>5, <1>6, <1>8
  <2> QED
    BY <1>8, <2>1, <2>2 DEF ActiveSkus
<1>27. k \in Listed /\ k \in ActiveSkus
  BY ListedActive DEF ArchiveProduct
<1> QED
  BY <1>24, <1>25, <1>26, <1>27 DEF Follows

LEMMA Reloading ==
  ASSUME CatalogInv, Reload
  PROVE  CatalogInv' /\ rows' = rows
<1>1. slots \in [Positions -> Slot \cup {Blank}] /\ RowsApart(rows)
  BY DEF CatalogInv, Lists
<1>2. PICK m : m = Loaded
  OBVIOUS
<1>3. Lists(m.slots, m.count, rows) /\ Points(m.slots, m.count, m.bySku)
  BY <1>1, <1>2, Loading
<1>4. slots' = m.slots /\ count' = m.count /\ bySku' = m.bySku /\ rows' = rows
  BY <1>2 DEF Reload, Becomes
<1> QED
  BY <1>1, <1>3, <1>4 DEF CatalogInv

LEMMA CatalogStep ==
  ASSUME CatalogInv, [Next]_vars
  PROVE  CatalogInv' /\ (rows' # rows => Follows)
<1>1. ASSUME NEW k \in Skus, NEW b \in Barcodes \cup {NoBarcode}, AddProduct(k, b)
      PROVE  CatalogInv' /\ Follows
  BY <1>1, Adding
<1>2. ASSUME NEW k \in Skus, UpdateProduct(k) PROVE CatalogInv' /\ Follows
  BY <1>2, Updating
<1>3. ASSUME NEW k \in Skus, ArchiveProduct(k) PROVE CatalogInv' /\ Follows
  BY <1>3, Archiving
<1>4. ASSUME NEW k \in Skus, RestoreProduct(k) PROVE CatalogInv' /\ Follows
  BY <1>4, Restoring
<1>5. CASE Reload
  BY <1>5, Reloading
<1>6. CASE UNCHANGED vars
  BY <1>6 DEF vars, CatalogInv
<1> QED
  BY <1>1, <1>2, <1>3, <1>4, <1>5, <1>6 DEF Next

LEMMA CatalogStarts ==
  ASSUME Init
  PROVE  CatalogInv
<1>1. RowsApart(rows) /\ DOMAIN rows = {}
  BY DEF Init, RowsApart
<1>2. slots \in [Positions -> Slot \cup {Blank}]
  BY DEF Init, Positions
<1>3. Upto(Unloaded, 0)
  BY <1>1, <1>2, Unlisted
<1>4. Unloaded.slots = slots /\ Unloaded.count = count /\ Unloaded.bySku = bySku
  BY DEF Unloaded, Init
<1> QED
  BY <1>1, <1>3, <1>4 DEF Upto, CatalogInv

LEMMA CatalogAlways == Spec => []CatalogInv
<1>1. Init => CatalogInv
  BY CatalogStarts
<1>2. CatalogInv /\ [Next]_vars => CatalogInv'
  BY CatalogStep
<1> QED
  BY <1>1, <1>2, PTL DEF Spec

(* For any SKUs, hash, barcodes and capacities: the array lists no product *)
(* twice and none that is archived, with the barcode of its row.           *)
THEOREM ListAlwaysSound == Spec => []ListIsSound
<1>1. ASSUME CatalogInv PROVE ListIsSound
  <2>1. /\ rows \in Seq(Row) /\ count \in 0..MaxProducts
        /\ \A i \in Positions : slots[i] \in Slot \cup {Blank}
    BY <1>1 DEF CatalogInv, RowsApart, Lists
  <2>2. TypeOK
    BY <2>1 DEF TypeOK, Row, Positions
  <2>3. \A i, j \in 1..count : slots[i].sku = slots[j].sku => i = j
    BY <1>1 DEF CatalogInv, Lists
  <2>4. ASSUME NEW i \in 1..count
        PROVE  LET row == rows[IdOf(slots[i].sku)]
               IN  row.active /\ row.barcode = slots[i].barcode
    <3>1. PICK id \in DOMAIN rows : Shows(slots[i], rows[id])
      BY <1>1 DEF CatalogInv, Lists
    <3>2. IdOf(slots[i].sku) = id
      BY <1>1, <3>1, IdIs DEF CatalogInv, Shows
    <3> QED
      BY <3>1, <3>2 DEF Shows
  <2> QED
    BY <2>2, <2>3, <2>4 DEF ListIsSound
<1> QED
  BY <1>1, CatalogAlways, PTL

(* A call loses no product of the list but the one it archives, and brings *)
(* none in but the one it adds or restores, if there is a slot.            *)
THEOREM ListAlwaysFollows == Spec => ListFollowsRows
<1>1. CatalogInv /\ [Next]_vars
        => [rows' # rows =>
              /\ Listed \ Listed' = ActiveSkus \ ActiveSkus'
              /\ Listed' \ Listed
                   = IF count < MaxProducts
                     THEN ActiveSkus' \ ActiveSkus ELSE {}]_vars
  BY CatalogStep DEF Follows
<1> QED
  BY <1>1, CatalogAlways, PTL DEF Spec, ListFollowsRows

LEMMA ListedPoint ==
  ASSUME CatalogInv, bySku.capacity = IndexCapacity, NEW i \in 1..count
  PROVE  inv_find_by_sku(slots[i].sku) = i
<1>1. ht_get(bySku, slots[i].sku) = i
  BY DEF CatalogInv, Points
<1> QED
  BY <1>1 DEF inv_find_by_sku

(* Until the index doubles, a lookup leads to the slot of its product,     *)
(* whatever moved in the array.                                            *)
THEOREM ListedAlwaysFound == Spec => []ListedFoundBeforeDoubling
<1>1. CatalogInv => ListedFoundBeforeDoubling
  BY ListedPoint DEF ListedFoundBeforeDoubling, ListedFound
<1> QED
  BY <1>1, CatalogAlways, PTL

-----------------------------------------------------------------------------
(* Searching: what each slot adds to the positions found.                  *)
ScannedSlot(g, i, query, found, skip) ==
  IF i = 0 THEN found
  ELSE IF i # skip /\ query \in PartsOf[slots[i].sku] THEN Append(g, i) ELSE g

Scans(f, n, query, found, skip) ==
  f = [i \in 0..n |-> ScannedSlot(f[i - 1], i, query, found, skip)]

LEMMA ScannedIs ==
  ASSUME NEW query, NEW found, NEW skip
  PROVE  Scanned(query, found, skip)
           = (CHOOSE f : Scans(f, count, query, found, skip))[count]
BY DEF Scanned, Scans, ScannedSlot

(* The function that Scanned is defined by exists.                         *)
LEMMA ScansExist ==
  ASSUME NEW n \in Nat, NEW query, NEW found, NEW skip
  PROVE  \E f : Scans(f, n, query, found, skip)
<1> DEFINE B == {m \in Nat : ~ \E f : Scans(f, m, query, found, skip)}
<1>1. \E f : Scans(f, 0, query, found, skip)
  <2>1. Scans([i \in 0..0 |-> ScannedSlot(found, i, query, found, skip)], 0, query, found, skip)
    BY DEF Scans, ScannedSlot
  <2> QED
    BY <2>1
<1>2. ASSUME NEW m \in Nat \ {0}, \E f : Scans(f, m - 1, query, found, skip)
      PROVE  \E f : Scans(f, m, query, found, skip)
  <2>1. PICK f : Scans(f, m - 1, query, found, skip)
    BY <1>2
  <2> DEFINE g == [i \in 0..m |-> ScannedSlot(f[i - 1], i, query, found, skip)]
  <2>2. \A i \in 0..(m - 1) : g[i] = f[i]
    BY <2>1 DEF Scans
  <2>3. \A i \in 0..m : i # 0 => i - 1 \in 0..(m - 1)
    OBVIOUS
  <2>4. \A i \in 0..m : g[i] = ScannedSlot(g[i - 1], i, query, found, skip)
    BY <2>2, <2>3 DEF ScannedSlot
  <2>5. Scans(g, m, query, found, skip)
    BY <2>4 DEF Scans
  <2> QED
    BY <2>5
<1>3. SUFFICES ASSUME B # {} PROVE FALSE
  OBVIOUS
<1>4. PICK m \in B : \A j \in B : m <= j
  BY <1>3, LeastNat
<1>5. m # 0
  BY <1>1
<1>6. m - 1 \in Nat /\ m - 1 \notin B
  <2>1. B \subseteq Nat
    OBVIOUS
  <2> HIDE DEF B
  <2> QED
    BY <1>4, <1>5, <2>1
<1>7. \E f : Scans(f, m - 1, query, found, skip)
  BY <1>6
<1> QED
  BY <1>2, <1>5, <1>7

(* p, then the first i slots whose SKU contains the query, each once.      *)
Gives(g, i, query, p) ==
  /\ g \in Seq(Nat) /\ Len(g) # 0 /\ g[1] = p
  /\ \A a, b \in 1..Len(g) : g[a] = g[b] => a = b
  /\ {g[a] : a \in 1..Len(g)} = {p} \cup {j \in 1..i : query \in PartsOf[slots[j].sku]}

LEMMA ScanStep ==
  ASSUME NEW i \in Nat \ {0}, NEW p \in Nat, NEW query, NEW g, Gives(g, i - 1, query, p)
  PROVE  Gives(ScannedSlot(g, i, query, <<p>>, p), i, query, p)
<1>1. PICK found : found = {j \in 1..i : query \in PartsOf[slots[j].sku]}
  OBVIOUS
<1>2. {j \in 1..i - 1 : query \in PartsOf[slots[j].sku]} = found \ {i}
  BY <1>1
<1>3. PICK n \in Nat \ {0} : n = Len(g)
  BY DEF Gives
<1>4. /\ g \in Seq(Nat) /\ g[1] = p
      /\ \A a, b \in 1..n : g[a] = g[b] => a = b
      /\ {g[a] : a \in 1..n} = {p} \cup (found \ {i})
  BY <1>2, <1>3 DEF Gives
<1>5. CASE i # p /\ query \in PartsOf[slots[i].sku]
  <2>1. PICK h : h = Append(g, i)
    OBVIOUS
  <2>2. /\ h \in Seq(Nat) /\ Len(h) = n + 1 /\ h[n + 1] = i
        /\ \A a \in 1..n : h[a] = g[a]
    BY <1>3, <1>4, <2>1
  <2>3. \A a \in 1..n + 1 : a = n + 1 \/ a \in 1..n
    OBVIOUS
  <2>4. \A a \in 1..n : g[a] # i
    BY <1>4, <1>5
  <2>5. {h[a] : a \in 1..n + 1} = {p} \cup found
    <3>1. i \in found
      BY <1>1, <1>5
    <3>2. {h[a] : a \in 1..n + 1} = {g[a] : a \in 1..n} \cup {i}
      BY <2>2, <2>3
    <3> QED
      BY <1>4, <3>1, <3>2
  <2>6. \A a, b \in 1..n + 1 : h[a] = h[b] => a = b
    BY <1>4, <2>2, <2>3, <2>4
  <2>7. h[1] = p
    BY <1>4, <2>2
  <2>8. Gives(h, i, query, p)
    BY <1>1, <2>2, <2>5, <2>6, <2>7 DEF Gives
  <2> QED
    BY <1>5, <2>1, <2>8 DEF ScannedSlot
<1>6. CASE ~(i # p /\ query \in PartsOf[slots[i].sku])
  <2>1. {p} \cup (found \ {i}) = {p} \cup found
    BY <1>1, <1>6
  <2>2. Gives(g, i, query, p)
    BY <1>1, <1>3, <1>4, <2>1 DEF Gives
  <2> QED
    BY <1>6, <2>2 DEF ScannedSlot
<1> QED
  BY <1>5, <1>6

LEMMA Scanning ==
  ASSUME count \in Nat, NEW p \in Nat, NEW query
  PROVE  Gives(Scanned(query, <<p>>, p), count, query, p)
<1>1. PICK n \in Nat : n = count
  OBVIOUS
<1>2. PICK f : Scans(f, n, query, <<p>>, p) /\ Scanned(query, <<p>>, p) = f[n]
  BY <1>1, ScannedIs, ScansExist
<1> DEFINE B == {i \in 0..n : ~Gives(f[i], i, query, p)}
<1>3. ASSUME B # {} PROVE FALSE
  <2>1. B \in SUBSET Nat
    OBVIOUS
  <2> HIDE DEF B
  <2>2. PICK i \in B : \A j \in B : i <= j
    BY <1>3, <2>1, LeastNat
  <2> USE DEF B
  <2>3. f[i] = ScannedSlot(f[i - 1], i, query, <<p>>, p)
    BY <1>2 DEF Scans
  <2>4. CASE i = 0
    <3>1. f[i] = <<p>>
      BY <2>3, <2>4 DEF ScannedSlot
    <3>2. Gives(<<p>>, 0, query, p)
      BY DEF Gives
    <3> QED
      BY <2>4, <3>1, <3>2
  <2>5. CASE i # 0
    <3>1. i \in Nat \ {0} /\ i - 1 \in 0..n /\ ~(i <= i - 1)
      BY <2>5
    <3>2. Gives(f[i - 1], i - 1, query, p)
      <4>1. i - 1 \notin B
        BY <2>2, <3>1
      <4> QED
        BY <3>1, <4>1
    <3> QED
      BY <2>3, <3>1, <3>2, ScanStep
  <2> QED
    BY <2>4, <2>5
<1> QED
  BY <1>1, <1>2, <1>3

(* Until the index doubles, a search for the SKU of a listed product gives *)
(* that product first, then each other whose SKU contains it, once.        *)
THEOREM SearchAlwaysFindsEach == Spec => []SearchFindsEach
<1>1. ASSUME CatalogInv PROVE SearchFindsEach
  <2>1. ASSUME bySku.capacity = IndexCapacity, NEW query \in Listed
        PROVE  LET found == inv_search(query)
               IN  /\ slots[found[1]].sku = query
                   /\ IsInjective(found)
                   /\ Range(found) = {i \in 1..count : query \in PartsOf[slots[i].sku]}
    <3>1. PICK p \in 1..count : slots[p].sku = query
      BY <2>1 DEF Listed
    <3>2. p \in Nat /\ count \in Nat /\ p # NoValue
      BY BoundsAssumption, NullAssumption, <1>1, <3>1 DEF CatalogInv, Lists
    <3>3. inv_find_by_sku(query) = p
      BY <1>1, <2>1, <3>1, ListedPoint
    <3>4. PICK g : g = inv_search(query)
      OBVIOUS
    <3>5. g = Scanned(query, <<p>>, p)
      BY <3>2, <3>3, <3>4 DEF inv_search, Exactly
    <3>6. Gives(g, count, query, p)
      BY <3>2, <3>5, Scanning
    <3>7. query \in PartsOf[slots[p].sku]
      BY PartsAssumption, <2>1, <3>1, ListedActive, <1>1
    <3>8. DOMAIN g = 1..Len(g)
      BY <3>6 DEF Gives
    <3>9. IsInjective(g)
      BY <3>6, <3>8 DEF Gives, IsInjective
    <3>10. Range(g) = {i \in 1..count : query \in PartsOf[slots[i].sku]}
      BY <3>1, <3>6, <3>7, <3>8 DEF Gives, Range
    <3>11. slots[g[1]].sku = query
      BY <3>1, <3>6 DEF Gives
    <3> QED
      BY <3>4, <3>9, <3>10, <3>11
  <2> QED
    BY <2>1 DEF SearchFindsEach
<1> QED
  BY <1>1, CatalogAlways, PTL
=============================================================================
