--------------------------- MODULE DispatchProofs ---------------------------
(***************************************************************************)
(* What was proved of OrderLines carries over to dispatch orders: their    *)
(* steps are steps of OrderLines, whatever moves the stock meanwhile.      *)
(* Then the units: each is somewhere, whoever moves it, which is a sum     *)
(* over locations and instances that changes in one term at a time; and    *)
(* shipments, returns and other movements are steps of Transfer.           *)
(***************************************************************************)
EXTENDS Dispatch, FiniteSetTheorems, TLAPS

-----------------------------------------------------------------------------
(* Sums over finite sets.                                                  *)

(* A nonempty set of naturals has a least element. *)
LEMMA LeastNat ==
  ASSUME NEW B \in SUBSET Nat, B # {}
  PROVE  \E m \in B : \A k \in B : m <= k
<1> DEFINE R == OpToRel(<, Nat)
<1>1. \A k, m \in Nat : k < m => <<k, m>> \in R
  BY DEF OpToRel
<1>2. IsWellFoundedOn(R, Nat)
  BY NatLessThanWellFounded
<1> HIDE DEF R
<1>3. PICK m \in B : \A k \in B : ~(<<k, m>> \in R)
  BY <1>2, WFMin
<1>4. \A k \in B : ~(k < m)
  BY <1>1, <1>3
<1>5. \A k \in B : m <= k
  BY <1>4
<1> QED
  BY <1>5

(* A nonempty set of finite sets has a smallest element. *)
LEMMA SmallestSet ==
  ASSUME NEW S, IsFiniteSet(S), NEW B \in SUBSET (SUBSET S), B # {}
  PROVE  \E s \in B : \A t \in B : t \subseteq s => t = s
<1>1. IsWellFoundedOn(StrictSubsetOrdering(S), SUBSET S)
  BY FS_StrictSubsetOrderingWellFounded, FS_FiniteSubsetsOfFinite
<1>2. PICK s \in B : \A t \in B : ~(<<t, s>> \in StrictSubsetOrdering(S))
  BY <1>1, WFMin
<1>3. \A t \in B : t \subseteq s /\ t # s => <<t, s>> \in StrictSubsetOrdering(S)
  BY DEF StrictSubsetOrdering
<1>4. \A t \in B : t \subseteq s => t = s
  BY <1>2, <1>3
<1> QED
  BY <1>4

First(s) == CHOOSE x \in s : TRUE

Adds(g, f, D) ==
  g = [s \in D |-> IF s = {} THEN 0 ELSE f[First(s)] + g[s \ {First(s)}]]

LEMMA SumIs ==
  ASSUME NEW f, NEW S
  PROVE  SumFunctionOnSet(f, S) = (CHOOSE g : Adds(g, f, SUBSET S))[S]
BY DEF SumFunctionOnSet, FoldFunctionOnSet, MapThenFoldSet, Adds, First

LEMMA FirstIn == ASSUME NEW s, s # {} PROVE First(s) \in s
BY DEF First

(* The function a sum is defined by exists. *)
LEMMA SumExists ==
  ASSUME NEW f, NEW S, IsFiniteSet(S)
  PROVE  \E g : Adds(g, f, SUBSET S)
<1> DEFINE Upto(n) == {s \in SUBSET S : Cardinality(s) <= n}
           B == {n \in Nat : ~ \E g : Adds(g, f, Upto(n))}
<1>1. \A s \in SUBSET S : IsFiniteSet(s) /\ Cardinality(s) \in Nat
  BY FS_Subset, FS_CardinalityType
<1>2. \E g : Adds(g, f, Upto(0))
  <2>1. \A s \in Upto(0) : s = {}
    BY <1>1, FS_EmptySet
  <2>2. Adds([s \in Upto(0) |-> 0], f, Upto(0))
    BY <2>1 DEF Adds
  <2> QED
    BY <2>2
<1>3. ASSUME NEW n \in Nat, \E g : Adds(g, f, Upto(n)) PROVE \E g : Adds(g, f, Upto(n + 1))
  <2>1. PICK g : Adds(g, f, Upto(n))
    BY <1>3
  <2> DEFINE h == [s \in Upto(n + 1) |->
                     IF s = {} THEN 0 ELSE f[First(s)] + g[s \ {First(s)}]]
  <2>2. ASSUME NEW s \in Upto(n + 1), s # {} PROVE s \ {First(s)} \in Upto(n)
    <3>1. First(s) \in s
      BY <2>2, FirstIn
    <3>2. Cardinality(s \ {First(s)}) = Cardinality(s) - 1
      BY <1>1, <3>1, FS_RemoveElement
    <3> QED
      BY <1>1, <3>2
  <2>3. ASSUME NEW s \in Upto(n) PROVE s \in Upto(n + 1) /\ h[s] = g[s]
    <3>1. s \in Upto(n + 1)
      BY <1>1
    <3>2. g[s] = IF s = {} THEN 0 ELSE f[First(s)] + g[s \ {First(s)}]
      BY <2>1 DEF Adds
    <3> QED
      BY <3>1, <3>2
  <2>4. \A s \in Upto(n + 1) :
          h[s] = IF s = {} THEN 0 ELSE f[First(s)] + h[s \ {First(s)}]
    BY <2>2, <2>3
  <2>5. h = [s \in Upto(n + 1) |-> IF s = {} THEN 0 ELSE f[First(s)] + h[s \ {First(s)}]]
    <3> HIDE DEF Upto
    <3> QED
    BY <2>4
  <2>6. Adds(h, f, Upto(n + 1))
    BY <2>5 DEF Adds
  <2> QED
    BY <2>6
<1>4. B = {}
  <2> SUFFICES ASSUME B # {} PROVE FALSE
    OBVIOUS
  <2>1. PICK m \in B : \A k \in B : m <= k
    BY LeastNat
  <2>2. m # 0
    BY <1>2
  <2>3. m - 1 \in Nat /\ m - 1 \notin B
    <3>1. B \subseteq Nat
      OBVIOUS
    <3> HIDE DEF B
    <3> QED
      BY <2>1, <2>2, <3>1
  <2>4. \E g : Adds(g, f, Upto(m - 1))
    BY <2>3
  <2>5. \E g : Adds(g, f, Upto((m - 1) + 1))
    <3> HIDE DEF Upto
    <3> QED
    BY <1>3, <2>3, <2>4
  <2>6. (m - 1) + 1 = m
    BY <2>1
  <2> QED
    BY <2>5, <2>6
<1>5. SUBSET S = Upto(Cardinality(S))
  BY <1>1, FS_Subset
<1>6. Cardinality(S) \in Nat
  BY FS_CardinalityType
<1>7. \E g : Adds(g, f, Upto(Cardinality(S)))
  <2> HIDE DEF Upto
  <2> QED
    BY <1>4, <1>6
<1> QED
  BY <1>5, <1>7

(* Two such functions agree on the sets of both. *)
LEMMA SumsAgree ==
  ASSUME NEW f, NEW S, NEW T, NEW g, NEW h,
         Adds(g, f, SUBSET S), Adds(h, f, SUBSET T), IsFiniteSet(S), T \subseteq S
  PROVE  g[T] = h[T]
<1>0. \A s \in SUBSET T : g[s] = h[s]
  <2> DEFINE B == {s \in SUBSET T : g[s] # h[s]}
  <2> SUFFICES ASSUME B # {} PROVE FALSE
    OBVIOUS
  <2>1. PICK s \in B : \A t \in B : t \subseteq s => t = s
    <3>1. IsFiniteSet(T) /\ B \in SUBSET (SUBSET T)
      BY FS_Subset
    <3> HIDE DEF B
    <3> QED
      BY <3>1, SmallestSet
  <2>2. \A t \in SUBSET T :
          /\ g[t] = IF t = {} THEN 0 ELSE f[First(t)] + g[t \ {First(t)}]
          /\ h[t] = IF t = {} THEN 0 ELSE f[First(t)] + h[t \ {First(t)}]
    BY DEF Adds
  <2>3. s # {} /\ s \in SUBSET T
    BY <2>2
  <2>4. s \ {First(s)} \subseteq s /\ s \ {First(s)} # s
    BY <2>3, FirstIn
  <2>5. g[s \ {First(s)}] = h[s \ {First(s)}]
    BY <2>1, <2>4
  <2>6. g[s] = h[s]
    BY <2>2, <2>3, <2>5
  <2> QED
    BY <2>6
<1> QED
  BY <1>0

(* The sum over no element, and over one element more. *)
LEMMA SumOfNone == ASSUME NEW f PROVE SumFunctionOnSet(f, {}) = 0
<1>1. IsFiniteSet({})
  BY FS_EmptySet
<1>2. Adds(CHOOSE g : Adds(g, f, SUBSET {}), f, SUBSET {})
  BY <1>1, SumExists
<1>3. \A g : Adds(g, f, SUBSET {}) => g[{}] = 0
  BY DEF Adds
<1> QED
  BY <1>2, <1>3, SumIs

LEMMA SumOfFirst ==
  ASSUME NEW f, NEW S, IsFiniteSet(S), S # {}
  PROVE  SumFunctionOnSet(f, S) = f[First(S)] + SumFunctionOnSet(f, S \ {First(S)})
<1>1. PICK T : T = S \ {First(S)}
  OBVIOUS
<1>2. T \in SUBSET S /\ IsFiniteSet(T)
  BY <1>1, FS_Subset
<1>3. PICK g : g = CHOOSE u : Adds(u, f, SUBSET S)
  OBVIOUS
<1>4. PICK h : h = CHOOSE u : Adds(u, f, SUBSET T)
  OBVIOUS
<1>5. Adds(g, f, SUBSET S) /\ Adds(h, f, SUBSET T)
  BY <1>2, <1>3, <1>4, SumExists
<1>6. g[T] = h[T]
  BY <1>2, <1>5, SumsAgree
<1>7. g[S] = f[First(S)] + g[T]
  BY <1>1, <1>5 DEF Adds
<1>8. SumFunctionOnSet(f, S) = g[S] /\ SumFunctionOnSet(f, T) = h[T]
  BY <1>3, <1>4, SumIs
<1> QED
  BY <1>1, <1>6, <1>7, <1>8

LEMMA SumIsInteger ==
  ASSUME NEW f, NEW S, IsFiniteSet(S), \A x \in S : f[x] \in Int
  PROVE  SumFunctionOnSet(f, S) \in Int
<1> DEFINE B == {s \in SUBSET S : SumFunctionOnSet(f, s) \notin Int}
<1> SUFFICES ASSUME B # {} PROVE FALSE
  OBVIOUS
<1>0. B \in SUBSET (SUBSET S)
  OBVIOUS
<1>1. PICK s \in B : \A t \in B : t \subseteq s => t = s
  <2> HIDE DEF B
  <2> QED
    BY <1>0, SmallestSet
<1>1a. s \in SUBSET S /\ IsFiniteSet(s)
  BY FS_Subset
<1>2. s # {} /\ IsFiniteSet(s)
  BY <1>1a, SumOfNone
<1>3. First(s) \in s /\ s \ {First(s)} # s
  BY <1>2, FirstIn
<1>4. SumFunctionOnSet(f, s \ {First(s)}) \in Int
  BY <1>1, <1>3
<1> QED
  BY <1>2, <1>3, <1>4, SumOfFirst

LEMMA SumIsNatural ==
  ASSUME NEW f, NEW S, IsFiniteSet(S), \A x \in S : f[x] \in Nat
  PROVE  SumFunctionOnSet(f, S) \in Nat
<1> DEFINE B == {s \in SUBSET S : SumFunctionOnSet(f, s) \notin Nat}
<1> SUFFICES ASSUME B # {} PROVE FALSE
  OBVIOUS
<1>0. B \in SUBSET (SUBSET S)
  OBVIOUS
<1>1. PICK s \in B : \A t \in B : t \subseteq s => t = s
  <2> HIDE DEF B
  <2> QED
    BY <1>0, SmallestSet
<1>1a. s \in SUBSET S /\ IsFiniteSet(s)
  BY FS_Subset
<1>2. s # {} /\ IsFiniteSet(s)
  BY <1>1a, SumOfNone
<1>3. First(s) \in s /\ s \ {First(s)} # s
  BY <1>2, FirstIn
<1>4. SumFunctionOnSet(f, s \ {First(s)}) \in Nat
  BY <1>1, <1>3
<1> QED
  BY <1>2, <1>3, <1>4, SumOfFirst

(* Any element may be taken out first. *)
LEMMA SumOfOne ==
  ASSUME NEW f, NEW S, IsFiniteSet(S), \A x \in S : f[x] \in Int, NEW a \in S
  PROVE  SumFunctionOnSet(f, S) = f[a] + SumFunctionOnSet(f, S \ {a})
<1> DEFINE Out(s, x) == SumFunctionOnSet(f, s) = f[x] + SumFunctionOnSet(f, s \ {x})
           B == {s \in SUBSET S : \E x \in s : ~Out(s, x)}
<1> SUFFICES ASSUME B # {} PROVE FALSE
  OBVIOUS
<1>0. B \in SUBSET (SUBSET S)
  OBVIOUS
<1>1. PICK s \in B : \A t \in B : t \subseteq s => t = s
  <2> HIDE DEF B
  <2> QED
    BY <1>0, SmallestSet
<1>1a. s \in SUBSET S /\ IsFiniteSet(s)
  BY FS_Subset
<1>2. PICK x \in s : ~Out(s, x)
  BY <1>1
<1> DEFINE y == First(s)
<1>3. y \in s /\ Out(s, y) /\ IsFiniteSet(s)
  BY <1>1, <1>2, FirstIn, SumOfFirst, FS_Subset
<1>4. x # y
  BY <1>2, <1>3
<1>5. Out(s \ {x}, y) /\ Out(s \ {y}, x)
  <2>1. s \ {x} \notin B /\ s \ {y} \notin B
    <3> HIDE DEF B, y
    <3> QED
      BY <1>1, <1>3
  <2>2. s \ {x} \in SUBSET S /\ s \ {y} \in SUBSET S
    BY <1>1
  <2>3. y \in s \ {x} /\ x \in s \ {y}
    BY <1>3, <1>4
  <2> HIDE DEF y, Out
  <2> QED
    BY <2>1, <2>2, <2>3
<1>6. (s \ {x}) \ {y} = (s \ {y}) \ {x}
  OBVIOUS
<1>7. SumFunctionOnSet(f, (s \ {x}) \ {y}) \in Int /\ f[x] \in Int /\ f[y] \in Int
  <2>1. (s \ {x}) \ {y} \in SUBSET S
    BY <1>1
  <2>2. IsFiniteSet((s \ {x}) \ {y})
    BY <2>1, FS_Subset
  <2> QED
    BY <1>3, <2>1, <2>2, SumIsInteger
<1>8. Out(s, x)
  <2> HIDE DEF y, B
  <2>1. SumFunctionOnSet(f, s \ {x}) = f[y] + SumFunctionOnSet(f, (s \ {x}) \ {y})
    BY <1>5
  <2>2. SumFunctionOnSet(f, s \ {y}) = f[x] + SumFunctionOnSet(f, (s \ {x}) \ {y})
    BY <1>5, <1>6
  <2>3. SumFunctionOnSet(f, s) = f[y] + SumFunctionOnSet(f, s \ {y})
    BY <1>3
  <2> QED
    BY <1>7, <2>1, <2>2, <2>3
<1> QED
  BY <1>2, <1>8

(* A sum only depends on the values it adds. *)
LEMMA SumOfSame ==
  ASSUME NEW f, NEW g, NEW S, IsFiniteSet(S), \A x \in S : f[x] = g[x]
  PROVE  SumFunctionOnSet(f, S) = SumFunctionOnSet(g, S)
<1> DEFINE B == {s \in SUBSET S : SumFunctionOnSet(f, s) # SumFunctionOnSet(g, s)}
<1> SUFFICES ASSUME B # {} PROVE FALSE
  OBVIOUS
<1>0. B \in SUBSET (SUBSET S)
  OBVIOUS
<1>1. PICK s \in B : \A t \in B : t \subseteq s => t = s
  <2> HIDE DEF B
  <2> QED
    BY <1>0, SmallestSet
<1>1a. s \in SUBSET S /\ IsFiniteSet(s)
  BY FS_Subset
<1>2. s # {} /\ IsFiniteSet(s)
  BY <1>1a, SumOfNone
<1>3. First(s) \in s /\ s \ {First(s)} # s
  BY <1>2, FirstIn
<1>4. SumFunctionOnSet(f, s \ {First(s)}) = SumFunctionOnSet(g, s \ {First(s)})
  BY <1>1, <1>3
<1> QED
  BY <1>2, <1>3, <1>4, SumOfFirst

(* One value of it changes. *)
LEMMA SumOfChanged ==
  ASSUME NEW f, NEW g, NEW S, IsFiniteSet(S), NEW a \in S,
         \A x \in S : f[x] \in Int /\ g[x] \in Int,
         \A x \in S : x # a => g[x] = f[x]
  PROVE  SumFunctionOnSet(g, S) = SumFunctionOnSet(f, S) + g[a] - f[a]
<1>1. IsFiniteSet(S \ {a})
  BY FS_Subset
<1>2. SumFunctionOnSet(f, S \ {a}) = SumFunctionOnSet(g, S \ {a})
  BY <1>1, SumOfSame
<1>3. SumFunctionOnSet(f, S \ {a}) \in Int
  BY <1>1, SumIsInteger
<1>4. /\ SumFunctionOnSet(f, S) = f[a] + SumFunctionOnSet(f, S \ {a})
      /\ SumFunctionOnSet(g, S) = g[a] + SumFunctionOnSet(g, S \ {a})
  BY SumOfOne
<1>5. f[a] \in Int /\ g[a] \in Int
  OBVIOUS
<1> QED
  BY <1>2, <1>3, <1>4, <1>5

LEMMA SumOfZeros ==
  ASSUME NEW f, NEW S, IsFiniteSet(S), \A x \in S : f[x] = 0
  PROVE  SumFunctionOnSet(f, S) = 0
<1> DEFINE B == {s \in SUBSET S : SumFunctionOnSet(f, s) # 0}
<1> SUFFICES ASSUME B # {} PROVE FALSE
  OBVIOUS
<1>0. B \in SUBSET (SUBSET S)
  OBVIOUS
<1>1. PICK s \in B : \A t \in B : t \subseteq s => t = s
  <2> HIDE DEF B
  <2> QED
    BY <1>0, SmallestSet
<1>1a. s \in SUBSET S /\ IsFiniteSet(s)
  BY FS_Subset
<1>2. s # {} /\ IsFiniteSet(s)
  BY <1>1a, SumOfNone
<1>3. First(s) \in s /\ s \ {First(s)} # s
  BY <1>2, FirstIn
<1>4. SumFunctionOnSet(f, s \ {First(s)}) = 0
  BY <1>1, <1>3
<1> QED
  BY <1>2, <1>3, <1>4, SumOfFirst

(* A sum of smaller values is smaller. *)
LEMMA SumOfLess ==
  ASSUME NEW f, NEW g, NEW S, IsFiniteSet(S),
         \A x \in S : f[x] \in Int /\ g[x] \in Int /\ f[x] <= g[x]
  PROVE  SumFunctionOnSet(f, S) <= SumFunctionOnSet(g, S)
<1> DEFINE B == {s \in SUBSET S : ~(SumFunctionOnSet(f, s) <= SumFunctionOnSet(g, s))}
<1> SUFFICES ASSUME B # {} PROVE FALSE
  BY FS_Subset
<1>0. B \in SUBSET (SUBSET S)
  OBVIOUS
<1>1. PICK s \in B : \A t \in B : t \subseteq s => t = s
  <2> HIDE DEF B
  <2> QED
    BY <1>0, SmallestSet
<1>1a. s \in SUBSET S /\ IsFiniteSet(s)
  BY FS_Subset
<1>2. s # {} /\ IsFiniteSet(s)
  BY <1>1a, SumOfNone
<1>3. First(s) \in s /\ s \ {First(s)} # s
  BY <1>2, FirstIn
<1>4. SumFunctionOnSet(f, s \ {First(s)}) <= SumFunctionOnSet(g, s \ {First(s)})
  BY <1>1, <1>3
<1>5. /\ SumFunctionOnSet(f, s \ {First(s)}) \in Int
      /\ SumFunctionOnSet(g, s \ {First(s)}) \in Int
  BY <1>1a, FS_Subset, SumIsInteger
<1>6. SumFunctionOnSet(f, s) <= SumFunctionOnSet(g, s)
  BY <1>1a, <1>2, <1>3, <1>4, <1>5, SumOfFirst
<1> QED
  BY <1>6

(* One element comes in, or goes out. *)
LEMMA SumOfJoined ==
  ASSUME NEW f, NEW g, NEW S, IsFiniteSet(S), NEW a, a \notin S,
         \A x \in S : f[x] \in Int /\ g[x] = f[x], g[a] \in Int,
         NEW T, T = S \cup {a}
  PROVE  SumFunctionOnSet(g, T) = SumFunctionOnSet(f, S) + g[a]
<1>1. IsFiniteSet(T) /\ a \in T /\ T \ {a} = S /\ \A x \in T : g[x] \in Int
  BY FS_AddElement
<1>2. SumFunctionOnSet(g, T) = g[a] + SumFunctionOnSet(g, S)
  BY <1>1, SumOfOne
<1>3. SumFunctionOnSet(g, S) = SumFunctionOnSet(f, S) /\ SumFunctionOnSet(f, S) \in Int
  BY SumOfSame, SumIsInteger
<1> QED
  BY <1>2, <1>3

LEMMA SumOfLeft ==
  ASSUME NEW f, NEW g, NEW S, IsFiniteSet(S), NEW a \in S,
         \A x \in S : f[x] \in Int, \A x \in S : x # a => g[x] = f[x],
         NEW T, T = S \ {a}
  PROVE  SumFunctionOnSet(g, T) = SumFunctionOnSet(f, S) - f[a]
<1>1. IsFiniteSet(T)
  BY FS_Subset
<1>2. SumFunctionOnSet(g, T) = SumFunctionOnSet(f, T) /\ SumFunctionOnSet(f, T) \in Int
  BY <1>1, SumOfSame, SumIsInteger
<1>3. SumFunctionOnSet(f, S) = f[a] + SumFunctionOnSet(f, T) /\ f[a] \in Int
  BY SumOfOne
<1> QED
  BY <1>2, <1>3

-----------------------------------------------------------------------------
(* The orders.                                                             *)

OrderP == INSTANCE OrderLinesProofs WITH Environments <- {Disturbed}, env <- Disturbed

(* Every step of Dispatch is a step of the orders or leaves them alone.    *)
LEMMA StepOfOrders == [Next]_vars => [Order!Next]_(Order!vars)
<1> USE DEF Order!Next, Disturbed
<1> SUFFICES ASSUME [Next]_vars PROVE Order!Next \/ UNCHANGED Order!vars
  OBVIOUS
<1>1. (UNCHANGED orders) => UNCHANGED Order!vars
  BY DEF orders, Order!vars, Order!tables, Order!screen
<1>2. ASSUME NEW p \in Procs, OnScreen(p) PROVE Order!Next
  BY <1>2 DEF OnScreen
<1>3. ASSUME NEW p \in Procs, MarkConfirmed(p) PROVE Order!Next
  BY <1>3 DEF MarkConfirmed
<1>4. ASSUME NEW p \in Procs, Ship(p) \/ ShipmentLost(p) \/ ShipmentFails(p)
      PROVE  Order!Next
  BY <1>4 DEF Ship, ShipmentLost, ShipmentFails
<1>5. ASSUME NEW p \in Procs, WriteShipped(p) \/ UpdateStatus(p) PROVE Order!Next
  BY <1>5 DEF WriteShipped, UpdateStatus
<1>6. ASSUME NEW p \in Procs,
             \/ \E n \in 1..MaxReturned : StartReturn(p, n)
             \/ PostReturn(p) \/ ReturnLost(p) \/ RecordReturn(p) \/ ReturnFails(p)
      PROVE  UNCHANGED orders
  BY <1>6 DEF StartReturn, PostReturn, ReturnLost, RecordReturn, ReturnFails
<1>7. ASSUME NEW p \in Procs, TransferStep(p) PROVE UNCHANGED orders
  BY <1>7 DEF TransferStep
<1>8. ASSUME NEW p \in Procs, Restart(p) PROVE Order!Next
  BY <1>8 DEF Restart
<1>9. ASSUME NEW l \in Locations, NEW n \in 1..MaxStock, OtherMove(l, n) \/ OtherMove(l, -n)
      PROVE  UNCHANGED orders
  BY <1>9 DEF OtherMove
<1>10. CASE UNCHANGED vars
  BY <1>1, <1>10 DEF vars, orders
<1> QED
  BY <1>1, <1>2, <1>3, <1>4, <1>5, <1>6, <1>7, <1>8, <1>9, <1>10 DEF Next

(* Dispatch orders are an implementation of OrderLines.                    *)
THEOREM DispatchImplementsOrders == Spec => ImplementsOrders
<1>1. Init => Order!Init
  BY DEF Init
<1> QED
  BY <1>1, StepOfOrders, PTL DEF Spec, ImplementsOrders, Order!Spec

(* The two instances of OrderLines, in Dispatch and in the proofs of        *)
(* OrderLines, define the same formulas.                                    *)
LEMMA SameInit == Order!Init => OrderP!Init
  BY DEF Order!Init, OrderP!Init, Order!Closed, OrderP!Closed

LEMMA SameNext == [Order!Next]_(Order!vars) => [OrderP!Next]_(OrderP!vars)
<1> SUFFICES ASSUME [Order!Next]_(Order!vars) PROVE [OrderP!Next]_(OrderP!vars)
  OBVIOUS
<1>0. UNCHANGED Order!vars => UNCHANGED OrderP!vars
  BY DEF Order!vars, OrderP!vars, Order!tables, OrderP!tables, Order!screen, OrderP!screen
<1>1. ASSUME NEW p \in Procs, NEW o \in Orders \cup {NoOrder}, Order!ShowOrder(p, o)
      PROVE  OrderP!ShowOrder(p, o)
  BY <1>1 DEF Order!ShowOrder, OrderP!ShowOrder, Order!tables, OrderP!tables
<1>2. ASSUME NEW p \in Procs, NEW i \in Items, Order!OpenReceipt(p, i)
      PROVE  OrderP!OpenReceipt(p, i)
  BY <1>2 DEF Order!OpenReceipt, OrderP!OpenReceipt, Order!tables, OrderP!tables,
     Order!Closed, OrderP!Closed, Order!LinesOf, OrderP!LinesOf
<1>3. ASSUME NEW p \in Procs, NEW i \in Items, NEW q \in Quantities, Order!AddItem(p, i, q)
      PROVE  OrderP!AddItem(p, i, q)
  BY <1>3 DEF Order!AddItem, OrderP!AddItem, Order!Closed, OrderP!Closed, Order!Goto,
     OrderP!Goto
<1>4. ASSUME NEW p \in Procs, Order!CancelReceipt(p)
      PROVE  OrderP!CancelReceipt(p)
  BY <1>4 DEF Order!CancelReceipt, OrderP!CancelReceipt, Order!tables, OrderP!tables,
     Order!Closed, OrderP!Closed
<1>5. ASSUME NEW p \in Procs, Order!MarkOrdered(p)
      PROVE  OrderP!MarkOrdered(p)
  BY <1>5 DEF Order!MarkOrdered, OrderP!MarkOrdered, Order!Goto, OrderP!Goto
<1>6. ASSUME NEW p \in Procs, NEW n \in 1..MaxPosted, Order!Confirm(p, n)
      PROVE  OrderP!Confirm(p, n)
  BY <1>6 DEF Order!Confirm, OrderP!Confirm, Order!tables, OrderP!tables, Order!Closed,
     OrderP!Closed, Order!Goto, OrderP!Goto, Order!Accepted, OrderP!Accepted
<1>7. ASSUME NEW p \in Procs, Order!PostMovement(p)
      PROVE  OrderP!PostMovement(p)
  BY <1>7 DEF Order!PostMovement, OrderP!PostMovement, Order!Goto, OrderP!Goto,
     Order!Delta, OrderP!Delta
<1>8. ASSUME NEW p \in Procs, Order!MovementLost(p)
      PROVE  OrderP!MovementLost(p)
  BY <1>8 DEF Order!MovementLost, OrderP!MovementLost, Order!Goto, OrderP!Goto,
     Order!Delta, OrderP!Delta
<1>9. ASSUME NEW p \in Procs, Order!WriteReceived(p)
      PROVE  OrderP!WriteReceived(p)
  BY <1>9 DEF Order!WriteReceived, OrderP!WriteReceived, Order!Goto, OrderP!Goto
<1>10. ASSUME NEW p \in Procs, Order!ReceiptFails(p)
      PROVE  OrderP!ReceiptFails(p)
  BY <1>10 DEF Order!ReceiptFails, OrderP!ReceiptFails, Order!Return, OrderP!Return,
     Order!Goto, OrderP!Goto, Order!tables, OrderP!tables
<1>11. ASSUME NEW p \in Procs, Order!ReadLines(p)
      PROVE  OrderP!ReadLines(p)
  BY <1>11 DEF Order!ReadLines, OrderP!ReadLines, Order!Goto, OrderP!Goto, Order!tables,
     OrderP!tables, Order!StatusOfLines, OrderP!StatusOfLines, Order!LinesOf,
     OrderP!LinesOf
<1>12. ASSUME NEW p \in Procs, Order!WriteStatus(p)
      PROVE  OrderP!WriteStatus(p)
  BY <1>12 DEF Order!WriteStatus, OrderP!WriteStatus, Order!Return, OrderP!Return,
     Order!Goto, OrderP!Goto, Order!Closed, OrderP!Closed
<1>13. ASSUME NEW p \in Procs, Order!Restart(p)
      PROVE  OrderP!Restart(p)
  BY <1>13 DEF Order!Restart, OrderP!Restart, Order!Return, OrderP!Return, Order!Goto,
     OrderP!Goto, Order!Closed, OrderP!Closed, Order!tables, OrderP!tables
<1>14. Order!Next => OrderP!Next
  <2>1. Disturbed.acting = Procs
    BY DEF Disturbed
  <2> QED
    BY <1>1, <1>2, <1>3, <1>4, <1>5, <1>6, <1>7, <1>8, <1>9, <1>10, <1>11, <1>12, <1>13,
       <2>1
    DEF Order!Next, OrderP!Next
<1> QED
  BY <1>0, <1>14

(* Its environment is one OrderLines allows. *)
LEMMA OneEnvironment ==
  {Disturbed} \subseteq [acting : SUBSET Procs, faults : BOOLEAN, late : BOOLEAN]
BY DEF Disturbed

(* However many instances ship the same order, through whatever stale      *)
(* dialogs, no line records more than was ordered.                         *)
THEOREM NoOverShipment == Spec => []NeverOverShipped
<1>1. Init => Order!Init
  BY DEF Init
<1>2. OrderP!Spec => []OrderP!NeverOverReceived
  BY OrderP!NoOverReceipt, QuantitiesAssumption, NamesAssumption, StatusAssumption,
     OneEnvironment
<1>3. OrderP!NeverOverReceived => NeverOverShipped
  BY DEF NeverOverShipped, Order!NeverOverReceived, OrderP!NeverOverReceived
<1> QED
  BY <1>1, <1>2, <1>3, StepOfOrders, SameInit, SameNext, PTL DEF Spec, OrderP!Spec

(* However shipments cross, fail or stop half way, what a line says was    *)
(* shipped has left the stock, or was lost by a COMMIT.                    *)
THEOREM ShipmentsHaveLeft == Spec => []ShippedHasLeft
<1>1. Init => Order!Init
  BY DEF Init
<1>2. OrderP!Spec => []OrderP!ReceivedWasPosted
  BY OrderP!ReceiptsArePosted, QuantitiesAssumption, NamesAssumption, StatusAssumption,
     OneEnvironment
<1>3. OrderP!ReceivedWasPosted => ShippedHasLeft
  BY DEF ShippedHasLeft, Order!ReceivedWasPosted, OrderP!ReceivedWasPosted,
     Order!Credited, OrderP!Credited
<1> QED
  BY <1>1, <1>2, <1>3, StepOfOrders, SameInit, SameNext, PTL DEF Spec, OrderP!Spec

-----------------------------------------------------------------------------
(* The stock.  All that moves it is a step of Transfer.                    *)

(* A shipment about to be posted is one of a line, of at least one unit.   *)
ShipmentsReady ==
  /\ posted \in [Items -> Nat]
  /\ \A p \in Procs :
       pc[p] = "post" => dialog[p].item \in Items /\ Order!Delta(p) \in Nat \ {0}

LEMMA OrdersHold == Spec => [](Order!TypeOK /\ ShipmentsReady)
<1>1. Init => Order!Init
  BY DEF Init
<1>2. OrderP!Spec => []OrderP!OrdersInv
  BY OrderP!OrdersInvariant, QuantitiesAssumption, NamesAssumption, StatusAssumption,
     OneEnvironment
<1>3. OrderP!OrdersInv => Order!TypeOK
  BY DEF OrderP!OrdersInv, OrderP!TypeOK, Order!TypeOK, OrderP!Lines, Order!Lines,
     OrderP!Dialogs, Order!Dialogs, OrderP!Statuses, Order!Statuses
<1>4. OrderP!OrdersInv => ShipmentsReady
  <2> SUFFICES ASSUME OrderP!OrdersInv PROVE ShipmentsReady
    OBVIOUS
  <2>1. OrderP!TypeOK /\ \A p \in Procs : OrderP!DialogFits(p) /\ OrderP!Underway(p)
    BY DEF OrderP!OrdersInv
  <2>2. ASSUME NEW p \in Procs, pc[p] = "post"
        PROVE  dialog[p].item \in Items /\ Order!Delta(p) \in Nat \ {0}
    <3>1. dialog[p].item \in Items /\ dialog[p].already < total[p]
      BY <2>1, <2>2 DEF OrderP!Underway, OrderP!DialogFits, OrderP!Accepted
    <3>2. dialog[p].already \in Nat /\ total[p] \in Nat
      BY <2>1 DEF OrderP!TypeOK, OrderP!Dialogs
    <3> QED
      BY <3>1, <3>2 DEF Order!Delta
  <2> QED
    BY <2>1, <2>2 DEF ShipmentsReady, OrderP!TypeOK
<1> QED
  BY <1>1, <1>2, <1>3, <1>4, StepOfOrders, SameInit, SameNext, PTL DEF Spec, OrderP!Spec

(* A posted shipment adds its units to those shipped: what Ship says of the *)
(* units moved refuses none.                                               *)
LEMMA ShippedGrows ==
  ASSUME ShipmentsReady, NEW p \in Procs, Order!PostMovement(p)
  PROVE  Shipped' = Shipped + Order!Delta(p)
<1> DEFINE i == dialog[p].item
<1>1. i \in Items /\ Order!Delta(p) \in Nat
  BY DEF Order!PostMovement, ShipmentsReady
<1>2. /\ posted'[i] = posted[i] + Order!Delta(p)
      /\ \A j \in Items : posted[j] \in Int /\ posted'[j] \in Int
      /\ \A j \in Items : j # i => posted'[j] = posted[j]
  BY <1>1 DEF Order!PostMovement, ShipmentsReady
<1>3. Shipped' = Shipped + posted'[i] - posted[i]
  BY <1>1, <1>2, FiniteAssumption, SumOfChanged DEF Shipped
<1>4. Shipped \in Int
  BY <1>2, FiniteAssumption, SumIsInteger DEF Shipped
<1> HIDE DEF i
<1> QED
  BY <1>1, <1>2, <1>3, <1>4

(* The sums of Transfer are those of the stock here.                       *)
LEMMA SameSums ==
  ASSUME NEW f, NEW S
  PROVE  Stock!SumFunctionOnSet(f, S) = SumFunctionOnSet(f, S)
<1>1. Stock!SumFunctionOnSet(f, S) = (CHOOSE g : Adds(g, f, SUBSET S))[S]
  BY DEF Stock!SumFunctionOnSet, Stock!FoldFunctionOnSet, Stock!MapThenFoldSet, Adds, First
<1> QED
  BY <1>1, SumIs

LEMMA StockSums ==
  /\ Stock!Total = SumFunctionOnSet(quantity, Locations)
  /\ Stock!OnTheWay =
       SumFunctionOnSet([p \in Stock!Carrying |-> job[p].qty], Stock!Carrying)
  /\ Stock!Total' = SumFunctionOnSet(quantity', Locations)
  /\ Stock!OnTheWay' =
       SumFunctionOnSet([p \in Stock!Carrying' |-> job'[p].qty], Stock!Carrying')
BY SameSums DEF Stock!Total, Stock!OnTheWay

(* The stock starts empty, with nothing moved. *)
LEMMA StockStarts == Init => StockInv
<1> SUFFICES ASSUME Init PROVE StockInv
  OBVIOUS
<1>1. /\ quantity = [l \in Locations |-> 0]
      /\ brought + returned - Shipped = 0
      /\ leg = [p \in Procs |-> "idle"]
      /\ job = [p \in Procs |-> <<>>]
      /\ lost = 0
  BY DEF Init, Stock!Init
<1>2. Stock!Total = 0
  BY <1>1, FiniteAssumption, SumOfZeros, StockSums
<1>3. Stock!Carrying = {}
  BY <1>1 DEF Stock!Carrying
<1>4. Stock!OnTheWay = 0
  BY <1>3, SumOfNone, StockSums
<1>5. Stock!TypeOK
  BY <1>1, BoundsAssumption DEF Stock!TypeOK
<1> QED
  BY <1>1, <1>2, <1>4, <1>5 DEF StockInv, UnitsAccountedFor, Stock!UnitsAccountedFor

(* What a movement does to the total. *)
LEMMA TotalMoves ==
  ASSUME quantity \in [Locations -> 0..MaxStock], NEW l \in Locations, NEW d \in Int,
         Stock!Post(l, d)
  PROVE  /\ quantity' \in [Locations -> 0..MaxStock]
         /\ Stock!Total' = Stock!Total + d
         /\ Stock!Total \in Int
<1>1. /\ quantity'[l] = quantity[l] + d
      /\ \A k \in Locations : quantity[k] \in Int /\ quantity'[k] \in Int
      /\ \A k \in Locations : k # l => quantity'[k] = quantity[k]
      /\ quantity' \in [Locations -> 0..MaxStock]
  BY BoundsAssumption DEF Stock!Post
<1>2. Stock!Total' = Stock!Total + quantity'[l] - quantity[l]
  BY <1>1, FiniteAssumption, SumOfChanged, StockSums
<1>3. Stock!Total \in Int
  BY <1>1, FiniteAssumption, SumIsInteger, StockSums
<1> QED
  BY <1>1, <1>2, <1>3

(* What is known of the transfers under way. *)
LEMMA Carried ==
  ASSUME StockInv
  PROVE  /\ IsFiniteSet(Stock!Carrying)
         /\ \A p \in Stock!Carrying :
              job[p].qty \in Int /\ [q \in Stock!Carrying |-> job[q].qty][p] \in Int
         /\ Stock!OnTheWay \in Int
<1>1. IsFiniteSet(Stock!Carrying)
  BY FiniteAssumption, FS_Subset DEF Stock!Carrying
<1>2. \A p \in Stock!Carrying :
        job[p].qty \in Int /\ [q \in Stock!Carrying |-> job[q].qty][p] \in Int
  BY DEF StockInv, Stock!TypeOK, Stock!Carrying, Stock!Jobs
<1> QED
  BY <1>1, <1>2, SumIsInteger, StockSums

(* A transfer begins, or ends. *)
LEMMA TransferBegins ==
  ASSUME StockInv, NEW p \in Procs, NEW j \in Stock!Jobs, leg[p] = "idle",
         leg' = [leg EXCEPT ![p] = "in"], job' = [job EXCEPT ![p] = j]
  PROVE  /\ leg' \in [Procs -> {"idle", "in", "compensate"}]
         /\ job' \in [Procs -> Stock!Jobs \cup {<<>>}]
         /\ \A q \in Procs : leg'[q] # "idle" => job'[q] \in Stock!Jobs
         /\ Stock!OnTheWay' = Stock!OnTheWay + j.qty
<1>1. /\ leg \in [Procs -> {"idle", "in", "compensate"}]
      /\ job \in [Procs -> Stock!Jobs \cup {<<>>}]
      /\ \A q \in Procs : leg[q] # "idle" => job[q] \in Stock!Jobs
  BY DEF StockInv, Stock!TypeOK
<1>2. Stock!Carrying' = Stock!Carrying \cup {p} /\ p \notin Stock!Carrying
  BY <1>1 DEF Stock!Carrying
<1>3. /\ \A q \in Stock!Carrying : job'[q].qty = job[q].qty
      /\ job'[p].qty = j.qty /\ j.qty \in Int
  BY <1>1, <1>2 DEF Stock!Carrying, Stock!Jobs
<1> DEFINE f == [q \in Stock!Carrying |-> job[q].qty]
           g == [q \in Stock!Carrying' |-> job'[q].qty]
<1>4. /\ \A q \in Stock!Carrying : f[q] \in Int /\ g[q] = f[q]
      /\ g[p] \in Int /\ g[p] = j.qty
  BY <1>2, <1>3, Carried
<1>5. Stock!OnTheWay' = Stock!OnTheWay + g[p]
  <2>1. Stock!OnTheWay = SumFunctionOnSet(f, Stock!Carrying)
        /\ Stock!OnTheWay' = SumFunctionOnSet(g, Stock!Carrying')
    BY StockSums
  <2> HIDE DEF f, g
  <2> QED
    BY <1>2, <1>4, <2>1, Carried, SumOfJoined
<1>6. /\ leg' \in [Procs -> {"idle", "in", "compensate"}]
      /\ job' \in [Procs -> Stock!Jobs \cup {<<>>}]
      /\ \A q \in Procs : leg'[q] # "idle" => job'[q] \in Stock!Jobs
  BY <1>1
<1> QED
  BY <1>4, <1>5, <1>6

LEMMA TransferEnds ==
  ASSUME StockInv, NEW p \in Procs, leg[p] # "idle", Stock!Done(p)
  PROVE  /\ leg' \in [Procs -> {"idle", "in", "compensate"}]
         /\ job' \in [Procs -> Stock!Jobs \cup {<<>>}]
         /\ \A q \in Procs : leg'[q] # "idle" => job'[q] \in Stock!Jobs
         /\ Stock!OnTheWay' = Stock!OnTheWay - job[p].qty
<1>1. /\ leg \in [Procs -> {"idle", "in", "compensate"}]
      /\ job \in [Procs -> Stock!Jobs \cup {<<>>}]
      /\ \A q \in Procs : leg[q] # "idle" => job[q] \in Stock!Jobs
  BY DEF StockInv, Stock!TypeOK
<1>2. leg' = [leg EXCEPT ![p] = "idle"] /\ job' = [job EXCEPT ![p] = <<>>]
  BY DEF Stock!Done, Stock!Goto
<1>3. Stock!Carrying' = Stock!Carrying \ {p} /\ p \in Stock!Carrying
  BY <1>1, <1>2 DEF Stock!Carrying
<1> DEFINE f == [q \in Stock!Carrying |-> job[q].qty]
           g == [q \in Stock!Carrying' |-> job'[q].qty]
<1>4. /\ \A q \in Stock!Carrying : q # p => g[q] = f[q]
      /\ \A q \in Stock!Carrying : f[q] \in Int
      /\ f[p] = job[p].qty
  BY <1>1, <1>2, <1>3, Carried DEF Stock!Carrying
<1>5. Stock!OnTheWay' = Stock!OnTheWay - f[p]
  <2>1. Stock!OnTheWay = SumFunctionOnSet(f, Stock!Carrying)
        /\ Stock!OnTheWay' = SumFunctionOnSet(g, Stock!Carrying')
    BY StockSums
  <2> HIDE DEF f, g
  <2> QED
    BY <1>3, <1>4, <2>1, Carried, SumOfLeft
<1>6. /\ leg' \in [Procs -> {"idle", "in", "compensate"}]
      /\ job' \in [Procs -> Stock!Jobs \cup {<<>>}]
      /\ \A q \in Procs : leg'[q] # "idle" => job'[q] \in Stock!Jobs
  BY <1>1, <1>2
<1> QED
  BY <1>4, <1>5, <1>6

(* Every step of Transfer accounts for the units it moves. *)
LEMMA StockStep == StockInv /\ [Stock!Next]_(Stock!vars) => StockInv'
<1> SUFFICES ASSUME StockInv, [Stock!Next]_(Stock!vars) PROVE StockInv'
  OBVIOUS
<1> DEFINE moved == brought + returned - Shipped
<1>0. /\ quantity \in [Locations -> 0..MaxStock] /\ moved \in Int
      /\ lost \in -MaxLost..MaxLost
      /\ leg \in [Procs -> {"idle", "in", "compensate"}]
      /\ job \in [Procs -> Stock!Jobs \cup {<<>>}]
      /\ \A q \in Procs : leg[q] # "idle" => job[q] \in Stock!Jobs
  BY DEF StockInv, Stock!TypeOK
<1>0a. /\ Stock!Total \in Int /\ Stock!OnTheWay \in Int /\ lost \in Int
       /\ Stock!Total + Stock!OnTheWay + lost = moved
  <2>1. Stock!Total \in Int
    BY <1>0, FiniteAssumption, SumIsInteger, StockSums
  <2>2. Stock!Total + Stock!OnTheWay + lost = moved
    BY DEF StockInv, UnitsAccountedFor, Stock!UnitsAccountedFor
  <2>3. lost \in Int
    BY <1>0, BoundsAssumption
  <2> HIDE DEF moved
  <2> QED
    BY <2>1, <2>2, <2>3, Carried
<1>1. ASSUME /\ quantity' \in [Locations -> 0..MaxStock] /\ moved' \in Int
             /\ lost' \in -MaxLost..MaxLost
             /\ leg' \in [Procs -> {"idle", "in", "compensate"}]
             /\ job' \in [Procs -> Stock!Jobs \cup {<<>>}]
             /\ \A q \in Procs : leg'[q] # "idle" => job'[q] \in Stock!Jobs
             /\ Stock!Total' + Stock!OnTheWay' + lost' = moved'
      PROVE  StockInv'
  BY <1>1 DEF StockInv, Stock!TypeOK, UnitsAccountedFor, Stock!UnitsAccountedFor, Stock!Jobs
<1> HIDE DEF moved
<1>2. UNCHANGED <<leg, job>> => Stock!OnTheWay' = Stock!OnTheWay
  BY DEF Stock!OnTheWay, Stock!Carrying
<1>3. UNCHANGED quantity => Stock!Total' = Stock!Total
  BY DEF Stock!Total
<1>4. ASSUME NEW l \in Locations, NEW d \in Int, Stock!Move(l, d) PROVE StockInv'
  <2>1. Stock!Post(l, d) /\ moved' = moved + d /\ UNCHANGED <<leg, job, lost>>
    BY <1>4 DEF Stock!Move, moved
  <2>2. quantity' \in [Locations -> 0..MaxStock] /\ Stock!Total' = Stock!Total + d
    BY <1>0, <2>1, TotalMoves
  <2>3. Stock!Total' + Stock!OnTheWay' + lost' = moved'
    BY <1>0a, <1>2, <2>1, <2>2
  <2> QED
    BY <1>0, <1>1, <2>1, <2>2, <2>3
<1>5. ASSUME NEW p \in Procs, NEW j \in Stock!Jobs, Stock!TransferOut(p, j) PROVE StockInv'
  <2>1. /\ leg[p] = "idle" /\ Stock!Post(j.from, -j.qty) /\ j.from \in Locations /\ j.qty \in Int
        /\ leg' = [leg EXCEPT ![p] = "in"] /\ job' = [job EXCEPT ![p] = j]
        /\ moved' = moved /\ lost' = lost
    BY <1>5 DEF Stock!TransferOut, Stock!Goto, Stock!Jobs, moved
  <2>2. /\ quantity' \in [Locations -> 0..MaxStock]
        /\ Stock!Total' = Stock!Total + (-j.qty)
    BY <1>0, <2>1, TotalMoves
  <2>3. Stock!OnTheWay' = Stock!OnTheWay + j.qty
    BY <2>1, TransferBegins
  <2>4. Stock!Total' + Stock!OnTheWay' + lost' = moved'
    BY <1>0a, <2>1, <2>2, <2>3
  <2> QED
    BY <1>0, <1>1, <2>1, <2>2, <2>4, TransferBegins
<1>6. ASSUME NEW p \in Procs, NEW j \in Stock!Jobs, Stock!OutLost(p, j) PROVE StockInv'
  <2>1. /\ leg[p] = "idle" /\ j.qty \in Int /\ j.qty > 0
        /\ leg' = [leg EXCEPT ![p] = "in"] /\ job' = [job EXCEPT ![p] = j]
        /\ moved' = moved /\ lost' = lost - j.qty /\ lost - j.qty >= -MaxLost
        /\ quantity' = quantity
    BY <1>6, BoundsAssumption DEF Stock!OutLost, Stock!Goto, Stock!Jobs, moved
  <2>2. Stock!OnTheWay' = Stock!OnTheWay + j.qty
    BY <2>1, TransferBegins
  <2>3. Stock!Total' + Stock!OnTheWay' + lost' = moved'
    BY <1>0a, <1>3, <2>1, <2>2
  <2>4. lost' \in -MaxLost..MaxLost
    BY <1>0, <2>1, BoundsAssumption
  <2> QED
    BY <1>0, <1>1, <2>1, <2>3, <2>4, TransferBegins
<1>7. ASSUME NEW p \in Procs, leg[p] # "idle", NEW l \in Locations,
             Stock!Post(l, job[p].qty), Stock!Done(p), moved' = moved, lost' = lost
      PROVE  StockInv'
  <2>1. job[p].qty \in Int
    BY <1>0, <1>7 DEF Stock!Jobs
  <2>2. quantity' \in [Locations -> 0..MaxStock] /\ Stock!Total' = Stock!Total + job[p].qty
    BY <1>0, <1>7, <2>1, TotalMoves
  <2>3. Stock!OnTheWay' = Stock!OnTheWay - job[p].qty
    BY <1>7, TransferEnds
  <2>4. Stock!Total' + Stock!OnTheWay' + lost' = moved'
    BY <1>0a, <1>7, <2>1, <2>2, <2>3
  <2> QED
    BY <1>0, <1>1, <1>7, <2>2, <2>4, TransferEnds
<1>8. ASSUME NEW p \in Procs, Stock!TransferIn(p) \/ Stock!Compensate(p) PROVE StockInv'
  <2>1. leg[p] # "idle" /\ Stock!Done(p) /\ moved' = moved /\ lost' = lost
    BY <1>8 DEF Stock!TransferIn, Stock!Compensate, moved
  <2>2. job[p].to \in Locations /\ job[p].from \in Locations
    BY <1>0, <2>1 DEF Stock!Jobs
  <2>3. Stock!Post(job[p].to, job[p].qty) \/ Stock!Post(job[p].from, job[p].qty)
    BY <1>8 DEF Stock!TransferIn, Stock!Compensate
  <2> QED
    BY <1>7, <2>1, <2>2, <2>3
<1>9. ASSUME NEW p \in Procs,
             Stock!InLost(p) \/ Stock!CompensationFails(p) \/ Stock!Crash(p)
      PROVE  StockInv'
  <2>1. /\ leg[p] # "idle" /\ Stock!Done(p) /\ moved' = moved
        /\ lost' = lost + job[p].qty /\ lost + job[p].qty <= MaxLost /\ quantity' = quantity
    BY <1>9 DEF Stock!InLost, Stock!CompensationFails, Stock!Crash, Stock!Lose, moved
  <2>2. job[p].qty \in Int /\ job[p].qty > 0
    BY <1>0, <2>1, BoundsAssumption DEF Stock!Jobs
  <2>3. Stock!OnTheWay' = Stock!OnTheWay - job[p].qty
    BY <2>1, TransferEnds
  <2>4. Stock!Total' + Stock!OnTheWay' + lost' = moved'
    BY <1>0a, <1>3, <2>1, <2>2, <2>3
  <2>5. lost' \in -MaxLost..MaxLost
    BY <1>0, <2>1, <2>2, BoundsAssumption
  <2> QED
    BY <1>0, <1>1, <2>1, <2>4, <2>5, TransferEnds
<1>10. ASSUME NEW p \in Procs, Stock!TransferInFails(p) PROVE StockInv'
  <2>1. /\ leg[p] = "in" /\ leg' = [leg EXCEPT ![p] = "compensate"]
        /\ UNCHANGED <<quantity, job, lost>> /\ moved' = moved
    BY <1>10 DEF Stock!TransferInFails, Stock!Goto, moved
  <2>2. Stock!Carrying' = Stock!Carrying
    BY <1>0, <2>1 DEF Stock!Carrying
  <2>3. Stock!OnTheWay' = Stock!OnTheWay
    BY <2>1, <2>2 DEF Stock!OnTheWay
  <2> QED
    BY <1>0, <1>0a, <1>1, <1>3, <2>1, <2>3
<1>11. CASE UNCHANGED Stock!vars
  <2>1. UNCHANGED <<quantity, leg, job, lost>> /\ moved' = moved
    BY <1>11 DEF Stock!vars, moved
  <2> QED
    BY <1>0, <1>0a, <1>1, <1>2, <1>3, <2>1
<1>12. \A n \in 1..MaxStock : n \in Int /\ -n \in Int
  OBVIOUS
<1> QED
  BY <1>4, <1>5, <1>6, <1>8, <1>9, <1>10, <1>11, <1>12 DEF Stock!Next

-----------------------------------------------------------------------------
(* The returns.                                                            *)

LEMMA ReturnsStart == Init => ReturnsInv
<1> SUFFICES ASSUME Init PROVE ReturnsInv
  OBVIOUS
<1>1. /\ returned = 0 /\ recorded = 0 /\ absent = 0
      /\ return = [p \in Procs |-> NoReturn]
  BY DEF Init
<1>2. Pending("post") = 0 /\ Pending("record") = 0
  BY <1>1, FiniteAssumption, SumOfZeros DEF Pending, NoReturn
<1> QED
  BY <1>1, <1>2, BoundsAssumption DEF ReturnsInv, Returns, NoReturn, RecordedWasReturned

(* Units of the return of p, when k is its next commit. *)
Weight(r, k) == IF r.next = k THEN r.qty ELSE 0

(* A return that takes another step changes the sums by its own units. *)
LEMMA PendingChanges ==
  ASSUME return \in [Procs -> Returns], NEW p \in Procs, NEW r \in Returns,
         return' = [return EXCEPT ![p] = r], NEW k
  PROVE  /\ Pending(k)' = Pending(k) + Weight(r, k) - Weight(return[p], k)
         /\ Pending(k) \in Nat /\ Pending(k)' \in Nat
         /\ Weight(r, k) \in Nat /\ Weight(return[p], k) \in Nat
<1> DEFINE f == [q \in Procs |-> IF return[q].next = k THEN return[q].qty ELSE 0]
           g == [q \in Procs |-> IF return'[q].next = k THEN return'[q].qty ELSE 0]
<1>1. /\ \A q \in Procs : f[q] \in Nat /\ g[q] \in Nat
      /\ \A q \in Procs : q # p => g[q] = f[q]
      /\ g[p] = Weight(r, k) /\ f[p] = Weight(return[p], k)
  BY BoundsAssumption DEF Weight, Returns
<1>2. Pending(k) = SumFunctionOnSet(f, Procs) /\ Pending(k)' = SumFunctionOnSet(g, Procs)
  BY DEF Pending
<1> HIDE DEF f, g
<1>3. Pending(k) \in Nat /\ Pending(k)' \in Nat
  BY <1>1, <1>2, FiniteAssumption, SumIsNatural
<1>4. Pending(k)' = Pending(k) + g[p] - f[p]
  BY <1>1, <1>2, FiniteAssumption, SumOfChanged
<1> QED
  BY <1>1, <1>3, <1>4

LEMMA PendingAsked ==
  ASSUME return \in [Procs -> Returns], NEW k
  PROVE  Pending(k) <= Asked /\ Asked \in Nat /\ Pending(k) \in Nat
<1> DEFINE f == [q \in Procs |-> IF return[q].next = k THEN return[q].qty ELSE 0]
           g == [q \in Procs |-> return[q].qty]
<1>1. \A q \in Procs : f[q] \in Nat /\ g[q] \in Nat /\ f[q] <= g[q]
  BY BoundsAssumption DEF Returns
<1>2. Pending(k) = SumFunctionOnSet(f, Procs) /\ Asked = SumFunctionOnSet(g, Procs)
  BY DEF Pending, Asked
<1> HIDE DEF f, g
<1> QED
  BY <1>1, <1>2, FiniteAssumption, SumIsNatural, SumOfLess

(* Every step of Dispatch keeps the returns. *)
LEMMA ReturnsStep == ReturnsInv /\ [Next]_vars => ReturnsInv'
<1> SUFFICES ASSUME ReturnsInv, [Next]_vars PROVE ReturnsInv'
  OBVIOUS
<1>0. /\ returned \in Nat /\ returned <= MaxReturned /\ recorded \in Nat /\ absent \in Nat
      /\ return \in [Procs -> Returns]
      /\ \A p \in Procs : return[p] # NoReturn => return[p].next # "none" /\ return[p].qty > 0
      /\ returned + absent + Pending("post") <= MaxReturned
      /\ recorded + Pending("record") <= returned + absent
      /\ MaxReturned \in Nat
  BY BoundsAssumption DEF ReturnsInv, RecordedWasReturned
<1>1. ASSUME UNCHANGED returns PROVE ReturnsInv'
  BY <1>1 DEF returns, ReturnsInv, Pending, RecordedWasReturned
<1>2. ASSUME NEW p \in Procs, NEW r \in Returns, return' = [return EXCEPT ![p] = r],
             r # NoReturn => r.next # "none" /\ r.qty > 0,
             recorded' \in Nat, absent' \in Nat, returned' \in Nat,
             \/ returned' + absent' + Weight(r, "post")
                  <= returned + absent + Weight(return[p], "post")
             \/ /\ returned' = returned /\ absent' = absent
                /\ returned + absent + Asked + r.qty <= MaxReturned,
             recorded' + Weight(r, "record") + returned + absent
               <= recorded + Weight(return[p], "record") + returned' + absent'
      PROVE  ReturnsInv'
  <2>1. /\ Pending("post")' = Pending("post") + Weight(r, "post") - Weight(return[p], "post")
        /\ Pending("post") \in Nat /\ Pending("post")' \in Nat
        /\ Weight(r, "post") \in Nat /\ Weight(return[p], "post") \in Nat
    BY <1>0, <1>2, PendingChanges
  <2>2. /\ Pending("record")' =
             Pending("record") + Weight(r, "record") - Weight(return[p], "record")
        /\ Pending("record") \in Nat /\ Pending("record")' \in Nat
        /\ Weight(r, "record") \in Nat /\ Weight(return[p], "record") \in Nat
    BY <1>0, <1>2, PendingChanges
  <2>3. Pending("post") <= Asked /\ Asked \in Nat
    BY <1>0, PendingAsked
  <2>4. r.qty \in Nat /\ Weight(r, "post") <= r.qty
    BY BoundsAssumption DEF Returns, Weight
  <2>5. returned' + absent' + Pending("post")' <= MaxReturned
    BY <1>0, <1>2, <2>1, <2>3, <2>4
  <2>6. returned' \in 0..MaxReturned
    BY <1>0, <1>2, <2>1, <2>5
  <2>7. recorded' + Pending("record")' <= returned' + absent'
    BY <1>0, <1>2, <2>2
  <2>8. /\ return' \in [Procs -> Returns]
        /\ \A q \in Procs :
             return'[q] # NoReturn => return'[q].next # "none" /\ return'[q].qty > 0
    BY <1>0, <1>2
  <2> QED
    BY <1>2, <2>5, <2>6, <2>7, <2>8 DEF ReturnsInv, RecordedWasReturned
<1>3. NoReturn \in Returns /\ Weight(NoReturn, "post") = 0 /\ Weight(NoReturn, "record") = 0
  BY BoundsAssumption DEF NoReturn, Returns, Weight
<1>4. ASSUME NEW p \in Procs
      PROVE  /\ return[p] \in Returns /\ return[p].qty \in Nat
             /\ Weight(return[p], "post") \in Nat /\ Weight(return[p], "record") \in Nat
  BY <1>0, BoundsAssumption DEF Returns, Weight
<1>5. ASSUME NEW p \in Procs, NEW n \in 1..MaxReturned, StartReturn(p, n) PROVE ReturnsInv'
  <2>0. PICK r : r = [next |-> "post", qty |-> n]
    OBVIOUS
  <2>1. /\ r \in Returns /\ r.next # "none" /\ r.qty > 0 /\ r.qty = n
        /\ Weight(r, "record") = 0
    BY <1>0, <2>0 DEF Returns, Weight
  <2>2. /\ return' = [return EXCEPT ![p] = r]
        /\ UNCHANGED <<returned, recorded, absent>>
        /\ returned + absent + Asked + n <= MaxReturned
    BY <1>5, <2>0 DEF StartReturn
  <2>3. recorded' + Weight(r, "record") + returned + absent
          <= recorded + Weight(return[p], "record") + returned' + absent'
    BY <1>0, <1>4, <2>1, <2>2
  <2>4. returned + absent + Asked + r.qty <= MaxReturned
    BY <2>1, <2>2
  <2>5. recorded' \in Nat /\ absent' \in Nat /\ returned' \in Nat
    BY <1>0, <2>2
  <2> QED
    BY <1>2, <2>1, <2>2, <2>3, <2>4, <2>5
<1>6. ASSUME NEW p \in Procs, PostReturn(p) \/ ReturnLost(p) PROVE ReturnsInv'
  <2>0. PICK r : r = [next |-> "record", qty |-> return[p].qty]
    OBVIOUS
  <2>1. /\ return[p].next = "post"
        /\ return' = [return EXCEPT ![p] = [return[p] EXCEPT !.next = "record"]]
        /\ recorded' = recorded
        /\ \/ returned' = returned + return[p].qty /\ absent' = absent
           \/ absent' = absent + return[p].qty /\ returned' = returned
    BY <1>0, <1>6 DEF PostReturn, ReturnLost
  <2>2. return[p] # NoReturn
    BY <2>1 DEF NoReturn
  <2>3. r = [return[p] EXCEPT !.next = "record"]
    BY <1>4, <2>0 DEF Returns
  <2>4. /\ r \in Returns /\ r.next # "none" /\ r.qty > 0
        /\ return' = [return EXCEPT ![p] = r]
    BY <1>0, <1>4, <2>0, <2>1, <2>2, <2>3 DEF Returns
  <2>5. /\ Weight(r, "post") = 0 /\ Weight(r, "record") = return[p].qty
        /\ Weight(return[p], "post") = return[p].qty /\ Weight(return[p], "record") = 0
    BY <2>0, <2>1 DEF Weight
  <2>6. returned' + absent' + Weight(r, "post")
          <= returned + absent + Weight(return[p], "post")
    BY <1>0, <1>4, <2>1, <2>5
  <2>7. recorded' + Weight(r, "record") + returned + absent
          <= recorded + Weight(return[p], "record") + returned' + absent'
    BY <1>0, <1>4, <2>1, <2>5
  <2>8. recorded' \in Nat /\ absent' \in Nat /\ returned' \in Nat
    BY <1>0, <1>4, <2>1
  <2> QED
    BY <1>2, <2>4, <2>6, <2>7, <2>8
<1>7. ASSUME NEW p \in Procs, RecordReturn(p) PROVE ReturnsInv'
  <2>1. /\ return[p].next = "record" /\ return' = [return EXCEPT ![p] = NoReturn]
        /\ recorded' = recorded + return[p].qty /\ UNCHANGED <<returned, absent>>
    BY <1>7 DEF RecordReturn
  <2>2. Weight(return[p], "record") = return[p].qty
    BY <2>1 DEF Weight
  <2>3. returned' + absent' + Weight(NoReturn, "post")
          <= returned + absent + Weight(return[p], "post")
    BY <1>0, <1>3, <1>4, <2>1
  <2>4. recorded' + Weight(NoReturn, "record") + returned + absent
          <= recorded + Weight(return[p], "record") + returned' + absent'
    BY <1>0, <1>3, <1>4, <2>1, <2>2
  <2>5. recorded' \in Nat /\ absent' \in Nat /\ returned' \in Nat
    BY <1>0, <1>4, <2>1
  <2> QED
    BY <1>2, <1>3, <2>1, <2>3, <2>4, <2>5
<1>8. ASSUME NEW p \in Procs, ReturnFails(p) \/ Restart(p) PROVE ReturnsInv'
  <2>1. /\ return' = [return EXCEPT ![p] = NoReturn]
        /\ UNCHANGED <<returned, recorded, absent>>
    BY <1>8 DEF ReturnFails, Restart
  <2>2. returned' + absent' + Weight(NoReturn, "post")
          <= returned + absent + Weight(return[p], "post")
    BY <1>0, <1>3, <1>4, <2>1
  <2>3. recorded' + Weight(NoReturn, "record") + returned + absent
          <= recorded + Weight(return[p], "record") + returned' + absent'
    BY <1>0, <1>3, <1>4, <2>1
  <2>4. recorded' \in Nat /\ absent' \in Nat /\ returned' \in Nat
    BY <1>0, <2>1
  <2> QED
    BY <1>2, <1>3, <2>1, <2>2, <2>3, <2>4
<1>9. ASSUME NEW p \in Procs,
             \/ OnScreen(p) \/ MarkConfirmed(p) \/ Ship(p) \/ ShipmentLost(p)
             \/ ShipmentFails(p) \/ WriteShipped(p) \/ UpdateStatus(p) \/ TransferStep(p)
      PROVE  UNCHANGED returns
  BY <1>9
  DEF OnScreen, MarkConfirmed, Ship, ShipmentLost, ShipmentFails, WriteShipped,
      UpdateStatus, TransferStep
<1>10. ASSUME NEW l \in Locations, NEW n \in 1..MaxStock, OtherMove(l, n) \/ OtherMove(l, -n)
       PROVE  UNCHANGED returns
  BY <1>10 DEF OtherMove
<1>11. CASE UNCHANGED vars
  BY <1>1, <1>11 DEF vars, returns
<1> QED
  BY <1>1, <1>5, <1>6, <1>7, <1>8, <1>9, <1>10, <1>11 DEF Next

-----------------------------------------------------------------------------
(* Dispatch implements Transfer.                                           *)

(* Steps that leave the stock and every movement alone. *)
LEMMA StockUntouched ==
  ASSUME UNCHANGED <<stock, brought, returned, posted>>
  PROVE  UNCHANGED Stock!vars
BY DEF stock, Stock!vars, Shipped

(* Every step of Dispatch is a step of the stock or leaves it alone.       *)
LEMMA StepOfStock ==
  ShipmentsReady /\ StockInv /\ ReturnsInv /\ [Next]_vars => [Stock!Next]_(Stock!vars)
<1> SUFFICES ASSUME ShipmentsReady, StockInv, ReturnsInv, [Next]_vars
             PROVE  Stock!Next \/ UNCHANGED Stock!vars
  OBVIOUS
<1>0. /\ quantity \in [Locations -> 0..MaxStock]
      /\ return \in [Procs -> Returns]
      /\ \A p \in Procs : return[p] # NoReturn => return[p].qty > 0
  BY DEF StockInv, Stock!TypeOK, ReturnsInv
<1>1. ASSUME NEW d \in Int, d # 0, Stock!Move(Dock, d) PROVE Stock!Next
  <2>1. quantity[Dock] \in 0..MaxStock /\ quantity[Dock] + d \in 0..MaxStock
    BY <1>0, <1>1, DockAssumption DEF Stock!Move, Stock!Post
  <2>2. d \in 1..MaxStock \/ (-d \in 1..MaxStock /\ d = -(-d))
    BY <1>1, <2>1, BoundsAssumption
  <2>3. \E n \in 1..MaxStock : Stock!Move(Dock, n) \/ Stock!Move(Dock, -n)
    <3>1. CASE d \in 1..MaxStock
      BY <1>1, <3>1
    <3>2. CASE -d \in 1..MaxStock /\ d = -(-d)
      <4>1. PICK n \in 1..MaxStock : d = -n
        BY <3>2
      <4> QED
        BY <1>1, <4>1
    <3> QED
      BY <2>2, <3>1, <3>2
  <2> QED
    BY <2>3, DockAssumption DEF Stock!Next
<1>2. ASSUME NEW p \in Procs,
             \/ OnScreen(p) \/ MarkConfirmed(p) \/ ShipmentLost(p) \/ ShipmentFails(p)
             \/ WriteShipped(p) \/ UpdateStatus(p)
      PROVE  UNCHANGED <<stock, brought, returned, posted>>
  <2>1. UNCHANGED <<stock, brought, returned>>
    BY <1>2
    DEF OnScreen, MarkConfirmed, ShipmentLost, ShipmentFails, WriteShipped, UpdateStatus,
        returns
  <2>2. posted' = posted
    BY <1>2
    DEF OnScreen, MarkConfirmed, ShipmentLost, ShipmentFails, WriteShipped, UpdateStatus,
        Order!ShowOrder, Order!OpenReceipt, Order!AddItem, Order!CancelReceipt,
        Order!Confirm, Order!MarkOrdered, Order!MovementLost, Order!ReceiptFails,
        Order!WriteReceived, Order!ReadLines, Order!WriteStatus, Order!tables
  <2> QED
    BY <2>1, <2>2
<1>3. ASSUME NEW p \in Procs, Ship(p) PROVE Stock!Next
  <2>1. pc[p] = "post" /\ Stock!Move(Dock, -Order!Delta(p))
    BY <1>3 DEF Ship, Order!PostMovement
  <2>2. Order!Delta(p) \in Nat \ {0}
    BY <2>1 DEF ShipmentsReady
  <2>3. -Order!Delta(p) \in Int /\ -Order!Delta(p) # 0
    BY <2>2
  <2> QED
    BY <1>1, <2>1, <2>3
<1>4. ASSUME NEW p \in Procs, PostReturn(p) PROVE Stock!Next
  <2>1. return[p].next = "post" /\ Stock!Move(Dock, return[p].qty)
    BY <1>4 DEF PostReturn
  <2>2. return[p].qty \in Int /\ return[p].qty # 0
    BY <1>0, <2>1, BoundsAssumption DEF Returns, NoReturn
  <2> QED
    BY <1>1, <2>1, <2>2
<1>5. ASSUME NEW p \in Procs,
             \/ \E n \in 1..MaxReturned : StartReturn(p, n)
             \/ ReturnLost(p) \/ RecordReturn(p) \/ ReturnFails(p)
      PROVE  UNCHANGED <<stock, brought, returned, posted>>
  BY <1>5 DEF StartReturn, ReturnLost, RecordReturn, ReturnFails, orders
<1>6. ASSUME NEW p \in Procs, TransferStep(p) PROVE Stock!Next
  BY <1>6 DEF TransferStep, Stock!Next
<1>7. ASSUME NEW p \in Procs, Restart(p) PROVE Stock!Next \/ UNCHANGED Stock!vars
  <2>1. UNCHANGED <<brought, returned, posted>>
    BY <1>7 DEF Restart, Order!Restart, Order!tables
  <2>2. CASE leg[p] = "idle"
    BY <1>7, <2>1, <2>2, StockUntouched DEF Restart
  <2>3. CASE leg[p] # "idle"
    BY <1>7, <2>3 DEF Restart, Stock!Next
  <2> QED
    BY <2>2, <2>3
<1>8. ASSUME NEW l \in Locations, NEW n \in 1..MaxStock, OtherMove(l, n) \/ OtherMove(l, -n)
      PROVE  Stock!Next
  BY <1>8 DEF OtherMove, Stock!Next
<1>9. CASE UNCHANGED vars
  BY <1>9, StockUntouched DEF vars, returns, orders
<1> QED
  BY <1>2, <1>3, <1>4, <1>5, <1>6, <1>7, <1>8, <1>9, StockUntouched DEF Next

(* The stock, the orders and the returns keep their invariants together:   *)
(* each step of Dispatch is a step of Transfer because of the other two.   *)
LEMMA DispatchInvariant == Spec => [](StockInv /\ ReturnsInv)
<1>1. Init => StockInv /\ ReturnsInv
  BY StockStarts, ReturnsStart
<1>2. ShipmentsReady /\ (StockInv /\ ReturnsInv) /\ [Next]_vars => (StockInv /\ ReturnsInv)'
  BY StepOfStock, StockStep, ReturnsStep
<1> QED
  BY <1>1, <1>2, OrdersHold, PTL DEF Spec

(* The types of the orders, of the stock and of the returns.               *)
THEOREM DispatchTypeCorrect == Spec => []TypeOK
<1>1. Init => brought \in Int
  BY DEF Init
<1>2. brought \in Int /\ [Next]_vars => (brought \in Int)'
  <2> SUFFICES ASSUME brought \in Int, [Next]_vars PROVE (brought \in Int)'
    OBVIOUS
  <2>1. ASSUME NEW l \in Locations, NEW n \in 1..MaxStock, OtherMove(l, n) \/ OtherMove(l, -n)
        PROVE  (brought \in Int)'
    BY <2>1 DEF OtherMove
  <2>2. ASSUME NEW p \in Procs,
               \/ OnScreen(p) \/ MarkConfirmed(p) \/ Ship(p) \/ ShipmentLost(p)
               \/ ShipmentFails(p) \/ WriteShipped(p) \/ UpdateStatus(p)
               \/ \E n \in 1..MaxReturned : StartReturn(p, n)
               \/ PostReturn(p) \/ ReturnLost(p) \/ RecordReturn(p) \/ ReturnFails(p)
               \/ TransferStep(p) \/ Restart(p)
        PROVE  brought' = brought
    BY <2>2
    DEF OnScreen, MarkConfirmed, Ship, ShipmentLost, ShipmentFails, WriteShipped,
        UpdateStatus, StartReturn, PostReturn, ReturnLost, RecordReturn, ReturnFails,
        TransferStep, Restart
  <2>3. CASE UNCHANGED vars
    BY <2>3 DEF vars
  <2> QED
    BY <2>1, <2>2, <2>3 DEF Next
<1>3. Order!TypeOK /\ StockInv /\ ReturnsInv /\ brought \in Int => TypeOK
  BY DEF StockInv, ReturnsInv, TypeOK
<1> QED
  BY <1>1, <1>2, <1>3, OrdersHold, DispatchInvariant, PTL DEF Spec

(* However shipments, returns, transfers and other movements cross, fail   *)
(* or stop half way, every unit is in a location, on its way, lost by a    *)
(* transfer cut short, or was shipped.                                     *)
THEOREM UnitsConserved == Spec => []UnitsAccountedFor
<1>1. StockInv => UnitsAccountedFor
  BY DEF StockInv
<1> QED
  BY <1>1, DispatchInvariant, PTL

(* However often returns fail or instances stop, what the returns record   *)
(* was put back into stock, or was lost by a COMMIT.                       *)
THEOREM ReturnsArePosted == Spec => []RecordedWasReturned
<1>1. ReturnsInv => RecordedWasReturned
  BY DEF ReturnsInv
<1> QED
  BY <1>1, DispatchInvariant, PTL

(* What dispatch orders, returns and transfers do to the stock is what     *)
(* Transfer allows.                                                        *)
THEOREM DispatchImplementsStock == Spec => ImplementsStock
<1>1. Init => Stock!Init
  BY DEF Init
<1> QED
  BY <1>1, StepOfStock, OrdersHold, DispatchInvariant, PTL DEF Spec, ImplementsStock, Stock!Spec
=============================================================================
