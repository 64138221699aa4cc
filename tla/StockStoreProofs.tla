-------------------------- MODULE StockStoreProofs --------------------------
EXTENDS StockStore, SequenceTheorems, TLAPS

(* Every call record the actions store is a call: the products and         *)
(* locations NoCall and CallOn choose exist.                               *)
LEMMA CallRecords ==
  /\ NoCall \in Calls
  /\ \A kind \in Kinds, pr \in Products : CallOn(kind, pr) \in Calls
<1>1. (CHOOSE l \in Locations : TRUE) \in Locations
  BY ExistenceAssumption
<1>2. (CHOOSE pr \in Products : TRUE) \in Products
  BY ExistenceAssumption
<1>3. \A kind \in Kinds, pr \in Products : CallOn(kind, pr) \in Calls
  BY <1>1 DEF CallOn, Calls
<1> QED
  BY <1>2, <1>3 DEF NoCall, Kinds

(* What the statements write keeps the shape of the tables. *)
LEMMA AddedType ==
  ASSUME NEW rows \in Rows, NEW c \in Calls
  PROVE  Added(rows, c) \in Rows
BY DEF Added, Rows, Calls

(* Deleting the rows of a product keeps the shape of the others. *)
LEMMA ClearedType ==
  ASSUME NEW rows \in Rows, NEW c \in Calls
  PROVE  Cleared(rows, c) \in Rows
BY DEF Cleared, Rows, Calls, Zero

(* The indices of an array, and what its slots are. *)
LEMMA SlotTypes ==
  ASSUME NEW s \in Seq(ProductSlots)
  PROVE  /\ DOMAIN s = 1 .. Len(s) /\ Len(s) \in Nat
         /\ \A i \in DOMAIN s : /\ i \in Int
                               /\ s[i] \in ProductSlots
                               /\ s[i].product \in Products
<1>1. DOMAIN s = 1 .. Len(s) /\ Len(s) \in Nat /\ s \in [1 .. Len(s) -> ProductSlots]
  BY LenProperties
<1>2. \A i \in 1 .. Len(s) : s[i] \in ProductSlots
  BY <1>1
<1>3. \A e \in ProductSlots : e.product \in Products
  BY DEF ProductSlots
<1>4. \A i \in 1 .. Len(s) : i \in Int
  BY <1>1
<1> QED
  BY <1>1, <1>2, <1>3, <1>4

(* Refreshing a total leaves the array its slots: only the rows behind the *)
(* total of the product change.                                            *)
LEMMA RefreshedSlots ==
  ASSUME NEW s \in Seq(ProductSlots), NEW pr \in Products, db \in Tables
  PROVE  /\ Refreshed(s, pr) \in Seq(ProductSlots)
         /\ DOMAIN Refreshed(s, pr) = DOMAIN s
         /\ \A i \in DOMAIN s :
              /\ Refreshed(s, pr)[i].product = s[i].product
              /\ s[i].product # pr => Refreshed(s, pr)[i] = s[i]
<1>1. DOMAIN s = 1 .. Len(s) /\ Len(s) \in Nat /\ \A i \in DOMAIN s : s[i] \in ProductSlots
  BY SlotTypes
<1>2. [product |-> pr, rows |-> db.quantity[pr]] \in ProductSlots
  BY DEF ProductSlots, Tables, Rows
<1>3. \A i : IsFirst(s, pr, i) => i \in DOMAIN s /\ s[i].product = pr
  BY DEF IsFirst, SlotsOf
<1>4. Refreshed(s, pr) \in [1 .. Len(s) -> ProductSlots]
  BY <1>1, <1>2 DEF Refreshed
<1>5. Refreshed(s, pr) \in Seq(ProductSlots)
  BY <1>1, <1>4, SeqDef
<1> QED
  BY <1>1, <1>3, <1>5 DEF Refreshed

(* The slots left after a removal are slots of the array, and when the     *)
(* product had one slot only, none of them is of the product.              *)
LEMMA RemovedSlots ==
  ASSUME NEW s \in Seq(ProductSlots), NEW pr \in Products
  PROVE  /\ Removed(s, pr) \in Seq(ProductSlots)
         /\ \A i \in DOMAIN Removed(s, pr) : \E k \in DOMAIN s : Removed(s, pr)[i] = s[k]
         /\ ~ListedTwice(s, pr) => ~Listed(Removed(s, pr), pr)
<1>1. DOMAIN s = 1 .. Len(s) /\ Len(s) \in Nat /\ \A i \in DOMAIN s : s[i] \in ProductSlots
  BY SlotTypes
<1>2. CASE ~Listed(s, pr)
  BY <1>2 DEF Removed
<1>3. CASE Listed(s, pr)
  <2> DEFINE r == [i \in 1 .. Len(s) - 1 |-> IF IsFirst(s, pr, i) THEN s[Len(s)] ELSE s[i]]
  <2>1. Removed(s, pr) = r
    BY <1>3 DEF Removed
  <2>2. PICK k \in DOMAIN s : s[k].product = pr
    BY <1>3 DEF Listed, SlotsOf
  <2>3. Len(s) - 1 \in Nat /\ Len(s) \in DOMAIN s
    BY <1>1, <2>2
  <2>4. \A i \in 1 .. Len(s) - 1 : i \in DOMAIN s /\ i # Len(s)
    <3>1. \A n \in Nat : \A i \in 1 .. n - 1 : i \in 1 .. n /\ i # n
      OBVIOUS
    <3> QED
      BY <1>1, <3>1
  <2>5. r \in [1 .. Len(s) - 1 -> ProductSlots]
    BY <1>1, <2>3, <2>4
  <2>6. r \in Seq(ProductSlots)
    BY <2>3, <2>5, SeqDef
  <2>7. \A i \in DOMAIN r : \E j \in DOMAIN s : r[i] = s[j]
    BY <2>3, <2>4
  <2>8. ASSUME ~ListedTwice(s, pr), NEW i \in DOMAIN r, r[i].product = pr PROVE FALSE
    <3>1. SlotsOf(s, pr) = {k}
      BY <2>2, <2>8 DEF ListedTwice, SlotsOf
    <3>2. IsFirst(s, pr, k)
      BY <1>1, <3>1 DEF IsFirst
    <3>3. CASE IsFirst(s, pr, i)
      BY <2>3, <2>4, <2>8, <3>1, <3>3 DEF IsFirst, SlotsOf
    <3>4. CASE ~IsFirst(s, pr, i)
      BY <2>4, <2>8, <3>1, <3>2, <3>4 DEF SlotsOf
    <3> QED
      BY <3>3, <3>4
  <2> HIDE DEF r
  <2> QED
    BY <2>1, <2>6, <2>7, <2>8 DEF Listed, SlotsOf
<1> QED
  BY <1>2, <1>3

(* Appending adds at most one slot, of the product, at the end. *)
LEMMA AppendedSlots ==
  ASSUME NEW s \in Seq(ProductSlots), NEW pr \in Products
  PROVE  /\ Appended(s, pr) \in Seq(ProductSlots)
         /\ \A i \in DOMAIN Appended(s, pr) :
              Appended(s, pr)[i].product # pr =>
                i \in DOMAIN s /\ Appended(s, pr)[i] = s[i]
         /\ DOMAIN s \subseteq DOMAIN Appended(s, pr)
         /\ \A i \in DOMAIN s : Appended(s, pr)[i] = s[i]
<1> DEFINE e == [product |-> pr, rows |-> Zero]
<1>1. e \in ProductSlots /\ e.product = pr
  BY DEF ProductSlots, Zero
<1>2. CASE ~(Len(s) < MaxProducts)
  BY <1>2 DEF Appended
<1>3. CASE Len(s) < MaxProducts
  <2>1. Appended(s, pr) = Append(s, e)
    BY <1>3 DEF Appended
  <2> HIDE DEF e
  <2>2. /\ Append(s, e) \in Seq(ProductSlots)
        /\ Len(Append(s, e)) = Len(s) + 1 /\ Append(s, e)[Len(s) + 1] = e
        /\ \A i \in 1 .. Len(s) : Append(s, e)[i] = s[i]
    BY <1>1, AppendProperties
  <2>3. /\ DOMAIN s = 1 .. Len(s) /\ Len(s) \in Nat
        /\ DOMAIN Append(s, e) = 1 .. Len(s) + 1
    BY <2>2, LenProperties
  <2>4. \A i \in 1 .. Len(s) + 1 : i \in 1 .. Len(s) \/ i = Len(s) + 1
    BY <2>3
  <2> QED
    BY <1>1, <2>1, <2>2, <2>3, <2>4
<1> QED
  BY <1>2, <1>3

(* After a restore, a slot of another product is a slot of before. *)
LEMMA RestoredSlots ==
  ASSUME NEW s \in Seq(ProductSlots), NEW pr \in Products, db \in Tables,
         NEW i \in DOMAIN Refreshed(Appended(s, pr), pr),
         Refreshed(Appended(s, pr), pr)[i].product # pr
  PROVE  \E k \in DOMAIN s : Refreshed(Appended(s, pr), pr)[i] = s[k]
<1>1. Appended(s, pr) \in Seq(ProductSlots)
  BY AppendedSlots
<1>2. i \in DOMAIN Appended(s, pr) /\ Appended(s, pr)[i].product # pr
  BY <1>1, RefreshedSlots
<1>3. Refreshed(Appended(s, pr), pr)[i] = Appended(s, pr)[i]
  BY <1>1, <1>2, RefreshedSlots
<1>4. i \in DOMAIN s /\ Appended(s, pr)[i] = s[i]
  BY <1>2, AppendedSlots
<1> QED
  BY <1>3, <1>4

(* What a call does to the array keeps it one. *)
LEMMA AfterType ==
  ASSUME NEW s \in Seq(ProductSlots), NEW c \in Calls, db \in Tables
  PROVE  After(s, c) \in Seq(ProductSlots)
BY RefreshedSlots, RemovedSlots, AppendedSlots DEF After, Calls

(* An instance takes over an array of slots. *)
LEMMA HoldType ==
  ASSUME TypeOK, NEW p \in Procs, NEW s \in Seq(ProductSlots), Hold(p, s)
  PROVE  /\ slots' \in [Procs -> Seq(ProductSlots)]
         /\ doubled' \in [Procs -> SUBSET Products]
BY DEF Hold, TypeOK

(* What inv_init loads is an array of slots. *)
LEMMA LoadedType ==
  ASSUME db \in Tables, NEW n \in Nat, NEW ids \in [1 .. n -> db.active]
  PROVE  [i \in 1 .. n |-> [product |-> ids[i], rows |-> db.quantity[ids[i]]]]
           \in Seq(ProductSlots)
<1>1. \A i \in 1 .. n : [product |-> ids[i], rows |-> db.quantity[ids[i]]] \in ProductSlots
  BY DEF Tables, Rows, ProductSlots
<1>2. [i \in 1 .. n |-> [product |-> ids[i], rows |-> db.quantity[ids[i]]]]
        \in [1 .. n -> ProductSlots]
  BY <1>1
<1> QED
  BY <1>2, SeqDef

(* The tables start empty and well typed. *)
LEMMA TypeInit == Init => TypeOK
BY CallRecords DEF Init, TypeOK, Tables, Rows, Zero, Labels

(* Every step keeps the types: one case per action. *)
LEMMA TypeStep == TypeOK /\ [Next]_vars => TypeOK'
<1> SUFFICES ASSUME TypeOK, [Next]_vars PROVE TypeOK'
  OBVIOUS
<1> USE CallRecords DEF TypeOK
<1>1. ASSUME NEW p \in Procs, Request(p) PROVE TypeOK'
  <2>1. ASSUME NEW c \in Calls, Start(p, c) PROVE TypeOK'
    BY <2>1 DEF Start, Goto, Labels
  <2>2. \E c \in Calls : Start(p, c)
    BY <1>1, DeltasAssumption DEF Request, StartPost, StartArchive, StartRestore, Calls, Kinds
  <2> QED
    BY <2>1, <2>2
<1>2. ASSUME NEW p \in Procs, BeginImmediate(p) PROVE TypeOK'
  BY <1>2 DEF BeginImmediate, Goto, Labels, FirstStatement, Calls, Kinds
<1>3. ASSUME NEW p \in Procs, LockUnavailable(p) PROVE TypeOK'
  BY <1>3 DEF LockUnavailable, Return, Goto, Labels
<1>4. ASSUME NEW p \in Procs, UpdateStock(p) PROVE TypeOK'
  BY <1>4, AddedType DEF UpdateStock, Statement, Goto, Labels, Tables
<1>5. ASSUME NEW p \in Procs, InsufficientStock(p) PROVE TypeOK'
  BY <1>5 DEF InsufficientStock, Abandon, Rollback, Return, Goto, Labels
<1>6. ASSUME NEW p \in Procs, InsertMovement(p) PROVE TypeOK'
  BY <1>6, AddedType DEF InsertMovement, Statement, Goto, Labels, Tables
<1>7. ASSUME NEW p \in Procs, CheckEmpty(p) PROVE TypeOK'
  BY <1>7 DEF CheckEmpty, Statement, Goto, Labels
<1>8. ASSUME NEW p \in Procs, StockRemains(p) PROVE TypeOK'
  BY <1>8 DEF StockRemains, Abandon, Rollback, Return, Goto, Labels
<1>9. ASSUME NEW p \in Procs, DeleteStockRows(p) PROVE TypeOK'
  BY <1>9, ClearedType DEF DeleteStockRows, Statement, Goto, Labels, Tables
<1>10. ASSUME NEW p \in Procs, Deactivate(p) PROVE TypeOK'
  BY <1>10 DEF Deactivate, Statement, Goto, Labels, Tables, Calls
<1>11. ASSUME NEW p \in Procs, Activate(p) PROVE TypeOK'
  <2>1. call[p].product \in Products
    BY DEF Calls
  <2>2. tx' \in Tables
    BY <1>11, <2>1 DEF Activate, Statement, Tables
  <2> QED
    BY <1>11, <2>2 DEF Activate, Statement, Goto, Labels
<1>12. ASSUME NEW p \in Procs, StatementError(p) PROVE TypeOK'
  BY <1>12 DEF StatementError, Abandon, Rollback, Return, Goto, Labels
<1>13. ASSUME NEW p \in Procs, Commit(p) PROVE TypeOK'
  BY <1>13 DEF Commit, Goto, Labels
<1>14. ASSUME NEW p \in Procs, CommitLost(p) PROVE TypeOK'
  BY <1>14 DEF CommitLost, Rollback, Goto, Labels
<1>15. ASSUME NEW p \in Procs, Settle(p) PROVE TypeOK'
  <2>1. After(slots[p], call[p]) \in Seq(ProductSlots)
    BY AfterType
  <2> QED
    BY <1>15, <2>1, HoldType DEF Settle, Return, Goto, Labels
<1>16. ASSUME NEW p \in Procs, Crash(p) PROVE TypeOK'
  <2>1. << >> \in Seq(ProductSlots)
    BY EmptySeq
  <2> QED
    BY <1>16, <2>1, HoldType DEF Crash, Rollback, Goto, Labels
<1>17. ASSUME NEW p \in Procs, Restart(p) PROVE TypeOK'
  <2>1. PICK n \in 0 .. MaxProducts : \E ids \in [1 .. n -> db.active] :
          Hold(p, [i \in 1 .. n |-> [product |-> ids[i], rows |-> db.quantity[ids[i]]]])
    BY <1>17 DEF Restart
  <2>2. PICK ids \in [1 .. n -> db.active] :
          Hold(p, [i \in 1 .. n |-> [product |-> ids[i], rows |-> db.quantity[ids[i]]]])
    BY <2>1
  <2>3. n \in Nat
    BY ProductsAssumption
  <2>4. /\ slots' \in [Procs -> Seq(ProductSlots)]
        /\ doubled' \in [Procs -> SUBSET Products]
    BY <2>2, <2>3, LoadedType, HoldType
  <2> QED
    BY <1>17, <2>4 DEF Restart, Goto, Labels
<1>18. CASE UNCHANGED vars
  BY <1>18 DEF vars
<1> QED
  BY <1>1, <1>2, <1>3, <1>4, <1>5, <1>6, <1>7, <1>8, <1>9, <1>10, <1>11, <1>12, <1>13, <1>14, <1>15, <1>16, <1>17, <1>18 DEF Next, Step

(* The tables, the lock, the calls and the caches keep their types. *)
THEOREM TypeCorrect == Spec => []TypeOK
<1> QED
  BY TypeInit, TypeStep, PTL DEF Spec

-----------------------------------------------------------------------------
(* Who holds the lock and which call runs: every label belongs to one kind *)
(* of call, and the lock holder is the only instance in a transaction.     *)
Control == LockHeldInside /\ CallFitsLabel

(* A user's request starts one call, with a delta a user may post. *)
LEMMA RequestStarts ==
  ASSUME NEW p \in Procs, Request(p)
  PROVE  \E c \in Calls : /\ c.kind \in {"post", "archive", "restore"}
                          /\ c.kind = "post" => c.delta \in Deltas
                          /\ Start(p, c)
<1>1. CASE \E pr \in Products, l \in Locations, d \in Deltas : StartPost(p, pr, l, d)
  BY <1>1, DeltasAssumption DEF StartPost, Calls, Kinds
<1>2. CASE \E pr \in Products : StartArchive(p, pr) \/ StartRestore(p, pr)
  <2>1. PICK pr \in Products : StartArchive(p, pr) \/ StartRestore(p, pr)
    BY <1>2
  <2>2. \A kind \in Kinds : CallOn(kind, pr) \in Calls /\ CallOn(kind, pr).kind = kind
    BY CallRecords DEF CallOn
  <2> QED
    BY <2>1, <2>2 DEF StartArchive, StartRestore, Kinds
<1> QED
  BY <1>1, <1>2 DEF Request

(* An instance between calls executes no kind of call. *)
LEMMA NoCallKind == NoCall.kind = "none"
BY DEF NoCall, CallOn

(* No step leaves a transaction with the lock, or enters one without it. *)
LEMMA ControlStep == TypeOK /\ Control /\ [Next]_vars => Control'
<1> SUFFICES ASSUME TypeOK, Control, [Next]_vars PROVE Control'
  OBVIOUS
<1> USE NobodyAssumption, NoCallKind
    DEF TypeOK, Control, LockHeldInside, CallFitsLabel, InTransaction, KindOf, Goto
<1>1. ASSUME NEW p \in Procs, Request(p) PROVE Control'
  <2>1. PICK c \in Calls : /\ c.kind \in {"post", "archive", "restore"}
                           /\ c.kind = "post" => c.delta \in Deltas
                           /\ Start(p, c)
    BY <1>1, RequestStarts
  <2> QED
    BY <2>1 DEF Start
<1>2. ASSUME NEW p \in Procs, BeginImmediate(p) PROVE Control'
  BY <1>2 DEF BeginImmediate, FirstStatement
<1>3. ASSUME NEW p \in Procs, LockUnavailable(p) PROVE Control'
  BY <1>3 DEF LockUnavailable, Return
<1>4. ASSUME NEW p \in Procs, UpdateStock(p) PROVE Control'
  BY <1>4 DEF UpdateStock, Statement
<1>5. ASSUME NEW p \in Procs, InsufficientStock(p) PROVE Control'
  BY <1>5 DEF InsufficientStock, Abandon, Rollback, Return
<1>6. ASSUME NEW p \in Procs, InsertMovement(p) PROVE Control'
  BY <1>6 DEF InsertMovement, Statement
<1>7. ASSUME NEW p \in Procs, CheckEmpty(p) PROVE Control'
  BY <1>7 DEF CheckEmpty, Statement
<1>8. ASSUME NEW p \in Procs, StockRemains(p) PROVE Control'
  BY <1>8 DEF StockRemains, Abandon, Rollback, Return
<1>9. ASSUME NEW p \in Procs, DeleteStockRows(p) PROVE Control'
  BY <1>9 DEF DeleteStockRows, Statement
<1>10. ASSUME NEW p \in Procs, Deactivate(p) PROVE Control'
  BY <1>10 DEF Deactivate, Statement
<1>11. ASSUME NEW p \in Procs, Activate(p) PROVE Control'
  BY <1>11 DEF Activate, Statement
<1>12. ASSUME NEW p \in Procs, StatementError(p) PROVE Control'
  BY <1>12 DEF StatementError, Abandon, Rollback, Return
<1>13. ASSUME NEW p \in Procs, Commit(p) PROVE Control'
  BY <1>13 DEF Commit
<1>14. ASSUME NEW p \in Procs, CommitLost(p) PROVE Control'
  BY <1>14 DEF CommitLost, Rollback
<1>15. ASSUME NEW p \in Procs, Settle(p) PROVE Control'
  BY <1>15 DEF Settle, Return
<1>16. ASSUME NEW p \in Procs, Crash(p) PROVE Control'
  BY <1>16 DEF Crash, Rollback
<1>17. ASSUME NEW p \in Procs, Restart(p) PROVE Control'
  BY <1>17 DEF Restart
<1>18. CASE UNCHANGED vars
  BY <1>18 DEF vars
<1> QED
  BY <1>1, <1>2, <1>3, <1>4, <1>5, <1>6, <1>7, <1>8, <1>9, <1>10, <1>11, <1>12, <1>13, <1>14, <1>15, <1>16, <1>17, <1>18 DEF Next, Step

-----------------------------------------------------------------------------
(* The tables, given who is where.                                         *)
TablesInv ==
  /\ JournalMatchesStock
  /\ NonNegativeStock
  /\ lock = Nobody => tx = db
  /\ \A p \in Procs : WorkingTables(p)

(* Only the lock holder has working tables of its own. *)
LEMMA HolderDecides ==
  ASSUME Control', NEW p \in Procs, lock' = p => WorkingTables(p)'
  PROVE  WorkingTables(p)'
BY DEF Control, LockHeldInside, InTransaction, WorkingTables

(* A step that ends with the lock free and the working tables committed. *)
LEMMA LockFreeStep ==
  ASSUME TablesInv, Control', lock' = Nobody, tx' = db', UNCHANGED db
  PROVE  TablesInv'
<1>1. \A p \in Procs : WorkingTables(p)'
  BY HolderDecides, NobodyAssumption
<1> QED
  BY <1>1 DEF TablesInv, JournalMatchesStock, NonNegativeStock

(* A step of an instance that leaves the tables and the lock to the others. *)
LEMMA OutsideStep ==
  ASSUME TablesInv, Control', NEW p \in Procs, lock # p, UNCHANGED <<db, tx, lock>>,
         \A q \in Procs \ {p} : pc'[q] = pc[q] /\ call'[q] = call[q]
  PROVE  TablesInv'
<1>1. ASSUME NEW q \in Procs PROVE WorkingTables(q)'
  <2>1. ASSUME lock' = q PROVE WorkingTables(q)'
    BY <2>1 DEF TablesInv, WorkingTables, Fits
  <2> QED
    BY <2>1, HolderDecides
<1> QED
  BY <1>1 DEF TablesInv, JournalMatchesStock, NonNegativeStock

(* A step of the lock holder inside its transaction. *)
LEMMA InsideStep ==
  ASSUME TablesInv, Control', NEW p \in Procs, lock' = p, UNCHANGED db, WorkingTables(p)'
  PROVE  TablesInv'
<1>1. \A q \in Procs : WorkingTables(q)'
  BY HolderDecides
<1> QED
  BY <1>1, NobodyAssumption DEF TablesInv, JournalMatchesStock, NonNegativeStock

(* Every step keeps the committed tables sound, and the working tables a   *)
(* known number of statements ahead of them.                               *)
LEMMA TablesStep == TypeOK /\ Control /\ TablesInv /\ [Next]_vars => TablesInv'
<1> SUFFICES ASSUME TypeOK, Control, TablesInv, [Next]_vars PROVE TablesInv'
  OBVIOUS
<1>0. TypeOK' /\ Control'
  BY TypeStep, ControlStep
<1>a. ASSUME NEW p \in Procs PROVE WorkingTables(p) /\ (pc[p] \in InTransaction <=> lock = p)
  BY DEF TablesInv, Control, LockHeldInside
<1>b. ASSUME NEW p \in Procs, NEW label, Goto(p, label)
      PROVE  /\ pc'[p] = label
             /\ \A q \in Procs \ {p} : pc'[q] = pc[q]
  BY <1>b DEF Goto, TypeOK
<1>1. ASSUME NEW p \in Procs, Request(p) PROVE TablesInv'
  <2>1. PICK c \in Calls : Start(p, c)
    BY <1>1, RequestStarts
  <2> QED
    BY <1>0, <1>a, <2>1, OutsideStep DEF Start, Goto, InTransaction, TypeOK
<1>2. ASSUME NEW p \in Procs, BeginImmediate(p) PROVE TablesInv'
  <2>1. lock' = p /\ UNCHANGED <<db, tx>> /\ tx = db
    BY <1>2 DEF BeginImmediate, TablesInv
  <2>2. pc'[p] \in {"update", "check", "activate"}
    BY <1>2 DEF BeginImmediate, Goto, FirstStatement, TypeOK
  <2>3. WorkingTables(p)'
    BY <2>1, <2>2 DEF WorkingTables
  <2> QED
    BY <1>0, <2>1, <2>3, InsideStep
<1>3. ASSUME NEW p \in Procs, LockUnavailable(p) PROVE TablesInv'
  BY <1>0, <1>a, <1>3, OutsideStep DEF LockUnavailable, Return, Goto, InTransaction, TypeOK
<1>4. ASSUME NEW p \in Procs, Abandon(p) PROVE TablesInv'
  BY <1>0, <1>4, LockFreeStep DEF Abandon, Rollback
<1>5. ASSUME NEW p \in Procs, CommitLost(p) PROVE TablesInv'
  BY <1>0, <1>5, LockFreeStep DEF CommitLost, Rollback
<1>6. ASSUME NEW p \in Procs, UpdateStock(p) PROVE TablesInv'
  <2>1. lock = p /\ tx = db /\ pc'[p] = "log"
    BY <1>6, <1>a DEF UpdateStock, Statement, Goto, WorkingTables, InTransaction, TypeOK
  <2>2. WorkingTables(p)'
    BY <1>6, <2>1 DEF UpdateStock, Statement, WorkingTables, HalfMoved, Fits, Enough
  <2> QED
    BY <1>0, <1>6, <2>1, <2>2, InsideStep DEF UpdateStock, Statement
<1>7. ASSUME NEW p \in Procs, InsertMovement(p) PROVE TablesInv'
  <2>1. /\ lock = p /\ pc'[p] = "commit" /\ call[p].kind = "post"
        /\ tx = HalfMoved(db, call[p]) /\ Fits(call[p])
    BY <1>7, <1>a DEF InsertMovement, Statement, Goto, WorkingTables, InTransaction, TypeOK,
                      Control, CallFitsLabel, KindOf
  <2>2. tx' = Moved(db, call[p])
    BY <1>7, <2>1 DEF InsertMovement, Statement, HalfMoved, Moved, TypeOK, Tables
  <2>3. WorkingTables(p)'
    BY <1>7, <2>1, <2>2 DEF InsertMovement, Statement, WorkingTables, Fits
  <2> QED
    BY <1>0, <1>7, <2>1, <2>3, InsideStep DEF InsertMovement, Statement
<1>8. ASSUME NEW p \in Procs, CheckEmpty(p) PROVE TablesInv'
  <2>1. lock = p /\ tx = db /\ pc'[p] = "clear"
    BY <1>8, <1>a DEF CheckEmpty, Statement, Goto, WorkingTables, InTransaction, TypeOK
  <2>2. db.quantity[call[p].product] = Zero
    <3>1. call[p].product \in Products /\ db.quantity[call[p].product] \in [Locations -> Int]
      BY DEF TypeOK, Calls, Tables, Rows
    <3>2. \A l \in Locations : db.quantity[call[p].product][l] = 0
      BY <1>8, <2>1, <3>1 DEF CheckEmpty, Remaining, TablesInv, NonNegativeStock
    <3> QED
      BY <3>1, <3>2 DEF Zero
  <2>3. WorkingTables(p)'
    BY <1>8, <2>1, <2>2 DEF CheckEmpty, Statement, WorkingTables
  <2> QED
    BY <1>0, <1>8, <2>1, <2>3, InsideStep DEF CheckEmpty, Statement
<1>9. ASSUME NEW p \in Procs, DeleteStockRows(p) PROVE TablesInv'
  <2>1. lock = p /\ tx = db /\ db.quantity[call[p].product] = Zero /\ pc'[p] = "deactivate"
    BY <1>9, <1>a DEF DeleteStockRows, Statement, Goto, WorkingTables, InTransaction, TypeOK
  <2>2. Cleared(db.quantity, call[p]) = db.quantity
    BY <2>1 DEF Cleared, TypeOK, Tables, Rows
  <2>3. tx' = db
    BY <1>9, <2>1, <2>2 DEF DeleteStockRows, Statement, TypeOK, Tables
  <2>4. WorkingTables(p)'
    BY <1>9, <2>1, <2>3 DEF DeleteStockRows, Statement, WorkingTables
  <2> QED
    BY <1>0, <1>9, <2>1, <2>4, InsideStep DEF DeleteStockRows, Statement
<1>10. ASSUME NEW p \in Procs, Deactivate(p) PROVE TablesInv'
  <2>1. /\ lock = p /\ tx = db /\ db.quantity[call[p].product] = Zero
        /\ pc'[p] = "commit" /\ call[p].kind = "archive"
    BY <1>10, <1>a DEF Deactivate, Statement, Goto, WorkingTables, InTransaction, TypeOK,
                       Control, CallFitsLabel, KindOf
  <2>2. WorkingTables(p)'
    BY <1>10, <2>1 DEF Deactivate, Statement, WorkingTables
  <2> QED
    BY <1>0, <1>10, <2>1, <2>2, InsideStep DEF Deactivate, Statement
<1>11. ASSUME NEW p \in Procs, Activate(p) PROVE TablesInv'
  <2>1. lock = p /\ tx = db /\ pc'[p] = "commit" /\ call[p].kind = "restore"
    BY <1>11, <1>a DEF Activate, Statement, Goto, WorkingTables, InTransaction, TypeOK,
                       Control, CallFitsLabel, KindOf
  <2>2. WorkingTables(p)'
    BY <1>11, <2>1 DEF Activate, Statement, WorkingTables
  <2> QED
    BY <1>0, <1>11, <2>1, <2>2, InsideStep DEF Activate, Statement
<1>12. ASSUME NEW p \in Procs, Commit(p) PROVE TablesInv'
  <2>1. lock' = Nobody /\ tx' = db' /\ db' = tx
    BY <1>12 DEF Commit
  <2>2. \A q \in Procs : WorkingTables(q)'
    BY <1>0, <2>1, HolderDecides, NobodyAssumption
  <2>3. JournalMatchesStock' /\ NonNegativeStock'
    <3>1. call[p].kind \in {"post", "archive", "restore"}
      BY <1>12 DEF Commit, Control, CallFitsLabel, KindOf
    <3>2. CASE call[p].kind = "post"
      <4>1. tx = Moved(db, call[p]) /\ Fits(call[p])
        BY <1>12, <1>a, <3>2 DEF Commit, WorkingTables
      <4>2. /\ tx.quantity = Added(db.quantity, call[p])
            /\ tx.journal = Added(db.journal, call[p])
        BY <4>1 DEF Moved, TypeOK, Tables
      <4>3. \A pr \in Products, l \in Locations : Added(db.quantity, call[p])[pr][l] >= 0
        BY <4>1 DEF Added, Fits, TypeOK, Tables, Rows, Calls, TablesInv, NonNegativeStock
      <4> QED
        BY <2>1, <4>2, <4>3 DEF TablesInv, JournalMatchesStock, NonNegativeStock
    <3>3. CASE call[p].kind # "post"
      <4>1. tx.quantity = db.quantity /\ tx.journal = db.journal
        BY <1>12, <1>a, <3>1, <3>3 DEF Commit, WorkingTables, TypeOK, Tables
      <4> QED
        BY <2>1, <4>1 DEF TablesInv, JournalMatchesStock, NonNegativeStock
    <3> QED
      BY <3>2, <3>3
  <2> QED
    BY <2>1, <2>2, <2>3 DEF TablesInv
<1>13. ASSUME NEW p \in Procs, Settle(p) PROVE TablesInv'
  BY <1>0, <1>a, <1>13, OutsideStep DEF Settle, Return, Goto, InTransaction, TypeOK
<1>14. ASSUME NEW p \in Procs, Crash(p) PROVE TablesInv'
  <2>1. CASE lock = p
    BY <1>0, <1>14, <2>1, LockFreeStep DEF Crash, Rollback
  <2>2. CASE lock # p
    BY <1>0, <1>14, <2>2, OutsideStep DEF Crash, Goto, TypeOK
  <2> QED
    BY <2>1, <2>2
<1>15. ASSUME NEW p \in Procs, Restart(p) PROVE TablesInv'
  BY <1>0, <1>a, <1>15, OutsideStep DEF Restart, Goto, InTransaction, TypeOK
<1>16. CASE UNCHANGED vars
  BY <1>16 DEF vars, TablesInv, JournalMatchesStock, NonNegativeStock, WorkingTables, Fits
<1> QED
  <2>1. ASSUME NEW p \in Procs, InsufficientStock(p) \/ StockRemains(p) \/ StatementError(p)
        PROVE  Abandon(p)
    BY <2>1 DEF InsufficientStock, StockRemains, StatementError
  <2> QED
    BY <1>1, <1>2, <1>3, <1>4, <1>5, <1>6, <1>7, <1>8, <1>9, <1>10, <1>11, <1>12, <1>13,
       <1>14, <1>15, <1>16, <2>1 DEF Next, Step

-----------------------------------------------------------------------------
(* The invariant is the conjunction of the parts proved separately. *)
LEMMA StoreInvParts == StoreInv <=> TypeOK /\ Control /\ TablesInv
BY DEF StoreInv, Control, TablesInv

(* The invariant holds of the empty tables. *)
LEMMA StoreInit == Init => StoreInv
<1> SUFFICES ASSUME Init PROVE StoreInv
  OBVIOUS
<1>1. Control
  BY NobodyAssumption, NoCallKind
     DEF Init, Control, LockHeldInside, CallFitsLabel, InTransaction, KindOf
<1>2. TablesInv
  BY DEF Init, TablesInv, JournalMatchesStock, NonNegativeStock, WorkingTables, Zero
<1> QED
  BY <1>1, <1>2, TypeInit, StoreInvParts

(* The inductive invariant: the working tables of the lock holder differ   *)
(* from the committed ones by exactly the statements it has executed.      *)
THEOREM StoreInvariant == Spec => []StoreInv
<1>1. StoreInv /\ [Next]_vars => StoreInv'
  <2>1. TypeOK' /\ Control' /\ TablesInv' => StoreInv'
    BY DEF StoreInv, Control, TablesInv
  <2> QED
    BY <2>1, StoreInvParts, TypeStep, ControlStep, TablesStep
<1> QED
  BY StoreInit, <1>1, PTL DEF Spec

(* However many instances share the file, and wherever they crash or lose  *)
(* a commit, the committed stock is the sum of the committed movements.    *)
THEOREM JournalAlwaysMatches == Spec => []JournalMatchesStock
<1>1. StoreInv => JournalMatchesStock
  BY DEF StoreInv
<1> QED
  BY <1>1, StoreInvariant, PTL

(* No committed stock row is ever negative. *)
THEOREM NeverNegative == Spec => []NonNegativeStock
<1>1. StoreInv => NonNegativeStock
  BY DEF StoreInv
<1> QED
  BY <1>1, StoreInvariant, PTL

-----------------------------------------------------------------------------
(* A commit changes the rows of the product of its call, and no other. *)
LEMMA CommitTouchesOne ==
  ASSUME StoreInv, NEW p \in Procs, Commit(p),
         NEW pr \in Products, pr # call[p].product
  PROVE  db'.quantity[pr] = db.quantity[pr]
<1>1. /\ call[p] \in Calls /\ db \in Tables /\ db' = tx
      /\ WorkingTables(p) /\ pc[p] = "commit"
  BY DEF StoreInv, TypeOK, Commit
<1>2. call[p].kind \in {"post", "archive", "restore"}
  BY <1>1 DEF StoreInv, CallFitsLabel, KindOf
<1>3. CASE call[p].kind = "post"
  <2>1. tx.quantity = Added(db.quantity, call[p])
    BY <1>1, <1>3 DEF WorkingTables, Moved, Tables
  <2> QED
    BY <1>1, <2>1 DEF Added, Calls, Tables, Rows
<1>4. CASE call[p].kind # "post"
  <2>1. tx.quantity = db.quantity
    BY <1>1, <1>2, <1>4 DEF WorkingTables, Tables
  <2> QED
    BY <1>1, <2>1
<1> QED
  BY <1>3, <1>4

(* What FreshView says of one instance p whose array is s, with the        *)
(* doubled products d, for the products outside busy.                      *)
FreshArray(p, s, d, busy) ==
  /\ \A pr \in Products : ListedTwice(s, pr) => pr \in d
  /\ \A i \in DOMAIN s : s[i].product \notin busy \cup d /\ writer[s[i].product] \in {p, Nobody}
       => s[i].rows = db.quantity[s[i].product]

Busy(p) == IF pc[p] = "settle" THEN {call[p].product} ELSE {}

(* FreshView, instance by instance. *)
LEMMA FreshByInstance ==
  FreshView <=> \A p \in Procs : FreshArray(p, slots[p], doubled[p], Busy(p))
BY DEF FreshView, FreshArray, Busy

(* The products that an instance has doubled when its array becomes s. *)
DoubledAfter(p, s) ==
  {pr \in Products : ListedTwice(s, pr) \/ (pr \in doubled[p] /\ Listed(s, pr))}

(* The end of a call leaves no total stale, that of its product included.  *)
LEMMA SettledFresh ==
  ASSUME TypeOK, NEW p \in Procs,
         FreshArray(p, slots[p], doubled[p], {call[p].product}),
         call[p].kind \in {"post", "archive", "restore"}
  PROVE  FreshArray(p, After(slots[p], call[p]), DoubledAfter(p, After(slots[p], call[p])), {})
<1> DEFINE s == slots[p]
           c == call[p].product
           a == After(s, call[p])
<1>1. /\ s \in Seq(ProductSlots) /\ c \in Products /\ db \in Tables
      /\ a \in Seq(ProductSlots)
  BY AfterType DEF TypeOK, Calls
<1>3. \A i \in DOMAIN a : a[i].product \in Products
  <2> HIDE DEF a
  <2> QED
    BY <1>1, SlotTypes
<1>r. Refreshed(s, c) \in Seq(ProductSlots) /\ Removed(s, c) \in Seq(ProductSlots)
      /\ Appended(s, c) \in Seq(ProductSlots)
  BY <1>1, RefreshedSlots, RemovedSlots, AppendedSlots
\* A slot of another product was there before.
<1>4. \A i \in DOMAIN a : a[i].product # c => \E k \in DOMAIN s : a[i] = s[k]
  <2>1. CASE call[p].kind = "post"
    BY <1>1, <2>1, RefreshedSlots DEF After
  <2>2. CASE call[p].kind = "archive"
    BY <1>1, <2>2, RemovedSlots DEF After
  <2>3. CASE call[p].kind = "restore"
    BY <1>1, <2>3, RestoredSlots DEF After
  <2> QED
    BY <2>1, <2>2, <2>3
\* A slot of the product that is its only one was just refreshed.
<1>5. ASSUME NEW t \in Seq(ProductSlots), ~ListedTwice(t, c),
             NEW i \in DOMAIN t, t[i].product = c
      PROVE  Refreshed(t, c)[i].rows = db.quantity[c]
  <2>1. SlotsOf(t, c) = {i}
    BY <1>5 DEF ListedTwice, SlotsOf
  <2>2. i \in Int
    BY <1>5, LenProperties
  <2>3. IsFirst(t, c, i)
    BY <2>1, <2>2 DEF IsFirst
  <2> QED
    BY <2>3, <1>5 DEF Refreshed
<1>6. ASSUME NEW t \in Seq(ProductSlots), ListedTwice(t, c)
      PROVE  ListedTwice(Refreshed(t, c), c)
  <2>1. PICK i \in SlotsOf(t, c), j \in SlotsOf(t, c) : i # j
    BY <1>6 DEF ListedTwice
  <2>2. i \in SlotsOf(Refreshed(t, c), c) /\ j \in SlotsOf(Refreshed(t, c), c)
    BY <1>1, <1>6, RefreshedSlots DEF SlotsOf
  <2> QED
    BY <2>1, <2>2 DEF ListedTwice
<1>7. ASSUME NEW i \in DOMAIN a, a[i].product = c, c \notin DoubledAfter(p, a)
      PROVE  a[i].rows = db.quantity[c]
  <2>1. c \notin doubled[p] /\ ~ListedTwice(a, c) /\ Listed(a, c)
    BY <1>1, <1>7 DEF DoubledAfter, Listed, SlotsOf
  <2>2. ASSUME NEW t \in Seq(ProductSlots), a = Refreshed(t, c) PROVE a[i].rows = db.quantity[c]
    <3>1. i \in DOMAIN t /\ t[i].product = c /\ ~ListedTwice(t, c)
      BY <1>1, <1>6, <1>7, <2>1, <2>2, RefreshedSlots
    <3> QED
      BY <1>5, <2>2, <3>1
  <2>3. CASE call[p].kind = "post"
    BY <1>1, <2>2, <2>3 DEF After
  <2>4. CASE call[p].kind = "archive"
    <3>1. ~ListedTwice(s, c)
      BY <1>1, <2>1 DEF FreshArray
    <3> QED
      BY <1>1, <2>1, <2>4, <3>1, RemovedSlots DEF After
  <2>5. CASE call[p].kind = "restore"
    BY <1>r, <2>2, <2>5 DEF After
  <2> QED
    BY <2>3, <2>4, <2>5
<1>8. ASSUME NEW i \in DOMAIN a, a[i].product # c, a[i].product \notin DoubledAfter(p, a),
             writer[a[i].product] \in {p, Nobody}
      PROVE  a[i].rows = db.quantity[a[i].product]
  <2>1. PICK k \in DOMAIN s : a[i] = s[k]
    BY <1>4, <1>8
  <2>2. a[i].product \notin doubled[p]
    BY <1>3, <1>8 DEF DoubledAfter, Listed, SlotsOf
  <2> HIDE DEF a
  <2> QED
    BY <1>8, <2>1, <2>2 DEF FreshArray
<1>9. \A pr \in Products : ListedTwice(a, pr) => pr \in DoubledAfter(p, a)
  BY DEF DoubledAfter
<1> HIDE DEF a, c
<1>10. ASSUME NEW i \in DOMAIN a, a[i].product \notin DoubledAfter(p, a),
              writer[a[i].product] \in {p, Nobody}
       PROVE  a[i].rows = db.quantity[a[i].product]
  <2>1. CASE a[i].product = c
    BY <1>7, <1>10, <2>1
  <2>2. CASE a[i].product # c
    BY <1>8, <1>10, <2>2
  <2> QED
    BY <2>1, <2>2
<1> QED
  BY <1>9, <1>10 DEF FreshArray, a, c

(* Every step keeps the totals of the last writers fresh. *)
LEMMA FreshStep == StoreInv /\ FreshView /\ [Next]_vars => FreshView'
<1> SUFFICES ASSUME StoreInv, FreshView, [Next]_vars PROVE FreshView'
  OBVIOUS
<1> USE NobodyAssumption
<1>0. TypeOK
  BY DEF StoreInv
<1>f. ASSUME NEW q \in Procs PROVE FreshArray(q, slots[q], doubled[q], Busy(q))
  BY FreshByInstance
<1>i. ASSUME NEW p \in Procs, NEW s \in Seq(ProductSlots), Hold(p, s),
             FreshArray(p, s, DoubledAfter(p, s), {}), UNCHANGED <<db, writer>>,
             pc'[p] # "settle",
             \A q \in Procs \ {p} : pc'[q] = pc[q] /\ call'[q] = call[q]
      PROVE  FreshView'
  <2>1. /\ slots'[p] = s /\ doubled'[p] = DoubledAfter(p, s)
        /\ \A q \in Procs \ {p} : slots'[q] = slots[q] /\ doubled'[q] = doubled[q]
    BY <1>0, <1>i DEF Hold, DoubledAfter, TypeOK
  <2>2. ASSUME NEW q \in Procs PROVE FreshArray(q, slots[q], doubled[q], Busy(q))'
    <3>1. CASE q = p
      BY <1>i, <2>1, <3>1 DEF FreshArray, Busy
    <3>2. CASE q # p
      BY <1>f, <1>i, <2>1, <3>2 DEF FreshArray, Busy
    <3> QED
      BY <3>1, <3>2
  <2> QED
    BY <2>2, FreshByInstance DEF FreshView, FreshArray, Busy
<1>1. ASSUME NEW p \in Procs, Commit(p) PROVE FreshView'
  <2>1. /\ UNCHANGED <<slots, doubled, call>> /\ pc' = [pc EXCEPT ![p] = "settle"]
        /\ writer' = [writer EXCEPT ![call[p].product] = p] /\ pc[p] = "commit"
    BY <1>1 DEF Commit, Goto
  <2> SUFFICES ASSUME NEW q \in Procs, NEW i \in DOMAIN slots[q],
                      slots[q][i].product \notin doubled[q],
                      writer'[slots[q][i].product] \in {q, Nobody},
                      pc'[q] = "settle" => call[q].product # slots[q][i].product
               PROVE  slots[q][i].rows = db'.quantity[slots[q][i].product]
    BY <2>1 DEF FreshView
  <2> DEFINE pr == slots[q][i].product
  <2>2. pr \in Products /\ call[p].product \in Products
    <3>1. slots[q] \in Seq(ProductSlots) /\ call[p] \in Calls
      BY <1>0 DEF TypeOK
    <3>2. pr \in Products
      BY <3>1, SlotTypes
    <3> QED
      BY <3>1, <3>2 DEF Calls
  <2>3. pr # call[p].product
    BY <1>0, <2>1, <2>2 DEF TypeOK
  <2>4. writer[pr] \in {q, Nobody} /\ (pc[q] = "settle" => call[q].product # pr)
    BY <1>0, <2>1, <2>3 DEF TypeOK
  <2>5. slots[q][i].rows = db.quantity[pr]
    BY <2>4 DEF FreshView
  <2> QED
    BY <1>1, <2>2, <2>3, <2>5, CommitTouchesOne
<1>2. ASSUME NEW p \in Procs, Settle(p) PROVE FreshView'
  <2> DEFINE s == After(slots[p], call[p])
  <2>1. s \in Seq(ProductSlots)
    BY <1>0, AfterType DEF TypeOK
  <2>2. FreshArray(p, slots[p], doubled[p], {call[p].product})
    BY <1>f, <1>2 DEF Settle, Busy
  <2>3. call[p].kind \in {"post", "archive", "restore"}
    BY <1>2 DEF Settle, StoreInv, CallFitsLabel, KindOf
  <2>4. FreshArray(p, s, DoubledAfter(p, s), {})
    BY <1>0, <2>2, <2>3, SettledFresh
  <2>5. /\ Hold(p, s) /\ UNCHANGED <<db, writer>> /\ pc'[p] # "settle"
        /\ \A q \in Procs \ {p} : pc'[q] = pc[q] /\ call'[q] = call[q]
    BY <1>0, <1>2 DEF Settle, Return, Goto, TypeOK
  <2> QED
    BY <1>i, <2>1, <2>4, <2>5
<1>3. ASSUME NEW p \in Procs, CommitLost(p) PROVE FreshView'
  BY <1>0, <1>3 DEF CommitLost, Rollback, Goto, TypeOK, FreshView
<1>4. ASSUME NEW p \in Procs, Crash(p) PROVE FreshView'
  <2>1. << >> \in Seq(ProductSlots) /\ DOMAIN << >> = {}
    BY EmptySeq
  <2>2. FreshArray(p, << >>, DoubledAfter(p, << >>), {})
    BY <2>1 DEF FreshArray, ListedTwice, SlotsOf
  <2>3. /\ Hold(p, << >>) /\ UNCHANGED <<db, writer>> /\ pc'[p] # "settle"
        /\ \A q \in Procs \ {p} : pc'[q] = pc[q] /\ call'[q] = call[q]
    BY <1>0, <1>4 DEF Crash, Goto, TypeOK
  <2> QED
    BY <1>i, <2>1, <2>2, <2>3
<1>5. ASSUME NEW p \in Procs, Restart(p) PROVE FreshView'
  <2>1. PICK n \in 0 .. MaxProducts : \E ids \in [1 .. n -> db.active] :
          /\ Loads(ids)
          /\ Hold(p, [i \in 1 .. n |-> [product |-> ids[i], rows |-> db.quantity[ids[i]]]])
    BY <1>5 DEF Restart
  <2>2. PICK ids \in [1 .. n -> db.active] :
          /\ Loads(ids)
          /\ Hold(p, [i \in 1 .. n |-> [product |-> ids[i], rows |-> db.quantity[ids[i]]]])
    BY <2>1
  <2> DEFINE s == [i \in 1 .. n |-> [product |-> ids[i], rows |-> db.quantity[ids[i]]]]
  <2>n. n \in Nat /\ db \in Tables
    BY <1>0, ProductsAssumption DEF TypeOK
  <2>3. s \in Seq(ProductSlots)
    BY <2>n, LoadedType
  <2>4. \A i \in 1 .. n : ids[i] \in Nat
    BY <1>0, ProductsAssumption DEF TypeOK, Tables
  <2>5. ASSUME NEW i \in 1 .. n, NEW j \in 1 .. n, i # j PROVE ids[i] # ids[j]
    <3>1. i < j => ids[i] < ids[j]
      BY <2>2 DEF Loads
    <3>2. j < i => ids[j] < ids[i]
      BY <2>2 DEF Loads
    <3>3. i < j \/ j < i
      BY <2>n, <2>5
    <3> QED
      BY <2>4, <3>1, <3>2, <3>3
  <2>6. \A pr : ~ListedTwice(s, pr)
    BY <2>5 DEF ListedTwice, SlotsOf
  <2>7. FreshArray(p, s, DoubledAfter(p, s), {})
    BY <2>6 DEF FreshArray
  <2>8. /\ Hold(p, s) /\ UNCHANGED <<db, writer>> /\ pc'[p] # "settle"
        /\ \A q \in Procs \ {p} : pc'[q] = pc[q] /\ call'[q] = call[q]
    BY <1>0, <1>5, <2>2 DEF Restart, Goto, TypeOK
  <2> QED
    BY <1>i, <2>3, <2>7, <2>8
<1>6. ASSUME NEW p \in Procs, NEW label, label # "settle", pc[p] # "settle",
             Goto(p, label), UNCHANGED <<db, slots, doubled, writer>>,
             \A q \in Procs \ {p} : call'[q] = call[q]
      PROVE  FreshView'
  BY <1>0, <1>6 DEF Goto, TypeOK, FreshView
<1>7. ASSUME NEW p \in Procs, Request(p) PROVE FreshView'
  <2>1. PICK c \in Calls : Start(p, c)
    BY <1>7, RequestStarts
  <2> QED
    BY <1>0, <1>6, <2>1 DEF Start, TypeOK
<1>8. ASSUME NEW p \in Procs, Abandon(p), pc[p] # "settle" PROVE FreshView'
  BY <1>0, <1>6, <1>8 DEF Abandon, Return, TypeOK
<1>9. ASSUME NEW p \in Procs, Step(p), ~Commit(p), ~Settle(p), ~CommitLost(p) PROVE FreshView'
  <2>1. CASE InsufficientStock(p) \/ StockRemains(p) \/ StatementError(p)
    BY <1>8, <2>1 DEF InsufficientStock, StockRemains, StatementError
  <2>2. CASE BeginImmediate(p)
    BY <1>6, <2>2 DEF BeginImmediate, FirstStatement
  <2>3. CASE LockUnavailable(p)
    BY <1>0, <1>6, <2>3 DEF LockUnavailable, Return, TypeOK
  <2>4. CASE UpdateStock(p) \/ InsertMovement(p) \/ CheckEmpty(p) \/ DeleteStockRows(p)
             \/ Deactivate(p) \/ Activate(p)
    BY <1>6, <2>4 DEF UpdateStock, InsertMovement, CheckEmpty, DeleteStockRows, Deactivate,
                      Activate, Statement
  <2> QED
    BY <1>9, <2>1, <2>2, <2>3, <2>4 DEF Step
<1>10. CASE UNCHANGED vars
  BY <1>10 DEF vars, FreshView
<1> QED
  BY <1>1, <1>2, <1>3, <1>4, <1>5, <1>7, <1>9, <1>10 DEF Next

(* The last instance to change a product shows its true total in every     *)
(* slot, unless it has listed the product twice, however many other        *)
(* instances there are and whatever calls have failed.                     *)
THEOREM LastWriterAlwaysFresh == Spec => []LastWriterIsFresh
<1>1. Init => FreshView
  BY DEF Init, FreshView, ListedTwice, SlotsOf
<1>2. FreshView /\ StoreInv => LastWriterIsFresh
  BY DEF FreshView, LastWriterIsFresh
<1> QED
  BY <1>1, <1>2, FreshStep, StoreInvariant, PTL DEF Spec

-----------------------------------------------------------------------------
(* Only Commit changes the committed tables, and what it writes is one     *)
(* step of the ledger.                                                     *)
LEMMA CommitRefines ==
  ASSUME StoreInv, NEW p \in Procs, Commit(p)
  PROVE  Ledger!LedgerNext
<1> DEFINE c == call[p]
<1>1. c \in Calls /\ db \in Tables /\ db' = tx /\ WorkingTables(p) /\ pc[p] = "commit"
  BY DEF StoreInv, TypeOK, Commit
<1>2. /\ c.kind \in {"post", "archive", "restore"}
      /\ c.kind = "post" => c.delta \in Deltas
  BY <1>1 DEF StoreInv, CallFitsLabel, KindOf
<1>3. c.product \in Products /\ c.location \in Locations
  BY <1>1 DEF Calls
<1>4. CASE c.kind = "post"
  <2>1. tx = Moved(db, c) /\ Fits(c)
    BY <1>1, <1>4 DEF WorkingTables
  <2>2. Ledger!Post(c.product, c.location, c.delta)
    BY <1>1, <2>1 DEF Ledger!Post, Moved, Added, Fits, Tables
  <2> QED
    BY <1>2, <1>3, <1>4, <2>2 DEF Ledger!LedgerNext
<1>5. CASE c.kind = "archive"
  <2>1. tx = [db EXCEPT !.active = @ \ {c.product}] /\ db.quantity[c.product] = Zero
    BY <1>1, <1>5 DEF WorkingTables
  <2>2. Ledger!Archive(c.product)
    BY <1>1, <2>1 DEF Ledger!Archive, Ledger!Zero, Zero, Tables
  <2> QED
    BY <1>3, <2>2 DEF Ledger!LedgerNext
<1>6. CASE c.kind = "restore"
  <2>1. tx = [db EXCEPT !.active = @ \cup {c.product}]
    BY <1>1, <1>6 DEF WorkingTables
  <2>2. Ledger!Restore(c.product)
    BY <1>1, <2>1 DEF Ledger!Restore, Tables
  <2> QED
    BY <1>3, <2>2 DEF Ledger!LedgerNext
<1> QED
  BY <1>2, <1>4, <1>5, <1>6

(* Any other step leaves the committed tables alone. *)
LEMMA OnlyCommitWrites ==
  ASSUME NEW p \in Procs, Request(p) \/ Step(p) \/ Crash(p) \/ Restart(p), ~Commit(p)
  PROVE  UNCHANGED db
<1>1. CASE Request(p)
  BY <1>1 DEF Request, StartPost, StartArchive, StartRestore, Start
<1>2. CASE Step(p)
  BY <1>2 DEF Step, BeginImmediate, LockUnavailable, UpdateStock, InsufficientStock,
              InsertMovement, CheckEmpty, StockRemains, DeleteStockRows, Deactivate, Activate,
              StatementError, CommitLost, Settle, Statement, Abandon
<1>3. CASE Crash(p) \/ Restart(p)
  BY <1>3 DEF Crash, Restart
<1> QED
  BY <1>1, <1>2, <1>3

(* Every behaviour of the instances is a behaviour of the atomic ledger:   *)
(* each call happens at once, at its commit, or not at all.                *)
THEOREM StoreImplementsLedger == Spec => ImplementsLedger
<1>1. Init => Ledger!LedgerInit
  BY DEF Init, Ledger!LedgerInit, Ledger!Zero, Zero
<1>2. StoreInv /\ [Next]_vars => [Ledger!LedgerNext]_(Ledger!ledgerVars)
  <2> SUFFICES ASSUME StoreInv, [Next]_vars
               PROVE  Ledger!LedgerNext \/ UNCHANGED db
    BY DEF Ledger!ledgerVars
  <2>1. CASE Next
    <3>1. PICK p \in Procs : Request(p) \/ Step(p) \/ Crash(p) \/ Restart(p)
      BY <2>1 DEF Next
    <3> QED
      BY <3>1, CommitRefines, OnlyCommitWrites
  <2> QED
    BY <2>1 DEF vars
<1> QED
  BY <1>1, <1>2, StoreInvariant, PTL DEF Spec, ImplementsLedger, Ledger!LedgerSpec
=============================================================================
