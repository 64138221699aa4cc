------------------------------ MODULE Transfer ------------------------------
(***************************************************************************)
(* inv_transfer: a movement out of one location, a movement into another,  *)
(* and, when the second one fails, a movement that puts the units back,    *)
(* whose own result nobody reads.  One product; other movements are posted *)
(* meanwhile.  A movement is one step (StockStore implements StockLedger), *)
(* or none when its COMMIT fails, which inv_post_movement does not notice. *)
(* No screen calls inv_transfer yet: it is an operation of core.h.         *)
(***************************************************************************)
EXTENDS Integers, FiniteSets, Functions

CONSTANTS
  Procs,      \* application instances
  Locations,  \* ids of the locations table
  MaxStock,   \* bound: units one movement carries, and units in a location
  MaxLost     \* bound: units that transfers may lose, or make up

VARIABLES
  quantity,  \* stock rows of the product
  moved,     \* units brought in by movements that are not part of a transfer
  pc,        \* next movement of each instance
  job,       \* the transfer each instance executes
  lost       \* history: units of the transfers that ended without their
             \* second movement and without the compensation, less those of
             \* the transfers whose first movement was lost in its COMMIT

vars == <<quantity, moved, pc, job, lost>>

Jobs == [from : Locations, to : Locations, qty : 1..MaxStock]

TypeOK ==
  /\ quantity \in [Locations -> 0..MaxStock]
  /\ moved \in Int
  /\ lost \in -MaxLost..MaxLost
  /\ pc \in [Procs -> {"idle", "in", "compensate"}]
  /\ \A p \in Procs : pc[p] # "idle" => job[p] \in Jobs

Init ==
  /\ quantity = [l \in Locations |-> 0]
  /\ moved = 0
  /\ pc = [p \in Procs |-> "idle"]
  /\ job = [p \in Procs |-> <<>>]
  /\ lost = 0

Goto(p, label) == pc' = [pc EXCEPT ![p] = label]

Done(p) ==
  /\ Goto(p, "idle")
  /\ job' = [job EXCEPT ![p] = <<>>]

\* Mutant: the guard of the UPDATE is left out.
PostUnguarded(l, delta) ==
  /\ quantity[l] + delta <= MaxStock
  /\ quantity' = [quantity EXCEPT ![l] = @ + delta]

Post(l, delta) ==
  /\ quantity[l] + delta \in 0..MaxStock
  /\ quantity' = [quantity EXCEPT ![l] = @ + delta]

-----------------------------------------------------------------------------
\* The movement panel, a receipt, a return: anything but a transfer.
Move(l, delta) ==
  /\ Post(l, delta)
  /\ moved' = moved + delta
  /\ UNCHANGED <<pc, job, lost>>

\* A first movement that is refused ends the call with nothing done.
TransferOut(p, j) ==
  /\ pc[p] = "idle"
  /\ Post(j.from, -j.qty)
  /\ job' = [job EXCEPT ![p] = j]
  /\ Goto(p, "in")
  /\ UNCHANGED <<moved, lost>>

\* The COMMIT of the first movement fails: the second brings units in all the same.
OutLost(p, j) ==
  /\ pc[p] = "idle"
  /\ quantity[j.from] >= j.qty
  /\ lost - j.qty >= -MaxLost
  /\ lost' = lost - j.qty
  /\ job' = [job EXCEPT ![p] = j]
  /\ Goto(p, "in")
  /\ UNCHANGED <<quantity, moved>>

TransferIn(p) ==
  /\ pc[p] = "in"
  /\ Post(job[p].to, job[p].qty)
  /\ Done(p)
  /\ UNCHANGED <<moved, lost>>

TransferInFails(p) ==
  /\ pc[p] = "in"
  /\ Goto(p, "compensate")
  /\ UNCHANGED <<quantity, moved, job, lost>>

Compensate(p) ==
  /\ pc[p] = "compensate"
  /\ Post(job[p].from, job[p].qty)
  /\ Done(p)
  /\ UNCHANGED <<moved, lost>>

\* The units of the transfer of p, out of one location, reach no other.
Lose(p) ==
  /\ lost + job[p].qty <= MaxLost
  /\ lost' = lost + job[p].qty
  /\ Done(p)
  /\ UNCHANGED <<quantity, moved>>

\* The COMMIT of the second movement fails.
InLost(p) == pc[p] = "in" /\ Lose(p)

\* The lock is still not to be had, or the COMMIT of the compensation fails.
CompensationFails(p) == pc[p] = "compensate" /\ Lose(p)

\* The instance stops before its next movement.
Crash(p) == pc[p] # "idle" /\ Lose(p)

Next ==
  \/ \E l \in Locations, n \in 1..MaxStock : Move(l, n) \/ Move(l, -n)
  \/ \E p \in Procs :
       \/ \E j \in Jobs : TransferOut(p, j) \/ OutLost(p, j)
       \/ TransferIn(p) \/ InLost(p) \/ TransferInFails(p)
       \/ Compensate(p) \/ CompensationFails(p) \/ Crash(p)

Spec == Init /\ [][Next]_vars

-----------------------------------------------------------------------------
(* Properties.                                                             *)

Total == SumFunctionOnSet(quantity, Locations)

Carrying == {p \in Procs : pc[p] # "idle"}

OnTheWay == SumFunctionOnSet([p \in Carrying |-> job[p].qty], Carrying)

(* Every unit brought in is in a location, on its way, or was lost by a    *)
(* transfer cut short: none appears twice but by a COMMIT that failed, and *)
(* a transfer that fails and is compensated leaves the stock where it was  *)
(* (README: "automatic compensating rollback if the second leg fails").    *)
UnitsAccountedFor == Total + OnTheWay + lost = moved
=============================================================================
