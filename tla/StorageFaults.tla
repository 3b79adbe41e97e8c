--------------------------- MODULE StorageFaults ---------------------------
(* A write that storage refuses, or a worker that goes away: a bounded number of them. *)
EXTENDS Integers

CONSTANT MaxFaults    \* bound

ASSUME FaultsAssumption == MaxFaults \in Nat

VARIABLE faults

Fault == faults < MaxFaults /\ faults' = faults + 1
=============================================================================
