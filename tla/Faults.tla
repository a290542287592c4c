------------------------------- MODULE Faults -------------------------------
(***************************************************************************)
(* The fault budget.  A crash, a failed database or Redis call, a stalled  *)
(* worker or a lost event spends one unit.  The budget bounds exploration; *)
(* it stands for no code.                                                  *)
(***************************************************************************)
EXTENDS Naturals

CONSTANT MaxFaults

ASSUME MaxFaultsAssumption == MaxFaults \in Nat

VARIABLE faults

Fault ==
  /\ faults < MaxFaults
  /\ faults' = faults + 1
=============================================================================
