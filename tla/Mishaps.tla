------------------------------- MODULE Mishaps -------------------------------
(***************************************************************************)
(* What may go wrong, counted over all the programs that a specification   *)
(* composes, so that the bound is one of the whole system.                 *)
(***************************************************************************)
EXTENDS Naturals

CONSTANTS Faults, MaxFaults

ASSUME MishapsAssumption == MaxFaults \in Nat

VARIABLE faults

Fault(kind) ==
  /\ kind \in Faults
  /\ faults < MaxFaults
  /\ faults' = faults + 1
=============================================================================
