------------------------------- MODULE Faults -------------------------------
(***************************************************************************)
(* What goes wrong around the code: crashes, failed calls, lost answers,   *)
(* rebalances.  The code neither causes nor counts them.  A behaviour has  *)
(* at most MaxFaults of them where they could otherwise go on for ever;    *)
(* every action that models one takes a Fault.                             *)
(***************************************************************************)
EXTENDS Integers

CONSTANT MaxFaults    \* bound on the faults of a behaviour

ASSUME FaultsAssumption == MaxFaults \in Nat

VARIABLE faults       \* those that have happened

Fault == faults < MaxFaults /\ faults' = faults + 1
=============================================================================
