----------------------------- MODULE MCDispatch -----------------------------
(* Dispatch with one critical alert, scheduled fairly. *)
EXTENDS Dispatch

Severities == [e \in Alert |-> 3]

Spec == DispatchInit /\ [][DispatchNext]_dispatchVars /\ DispatchFairness
=============================================================================
