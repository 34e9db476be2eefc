-------------------------- MODULE MCServiceInstance --------------------------
(***************************************************************************)
(* ServiceInstance for TLC.  Plans and parameter values are model values:  *)
(* the controller and the broker only compare them, so two of each are     *)
(* enough for every comparison to come out both ways, and plans may be     *)
(* permuted (NoParams and BadParams are not interchangeable with others).  *)
(***************************************************************************)
EXTENDS ServiceInstance, TLC

PlanSymmetry == Permutations(Plans)
=============================================================================
