-------------------------- MODULE MCServiceBinding ---------------------------
(***************************************************************************)
(* ServiceBinding for TLC.  The identifiers a rotation may draw are fresh  *)
(* UUIDs that nothing compares with anything but themselves: they may be   *)
(* permuted.  Two parameter values are enough for a comparison to come out *)
(* both ways.                                                              *)
(***************************************************************************)
EXTENDS ServiceBinding, TLC

UuidSymmetry == Permutations(Uuids)
=============================================================================
