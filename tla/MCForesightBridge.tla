-------------------------- MODULE MCForesightBridge --------------------------
(***************************************************************************)
(* A small bridge for TLC.  Turns are told apart only by what they took,   *)
(* so the run that checks no liveness property may permute them.           *)
(***************************************************************************)
EXTENDS ForesightBridge, TLC

Symmetry == Permutations(Turns)
==============================================================================
