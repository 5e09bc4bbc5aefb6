-------------------------- MODULE MCSessionLifecycle --------------------------
(***************************************************************************)
(* Turns and calls of session end are only compared.                        *)
(***************************************************************************)
EXTENDS SessionLifecycle, TLC

Symmetry == Permutations(Turns) \cup Permutations(Enders)
==============================================================================
