---------------------------- MODULE MCChamberStop ----------------------------
(***************************************************************************)
(* A chamber of eleven bytes and messages of one and four.                  *)
(***************************************************************************)
EXTENDS ChamberStop, TLC

CONSTANTS short, long

SomeSize == (short :> 1) @@ (long :> 4)
==============================================================================
