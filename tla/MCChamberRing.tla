---------------------------- MODULE MCChamberRing ----------------------------
(***************************************************************************)
(* Small chambers for TLC.  Eleven bytes and a header of two let frames of *)
(* three and five bytes wrap at every position, header included.           *)
(***************************************************************************)
EXTENDS ChamberRing, TLC

CONSTANTS short, long, huge, empty

SomeSize == (short :> 1) @@ (long :> 4) @@ (huge :> 10) @@ (empty :> 0)
==============================================================================
