---------------------------- MODULE MCMemoryTiers ----------------------------
(***************************************************************************)
(* One memory for every way through the gates, on and around each gate:    *)
(* three moments her reflection found, and a word she was asked to keep.   *)
(***************************************************************************)
EXTENDS MemoryTiers, MemoryValuation, TLC

CONSTANTS faint, passing, strong, earned

Found(identity, emotional, relational, intensity) ==
    [identity |-> identity, emotional |-> emotional, relational |-> relational,
     intensity |-> intensity, aligned |-> TRUE, alignment |-> 600]

Scores ==
    (faint   :> Importance(Found(2, 3, 3, 5), FALSE)) @@
    (passing :> Importance(Found(3, 3, 3, 6), FALSE)) @@
    (strong  :> Importance(Found(4, 5, 5, 7), FALSE)) @@
    (earned  :> Importance(CareByDefault(TRUE, 600), TRUE))

\* The memories stand where the gates divide them.
ASSUME OnTheGates ==
    Scores[faint] = 29 /\ Scores[passing] = 34 /\ Scores[strong] = 49 /\ Scores[earned] = 50
==============================================================================
