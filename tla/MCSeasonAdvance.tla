--------------------------- MODULE MCSeasonAdvance ---------------------------
(***************************************************************************)
(* Records on both sides of the thresholds: one too young for Summer, one  *)
(* just ready for it whose declined actions are too few to count, one      *)
(* ready for everything.                                                   *)
(***************************************************************************)
EXTENDS SeasonAdvance, TLC

Record(s, e, a, v, m, n, p) ==
    [sessions |-> s, evaluations |-> e, aligned |-> a, violations |-> v,
     memories |-> m, resolved |-> n, approved |-> p]

MCMetrics ==
    {Record(4, 30, 85, 3, 1, 0, 0), Record(5, 30, 85, 3, 1, 2, 0),
     Record(40, 300, 90, 3, 7, 25, 90)}

Symmetry == Permutations(Requests) \cup Permutations(Readers)
            \cup Permutations(Corrections)
==============================================================================
