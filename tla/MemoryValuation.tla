---------------------------- MODULE MemoryValuation ----------------------------
(***************************************************************************)
(* What a moment is worth when a memory is formed of it (lina/mps.py and    *)
(* the scoring of lina/value_engine.py).  A moment has the factors her      *)
(* reflection gave it, in points, its intensity, in tenths, and the reading *)
(* of its narrative in the polytope: whether it lies inside, and its        *)
(* alignment in thousandths.                                                *)
(***************************************************************************)
EXTENDS Naturals

Least(a, b)    == IF a < b THEN a ELSE b
Greatest(a, b) == IF a < b THEN b ELSE a

\* In thousandths of a point.  What lies outside was corrected, and is a violation.
GeometricSignificance(aligned, alignment) ==
    Least(10000, 10 * (1000 - alignment) + IF aligned THEN 0 ELSE 2000 + 1000)

Intensified(intensity) == 70 + 6 * intensity    \* in hundredths

\* A tenth of a point, in the millionths a score is reckoned in.
Tenth == 1000 * 1000

ScoreMemory(m) ==
    Least(100 * Tenth,
          Intensified(m.intensity) *
            (30000 * m.identity + 25000 * m.emotional + 20000 * m.relational
               + 25 * GeometricSignificance(m.aligned, m.alignment)))

TriggerRetentionFloor == 50 * Tenth

RoundedTo(unit, x) == unit * ((x + unit \div 2) \div unit)

\* importance_score, of which only the tenths matter to a gate.
Importance(m, trigger) ==
    LET score == IF trigger THEN Greatest(ScoreMemory(m), TriggerRetentionFloor)
                 ELSE ScoreMemory(m)
    IN RoundedTo(1000, score) \div Tenth

\* The factors ingest_trigger falls back on.
CareByDefault(aligned, alignment) ==
    [identity |-> 3, emotional |-> 5, relational |-> 5, intensity |-> 5,
     aligned |-> aligned, alignment |-> alignment]
==============================================================================
