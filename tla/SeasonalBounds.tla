----------------------------- MODULE SeasonalBounds -----------------------------
(***************************************************************************)
(* The numbers of lina/value_engine.py: the seven principles, the bounds   *)
(* and tolerances of the four seasons, her center; in ten-thousandths.     *)
(***************************************************************************)
EXTENDS Integers

\* Each virtue with its shadow.
PlumbLine ==
    [harmony |-> "dominance", order |-> "chaos", integrity |-> "deception",
     flourishing |-> "decline", relationships |-> "isolation",
     boundaries |-> "intrusion", grace |-> "rigidity"]

AllSeasons == {"spring", "summer", "fall", "winter"}

\* One season's bounds, in hundredths: the minimum of each virtue and the maximum
\* of its shadow.
Bounds(harmony, order, integrity, flourishing, relationships, boundaries, grace) ==
    LET pair == [harmony |-> harmony, order |-> order, integrity |-> integrity,
                 flourishing |-> flourishing, relationships |-> relationships,
                 boundaries |-> boundaries, grace |-> grace]
        names == DOMAIN PlumbLine IN
    [d \in names \cup {PlumbLine[v] : v \in names} |->
        100 * IF d \in names THEN pair[d][1] ELSE pair[CHOOSE v \in names : PlumbLine[v] = d][2]]

SeasonalDefaults ==
    [spring |-> Bounds(<<30, 50>>, <<40, 30>>, <<60, 20>>, <<40, 30>>, <<50, 40>>, <<50, 30>>, <<30, 50>>),
     summer |-> Bounds(<<28, 52>>, <<38, 32>>, <<60, 20>>, <<38, 32>>, <<48, 42>>, <<48, 32>>, <<28, 52>>),
     fall   |-> Bounds(<<22, 58>>, <<32, 38>>, <<55, 25>>, <<32, 38>>, <<42, 48>>, <<42, 38>>, <<22, 58>>),
     winter |-> Bounds(<<18, 62>>, <<28, 42>>, <<50, 30>>, <<28, 42>>, <<38, 52>>, <<38, 42>>, <<18, 62>>)]

AcceptableVariance == [spring |-> 1200, summer |-> 800, fall |-> 500, winter |-> 700]
AlignedMinDistance == [spring |-> 200, summer |-> 300, fall |-> 400, winter |-> 350]

DefaultCenter ==
    Bounds(<<65, 25>>, <<70, 15>>, <<80, 10>>, <<70, 15>>, <<75, 20>>, <<75, 15>>, <<65, 25>>)

\* Where an encoding starts, 0.85 of her center.
Baseline == [d \in DOMAIN DefaultCenter |-> (85 * DefaultCenter[d]) \div 100]
================================================================================
