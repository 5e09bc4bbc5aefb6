SPECIFICATION FairSpec
CONSTANTS
    Items = {memory}
    Scores = {3, 13, 17, 19}
    Monthly = {m1, m2}
    Yearly = {y1}
    Unit = 200
    MaxAge = 4
    Remaining <- MCRemaining
    MaxRefs = 1
    MaxFaults = 1
INVARIANTS CrownStands OnceRecalledStays
PROPERTIES MovesAreLogged FlatTire
CHECK_DEADLOCK FALSE
