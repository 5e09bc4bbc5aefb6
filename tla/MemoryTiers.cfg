SPECIFICATION FairSpec
CONSTANTS
    faint = faint
    passing = passing
    strong = strong
    earned = earned
    Items = {faint, passing, strong, earned}
    Score <- Scores
    Sweepers = {s1}
    MaxFaults = 2
INVARIANTS LogIsTrue PermanenceIsInborn OnePlaceAfterSweep GoneIsGone
PROPERTIES NothingLost TieredFades
