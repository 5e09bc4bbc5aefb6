SPECIFICATION Spec
CONSTANTS
    Items = {memory}
    Scores = {13}
    Monthly = {m1}
    Yearly = {}
    Unit = 100
    MaxAge = 8
    Remaining <- MCRemainingByHundreds
    MaxRefs = 0
    MaxFaults = 0
PROPERTY HalfLifeHolds
CHECK_DEADLOCK FALSE
