SPECIFICATION StopSpec
CONSTANTS
    short = short
    long = long
    Capacity = 11
    Header = 2
    Messages = {short, long}
    Size <- SomeSize
    MaxSent = 3
    MaxCrashes = 0
INVARIANTS ResetIsClean
CHECK_DEADLOCK FALSE
