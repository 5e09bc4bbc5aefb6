SPECIFICATION FairSpec
CONSTANTS
    short = short
    long = long
    huge = huge
    empty = empty
    Capacity = 11
    Header = 2
    Messages = {short, long, huge, empty}
    Size <- SomeSize
    MaxSent = 5
    MaxCrashes = 2
INVARIANTS FramesIntact InOrderOnce
PROPERTIES ImplementsPipe
CHECK_DEADLOCK FALSE
