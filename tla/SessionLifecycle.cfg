SPECIFICATION Spec
CONSTANTS
    Sessions = {s1}
    Turns = {t1, t2}
    Enders = {e1}
    Window = 2
    MaxPasses = 2
    MaxFaults = 1
SYMMETRY Symmetry
INVARIANTS TypeOK FormedOnce MarkLeavesNoGap EveryEndCounts EndLeavesNothing LivedSessionEnds
CHECK_DEADLOCK FALSE
