SPECIFICATION FairSpec
CONSTANTS
    Calls = {t1, t2}
    Providers = 2
    Slots = 1
    MaxToolPasses = 3
    MaxRepeats = 2
    MaxFaults = 1
INVARIANTS OneVoice RecordIsWeighed InterruptedIsKept
PROPERTIES EveryTurnEnds
CHECK_DEADLOCK FALSE
