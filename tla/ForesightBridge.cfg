SPECIFICATION BridgeFairSpec
CONSTANTS
    Turns = {t1, t2, t3, t4}
    Room = 2
    MaxOutages = 1
INVARIANTS EchoesInOrder EchoOnce
PROPERTIES EveryTurnEnds SpokeKeepsUp
CHECK_DEADLOCK FALSE
