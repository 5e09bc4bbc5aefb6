SPECIFICATION Spec
CONSTANTS
    Virtues <- MCVirtues
    Shadow <- PlumbLine
    Seasons = {"spring", "summer"}
    First = "spring"
    Bound <- SeasonalDefaults
    Variance <- AcceptableVariance
    MinDistance <- AlignedMinDistance
    Neutral <- Baseline
    Responses <- MCResponses
    Signals <- MCSignals
    Advices <- MCAdvices
    Turns = {t1, t2}
    MaxLessons = 2
    MaxPending = 1
SYMMETRY Symmetry
INVARIANTS CorrectedIsOnEdge LessonsMoveLittle
PROPERTIES AlignedStaysAligned
