SPECIFICATION Spec
CONSTANTS
    Databases = {"pool", "opening"}
    Requests = {q1, q2, q3}
    Readers = {t1, t2}
    Corrections = {c1, c2}
    Metrics <- MCMetrics
    MaxFaults = 2
SYMMETRY Symmetry
INVARIANTS NothingUnearned SpringTakesTwo
CHECK_DEADLOCK FALSE
