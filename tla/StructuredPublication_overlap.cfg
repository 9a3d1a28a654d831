SPECIFICATION Spec
CONSTANTS
    r1 = r1
    r2 = r2
    r3 = r3
    s1 = s1
    s2 = s2
    Run = {r1, r2, r3}
    Source = {s1, s2}
    SourceOf <- MCSourceOf
    N = 2
    Old = Old
    Absent = Absent
    Found <- MCFound
    MaxOverlap = 2
    MaxFaults = 2
SYMMETRY SameSource
INVARIANTS RollbackAffordable CleanFailureIsClean MixIsReported
PROPERTIES SuccessReplacedKnowingly SkipIsTrue
CHECK_DEADLOCK FALSE
