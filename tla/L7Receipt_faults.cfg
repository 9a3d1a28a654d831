SPECIFICATION Spec
CONSTANTS
    Attempt = {a, b, c}
    Fault = {"oserror", "interrupt", "kill"}
    MayOverlap = FALSE
    None = None
SYMMETRY Attempts
CHECK_DEADLOCK FALSE
INVARIANTS FailureIsTrue OneOutcome
