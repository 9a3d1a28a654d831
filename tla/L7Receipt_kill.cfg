SPECIFICATION Spec
CONSTANTS
    Attempt = {a, b, c}
    Fault = {"kill"}
    MayOverlap = TRUE
    None = None
SYMMETRY Attempts
CHECK_DEADLOCK FALSE
INVARIANTS OutcomesReserved SuccessIsTrue
PROPERTY Implements
