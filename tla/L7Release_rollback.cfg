SPECIFICATION Spec
CONSTANTS
    N = 3
    Kind <- MCKind
    MaxDrift = 2
    NoTag = NoTag
CHECK_DEADLOCK FALSE
INVARIANTS RolledBackIsTrue SucceededIsTrue
PROPERTY NothingLostUnseen
