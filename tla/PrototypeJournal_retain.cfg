SPECIFICATION FairSpec
CONSTANTS
    SemanticModel = TRUE
    Tables = 1
    MaxFaults = 2
    MaxForeign = 1
    MaxUpgrades = 1
    None = None
INVARIANTS CreatedOnce NothingAdopted BuiltInOrder
PROPERTIES OwnershipFinal Implements FinishesOrBlocked
CHECK_DEADLOCK FALSE
