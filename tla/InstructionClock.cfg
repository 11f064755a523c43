SPECIFICATION Spec
CONSTANTS
    MaxCount = 4
    MaxEvents = 3
    None = None
INVARIANTS
    TypeOK
    NoneOverdue
    BudgetIsSafe
    SnapshotIsRestorable
PROPERTIES
    CancelledNeverFires
    FiringOrder
