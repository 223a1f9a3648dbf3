SPECIFICATION Spec
CONSTANTS
    m1 = m1
    m2 = m2
    Metered <- Tokens
    Limit <- Limits
    Calls <- ModelCalls
    Bundle <- Bundles
    ActiveLimit = 1
    MaxEpoch = 2
    MaxElapsed = 1
SYMMETRY Symmetry
INVARIANTS
    BooksBalance
    WithinLimits
    OpenIsOwned
PROPERTIES
    RecordedTimeGates
CHECK_DEADLOCK FALSE
