SPECIFICATION Spec
CONSTANTS
    MaxEpoch = 3
    MaxSteps = 3
INVARIANTS
    HistoryAgrees
    WorksOnAccepted
    AcceptedWorkIsKept
CHECK_DEADLOCK FALSE
