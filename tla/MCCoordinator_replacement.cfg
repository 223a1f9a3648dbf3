CONSTANTS
    p1 = p1
    r1 = r1
    r2 = r2
    Procs = {p1}
    Mortal = {}
    Runs = {r1, r2}
    NoRun = NoRun
    NoProc = NoProc
    MaxEpoch = 2
    MaxLate = 0
    MaxFaults = 0
    MaxLost = 1
SPECIFICATION FairSpec
PROPERTIES
    ImplementsLifecycle
    
    ExecutionEnds
CHECK_DEADLOCK FALSE
