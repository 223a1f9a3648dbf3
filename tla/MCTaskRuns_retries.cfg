CONSTANTS
    t1 = t1
    t2 = t2
    r1 = r1
    r2 = r2
    r3 = r3
    o1 = o1
    Tasks = {t1, t2}
    Runs = {r1, r2, r3}
    Owners = {o1}
    Answers = {"limited_report"}
    NoTask = NoTask
    NoRun = NoRun
    NoOwner = NoOwner
    NoAnswer = NoAnswer
    LeaseTTL = 1
    RunTimeout = 2
    DecisionTTL = 1
    MaxTime = 2
    MaxEpoch = 1
    MaxRefs = 1
SPECIFICATION Spec
SYMMETRY Symmetry
INVARIANTS
    OneRunPerRetryRequest
    EventLogAgrees
