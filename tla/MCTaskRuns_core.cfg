CONSTANTS
    t1 = t1
    r1 = r1
    r2 = r2
    o1 = o1
    o2 = o2
    Tasks = {t1}
    Runs = {r1, r2}
    Owners = {o1, o2}
    Answers = {"limited_report"}
    NoTask = NoTask
    NoRun = NoRun
    NoOwner = NoOwner
    NoAnswer = NoAnswer
    LeaseTTL = 2
    RunTimeout = 3
    DecisionTTL = 2
    MaxTime = 4
    MaxEpoch = 2
    MaxRefs = 3
SPECIFICATION Spec
SYMMETRY Symmetry
INVARIANTS
    RowsAgree
    RefsInEpochOrder
    AnswerStaysDeliverable
PROPERTIES
    FirstCauseWins
    DecisionSettlesOnce
    ImplementsLifecycle
