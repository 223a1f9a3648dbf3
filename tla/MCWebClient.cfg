CONSTANTS
    s1 = s1
    s2 = s2
    Slots = {s1, s2}
    NoSlot = NoSlot
    Bodies = {"limited_report", "cancel"}
    BatchSize = 2
    MaxEvents = 7
    MaxMessages = 5
    MaxTrouble = 2
SPECIFICATION FairSpec
INVARIANTS
    ViewAgrees
    
    EndsCaughtUp
PROPERTIES
    OutcomeIsCurrent
    OwnAnswerStands
    FollowerSeesOutcome
CHECK_DEADLOCK FALSE
