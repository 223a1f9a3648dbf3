SPECIFICATION FairSpec
CONSTANTS
  MaxEpoch = 3
  MaxTrouble = 1
  Calling <- MCCalling
INVARIANTS
  RunAgrees
  
  
PROPERTIES
  ComesToRest
CHECK_DEADLOCK FALSE
