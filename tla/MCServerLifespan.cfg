SPECIFICATION FairSpec
CONSTANTS
  a = a
  b = b
  Builds <- MCBuilds
  MaxMoment = 2
  MaxRestores = 2
  MaxTrouble = 1
INVARIANTS
  ServersAgree
  PairStaysTogether
PROPERTIES
  LostServerRests
