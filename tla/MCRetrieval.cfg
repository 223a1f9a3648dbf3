SPECIFICATION FairSpec
CONSTANTS
  f1 = f1
  f2 = f2
  f3 = f3
  r1 = r1
  r2 = r2
  tavily = tavily
  arxiv = arxiv
  github = github
  Fanouts = {f1, f2, f3}
  Sources = {tavily, github, arxiv}
  Runs = {r1, r2}
  Plans <- MCPlans
  Searchers <- MCSearchers
  NoOne = NoOne
  MaxInFlight = 1
  MaxRetries = 1
  Throttled = github
  RunOf <- MCRunOf
  NoCall = NoCall
  MaxCalls = 2
  MaxTrouble = 1
  Posters <- MCPosters
  Keys = {k1, k2}
  Nobody = Nobody
  Capacity = 1
  Ttl = 0
  Reprobe = FALSE
  Pooled = tavily
  Queries = {q1, q2}
INVARIANTS
  AnswersAreReal
  OneSuccessPerRun
  
  
PROPERTIES
  EveryFanoutEnds
CHECK_DEADLOCK FALSE
