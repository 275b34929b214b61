SPECIFICATION FairSpec
CONSTANTS
  h1 = h1
  h2 = h2
  t1 = t1
  t2 = t2
  Hba <- TwoHbas
  Target <- TwoTargets
  Zoned <- ThreePaths
  LastRescan = 2
  RegisterSeconds = 2
INVARIANTS TypeOK SteadyFound CleanCovers
PROPERTIES NotFoundMeansRescanned RescansSpaced CallBounded CallReturns
CHECK_DEADLOCK FALSE
