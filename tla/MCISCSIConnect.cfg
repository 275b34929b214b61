SPECIFICATION FairSpec
CONSTANTS
  c1 = c1
  c2 = c2
  t1 = t1
  t2 = t2
  None = None
  Call <- TwoCalls
  Target <- TwoTargets
  Requests <- SameOrOtherOrder
  Hosts <- MultipathOnly
  Limits = {1, 2}
INVARIANTS TypeOK ActiveFound ModeRuns PermitsAccounted
PROPERTIES ImplementsLimiter Throttled EveryCallReturns
CHECK_DEADLOCK FALSE
