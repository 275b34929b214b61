SPECIFICATION FairSpec
CONSTANTS
  NoOne = NoOne
  Caller = {c1, c2}
  Key = {k1, k2}
  Ttl = 1
  TickEvery = 2
  MaxTime = 5
INVARIANT TypeOK
PROPERTIES ImplementsThrottle KeyReopens CallReturns
CHECK_DEADLOCK FALSE
