SPECIFICATION FairSpec
CONSTANTS
  Path = {p1}
  Map = {d1}
  Caller = {c1}
  None = None
  FlushRetries = 2
  PowerPathRunning = TRUE
PROPERTIES CallReturns CallBounded
