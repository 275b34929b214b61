SPECIFICATION Spec
CONSTANTS
  Path = {p1, p2}
  Map = {d1}
  Caller = {c1}
  None = None
  FlushRetries = 1
INVARIANT ScannedCleaned
