SPECIFICATION OneCallSpec
CONSTANTS
  Path = {p1, p2}
  Map = {d1, d2}
  Caller = {c1}
  None = None
  FlushRetries = 1
  PowerPathRunning = FALSE
INVARIANTS TypeOK FlushedFirst Accounted NoDeleteUnderMap FreedFirst
SYMMETRY HostSymmetry
CHECK_DEADLOCK FALSE
