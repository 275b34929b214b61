SPECIFICATION TwoSpec
CONSTANTS
  Path = {p1, p2}
  Map = {d1}
  Caller = {c1, c2}
  None = None
  FlushRetries = 1
  PowerPathRunning = FALSE
INVARIANTS NoDeleteUnderMap
SYMMETRY TwoSymmetry
CHECK_DEADLOCK FALSE
