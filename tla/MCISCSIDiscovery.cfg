SPECIFICATION FairSpec
CONSTANTS
  Session = {s1, s2}
  Rescans = 0
INVARIANTS TypeOK NothingLost LaterPassSeesAll
PROPERTIES ConnectReturns GoroutinesEnd
CHECK_DEADLOCK FALSE
