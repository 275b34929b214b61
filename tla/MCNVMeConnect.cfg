SPECIFICATION FairSpec
CONSTANTS
  Device = {d1, d2, d3}
  Target = {t1, t2}
INVARIANTS TypeOK HandedOver NotFoundIsTrue SucceedsWithDevices
PROPERTIES CallReturns SendsEnd
CHECK_DEADLOCK FALSE
