SPECIFICATION Spec
CONSTANTS
  Value = {0, 1}
  Listings <- EitherOrder
INVARIANT OwnDevicesOnly
CHECK_DEADLOCK FALSE
