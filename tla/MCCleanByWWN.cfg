SPECIFICATION Spec
CONSTANTS
  Path = {p1, p2}
  Map = {d1, d2}
  Caller = {c1}
  None = None
  FlushRetries = 2
INVARIANTS TypeOK VerifiedFirst Accounted
SYMMETRY WWNSymmetry
