SPECIFICATION Spec
CONSTANTS
  Session = {s1, s2}
  Rescans = 4
INVARIANT NotFoundIsTrue
CHECK_DEADLOCK FALSE
SYMMETRY SessionSymmetry
