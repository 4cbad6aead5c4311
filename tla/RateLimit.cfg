SPECIFICATION Spec
CONSTANTS
  Caller = {c1, c2}
  Rate = 1
  Capacity = 2
  TTL = 3
  MaxTime = 5
  MaxLate = 3
  Skew = 1
INVARIANT RateBound
CHECK_DEADLOCK FALSE
