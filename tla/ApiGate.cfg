\* Three requests and two rotations; the clock passes the expiry of a bucket.
CONSTANTS
  MaxClock = 5
  Capacity = 2
  Refill = 1
  Token = 1
  Margin = 2
  Skew = 1
  Rotations = {o1, o2}
  SeededKey = seeded
  Overlap = 2
  NoHash = NoHash
  Requests = {q1, q2, q3}
SYMMETRY Symmetry
SPECIFICATION Spec
INVARIANTS WindowLimit NoOutage
PROPERTIES NothingToRemember RetiredForGood
CHECK_DEADLOCK FALSE
