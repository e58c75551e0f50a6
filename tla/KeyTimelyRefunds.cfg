\* Refunds that are over within the stale limit, unless they crash.
CONSTANTS
  Requests = {r1, r2, r3, r4}
  Operations = {"refund"}
  Bodies = {b1}
  StaleAfter = 1
  Timely = TRUE
  FreeTime = 1
  None = None
SYMMETRY Symmetry
SPECIFICATION Spec
INVARIANTS OneHolder
CHECK_DEADLOCK FALSE
