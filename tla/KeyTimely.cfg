\* Creations and refunds that are over within the stale limit, unless they crash.
CONSTANTS
  Requests = {r1, r2, r3, r4}
  Operations = {"create", "refund"}
  Bodies = {b1}
  StaleAfter = 2
  Timely = TRUE
  FreeTime = 2
  None = None
SYMMETRY Symmetry
SPECIFICATION Spec
INVARIANTS OneHolderUnlessMismarked
PROPERTIES KeepsPromise
CHECK_DEADLOCK FALSE
