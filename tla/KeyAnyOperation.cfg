\* Requests of every kind, holders that are slow, and clients that ask again.
CONSTANTS
  Requests = {r1, r2, r3}
  Operations = {"create", "capture", "refund"}
  Bodies = {b1}
  StaleAfter = 1
  Timely = FALSE
  FreeTime = 0
  None = None
SPECIFICATION FairSpec
INVARIANTS TypeOK KeysNeverMix CapturedOnce
PROPERTIES Served
CHECK_DEADLOCK FALSE
