\* Three creations; three payments are a burst, two declines are repeated failures.
CONSTANTS
  MaxClock = 2
  Requests = {p1, p2, p3}
  Asks <- MCAsks
  NoCountry = NoCountry
  US = US
  CA = CA
  VELOCITY_WINDOW = 1
  VELOCITY_THRESHOLD = 3
  REPEATED_FAILURE_THRESHOLD = 2
SYMMETRY Symmetry
SPECIFICATION Spec
INVARIANTS BurstNoticed FailuresNoticed ScreenedFirst
CHECK_DEADLOCK FALSE
