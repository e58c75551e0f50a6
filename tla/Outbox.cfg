\* Two overlapping deliveries of one webhook, two workers that keep polling, and two
\* requeues that may race.
CONSTANTS
  Events = {e1, e2}
  WebhookEvents = {e1}
  Workers = {w1, w2}
  Requeues = {q1, q2}
  MAX_ATTEMPTS = 3
  MAX_DELAY = 1
  Deliveries = {d1, d2}
  SubjectOf <- MCSubjectOf
  None = None
  Done = Done
SPECIFICATION FairSpec
INVARIANTS TypeOK OneWorker EffectOnce RetriesBounded AckedIsStored
PROPERTIES NeverAutomatic Handled
CHECK_DEADLOCK FALSE
