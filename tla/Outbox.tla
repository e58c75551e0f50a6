-------------------------------- MODULE Outbox --------------------------------
(***************************************************************************)
(* The outbox: rows written with the fact they describe, the workers that  *)
(* poll for them, and operators who requeue dead letters.  A webhook's     *)
(* effect on its payment is applied by the dispatcher, in the transaction  *)
(* that marks the outbox row PROCESSED.                                    *)
(*                                                                         *)
(* A worker holds the row lock from its claim to its commit.  Claims are   *)
(* atomic: SKIP LOCKED passes over rows that are locked, and PostgreSQL    *)
(* evaluates the WHERE clause again on a row that has changed meanwhile.   *)
(***************************************************************************)
EXTENDS Integers

CONSTANTS
  Events,         \* outbox rows
  WebhookEvents,  \* those of type webhook.received
  Workers,
  Requeues,       \* calls of requeue_dead_letter
  MAX_ATTEMPTS,
  MAX_DELAY,      \* MAX_DELAY_SECONDS, in units of BASE_DELAY_SECONDS
  None,           \* no event
  Done            \* a requeue that has returned

ASSUME EventsAssumption ==
  WebhookEvents \subseteq Events /\ None \notin Events /\ Done \notin Events \cup {None}

ASSUME BoundsAssumption == MAX_ATTEMPTS \in Nat \ {0} /\ MAX_DELAY \in Nat

VARIABLES
  status,        \* outbox_events.status, "NONE" before the row is written
  attempt_count,
  available_at,
  received,      \* webhook_events whose processing_status is RECEIVED
  applied,       \* per webhook event: how often its effect was committed
  holder,        \* per worker: the event whose row it has locked
  requeue,       \* per requeue call: the dead letter it has read
  clock

vars == <<status, attempt_count, available_at, received, applied, holder, requeue, clock>>

Init ==
  /\ status = [e \in Events |-> "NONE"]
  /\ attempt_count = [e \in Events |-> 0]
  /\ available_at = [e \in Events |-> 0]
  /\ received = {}
  /\ applied = [e \in Events |-> 0]
  /\ holder = [w \in Workers |-> None]
  /\ requeue = [q \in Requeues |-> None]
  /\ clock = 0

\* The producer's transaction commits.  That a webhook's row is written with the
\* first delivery of its provider_event_id only is WebhookDelivery's subject.
Enqueue(e) ==
  /\ status[e] = "NONE"
  /\ status' = [status EXCEPT ![e] = "PENDING"]
  /\ available_at' = [available_at EXCEPT ![e] = clock]
  /\ received' = received \cup ({e} \cap WebhookEvents)
  /\ UNCHANGED <<attempt_count, applied, holder, requeue, clock>>

Locked(e) == \E w \in Workers : holder[w] = e

\* Mutant: FOR UPDATE without SKIP LOCKED is taken for no lock at all.
Claimable_Locked(e) == status[e] = "PENDING" /\ available_at[e] <= clock

\* Mutant: the comparison is the wrong way round.
Claimable_Swapped(e) == status[e] = "PENDING" /\ available_at[e] >= clock /\ ~Locked(e)

\* Mutant: the query asks for rows that are not dead letters.
Claimable_NotDead(e) ==
  status[e] \in {"PENDING", "PROCESSED"} /\ available_at[e] <= clock /\ ~Locked(e)

Claimable(e) == status[e] = "PENDING" /\ available_at[e] <= clock /\ ~Locked(e)

\* Mutant: the claim is committed as PROCESSING, with nothing to take it back.
_claim_one_Committed(w) ==
  /\ holder[w] = None
  /\ \E e \in Events :
       /\ Claimable(e)
       /\ holder' = [holder EXCEPT ![w] = e]
       /\ status' = [status EXCEPT ![e] = "PROCESSING"]
  /\ UNCHANGED <<attempt_count, available_at, received, applied, requeue, clock>>

\* The row that has been due for longest.
_claim_one(w) ==
  /\ holder[w] = None
  /\ \E e \in Events :
       /\ Claimable(e)
       /\ \A f \in Events : Claimable(f) => available_at[e] <= available_at[f]
       /\ holder' = [holder EXCEPT ![w] = e]
  /\ UNCHANGED <<status, attempt_count, available_at, received, applied, requeue, clock>>

\* Mutant: the webhook event is not marked.
apply_webhook_event_Unmarked(e) ==
  /\ applied' = [applied EXCEPT ![e] = IF e \in received THEN @ + 1 ELSE @]
  /\ UNCHANGED received

\* A no-op unless the webhook event is still RECEIVED.  Being IGNORED counts as an
\* effect here: the event is done with.
apply_webhook_event(e) ==
  /\ applied' = [applied EXCEPT ![e] = IF e \in received THEN @ + 1 ELSE @]
  /\ received' = received \ {e}

\* process_next, dispatch succeeds.
ProcessNext(w) ==
  LET e == holder[w]
  IN /\ e # None
     /\ apply_webhook_event(e)
     /\ status' = [status EXCEPT ![e] = "PROCESSED"]
     /\ holder' = [holder EXCEPT ![w] = None]
     /\ UNCHANGED <<attempt_count, available_at, requeue, clock>>

\* Full jitter: any delay up to the cap.
compute_backoff(attempts) ==
  0 .. (IF MAX_DELAY < 2^(attempts - 1) THEN MAX_DELAY ELSE 2^(attempts - 1))

\* Mutant: > for >=.
Exhausted_Strict(attempts) == attempts > MAX_ATTEMPTS

Exhausted(attempts) == attempts >= MAX_ATTEMPTS

\* process_next, dispatch raises.  The dispatchers raise before they write.
DispatchFails(w) ==
  LET e == holder[w]
      n == attempt_count[e] + 1
  IN /\ e # None
     /\ attempt_count' = [attempt_count EXCEPT ![e] = n]
     /\ \/ /\ Exhausted(n)
           /\ status' = [status EXCEPT ![e] = "DEAD_LETTER"]
           /\ UNCHANGED available_at
        \/ /\ ~Exhausted(n)
           /\ \E delay \in compute_backoff(n) :
                available_at' = [available_at EXCEPT ![e] = clock + delay]
           /\ UNCHANGED status
     /\ holder' = [holder EXCEPT ![w] = None]
     /\ UNCHANGED <<received, applied, requeue, clock>>

\* The worker dies, or its transaction is aborted: everything rolls back.
WorkerCrash(w) ==
  /\ holder[w] # None
  /\ holder' = [holder EXCEPT ![w] = None]
  /\ UNCHANGED <<status, attempt_count, available_at, received, applied, requeue, clock>>

\* requeue_dead_letter reads the row without a lock, and returns False unless it is a
\* dead letter ...
RequeueRead(q, e) ==
  /\ requeue[q] = None
  /\ status[e] # "NONE"
  /\ requeue' = [requeue EXCEPT ![q] = IF status[e] = "DEAD_LETTER" THEN e ELSE Done]
  /\ UNCHANGED <<status, attempt_count, available_at, received, applied, holder, clock>>

\* ... and writes it by its id, once no worker has it locked.
RequeueWrite(q) ==
  LET e == requeue[q]
  IN /\ e \in Events
     /\ ~Locked(e)
     /\ status' = [status EXCEPT ![e] = "PENDING"]
     /\ attempt_count' = [attempt_count EXCEPT ![e] = 0]
     /\ available_at' = [available_at EXCEPT ![e] = clock]
     /\ requeue' = [requeue EXCEPT ![q] = Done]
     /\ UNCHANGED <<received, applied, holder, clock>>

\* Time passes while a row waits for its time.
Tick ==
  /\ \E e \in Events : status[e] = "PENDING" /\ available_at[e] > clock
  /\ clock' = clock + 1
  /\ UNCHANGED <<status, attempt_count, available_at, received, applied, holder, requeue>>

\* The steps of the workers, the operators and the clock.
Work ==
  \/ \E w \in Workers :
       _claim_one(w) \/ ProcessNext(w) \/ DispatchFails(w) \/ WorkerCrash(w)
  \/ \E q \in Requeues : RequeueWrite(q) \/ \E e \in Events : RequeueRead(q, e)
  \/ Tick

Next == (\E e \in Events : Enqueue(e)) \/ Work

Spec == Init /\ [][Next]_vars

-------------------------------------------------------------------------------

\* Type invariant.
TypeOK ==
  /\ status \in [Events -> {"NONE", "PENDING", "PROCESSED", "DEAD_LETTER"}]
  /\ attempt_count \in [Events -> 0 .. MAX_ATTEMPTS]
  /\ available_at \in [Events -> Nat]
  /\ received \in SUBSET WebhookEvents
  /\ applied \in [Events -> Nat]
  /\ holder \in [Workers -> Events \cup {None}]
  /\ requeue \in [Requeues -> Events \cup {None, Done}]
  /\ clock \in Nat

\* No row is dispatched by two workers at once, whatever replicas poll, crash and are
\* restarted, and whatever is requeued meanwhile (SKIP LOCKED in _claim_one).
OneWorker ==
  \A v, w \in Workers : holder[v] = holder[w] /\ holder[v] # None => v = w

\* A webhook changes its payment once, and has done so when its row is PROCESSED,
\* through retries, crashes and requeues, even when a race of two requeues has a
\* PROCESSED row dispatched again (the guard on processing_status).
EffectOnce ==
  \A e \in WebhookEvents :
    /\ applied[e] <= 1
    /\ status[e] = "PROCESSED" => applied[e] = 1

\* A row that may be retried has attempts left and a dead letter has used them all:
\* no event is retried forever, and none is given up early.
RetriesBounded ==
  \A e \in Events :
    /\ status[e] = "PENDING" => attempt_count[e] < MAX_ATTEMPTS
    /\ status[e] = "DEAD_LETTER" => attempt_count[e] = MAX_ATTEMPTS

\* A row that is done with, or given up, comes back only when an operator asks for it
\* after it was given up, and with all its attempts (requeue_dead_letter).
NeverAutomatic ==
  [][\A e \in Events :
       status[e] \in {"PROCESSED", "DEAD_LETTER"} =>
         \/ status'[e] = status[e]
         \/ /\ status'[e] = "PENDING" /\ attempt_count'[e] = 0
            /\ \E q \in Requeues : requeue[q] = e /\ requeue'[q] = Done]_vars

\* Every row that is waiting is in the end dispatched or given up: neither a row that
\* keeps failing nor a worker that crashes holds up the others.
Handled ==
  \A e \in Events :
    status[e] = "PENDING" ~> status[e] \in {"PROCESSED", "DEAD_LETTER"}

===============================================================================
