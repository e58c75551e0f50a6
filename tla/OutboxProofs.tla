----------------------------- MODULE OutboxProofs -----------------------------
(***************************************************************************)
(* The outbox is safe for any number of rows, workers, requeues and        *)
(* attempts, and so it is behind the webhook endpoint, for any number of   *)
(* deliveries.                                                             *)
(***************************************************************************)
EXTENDS WebhookDelivery, TLAPS

\* A webhook event stays RECEIVED until its effect is committed.
ReceivedInv ==
  \A e \in WebhookEvents :
    /\ e \in received => applied[e] = 0 /\ status[e] # "PROCESSED"
    /\ e \notin received /\ status[e] # "NONE" => applied[e] = 1
    /\ status[e] = "NONE" => applied[e] = 0

\* The inductive invariant of the outbox.  A row that is locked by a worker stays
\* PENDING, one that has not been written counts no attempts, and what a requeue has read is a row that has been written.
OutboxInv ==
  /\ TypeOK
  /\ OneWorker
  /\ RetriesBounded
  /\ ReceivedInv
  /\ \A w \in Workers : holder[w] # None => status[holder[w]] = "PENDING"
  /\ \A e \in Events : status[e] = "NONE" => attempt_count[e] = 0
  /\ \A q \in Requeues : requeue[q] \in Events => status[requeue[q]] # "NONE"

\* No delay of compute_backoff is negative.
LEMMA BackoffType == \A n : \A delay \in compute_backoff(n) : delay \in Nat
<1> SUFFICES ASSUME NEW n, NEW delay \in compute_backoff(n) PROVE delay \in Nat
  OBVIOUS
<1> DEFINE cap == IF MAX_DELAY < 2^(n - 1) THEN MAX_DELAY ELSE 2^(n - 1)
<1>1. delay \in 0 .. cap
  BY DEF compute_backoff
<1> HIDE DEF cap
<1> QED BY <1>1

\* Init establishes the invariant.
LEMMA OutboxInit == Init => OutboxInv
BY EventsAssumption, BoundsAssumption, SMTT(30)
   DEF Init, OutboxInv, TypeOK, OneWorker, RetriesBounded, ReceivedInv

\* Every step preserves the invariant.
LEMMA OutboxStep == OutboxInv /\ [Next]_vars => OutboxInv'
<1> SUFFICES ASSUME OutboxInv, [Next]_vars PROVE OutboxInv'
  OBVIOUS
<1> USE EventsAssumption, BoundsAssumption
    DEF OutboxInv, TypeOK, OneWorker, RetriesBounded, ReceivedInv
<1>1. ASSUME NEW e \in Events, Enqueue(e) PROVE OutboxInv'
  BY <1>1 DEF Enqueue
<1>2. ASSUME NEW w \in Workers, _claim_one(w) PROVE OutboxInv'
  <2>1. PICK e \in Events : Claimable(e) /\ holder' = [holder EXCEPT ![w] = e]
    BY <1>2, Zenon DEF _claim_one
  <2>2. status[e] = "PENDING" /\ \A v \in Workers : holder[v] # e
    BY <2>1 DEF Claimable, Locked
  <2> QED BY <1>2, <2>1, <2>2 DEF _claim_one
<1>3. ASSUME NEW w \in Workers, ProcessNext(w) PROVE OutboxInv'
  <2> DEFINE e == holder[w]
  <2>1. e \in Events /\ status[e] = "PENDING"
    BY <1>3 DEF ProcessNext
  <2>2. TypeOK' /\ OneWorker' /\ RetriesBounded'
    BY <1>3, <2>1 DEF ProcessNext, apply_webhook_event
  <2>3. ReceivedInv'
    BY <1>3, <2>1 DEF ProcessNext, apply_webhook_event
  <2> QED BY <1>3, <2>1, <2>2, <2>3 DEF ProcessNext
<1>4. ASSUME NEW w \in Workers, DispatchFails(w) PROVE OutboxInv'
  <2> DEFINE e == holder[w]
             n == attempt_count[e] + 1
  <2>1. e \in Events /\ status[e] = "PENDING" /\ n \in 1 .. MAX_ATTEMPTS
    BY <1>4 DEF DispatchFails
  <2>2. /\ attempt_count' = [attempt_count EXCEPT ![e] = n]
        /\ holder' = [holder EXCEPT ![w] = None]
        /\ UNCHANGED <<received, applied, requeue, clock>>
    BY <1>4 DEF DispatchFails
  <2>3. CASE /\ n >= MAX_ATTEMPTS
             /\ status' = [status EXCEPT ![e] = "DEAD_LETTER"]
             /\ UNCHANGED available_at
    BY <2>1, <2>2, <2>3
  <2>4. ASSUME n < MAX_ATTEMPTS, UNCHANGED status, NEW delay \in compute_backoff(n),
               available_at' = [available_at EXCEPT ![e] = clock + delay]
        PROVE  OutboxInv'
    <3>1. clock + delay \in Nat
      BY BackoffType
    <3> QED BY <2>1, <2>2, <2>4, <3>1
  <2> QED BY <1>4, <2>1, <2>3, <2>4 DEF DispatchFails, Exhausted
<1>5. ASSUME NEW w \in Workers, WorkerCrash(w) PROVE OutboxInv'
  BY <1>5 DEF WorkerCrash
<1>6. ASSUME NEW q \in Requeues, NEW e \in Events, RequeueRead(q, e) PROVE OutboxInv'
  BY <1>6 DEF RequeueRead
<1>7. ASSUME NEW q \in Requeues, RequeueWrite(q) PROVE OutboxInv'
  BY <1>7 DEF RequeueWrite, Locked
<1>8. CASE Tick
  BY <1>8 DEF Tick
<1>9. CASE UNCHANGED vars
  BY <1>9 DEF vars
<1> QED BY <1>1, <1>2, <1>3, <1>4, <1>5, <1>6, <1>7, <1>8, <1>9 DEF Next, Work

\* The invariant holds in every state of the outbox.
LEMMA OutboxInvHolds == Spec => []OutboxInv
BY OutboxInit, OutboxStep, PTL DEF Spec

\* TypeOK holds for any number of rows, workers and requeues.
THEOREM OutboxTypeCorrect == Spec => []TypeOK
<1>1. OutboxInv => TypeOK
  BY DEF OutboxInv
<1> QED BY <1>1, OutboxInvHolds, PTL

\* No row is dispatched by two workers of any number of replicas at once
\* (_claim_one, requeue_dead_letter).
THEOREM OneWorkerPerRow == Spec => []OneWorker
<1>1. OutboxInv => OneWorker
  BY DEF OutboxInv
<1> QED BY <1>1, OutboxInvHolds, PTL

\* A webhook takes effect once, and before its row is PROCESSED, however many workers
\* crash, dispatches fail and requeues race (apply_webhook_event, process_next).
THEOREM WebhookEffectOnce == Spec => []EffectOnce
<1>1. OutboxInv => EffectOnce
  <2> SUFFICES ASSUME OutboxInv, NEW e \in WebhookEvents
               PROVE  applied[e] <= 1 /\ (status[e] = "PROCESSED" => applied[e] = 1)
    BY DEF EffectOnce
  <2>1. applied[e] = 0 \/ applied[e] = 1
    BY DEF OutboxInv, ReceivedInv
  <2>2. status[e] = "PROCESSED" => applied[e] = 1
    BY DEF OutboxInv, ReceivedInv
  <2> QED BY <2>1, <2>2
<1> QED BY <1>1, OutboxInvHolds, PTL

\* A row waiting for a retry has attempts left and a dead letter has none, for every
\* MAX_ATTEMPTS (process_next, requeue_dead_letter).
THEOREM RetriesAreBounded == Spec => []RetriesBounded
<1>1. OutboxInv => RetriesBounded
  BY DEF OutboxInv
<1> QED BY <1>1, OutboxInvHolds, PTL

-------------------------------------------------------------------------------

\* A row that is done with, or given up, comes back only by a requeue, whatever races
\* (process_next, requeue_dead_letter).
THEOREM RequeuesOnly == Spec => NeverAutomatic
<1> DEFINE Comes(e) ==
      status[e] \in {"PROCESSED", "DEAD_LETTER"} =>
        \/ status'[e] = status[e]
        \/ /\ status'[e] = "PENDING" /\ attempt_count'[e] = 0
           /\ \E q \in Requeues : requeue[q] = e /\ requeue'[q] = Done
<1>1. OutboxInv /\ [Next]_vars => [\A e \in Events : Comes(e)]_vars
  <2> SUFFICES ASSUME OutboxInv, Next, NEW e \in Events PROVE Comes(e)
    OBVIOUS
  <2> USE EventsAssumption DEF OutboxInv, TypeOK, OneWorker
  <2>1. ASSUME NEW f \in Events, Enqueue(f) PROVE Comes(e)
    BY <2>1 DEF Enqueue
  <2>2. ASSUME NEW w \in Workers, _claim_one(w) \/ WorkerCrash(w) PROVE Comes(e)
    BY <2>2 DEF _claim_one, WorkerCrash
  <2>3. ASSUME NEW w \in Workers, ProcessNext(w) PROVE Comes(e)
    BY <2>3 DEF ProcessNext
  <2>4. ASSUME NEW w \in Workers, DispatchFails(w) PROVE Comes(e)
    <3>1. holder[w] \in Events /\ status[holder[w]] = "PENDING"
      BY <2>4 DEF DispatchFails
    <3>2. \/ status' = status
          \/ status' = [status EXCEPT ![holder[w]] = "DEAD_LETTER"]
      BY <2>4 DEF DispatchFails
    <3> QED BY <3>1, <3>2
  <2>5. ASSUME NEW q \in Requeues, NEW f \in Events, RequeueRead(q, f) PROVE Comes(e)
    BY <2>5 DEF RequeueRead
  <2>6. ASSUME NEW q \in Requeues, RequeueWrite(q) PROVE Comes(e)
    BY <2>6 DEF RequeueWrite
  <2>7. CASE Tick
    BY <2>7 DEF Tick
  <2> QED BY <2>1, <2>2, <2>3, <2>4, <2>5, <2>6, <2>7 DEF Next, Work
<1>2. Spec => [][\A e \in Events : Comes(e)]_vars
  BY <1>1, OutboxInvHolds, PTL DEF Spec
<1> QED BY <1>2 DEF NeverAutomatic

-------------------------------------------------------------------------------

\* PROCESSED is final.
ProcessedStays == [][\A e \in Events : status[e] = "PROCESSED" => status'[e] = "PROCESSED"]_vars

\* What a requeue has read is still a dead letter when it writes.
StillDead ==
  \A q \in Requeues : requeue[q] \in Events => status[requeue[q]] = "DEAD_LETTER"

\* No two requeues of one row overlap: none reads a dead letter that another one has
\* read and not written yet.  Any number of them may follow each other.
NoOverlap ==
  \A p, q \in Requeues : requeue[p] \in Events /\ requeue[p] = requeue[q] => p = q

\* Requeues that do not overlap keep StillDead: nothing else moves a dead letter.
LEMMA StillDeadHolds == Spec /\ []NoOverlap => []StillDead
<1>1. Init => StillDead
  BY EventsAssumption DEF Init, StillDead
<1>2. OutboxInv /\ StillDead /\ NoOverlap /\ [Next]_vars => StillDead'
  <2> SUFFICES ASSUME OutboxInv, StillDead, NoOverlap, [Next]_vars PROVE StillDead'
    OBVIOUS
  <2> USE EventsAssumption DEF OutboxInv, TypeOK, OneWorker, StillDead
  <2>1. ASSUME NEW e \in Events, Enqueue(e) PROVE StillDead'
    BY <2>1 DEF Enqueue
  <2>2. ASSUME NEW w \in Workers, _claim_one(w) \/ WorkerCrash(w) PROVE StillDead'
    BY <2>2 DEF _claim_one, WorkerCrash
  <2>3. ASSUME NEW w \in Workers, ProcessNext(w) PROVE StillDead'
    BY <2>3 DEF ProcessNext
  <2>4. ASSUME NEW w \in Workers, DispatchFails(w) PROVE StillDead'
    <3>1. holder[w] \in Events /\ status[holder[w]] = "PENDING" /\ requeue' = requeue
      BY <2>4 DEF DispatchFails
    <3>2. \/ status' = status
          \/ status' = [status EXCEPT ![holder[w]] = "DEAD_LETTER"]
      BY <2>4 DEF DispatchFails
    <3> QED BY <3>1, <3>2
  <2>5. ASSUME NEW q \in Requeues, NEW e \in Events, RequeueRead(q, e) PROVE StillDead'
    BY <2>5 DEF RequeueRead
  <2>6. ASSUME NEW q \in Requeues, RequeueWrite(q) PROVE StillDead'
    BY <2>6 DEF RequeueWrite, NoOverlap
  <2>7. CASE Tick
    BY <2>7 DEF Tick
  <2>8. CASE UNCHANGED vars
    BY <2>8 DEF vars
  <2> QED BY <2>1, <2>2, <2>3, <2>4, <2>5, <2>6, <2>7, <2>8 DEF Next, Work
<1> QED BY <1>1, <1>2, OutboxInvHolds, PTL DEF Spec

\* While no two requeues of one row overlap, a row that has been processed stays so, as
\* in the documented diagram, however many requeues follow each other and whatever the
\* workers do between their reads and writes; two that overlap can bring it back
\* (requeue_dead_letter takes no lock before its check).
THEOREM SequentialRequeuesAreSafe == Spec /\ []NoOverlap => ProcessedStays
<1> DEFINE Stays(e) == status[e] = "PROCESSED" => status'[e] = "PROCESSED"
           Comes(e) ==
      status[e] \in {"PROCESSED", "DEAD_LETTER"} =>
        \/ status'[e] = status[e]
        \/ /\ status'[e] = "PENDING" /\ attempt_count'[e] = 0
           /\ \E q \in Requeues : requeue[q] = e /\ requeue'[q] = Done
<1>1. StillDead /\ [\A e \in Events : Comes(e)]_vars => [\A e \in Events : Stays(e)]_vars
  <2> SUFFICES ASSUME StillDead, NEW e \in Events, Comes(e) PROVE Stays(e)
    OBVIOUS
  <2> QED BY DEF StillDead
<1>2. Spec => [][\A e \in Events : Comes(e)]_vars
  BY RequeuesOnly DEF NeverAutomatic
<1>3. Spec /\ []NoOverlap => [][\A e \in Events : Stays(e)]_vars
  BY <1>1, <1>2, StillDeadHolds, PTL
<1> QED BY <1>3 DEF ProcessedStays

-------------------------------------------------------------------------------

\* The endpoint takes no step that the outbox could not take by itself: it writes
\* the row of a webhook as any producer does, and does not touch it again.  What is
\* proved of the outbox holds behind the endpoint.
THEOREM DeliveryImplementsOutbox == DeliverySpec => Spec
<1>1. DeliveryInit => Init
  BY DEF DeliveryInit
<1>2. [DeliveryNext]_deliveryVars => [Next]_vars
  <2> SUFFICES ASSUME DeliveryNext PROVE [Next]_vars
    BY DEF deliveryVars
  <2>1. ASSUME NEW d \in Deliveries, Acknowledge(d) PROVE Next
    <3>1. SubjectOf[d] \in Events
      BY DeliveriesAssumption, EventsAssumption
    <3> QED BY <2>1, <3>1 DEF Acknowledge, Next
  <2>2. ASSUME NEW d \in Deliveries,
               verify_webhook_signature(d) \/ receive_webhook(d) \/ DeliveryCrash(d)
        PROVE  UNCHANGED vars
    BY <2>2 DEF verify_webhook_signature, receive_webhook, DeliveryCrash
  <2> QED BY <2>1, <2>2 DEF DeliveryNext, Next
<1> QED BY <1>1, <1>2, PTL DEF DeliverySpec, Spec

\* A row that has been written is never taken away.
LEMMA RowsStay ==
  ASSUME OutboxInv, Next
  PROVE  \A e \in Events : status[e] # "NONE" => status'[e] # "NONE"
<1> USE EventsAssumption DEF OutboxInv, TypeOK
<1>1. ASSUME NEW e \in Events, Enqueue(e)
      PROVE  \A f \in Events : status[f] # "NONE" => status'[f] # "NONE"
  BY <1>1 DEF Enqueue
<1>2. ASSUME NEW w \in Workers, ProcessNext(w)
      PROVE  \A f \in Events : status[f] # "NONE" => status'[f] # "NONE"
  BY <1>2 DEF ProcessNext
<1>3. ASSUME NEW w \in Workers, DispatchFails(w)
      PROVE  \A f \in Events : status[f] # "NONE" => status'[f] # "NONE"
  BY <1>3 DEF DispatchFails
<1>4. ASSUME NEW q \in Requeues, RequeueWrite(q)
      PROVE  \A f \in Events : status[f] # "NONE" => status'[f] # "NONE"
  BY <1>4 DEF RequeueWrite
<1>5. ASSUME NEW w \in Workers, _claim_one(w) \/ WorkerCrash(w) PROVE status' = status
  BY <1>5 DEF _claim_one, WorkerCrash
<1>6. ASSUME NEW q \in Requeues, NEW e \in Events, RequeueRead(q, e) PROVE status' = status
  BY <1>6 DEF RequeueRead
<1>7. ASSUME Tick PROVE status' = status
  BY <1>7 DEF Tick
<1> QED BY <1>1, <1>2, <1>3, <1>4, <1>5, <1>6, <1>7 DEF Next, Work

\* Every event that was acknowledged is stored with its outbox row, for any number
\* of deliveries that overlap, fail and repeat.
THEOREM AcknowledgedIsStored == DeliverySpec => []AckedIsStored
<1> DEFINE Inv == stage \in [Deliveries -> {"sent", "inserted", "acked", "failed"}] /\ AckedIsStored
<1>1. DeliveryInit => Inv
  BY DEF DeliveryInit, AckedIsStored
<1>2. OutboxInv /\ Inv /\ [Next]_vars /\ [DeliveryNext]_deliveryVars => Inv'
  <2> SUFFICES ASSUME OutboxInv, Inv, [Next]_vars, [DeliveryNext]_deliveryVars PROVE Inv'
    OBVIOUS
  <2> USE DeliveriesAssumption, EventsAssumption DEF AckedIsStored
  <2>0. \A e \in Events : status[e] # "NONE" => status'[e] # "NONE"
    BY RowsStay DEF vars
  <2>1. ASSUME NEW d \in Deliveries, verify_webhook_signature(d) PROVE Inv'
    BY <2>0, <2>1 DEF verify_webhook_signature, Advance
  <2>2. ASSUME NEW d \in Deliveries, receive_webhook(d) PROVE Inv'
    BY <2>0, <2>2 DEF receive_webhook, Advance
  <2>3. ASSUME NEW d \in Deliveries, Acknowledge(d) PROVE Inv'
    <3>1. SubjectOf[d] \in Events /\ status'[SubjectOf[d]] = "PENDING"
      BY <2>3 DEF Acknowledge, Enqueue, OutboxInv, TypeOK
    <3> QED BY <2>0, <2>3, <3>1 DEF Acknowledge, Advance
  <2>4. ASSUME NEW d \in Deliveries, DeliveryCrash(d) PROVE Inv'
    BY <2>0, <2>4 DEF DeliveryCrash, Advance
  <2>5. CASE UNCHANGED stage
    BY <2>0, <2>5
  <2> QED BY <2>1, <2>2, <2>3, <2>4, <2>5 DEF DeliveryNext, deliveryVars
<1>3. Inv => AckedIsStored
  OBVIOUS
<1> QED BY <1>1, <1>2, <1>3, DeliveryImplementsOutbox, OutboxInvHolds, PTL DEF DeliverySpec, Spec

===============================================================================
