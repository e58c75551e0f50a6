---------------------------- MODULE WebhookDelivery ----------------------------
(***************************************************************************)
(* The endpoint that takes the provider's webhooks, in front of the        *)
(* outbox.  The provider may send an event several times, several          *)
(* deliveries may be handled at once, and any of them may fail or lose its *)
(* answer.                                                                 *)
(***************************************************************************)
EXTENDS Outbox

CONSTANTS
  Deliveries,
  SubjectOf    \* the event that a delivery is about

ASSUME DeliveriesAssumption == SubjectOf \in [Deliveries -> WebhookEvents]

VARIABLE stage   \* per delivery: "sent", "inserted", "acked" or "failed"

deliveryVars == <<vars, stage>>

DeliveryInit == Init /\ stage = [d \in Deliveries |-> "sent"]

Advance(d, from, to) == stage[d] = from /\ stage' = [stage EXCEPT ![d] = to]

\* Signature, timestamp or body is refused, before the database is asked.
verify_webhook_signature(d) == Advance(d, "sent", "failed") /\ UNCHANGED vars

\* Another transaction has inserted the event and not committed.
InFlight(d) == \E c \in Deliveries \ {d} : SubjectOf[c] = SubjectOf[d] /\ stage[c] = "inserted"

\* Mutant: an event that another request is just storing counts as a duplicate.
receive_webhook_InFlight(d) ==
  /\ Advance(d, "sent",
             IF status[SubjectOf[d]] = "NONE" /\ ~InFlight(d) THEN "inserted" ELSE "acked")
  /\ UNCHANGED vars

\* INSERT ... ON CONFLICT DO NOTHING waits for a transaction that is inserting the
\* same event, and inserts if that one rolls back.  A duplicate is acknowledged.
receive_webhook(d) ==
  /\ ~InFlight(d)
  /\ Advance(d, "sent", IF status[SubjectOf[d]] = "NONE" THEN "inserted" ELSE "acked")
  /\ UNCHANGED vars

\* The commit stores the webhook event and its outbox row together, and answers.
Acknowledge(d) == Advance(d, "inserted", "acked") /\ Enqueue(SubjectOf[d])

\* The request dies before its commit and the transaction rolls back.
DeliveryCrash(d) == Advance(d, "inserted", "failed") /\ UNCHANGED vars

DeliveryNext ==
  \/ \E d \in Deliveries :
       verify_webhook_signature(d) \/ receive_webhook(d) \/ Acknowledge(d) \/ DeliveryCrash(d)
  \/ (\E e \in Events \ WebhookEvents : Enqueue(e)) /\ UNCHANGED stage
  \/ Work /\ UNCHANGED stage

DeliverySpec == DeliveryInit /\ [][DeliveryNext]_deliveryVars

\* The workers keep polling, and a worker that is restarted every time it dies does
\* not die in every dispatch.
FairSpec ==
  /\ DeliverySpec
  /\ WF_vars(Tick)
  /\ WF_vars(\E w \in Workers : _claim_one(w))
  /\ \A w \in Workers : SF_vars(ProcessNext(w) \/ DispatchFails(w))

-------------------------------------------------------------------------------

\* What the provider was told is received, and will therefore not send again, is
\* stored with the outbox row that will apply it, however deliveries of one event
\* overlap and fail (one transaction and the unique constraint in receive_webhook).
AckedIsStored ==
  \A d \in Deliveries : stage[d] = "acked" => status[SubjectOf[d]] # "NONE"

===============================================================================
