--------------------------- MODULE PaymentLifecycle ---------------------------
(***************************************************************************)
(* One payment_intents row and every session that works on it: the request *)
(* that creates it, capture and refund requests, webhook effects applied   *)
(* by outbox workers, and reconciliation passes.                           *)
(*                                                                         *)
(* An action is what one session does between two points at which another  *)
(* session can interleave: a transaction is atomic once it holds the row   *)
(* lock, a provider call is a point of interleaving, and a session that    *)
(* waits for the row lock is one whose action is not enabled.              *)
(*                                                                         *)
(* The session's view of the status is not the row's.  Sessions are made   *)
(* with expire_on_commit=False, and SELECT ... FOR UPDATE without          *)
(* populate_existing does not refresh an object the session already holds. *)
(* seen[s] is the status attribute of that object, "NONE" while the        *)
(* session has not loaded the payment.                                     *)
(***************************************************************************)
EXTENDS StateMachine, Amounts

CONSTANTS
  Create,          \* the session of the create_payment request
  Captures,        \* sessions of capture_payment requests, each under its own key
  Webhooks,        \* webhook events about this payment, each in a worker session
  Passes,          \* sessions that reconcile this payment
  Refunds,         \* sessions of refund_payment requests, and their refund rows
  AmountMinor,     \* the payment's amount_minor
  RequestAmounts,  \* the amounts refund requests ask for
  NoSession        \* nobody holds the row lock

Sessions == {Create} \cup Captures \cup Webhooks \cup Passes \cup Refunds

ASSUME AmountAssumption == AmountMinor \in Nat \ {0}

\* apps/api/schemas.py rejects a refund amount that is not positive.
ASSUME RequestAmountsAssumption == RequestAmounts \subseteq Nat \ {0}

ASSUME RefundsAssumption == IsFiniteSet(Refunds)

ASSUME SessionsAssumption ==
  /\ NoSession \notin Sessions
  /\ Create \notin Captures \cup Webhooks \cup Passes \cup Refunds
  /\ Captures \cap (Webhooks \cup Passes \cup Refunds) = {}
  /\ Webhooks \cap (Passes \cup Refunds) = {}
  /\ Passes \cap Refunds = {}

VARIABLES
  status,        \* payment_intents.status, as committed
  lock,          \* the session that holds the row lock across a provider call
  ptx,           \* a provider_transactions row backs a SUCCEEDED attempt
  linked,        \* the creation key's row points at this payment
  truth,         \* what the provider recorded for the creation key
  collected,     \* captures for which the provider collected the money
  refund,        \* refund rows: status, "NONE" while there is no row
  amount,        \* refund rows: amount_minor
  paid,          \* refunds for which the provider moved the money
  settlements,   \* ledger transactions written by record_payment_settled
  refundEntries, \* per refund, those written by record_refund_settled
  event,         \* the latest payment_events row
  pc, seen,      \* per session: control point, status held by the session
  answer         \* per session: the provider's answer, or the event's target

rowVars    == <<status, ptx, linked, event>>
refundVars == <<refund, amount, paid, refundEntries>>
providerVars == <<truth, collected>>
vars == <<rowVars, refundVars, providerVars, lock, settlements, pc, seen, answer>>

ProviderOutcome == { "SUCCEEDED", "DECLINED", "TEMPORARY_FAILURE", "UNKNOWN" }

ReportResult == { "MATCHED", "RESOLVED_SUCCEEDED", "RESOLVED_FAILED",
                  "STILL_UNKNOWN", "MISSING_INTERNAL_TRANSACTION", "MISMATCH" }

Event == [ from : PaymentStatus \cup {"NONE"}, to : PaymentStatus, actor : Actor ]

-------------------------------------------------------------------------------
(***************************************************************************)
(* Building blocks shared by the handlers.                                 *)
(***************************************************************************)

Unlocked == lock = NoSession

Goto(s, label) == pc' = [pc EXCEPT ![s] = label]

\* The status lock_payment() hands to session s once it holds the row lock.
lock_payment(s) == IF seen[s] = "NONE" THEN status ELSE seen[s]

\* Mutant: from_status is read after the assignment.
apply_transition_ReadAfterWrite(s, from, to, actor) ==
  /\ is_valid_payment_transition(from, to, actor)
  /\ status' = IF to = from THEN status ELSE to
  /\ event' = [from |-> to, to |-> to, actor |-> actor]
  /\ seen' = [seen EXCEPT ![s] = to]

\* The ORM writes only the columns whose value changed in the session, so a
\* self-transition leaves the row's status alone.  Every caller's transition is
\* valid from the status its session holds: the validator never raises.
apply_transition(s, from, to, actor) ==
  /\ is_valid_payment_transition(from, to, actor)
  /\ status' = IF to = from THEN status ELSE to
  /\ event' = [from |-> from, to |-> to, actor |-> actor]
  /\ seen' = [seen EXCEPT ![s] = to]

\* Mutant: the pair is built and never added to the session.
record_payment_settled_Forgotten == UNCHANGED settlements

\* Mutant: the directions of the pair are swapped.
record_payment_settled_Swapped == settlements' = settlements - 1

record_payment_settled == settlements' = settlements + 1

\* Mutant: the pair is built and never added to the session.
record_refund_settled_Forgotten(r) == UNCHANGED refundEntries

record_refund_settled(r) ==
  refundEntries' = [refundEntries EXCEPT ![r] = @ + 1]

\* Mutant: the key row is completed without its payment_intent_id.
complete_idempotency_key_Unlinked == UNCHANGED linked

\* The creation key's row is completed in the transaction of the last write.
complete_idempotency_key == linked' = TRUE

WithStatus(rows, states) == { r \in Refunds : rows[r] \in states }

-------------------------------------------------------------------------------
(***************************************************************************)
(* create_payment, from the commit that makes the intent durable in        *)
(* CREATED.                                                                *)
(***************************************************************************)

Init ==
  /\ status = "CREATED"
  /\ event = [from |-> "NONE", to |-> "CREATED", actor |-> "API"]
  /\ lock = NoSession
  /\ ptx = FALSE
  /\ linked = FALSE
  /\ truth = "NONE"
  /\ collected = {}
  /\ refund = [r \in Refunds |-> "NONE"]
  /\ amount = [r \in Refunds |-> 0]
  /\ paid = {}
  /\ settlements = 0
  /\ refundEntries = [r \in Refunds |-> 0]
  /\ pc = [s \in Sessions |-> IF s = Create THEN "created" ELSE "idle"]
  /\ seen = [s \in Sessions |-> IF s = Create THEN "CREATED" ELSE "NONE"]
  /\ answer = [s \in Sessions |-> "NONE"]

\* The commit to PROCESSING that releases the row before the provider call.
CreateProcessing ==
  /\ pc[Create] = "created"
  /\ Unlocked
  /\ apply_transition(Create, lock_payment(Create), "PROCESSING", "API")
  /\ Goto(Create, "processing")
  /\ UNCHANGED <<refundVars, lock, ptx, linked, providerVars, settlements, answer>>

\* The risk engine answers BLOCK: the provider is never asked.
CreateBlocked ==
  /\ pc[Create] = "processing"
  /\ Unlocked
  /\ apply_transition(Create, lock_payment(Create), "FAILED", "API")
  /\ complete_idempotency_key
  /\ Goto(Create, "done")
  /\ UNCHANGED <<refundVars, lock, ptx, providerVars, settlements, answer>>

\* What the caller of authorize() is told, and what the provider recorded.
AuthorizeResults ==
  { <<o, o>> : o \in ProviderOutcome } \cup
  { <<"UNKNOWN", o>> : o \in ProviderOutcome }

ProviderAuthorize ==
  /\ pc[Create] = "processing"
  /\ \E result \in AuthorizeResults :
       /\ answer' = [answer EXCEPT ![Create] = result[1]]
       /\ truth' = result[2]
  /\ Goto(Create, "authorized")
  /\ UNCHANGED <<rowVars, refundVars, lock, collected, settlements, seen>>

\* Mutant: a declined payment is left to its capture.
CreateRecord_DeclineLeft ==
  /\ pc[Create] = "authorized"
  /\ Unlocked
  /\ ptx' = (answer[Create] = "SUCCEEDED")
  /\ \/ /\ answer[Create] = "UNKNOWN"
        /\ apply_transition(Create, lock_payment(Create), "UNKNOWN", "API")
     \/ /\ answer[Create] # "UNKNOWN"
        /\ UNCHANGED <<status, event, seen>>
  /\ complete_idempotency_key
  /\ Goto(Create, "done")
  /\ UNCHANGED <<refundVars, lock, providerVars, settlements, answer>>

\* Only a successful authorization carries a provider_transaction_id.  A
\* success or a temporary failure leaves the payment PROCESSING.
CreateRecord ==
  /\ pc[Create] = "authorized"
  /\ Unlocked
  /\ ptx' = (answer[Create] = "SUCCEEDED")
  /\ \/ /\ answer[Create] = "DECLINED"
        /\ apply_transition(Create, lock_payment(Create), "FAILED", "API")
     \/ /\ answer[Create] = "UNKNOWN"
        /\ apply_transition(Create, lock_payment(Create), "UNKNOWN", "API")
     \/ /\ answer[Create] \in {"SUCCEEDED", "TEMPORARY_FAILURE"}
        /\ UNCHANGED <<status, event, seen>>
  /\ complete_idempotency_key
  /\ Goto(Create, "done")
  /\ UNCHANGED <<refundVars, lock, providerVars, settlements, answer>>

\* An exception or a crash between two commits: what was committed stays.
CreateAbandon ==
  /\ pc[Create] \in {"created", "processing", "authorized"}
  /\ Goto(Create, "failed")
  /\ UNCHANGED <<rowVars, refundVars, lock, providerVars, settlements, seen, answer>>

-------------------------------------------------------------------------------
(***************************************************************************)
(* capture_payment.  The row lock is held across the provider call.        *)
(***************************************************************************)

Captured(c) == lock_payment(c) = "SUCCEEDED"

Capturable(c) == lock_payment(c) = "PROCESSING" /\ ptx

\* Already captured: 200 without calling the provider.
CaptureReplay(c) ==
  /\ pc[c] = "idle"
  /\ Unlocked
  /\ Captured(c)
  /\ Goto(c, "done")
  /\ UNCHANGED <<rowVars, refundVars, lock, providerVars, settlements, seen, answer>>

\* INVALID_STATE_TRANSITION: the transaction, its claim included, rolls back.
CaptureReject(c) ==
  /\ pc[c] = "idle"
  /\ Unlocked
  /\ ~Captured(c) /\ ~Capturable(c)
  /\ Goto(c, "rejected")
  /\ UNCHANGED <<rowVars, refundVars, lock, providerVars, settlements, seen, answer>>

\* Mutant: the payment is read without FOR UPDATE.
CaptureStart_NoWait(c) ==
  /\ pc[c] = "idle"
  /\ Capturable(c)
  /\ lock' = c
  /\ seen' = [seen EXCEPT ![c] = lock_payment(c)]
  /\ Goto(c, "capturing")
  /\ UNCHANGED <<rowVars, refundVars, providerVars, settlements, answer>>

CaptureStart(c) ==
  /\ pc[c] = "idle"
  /\ Unlocked
  /\ Capturable(c)
  /\ lock' = c
  /\ seen' = [seen EXCEPT ![c] = lock_payment(c)]
  /\ Goto(c, "capturing")
  /\ UNCHANGED <<rowVars, refundVars, providerVars, settlements, answer>>

\* The provider answers and the same transaction applies the answer.  An UNKNOWN
\* answer says nothing about whether the money was collected.
CaptureFinish(c) ==
  /\ pc[c] = "capturing"
  /\ \E outcome \in ProviderOutcome :
       \/ /\ outcome = "SUCCEEDED"
          /\ apply_transition(c, seen[c], "SUCCEEDED", "API")
          /\ record_payment_settled
          /\ collected' = collected \cup {c}
       \/ /\ outcome = "UNKNOWN"
          /\ apply_transition(c, seen[c], "UNKNOWN", "API")
          /\ collected' \in {collected, collected \cup {c}}
          /\ UNCHANGED settlements
       \/ /\ outcome \in {"DECLINED", "TEMPORARY_FAILURE"}
          /\ apply_transition(c, seen[c], "FAILED", "API")
          /\ UNCHANGED <<settlements, collected>>
  /\ lock' = NoSession
  /\ Goto(c, "done")
  /\ UNCHANGED <<refundVars, ptx, linked, truth, answer>>

\* An exception or a crash during the provider call or before the commit:
\* everything rolls back but what the provider did.
CaptureAbandon(c) ==
  /\ pc[c] = "capturing"
  /\ collected' \in {collected, collected \cup {c}}
  /\ lock' = NoSession
  /\ Goto(c, "failed")
  /\ UNCHANGED <<rowVars, refundVars, truth, settlements, seen, answer>>

-------------------------------------------------------------------------------
(***************************************************************************)
(* Webhooks.  A delivery is stored once with its outbox event, and a       *)
(* worker applies it later, in the transaction that marks it PROCESSED.    *)
(***************************************************************************)

\* answer[w] is the status the stored event asks for.
receive_webhook(w) ==
  /\ pc[w] = "idle"
  /\ \E target \in {"SUCCEEDED", "FAILED"} :
       answer' = [answer EXCEPT ![w] = target]
  /\ Goto(w, "received")
  /\ UNCHANGED <<rowVars, refundVars, lock, providerVars, settlements, seen>>

\* The payment is looked up through its provider transaction without a lock,
\* which loads it into the worker's session.  No match: IGNORED for good.
WebhookLookup(w) ==
  /\ pc[w] = "received"
  /\ IF ptx
     THEN /\ seen' = [seen EXCEPT ![w] = status]
          /\ Goto(w, "found")
     ELSE /\ UNCHANGED seen
          /\ Goto(w, "ignored")
  /\ UNCHANGED <<rowVars, refundVars, lock, providerVars, settlements, answer>>

\* lock_payment() waits for the row, then decides on the status in the session.
WebhookApply(w) ==
  LET from == lock_payment(w)
      to   == answer[w]
  IN /\ pc[w] = "found"
     /\ Unlocked
     /\ \/ /\ from = to
           /\ Goto(w, "done")
           /\ UNCHANGED <<status, event, seen, settlements>>
        \/ /\ from # to
           /\ ~is_valid_payment_transition(from, to, "WEBHOOK")
           /\ Goto(w, "ignored")
           /\ UNCHANGED <<status, event, seen, settlements>>
        \/ /\ from # to
           /\ apply_transition(w, from, to, "WEBHOOK")
           /\ IF to = "SUCCEEDED" THEN record_payment_settled
                                  ELSE UNCHANGED settlements
           /\ Goto(w, "done")
     /\ UNCHANGED <<refundVars, lock, ptx, linked, providerVars, answer>>

\* The worker dies before its commit: the outbox event is still PENDING and the
\* stored event still RECEIVED, so a later worker starts over.
WebhookRetry(w) ==
  /\ pc[w] = "found"
  /\ seen' = [seen EXCEPT ![w] = "NONE"]
  /\ Goto(w, "received")
  /\ UNCHANGED <<rowVars, refundVars, lock, providerVars, settlements, answer>>

-------------------------------------------------------------------------------
(***************************************************************************)
(* Reconciliation.  run_reconciliation_pass loads every UNKNOWN payment    *)
(* and then calls reconcile_payment in the same session; reconcile_payment *)
(* can also be called by itself.  answer[p] holds the report to write.     *)
(***************************************************************************)

find_payments_needing_reconciliation(p) ==
  /\ pc[p] = "idle"
  /\ status = "UNKNOWN"
  /\ seen' = [seen EXCEPT ![p] = status]
  /\ Goto(p, "listed")
  /\ UNCHANGED <<rowVars, refundVars, lock, providerVars, settlements, answer>>

ReconcileCall(p) ==
  /\ pc[p] = "idle"
  /\ Goto(p, "listed")
  /\ UNCHANGED <<rowVars, refundVars, lock, providerVars, settlements, seen, answer>>

\* First transaction: answer[p] is the report to write, if there is one already.
ReconcileCheck(p) ==
  /\ pc[p] = "listed"
  /\ Unlocked
  /\ seen' = [seen EXCEPT ![p] = lock_payment(p)]
  /\ \/ /\ lock_payment(p) # "UNKNOWN"
        /\ answer' = [answer EXCEPT ![p] = "MATCHED"]
        /\ Goto(p, "reporting")
     \/ /\ lock_payment(p) = "UNKNOWN"
        /\ answer' = [answer EXCEPT
                        ![p] = IF linked THEN @ ELSE "MISSING_INTERNAL_TRANSACTION"]
        /\ Goto(p, IF linked THEN "asking" ELSE "reporting")
  /\ UNCHANGED <<rowVars, refundVars, lock, providerVars, settlements>>

\* The provider answers with what it recorded, or does not know the key, or
\* echoes an amount or currency that is not the payment's.
ProviderStatus(p) ==
  /\ pc[p] = "asking"
  /\ \E result \in {truth, "UNKNOWN"} \cup
                   (IF truth = "SUCCEEDED" THEN {"MISMATCH"} ELSE {}) :
       answer' = [answer EXCEPT ![p] = result]
  /\ Goto(p, "asked")
  /\ UNCHANGED <<rowVars, refundVars, lock, providerVars, settlements, seen>>

\* Second transaction: the answer is applied to the status in the session, and
\* answer[p] becomes the report to write.
ReconcileResolve(p) ==
  LET from   == lock_payment(p)
      result == answer[p]
      Report(r) == answer' = [answer EXCEPT ![p] = r]
  IN /\ pc[p] = "asked"
     /\ Unlocked
     /\ \/ /\ from # "UNKNOWN" \/ result = "MISMATCH"
           /\ Report(IF from # "UNKNOWN" THEN "MATCHED" ELSE "MISMATCH")
           /\ UNCHANGED <<status, event, seen, ptx, settlements>>
        \/ /\ from = "UNKNOWN" /\ result = "UNKNOWN"
           /\ apply_transition(p, from, "UNKNOWN", "RECONCILIATION")
           /\ Report("STILL_UNKNOWN")
           /\ UNCHANGED <<ptx, settlements>>
        \/ /\ from = "UNKNOWN" /\ result = "SUCCEEDED"
           /\ ~ptx
           /\ ptx' = TRUE
           /\ apply_transition(p, from, "SUCCEEDED", "RECONCILIATION")
           /\ record_payment_settled
           /\ Report("RESOLVED_SUCCEEDED")
        \/ /\ from = "UNKNOWN" /\ result \in {"DECLINED", "TEMPORARY_FAILURE"}
           /\ apply_transition(p, from, "FAILED", "RECONCILIATION")
           /\ Report("RESOLVED_FAILED")
           /\ UNCHANGED <<ptx, settlements>>
     /\ Goto(p, "reporting")
     /\ UNCHANGED <<refundVars, lock, linked, providerVars>>

\* The provider transaction is already on record: its unique constraint fails
\* the commit, and the IntegrityError ends the pass without a report.
ReconcileConflict(p) ==
  /\ pc[p] = "asked"
  /\ Unlocked
  /\ lock_payment(p) = "UNKNOWN" /\ answer[p] = "SUCCEEDED" /\ ptx
  /\ seen' = [seen EXCEPT ![p] = "NONE"]
  /\ answer' = [answer EXCEPT ![p] = "NONE"]
  /\ Goto(p, "idle")
  /\ UNCHANGED <<rowVars, refundVars, lock, providerVars, settlements>>

\* Third transaction.  The next pass starts with a session of its own.
write_report(p) ==
  /\ pc[p] = "reporting"
  /\ seen' = [seen EXCEPT ![p] = "NONE"]
  /\ answer' = [answer EXCEPT ![p] = "NONE"]
  /\ Goto(p, "idle")
  /\ UNCHANGED <<rowVars, refundVars, lock, providerVars, settlements>>

\* A crash, or an exception of the provider or the database, ends the pass.
ReconcileAbandon(p) ==
  /\ pc[p] \in {"listed", "asking", "asked", "reporting"}
  /\ seen' = [seen EXCEPT ![p] = "NONE"]
  /\ answer' = [answer EXCEPT ![p] = "NONE"]
  /\ Goto(p, "idle")
  /\ UNCHANGED <<rowVars, refundVars, lock, providerVars, settlements>>

\* A provider that could not answer yet comes to know what happened.
ProviderLearns ==
  /\ truth = "UNKNOWN"
  /\ truth' \in {"SUCCEEDED", "DECLINED"}
  /\ UNCHANGED <<rowVars, refundVars, lock, collected, settlements, pc, seen, answer>>

-------------------------------------------------------------------------------
(***************************************************************************)
(* refund_payment: reserve under the row lock, call the provider with the  *)
(* lock released, settle under the row lock again.                         *)
(***************************************************************************)

REFUNDABLE_SOURCE_STATUSES == {"SUCCEEDED", "REFUND_FAILED", "REFUND_PENDING"}

Reserved == SumAmounts(amount, WithStatus(refund, {"PENDING", "SUCCEEDED"}))

\* Mutant: refunds in flight do not count.
FitsBalance_SettledOnly(a) ==
  a <= AmountMinor - SumAmounts(amount, WithStatus(refund, {"SUCCEEDED"}))

FitsBalance(a) == a <= AmountMinor - Reserved

Refundable(r) == lock_payment(r) \in REFUNDABLE_SOURCE_STATUSES /\ ptx

RefundReject(r) ==
  /\ pc[r] = "idle"
  /\ Unlocked
  /\ \/ ~Refundable(r)
     \/ \E a \in RequestAmounts : ~FitsBalance(a)
  /\ Goto(r, "rejected")
  /\ UNCHANGED <<rowVars, refundVars, lock, providerVars, settlements, seen, answer>>

RefundReserve(r) ==
  LET from == lock_payment(r)
  IN /\ pc[r] = "idle"
     /\ Unlocked
     /\ Refundable(r)
     /\ \E a \in RequestAmounts :
          /\ FitsBalance(a)
          /\ amount' = [amount EXCEPT ![r] = a]
     /\ refund' = [refund EXCEPT ![r] = "PENDING"]
     /\ \/ /\ from # "REFUND_PENDING"
           /\ apply_transition(r, from, "REFUND_PENDING", "API")
        \/ /\ from = "REFUND_PENDING"
           /\ seen' = [seen EXCEPT ![r] = from]
           /\ UNCHANGED <<status, event>>
     /\ Goto(r, "refunding")
     /\ UNCHANGED <<paid, refundEntries, lock, ptx, linked, providerVars, settlements,
                    answer>>

\* An UNKNOWN answer says nothing about whether the money moved.
ProviderRefund(r) ==
  /\ pc[r] = "refunding"
  /\ \E outcome \in ProviderOutcome :
       /\ answer' = [answer EXCEPT ![r] = outcome]
       /\ \/ outcome \in {"SUCCEEDED", "UNKNOWN"} /\ paid' = paid \cup {r}
          \/ outcome # "SUCCEEDED" /\ UNCHANGED paid
  /\ Goto(r, "answered")
  /\ UNCHANGED <<rowVars, refund, amount, refundEntries, lock, providerVars, settlements,
                 seen>>

\* Mutant: any success counts as a full refund.
AggregateStatus_AnySuccess(total) ==
  IF total > 0 THEN "REFUNDED" ELSE "REFUND_FAILED"

\* Mutant: > for >=.
AggregateStatus_Strict(total) ==
  IF total > AmountMinor THEN "REFUNDED"
  ELSE IF total > 0 THEN "SUCCEEDED"
  ELSE "REFUND_FAILED"

\* The payment's status once no refund is in flight, from the refunded total.
AggregateStatus(total) ==
  IF total >= AmountMinor THEN "REFUNDED"
  ELSE IF total > 0 THEN "SUCCEEDED"
  ELSE "REFUND_FAILED"

\* Mutant: the refunds in flight are counted before this one's status is flushed.
NoneInFlight_BeforeFlush(rows) == WithStatus(refund, {"PENDING"}) = {}

NoneInFlight(rows) == WithStatus(rows, {"PENDING"}) = {}

\* Whatever is not a success counts as a failure, UNKNOWN included.
RefundSettle(r) ==
  LET from == lock_payment(r)
      rows == [refund EXCEPT
                 ![r] = IF answer[r] = "SUCCEEDED" THEN "SUCCEEDED" ELSE "FAILED"]
      last == NoneInFlight(rows) /\ from = "REFUND_PENDING"
  IN /\ pc[r] = "answered"
     /\ Unlocked
     /\ refund' = rows
     /\ IF rows[r] = "SUCCEEDED" THEN record_refund_settled(r)
                                 ELSE UNCHANGED refundEntries
     /\ \/ /\ last
           /\ apply_transition(r, from,
                AggregateStatus(SumAmounts(amount, WithStatus(rows, {"SUCCEEDED"}))),
                "API")
        \/ /\ ~last
           /\ UNCHANGED <<status, event, seen>>
     /\ Goto(r, "done")
     /\ UNCHANGED <<amount, paid, lock, ptx, linked, providerVars, settlements, answer>>

\* Mutant: a refund that dies is marked FAILED, whatever the provider did.
RefundAbandon_Releases(r) ==
  /\ pc[r] \in {"refunding", "answered"}
  /\ refund' = [refund EXCEPT ![r] = "FAILED"]
  /\ Goto(r, "failed")
  /\ UNCHANGED <<rowVars, amount, paid, refundEntries, lock, providerVars, settlements,
                 seen, answer>>

\* An exception or a crash after the reservation: it stays, and its key ends
\* FAILED or goes stale, so nothing returns to this refund row.
RefundAbandon(r) ==
  /\ pc[r] \in {"refunding", "answered"}
  /\ Goto(r, "failed")
  /\ UNCHANGED <<rowVars, refundVars, lock, providerVars, settlements, seen, answer>>

-------------------------------------------------------------------------------

CreateNext ==
  \/ CreateProcessing
  \/ CreateBlocked
  \/ ProviderAuthorize
  \/ CreateRecord
  \/ CreateAbandon

CaptureNext(c) ==
  \/ CaptureReplay(c)
  \/ CaptureReject(c)
  \/ CaptureStart(c)
  \/ CaptureFinish(c)
  \/ CaptureAbandon(c)

WebhookNext(w) ==
  \/ receive_webhook(w)
  \/ WebhookLookup(w)
  \/ WebhookApply(w)
  \/ WebhookRetry(w)

ReconcileNext(p) ==
  \/ find_payments_needing_reconciliation(p)
  \/ ReconcileCall(p)
  \/ ReconcileCheck(p)
  \/ ProviderStatus(p)
  \/ ReconcileResolve(p)
  \/ ReconcileConflict(p)
  \/ write_report(p)
  \/ ReconcileAbandon(p)

RefundNext(r) ==
  \/ RefundReject(r)
  \/ RefundReserve(r)
  \/ ProviderRefund(r)
  \/ RefundSettle(r)
  \/ RefundAbandon(r)

Next ==
  \/ CreateNext
  \/ \E c \in Captures : CaptureNext(c)
  \/ \E w \in Webhooks : WebhookNext(w)
  \/ \E p \in Passes : ReconcileNext(p)
  \/ ProviderLearns
  \/ \E r \in Refunds : RefundNext(r)

Spec == Init /\ [][Next]_vars

(***************************************************************************)
(* Fairness.  A running request keeps running until it ends or is          *)
(* abandoned.  Passes are triggered again and again, not all of them die,  *)
(* and a provider that was asked often enough does answer with the truth.  *)
(***************************************************************************)

RequestFairness ==
  /\ WF_vars(CreateProcessing) /\ WF_vars(ProviderAuthorize) /\ WF_vars(CreateRecord)
  /\ \A c \in Captures : WF_vars(CaptureFinish(c))
  /\ \A r \in Refunds : WF_vars(ProviderRefund(r)) /\ WF_vars(RefundSettle(r))

TruthfulStatus(p) == ProviderStatus(p) /\ answer'[p] = truth

DefiniteResolve(p) == ReconcileResolve(p) /\ answer[p] \notin {"UNKNOWN", "MISMATCH"}

PassFairness ==
  /\ WF_vars(ProviderLearns)
  /\ \A p \in Passes :
       /\ WF_vars(find_payments_needing_reconciliation(p))
       /\ WF_vars(ReconcileResolve(p)) /\ WF_vars(ReconcileConflict(p))
       /\ WF_vars(write_report(p))
       /\ SF_vars(ReconcileCheck(p))
       /\ SF_vars(TruthfulStatus(p))
       /\ SF_vars(DefiniteResolve(p))

FairSpec == Spec /\ RequestFairness /\ PassFairness

-------------------------------------------------------------------------------
(***************************************************************************)
(* Properties.                                                             *)
(***************************************************************************)

\* The columns, the session copies and the control points keep their types, and a
\* pass that is about to write a report has one.
TypeOK ==
  /\ status \in PaymentStatus
  /\ lock \in Captures \cup {NoSession}
  /\ ptx \in BOOLEAN
  /\ linked \in BOOLEAN
  /\ truth \in ProviderOutcome \cup {"NONE"}
  /\ collected \subseteq Captures
  /\ refund \in [Refunds -> RefundStatus \cup {"NONE"}]
  /\ amount \in [Refunds -> Nat]
  /\ paid \subseteq Refunds
  /\ settlements \in Nat
  /\ refundEntries \in [Refunds -> Nat]
  /\ event \in Event
  /\ pc \in [Sessions -> {"idle", "done", "failed", "rejected", "created", "processing",
                          "authorized", "capturing", "received", "found", "ignored",
                          "listed", "asking", "asked", "reporting", "refunding", "answered"}]
  /\ seen \in [Sessions -> PaymentStatus \cup {"NONE"}]
  /\ answer \in [Sessions -> ProviderOutcome \cup ReportResult \cup {"NONE", "FAILED"}]
  /\ \A p \in Passes : pc[p] = "reporting" => answer[p] \in ReportResult

\* However refund requests interleave with each other, with webhooks and with
\* crashes, the refunds that are in flight or succeeded never add up to more than
\* the payment: the balance check of refund_payment is made under the row lock.
RefundsWithinPayment == Reserved <= AmountMinor

\* The ledger has one refund transaction for each SUCCEEDED refund and none for any
\* other, and the money of a refund on the ledger has moved at the provider.
LedgerMatchesRefunds ==
  \A r \in Refunds :
    /\ refundEntries[r] = IF refund[r] = "SUCCEEDED" THEN 1 ELSE 0
    /\ refund[r] = "SUCCEEDED" => r \in paid

\* A refund row exists only on a payment whose settlement is on the ledger, so the
\* merchant's receivable never falls below zero.
RefundsImplySettlement == (\E r \in Refunds : refund[r] # "NONE") => settlements > 0

\* A payment that shows REFUNDED has been refunded in full.
RefundedInFull ==
  status = "REFUNDED" =>
    SumAmounts(amount, WithStatus(refund, {"SUCCEEDED"})) = AmountMinor

SETTLED_STATUSES == {"SUCCEEDED", "REFUND_PENDING", "REFUNDED", "REFUND_FAILED"}

\* record_payment_settled posts the payment at most once.
SettledAtMostOnce == settlements <= 1

\* The ledger holds exactly one settlement of the payment while its status says the
\* money was collected, and none while it does not.
SettledExactlyOnce == settlements = IF status \in SETTLED_STATUSES THEN 1 ELSE 0

\* The payment's status is the aggregate of its refund rows: REFUND_PENDING exactly
\* while one of them is PENDING, and otherwise what their refunded total says.
StatusAggregatesRefunds ==
  LET total == SumAmounts(amount, WithStatus(refund, {"SUCCEEDED"}))
  IN /\ status = "REFUND_PENDING" <=> WithStatus(refund, {"PENDING"}) # {}
     /\ status = "REFUNDED" => total = AmountMinor
     /\ status = "REFUND_FAILED" => total = 0
     /\ status = "SUCCEEDED" => total < AmountMinor

\* An UNKNOWN payment has its creation key on record, as long as nobody else reclaims
\* that key: reconciliation then never reports MISSING_INTERNAL_TRANSACTION for a
\* payment create_payment made.
UnknownHasKey == status = "UNKNOWN" => linked

\* Where no webhook is applied, what changes the row's status is a transition of the
\* state machine from the status the row really had, by an actor that may take it,
\* passes and refunds that hold a stale copy of the row included.
TransitionsLegal ==
  [][status' # status =>
       is_valid_payment_transition(status, status', event'.actor)]_vars

\* Where no webhook is applied, payment_events is a chain up to stale passes: every
\* event starts at the status the row had when it was written, except that a pass
\* which overlaps another one may write once more that it resolved an UNKNOWN, and
\* then the row keeps its status.
ChainStep ==
  event' # event =>
    \/ event'.from = status
    \/ event'.actor = "RECONCILIATION" /\ event'.from = "UNKNOWN" /\ status' = status

EventsFormChain == [][ChainStep]_vars

\* What the provider paid out beyond the payment's amount is only what it paid under
\* an answer that was lost: refund_payment books such a refund as FAILED and gives
\* its amount free again, and books nothing else that was paid as FAILED.
PaidWithinPayment ==
  LET known == { r \in paid : answer[r] # "UNKNOWN" }
  IN SumAmounts(amount, known) <= AmountMinor

\* The provider collects the payment once, however many capture requests there are
\* under different keys, unless a capture dies after its provider call: its rollback
\* is the only way to a second collection.
CollectedOnceUnlessAbandoned ==
  \A c, d \in collected : pc[c] # "failed" /\ pc[d] # "failed" => c = d

\* A payment leaves CREATED, and then PROCESSING unless it is authorized and waits
\* for its capture, except after a temporary failure or when its request dies: the
\* two ends that no job returns to.
CreationIsDecided ==
  status = "CREATED" ~>
    \/ status \notin {"CREATED", "PROCESSING"}
    \/ ptx
    \/ answer[Create] = "TEMPORARY_FAILURE"
    \/ pc[Create] = "failed"

\* A payment whose authorization answer was lost leaves UNKNOWN.
LostAuthorizationIsResolved == status = "UNKNOWN" /\ ~ptx ~> status # "UNKNOWN"

\* Every payment that becomes UNKNOWN leaves UNKNOWN.
UnknownIsResolved == status = "UNKNOWN" ~> status # "UNKNOWN"

\* Refunds in flight settle the payment, unless one of them is abandoned between its
\* reservation and its settlement.
RefundsSettleUnlessAbandoned ==
  status = "REFUND_PENDING" ~>
    \/ status # "REFUND_PENDING"
    \/ \E r \in Refunds : pc[r] = "failed"

===============================================================================
