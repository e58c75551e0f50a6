------------------------ MODULE PaymentLifecycleProofs ------------------------
(***************************************************************************)
(* Proofs about PaymentLifecycle, for any number of captures, webhooks,    *)
(* passes and refunds and any amounts.                                     *)
(***************************************************************************)
EXTENDS PaymentLifecycle, AmountsProofs, FiniteSetTheorems, TLAPS

\* The validator of the state machine only accepts statuses and actors.
LEMMA ValidTransition ==
  ASSUME NEW from, NEW to, NEW actor, is_valid_payment_transition(from, to, actor)
  PROVE  from \in PaymentStatus /\ to \in PaymentStatus /\ actor \in Actor
BY DEF is_valid_payment_transition, PAYMENT_TRANSITIONS, allowed_actors, PaymentStatus, Actor

\* Every handler of create_payment keeps the types.
LEMMA CreateType == TypeOK /\ CreateNext => TypeOK'
<1> SUFFICES ASSUME TypeOK, CreateNext PROVE TypeOK'
  OBVIOUS
<1> USE SessionsAssumption DEF TypeOK, Sessions, PaymentStatus, ProviderOutcome, Event, Actor, RefundStatus,
            ReportResult, rowVars, providerVars, refundVars, Goto, lock_payment, apply_transition
<1>1. CASE CreateProcessing
  BY <1>1 DEF CreateProcessing
<1>2. CASE CreateBlocked
  BY <1>2 DEF CreateBlocked, complete_idempotency_key
<1>3. CASE ProviderAuthorize
  BY <1>3 DEF ProviderAuthorize, AuthorizeResults
<1>4. CASE CreateRecord
  BY <1>4 DEF CreateRecord, complete_idempotency_key
<1>5. CASE CreateAbandon
  BY <1>5, SMTT(30) DEF CreateAbandon
<1> QED
  BY <1>1, <1>2, <1>3, <1>4, <1>5 DEF CreateNext

\* Every step of capture_payment keeps the types.
LEMMA CaptureType ==
  ASSUME TypeOK, NEW c \in Captures, CaptureNext(c) PROVE TypeOK'
<1> USE SessionsAssumption DEF TypeOK, Sessions, PaymentStatus, ProviderOutcome, Event, Actor, RefundStatus,
            ReportResult, rowVars, providerVars, refundVars, Goto, lock_payment, apply_transition
<1>1. CASE CaptureReplay(c)
  BY <1>1 DEF CaptureReplay
<1>2. CASE CaptureReject(c)
  BY <1>2 DEF CaptureReject
<1>3. CASE CaptureStart(c)
  BY <1>3 DEF CaptureStart
<1>4. CASE CaptureFinish(c)
  BY <1>4 DEF CaptureFinish, record_payment_settled
<1>5. CASE CaptureAbandon(c)
  BY <1>5, SMTT(30) DEF CaptureAbandon
<1> QED
  BY <1>1, <1>2, <1>3, <1>4, <1>5 DEF CaptureNext

\* Every step of a webhook keeps the types.
LEMMA WebhookType ==
  ASSUME TypeOK, NEW w \in Webhooks, WebhookNext(w) PROVE TypeOK'
<1> USE SessionsAssumption DEF TypeOK, Sessions, PaymentStatus, ProviderOutcome, Event, Actor, RefundStatus,
            ReportResult, rowVars, providerVars, refundVars, Goto, lock_payment, apply_transition
<1>1. CASE receive_webhook(w)
  BY <1>1 DEF receive_webhook
<1>2. CASE WebhookLookup(w)
  BY <1>2 DEF WebhookLookup
<1>3. CASE WebhookApply(w)
  BY <1>3, ValidTransition DEF WebhookApply, record_payment_settled
<1>4. CASE WebhookRetry(w)
  BY <1>4, SMTT(30) DEF WebhookRetry
<1> QED
  BY <1>1, <1>2, <1>3, <1>4 DEF WebhookNext

\* Every step of a reconciliation pass keeps the types.
LEMMA ReconcileType ==
  ASSUME TypeOK, NEW p \in Passes, ReconcileNext(p) PROVE TypeOK'
<1> USE SessionsAssumption DEF TypeOK, Sessions, PaymentStatus, ProviderOutcome, Event, Actor, RefundStatus,
            ReportResult, rowVars, providerVars, refundVars, Goto, lock_payment, apply_transition
<1>1. CASE find_payments_needing_reconciliation(p)
  BY <1>1 DEF find_payments_needing_reconciliation
<1>2. CASE ReconcileCall(p)
  BY <1>2 DEF ReconcileCall
<1>3. CASE ReconcileCheck(p)
  BY <1>3 DEF ReconcileCheck
<1>4. CASE ProviderStatus(p)
  BY <1>4 DEF ProviderStatus
<1>5. CASE ReconcileResolve(p)
  <2>1. PICK r \in ReportResult : answer' = [answer EXCEPT ![p] = r]
    BY <1>5 DEF ReconcileResolve
  <2>2. status' \in PaymentStatus /\ event' \in Event /\ seen' \in [Sessions -> PaymentStatus \cup {"NONE"}]
    BY <1>5 DEF ReconcileResolve
  <2>3. settlements' \in Nat
    BY <1>5 DEF ReconcileResolve, record_payment_settled
  <2>5. ptx' = TRUE \/ ptx' = ptx
    BY <1>5 DEF ReconcileResolve
  <2>4. pc' = [pc EXCEPT ![p] = "reporting"] /\ UNCHANGED <<refundVars, lock, linked, providerVars>>
    BY <1>5 DEF ReconcileResolve
  <2> QED
    BY <2>1, <2>2, <2>3, <2>4, <2>5, ZenonT(30)
<1>6. CASE ReconcileConflict(p)
  BY <1>6 DEF ReconcileConflict
<1>7. CASE write_report(p)
  BY <1>7 DEF write_report
<1>8. CASE ReconcileAbandon(p)
  BY <1>8, SMTT(30) DEF ReconcileAbandon
<1> QED
  BY <1>1, <1>2, <1>3, <1>4, <1>5, <1>6, <1>7, <1>8, ZenonT(30) DEF ReconcileNext

\* Every step of refund_payment keeps the types.
LEMMA RefundType ==
  ASSUME TypeOK, NEW r \in Refunds, RefundNext(r) PROVE TypeOK'
<1> USE SessionsAssumption DEF TypeOK, Sessions, PaymentStatus, ProviderOutcome, Event, Actor, RefundStatus,
            ReportResult, rowVars, providerVars, refundVars, Goto, lock_payment, apply_transition
<1>1. CASE RefundReject(r)
  BY <1>1 DEF RefundReject
<1>2. CASE RefundReserve(r)
  <2>1. status' \in PaymentStatus /\ event' \in Event /\ seen' \in [Sessions -> PaymentStatus \cup {"NONE"}]
    BY <1>2 DEF RefundReserve
  <2>2. amount' \in [Refunds -> Nat]
    BY <1>2, RequestAmountsAssumption DEF RefundReserve
  <2>3. /\ pc' = [pc EXCEPT ![r] = "refunding"] /\ refund' = [refund EXCEPT ![r] = "PENDING"]
        /\ UNCHANGED <<paid, refundEntries, lock, ptx, linked, providerVars, settlements, answer>>
    BY <1>2 DEF RefundReserve
  <2> QED
    BY <2>1, <2>2, <2>3
<1>3. CASE ProviderRefund(r)
  BY <1>3 DEF ProviderRefund
<1>4. CASE RefundSettle(r)
  <2>1. status' \in PaymentStatus /\ event' \in Event /\ seen' \in [Sessions -> PaymentStatus \cup {"NONE"}]
    <3> DEFINE from == lock_payment(r)
               total == SumAmounts(amount, WithStatus(refund', {"SUCCEEDED"}))
               to == AggregateStatus(total)
    <3>1. to \in {"REFUNDED", "SUCCEEDED", "REFUND_FAILED"}
      BY DEF AggregateStatus
    <3>2. from \in PaymentStatus /\ r \in Sessions
      OBVIOUS
    <3>3. \/ UNCHANGED <<status, event, seen>>
          \/ /\ status' = IF to = from THEN status ELSE to
             /\ event' = [from |-> from, to |-> to, actor |-> "API"]
             /\ seen' = [seen EXCEPT ![r] = to]
      <4> HIDE DEF TypeOK, lock_payment, Sessions, PaymentStatus, Event
      <4> QED
        BY ONLY RefundSettle(r) DEF RefundSettle, apply_transition
    <3> HIDE DEF from, total, to, lock_payment
    <3>4. CASE UNCHANGED <<status, event, seen>>
      BY <3>4
    <3>5. CASE /\ status' = IF to = from THEN status ELSE to
               /\ event' = [from |-> from, to |-> to, actor |-> "API"]
               /\ seen' = [seen EXCEPT ![r] = to]
      BY <3>1, <3>2, <3>5, Zenon
    <3> QED
      BY <3>3, <3>4, <3>5
  <2>2. refund' \in [Refunds -> RefundStatus \cup {"NONE"}] /\ refundEntries' \in [Refunds -> Nat]
    BY <1>4, SMTT(30) DEF RefundSettle, record_refund_settled
  <2>3. /\ pc' = [pc EXCEPT ![r] = "done"]
        /\ UNCHANGED <<amount, paid, lock, ptx, linked, providerVars, settlements, answer>>
    BY <1>4 DEF RefundSettle
  <2> QED
    BY <2>1, <2>2, <2>3
<1>5. CASE RefundAbandon(r)
  BY <1>5 DEF RefundAbandon
<1> QED
  BY <1>1, <1>2, <1>3, <1>4, <1>5, Zenon DEF RefundNext

\* The types hold initially and every step keeps them.
LEMMA TypeInductive == /\ Init => TypeOK
                       /\ TypeOK /\ [Next]_vars => TypeOK'
<1>1. ASSUME Init PROVE TypeOK
  <2>1. \A p \in Passes : p \in Sessions /\ pc[p] # "reporting"
    BY <1>1 DEF Init, Sessions
  <2>2. event \in Event
    BY <1>1 DEF Init, Event, PaymentStatus, Actor
  <2> QED
    BY <1>1, <2>1, <2>2, Zenon DEF Init, TypeOK, PaymentStatus
<1>2. ASSUME TypeOK, [Next]_vars PROVE TypeOK'
  <2>1. CASE ProviderLearns
    BY <1>2, <2>1 DEF ProviderLearns, TypeOK, ProviderOutcome, rowVars, providerVars, refundVars
  <2>2. CASE UNCHANGED vars
    BY <1>2, <2>2 DEF vars, rowVars, providerVars, refundVars, TypeOK
  <2> QED
    BY <1>2, <2>1, <2>2, CreateType, CaptureType, WebhookType, ReconcileType, RefundType
    DEF Next
<1> QED
  BY <1>1, <1>2

\* Type correctness of the payment's rows and sessions, for all constants.
THEOREM TypeCorrect == Spec => []TypeOK
BY TypeInductive, PTL DEF Spec

-------------------------------------------------------------------------------
(***************************************************************************)
(* What a step of each handler does, session by session.  The invariants   *)
(* below are proved from these summaries.                                  *)
(***************************************************************************)

\* Only session s moves.
Moves(s) ==
  \A t \in Sessions \ {s} : pc'[t] = pc[t] /\ seen'[t] = seen[t] /\ answer'[t] = answer[t]

\* Session s takes the payment from the status it holds to another one.
Writes(s, from, to) ==
  /\ status' = IF to = from THEN status ELSE to
  /\ event'.from = from
  /\ is_valid_payment_transition(from, to, event'.actor)
  /\ seen'[s] = to

Rests(s) == seen'[s] = seen[s] /\ UNCHANGED <<status, event>>

CreateStep ==
  /\ Moves(Create)
  /\ UNCHANGED <<refundVars, lock, collected, settlements>>
  /\ \/ /\ pc[Create] = "created" /\ pc'[Create] = "processing" /\ lock = NoSession
        /\ Writes(Create, lock_payment(Create), "PROCESSING")
        /\ UNCHANGED <<ptx, linked, truth>>
     \/ /\ pc[Create] = "processing" /\ pc'[Create] = "done" /\ lock = NoSession
        /\ Writes(Create, lock_payment(Create), "FAILED")
        /\ linked' = TRUE /\ UNCHANGED <<ptx, truth>>
     \/ /\ pc[Create] = "processing" /\ pc'[Create] = "authorized"
        /\ answer'[Create] = "SUCCEEDED" => truth' = "SUCCEEDED"
        /\ Rests(Create) /\ UNCHANGED <<ptx, linked>>
     \/ /\ pc[Create] = "authorized" /\ pc'[Create] = "done" /\ lock = NoSession
        /\ ptx' = (answer[Create] = "SUCCEEDED") /\ linked' = TRUE /\ UNCHANGED truth
        /\ answer'[Create] = answer[Create]
        /\ \/ answer[Create] # "SUCCEEDED" /\ Writes(Create, lock_payment(Create), "FAILED")
           \/ answer[Create] # "SUCCEEDED" /\ Writes(Create, lock_payment(Create), "UNKNOWN")
           \/ Rests(Create)
     \/ /\ pc[Create] # "done" /\ pc'[Create] = "failed"
        /\ Rests(Create) /\ UNCHANGED <<ptx, linked, truth>>

CaptureStep(c) ==
  /\ Moves(c)
  /\ UNCHANGED <<refundVars, ptx, linked, truth>>
  /\ \/ /\ pc[c] = "idle" /\ pc'[c] \in {"done", "rejected"}
        /\ Rests(c) /\ UNCHANGED <<lock, settlements, collected>>
     \/ /\ pc[c] = "idle" /\ pc'[c] = "capturing" /\ lock = NoSession /\ lock' = c
        /\ ptx /\ lock_payment(c) = "PROCESSING" /\ seen'[c] = "PROCESSING"
        /\ UNCHANGED <<status, event, settlements, collected>>
     \/ /\ pc[c] = "capturing" /\ pc'[c] = "done" /\ lock' = NoSession
        /\ \/ /\ Writes(c, seen[c], "SUCCEEDED")
              /\ settlements' = settlements + 1 /\ collected' = collected \cup {c}
           \/ /\ Writes(c, seen[c], "UNKNOWN")
              /\ collected' \in {collected, collected \cup {c}} /\ UNCHANGED settlements
           \/ Writes(c, seen[c], "FAILED") /\ UNCHANGED <<settlements, collected>>
     \/ /\ pc[c] = "capturing" /\ pc'[c] = "failed" /\ lock' = NoSession
        /\ collected' \in {collected, collected \cup {c}}
        /\ Rests(c) /\ UNCHANGED settlements

WebhookStep(w) ==
  /\ Moves(w)
  /\ UNCHANGED <<refundVars, lock, ptx, linked, truth, collected>>
  /\ \/ /\ pc[w] = "idle" /\ pc'[w] = "received" /\ answer'[w] \in {"SUCCEEDED", "FAILED"}
        /\ Rests(w) /\ UNCHANGED settlements
     \/ /\ pc[w] \in {"received", "found"} /\ answer'[w] = answer[w]
        /\ seen'[w] \in {seen[w], status, "NONE"} /\ UNCHANGED <<status, event, settlements>>
     \/ /\ pc[w] = "found" /\ pc'[w] = "done" /\ lock = NoSession
        /\ Writes(w, lock_payment(w), answer[w]) /\ answer'[w] = answer[w]
        /\ settlements' = IF answer[w] = "SUCCEEDED" THEN settlements + 1 ELSE settlements

PassStep(p) ==
  /\ Moves(p)
  /\ UNCHANGED <<refundVars, lock, linked, truth, collected>>
  /\ \/ /\ pc[p] = "idle" /\ pc'[p] = "listed" /\ seen'[p] \in {seen[p], status}
        /\ UNCHANGED <<status, event, ptx, settlements>>
     \/ /\ pc[p] = "listed" /\ pc'[p] \in {"asking", "reporting"}
        /\ seen'[p] = lock_payment(p)
        /\ pc'[p] = "asking" => linked /\ lock_payment(p) = "UNKNOWN"
        /\ UNCHANGED <<status, event, ptx, settlements>>
     \/ /\ pc[p] = "asking" /\ pc'[p] = "asked"
        /\ answer'[p] \in {truth, "UNKNOWN", "MISMATCH"}
        /\ Rests(p) /\ UNCHANGED <<ptx, settlements>>
     \/ /\ pc[p] = "asked" /\ pc'[p] = "reporting"
        /\ Rests(p) /\ UNCHANGED <<ptx, settlements>>
     \/ /\ pc[p] = "asked" /\ pc'[p] = "reporting" /\ lock = NoSession
        /\ lock_payment(p) = "UNKNOWN"
        /\ \/ Writes(p, "UNKNOWN", "UNKNOWN") /\ UNCHANGED <<ptx, settlements>>
           \/ /\ answer[p] = "SUCCEEDED" /\ ~ptx /\ ptx' = TRUE
              /\ Writes(p, "UNKNOWN", "SUCCEEDED") /\ settlements' = settlements + 1
           \/ /\ answer[p] \in {"DECLINED", "TEMPORARY_FAILURE"}
              /\ Writes(p, "UNKNOWN", "FAILED") /\ UNCHANGED <<ptx, settlements>>
     \/ /\ pc'[p] = "idle" /\ seen'[p] = "NONE"
        /\ UNCHANGED <<status, event, ptx, settlements>>

RefundStep(r) ==
  /\ Moves(r)
  /\ UNCHANGED <<lock, ptx, linked, truth, collected, settlements>>
  /\ \/ /\ \/ pc'[r] \in {"rejected", "failed"}
           \/ pc[r] = "refunding" /\ pc'[r] = "answered"
        /\ Rests(r) /\ UNCHANGED <<refund, amount>>
     \/ /\ pc[r] = "idle" /\ pc'[r] = "refunding" /\ lock = NoSession
        /\ ptx /\ lock_payment(r) \in REFUNDABLE_SOURCE_STATUSES
        /\ refund' = [refund EXCEPT ![r] = "PENDING"]
        /\ \/ lock_payment(r) # "REFUND_PENDING" /\ Writes(r, lock_payment(r), "REFUND_PENDING")
           \/ /\ lock_payment(r) = "REFUND_PENDING"
              /\ seen'[r] = "REFUND_PENDING" /\ UNCHANGED <<status, event>>
     \/ /\ pc[r] = "answered" /\ pc'[r] = "done" /\ lock = NoSession
        /\ refund' = [refund EXCEPT
                        ![r] = IF answer[r] = "SUCCEEDED" THEN "SUCCEEDED" ELSE "FAILED"]
        /\ UNCHANGED amount
        /\ \/ /\ NoneInFlight(refund') /\ lock_payment(r) = "REFUND_PENDING"
              /\ Writes(r, "REFUND_PENDING",
                        AggregateStatus(SumAmounts(amount, WithStatus(refund', {"SUCCEEDED"}))))
           \/ ~(NoneInFlight(refund') /\ lock_payment(r) = "REFUND_PENDING") /\ Rests(r)

\* pc, seen and answer have an entry for each session.
LEMMA SessionDomains ==
  ASSUME TypeOK
  PROVE  DOMAIN pc = Sessions /\ DOMAIN seen = Sessions /\ DOMAIN answer = Sessions
BY DEF TypeOK

\* The summary of apply_transition.
LEMMA TransitionWrites ==
  ASSUME DOMAIN seen = Sessions, NEW s \in Sessions, NEW from, NEW to, NEW actor,
         apply_transition(s, from, to, actor)
  PROVE  Writes(s, from, to) /\ \A t \in Sessions \ {s} : seen'[t] = seen[t]
BY DEF apply_transition, Writes

\* The steps of create_payment are as summarised.
LEMMA CreateSummary == ASSUME TypeOK, CreateNext PROVE CreateStep
<1> Create \in Sessions
  BY DEF Sessions
<1> USE SessionDomains DEF Moves, Rests, rowVars, providerVars, Goto, Unlocked
<1>1. CASE CreateProcessing
  BY <1>1, TransitionWrites, Zenon DEF CreateStep, CreateProcessing
<1>2. CASE CreateBlocked
  BY <1>2, TransitionWrites DEF CreateStep, CreateBlocked, complete_idempotency_key
<1>3. CASE ProviderAuthorize
  BY <1>3 DEF CreateStep, ProviderAuthorize, AuthorizeResults
<1>4. CASE CreateRecord
  BY <1>4, TransitionWrites, Zenon DEF CreateStep, CreateRecord, complete_idempotency_key
<1>5. CASE CreateAbandon
  BY <1>5 DEF CreateStep, CreateAbandon
<1> QED
  BY <1>1, <1>2, <1>3, <1>4, <1>5 DEF CreateNext

\* The steps of capture_payment are as summarised.
LEMMA CaptureSummary ==
  ASSUME TypeOK, NEW c \in Captures, CaptureNext(c) PROVE CaptureStep(c)
<1> c \in Sessions
  BY Zenon DEF Sessions
<1> USE SessionDomains DEF Moves, Rests, rowVars, providerVars, Goto, Unlocked
<1>1. CASE CaptureReplay(c) \/ CaptureReject(c)
  BY <1>1 DEF CaptureStep, CaptureReplay, CaptureReject
<1>2. CASE CaptureStart(c)
  BY <1>2 DEF CaptureStep, CaptureStart, Capturable
<1>3. CASE CaptureFinish(c)
  BY <1>3, TransitionWrites, Zenon DEF CaptureStep, CaptureFinish, record_payment_settled
<1>4. CASE CaptureAbandon(c)
  BY <1>4 DEF CaptureStep, CaptureAbandon
<1> QED
  BY <1>1, <1>2, <1>3, <1>4 DEF CaptureNext

\* The steps of a webhook are as summarised.
LEMMA WebhookSummary ==
  ASSUME TypeOK, NEW w \in Webhooks, WebhookNext(w) PROVE WebhookStep(w)
<1> w \in Sessions
  BY DEF Sessions
<1> USE SessionDomains DEF Moves, Rests, rowVars, providerVars, Goto, Unlocked
<1>1. CASE receive_webhook(w)
  BY <1>1 DEF WebhookStep, receive_webhook
<1>2. CASE WebhookLookup(w) \/ WebhookRetry(w)
  BY <1>2, Zenon DEF WebhookStep, WebhookLookup, WebhookRetry
<1>3. CASE WebhookApply(w)
  BY <1>3, TransitionWrites, ZenonT(30) DEF WebhookStep, WebhookApply, record_payment_settled
<1> QED
  BY <1>1, <1>2, <1>3 DEF WebhookNext

\* The steps of a reconciliation pass are as summarised.
LEMMA PassSummary ==
  ASSUME TypeOK, NEW p \in Passes, ReconcileNext(p) PROVE PassStep(p)
<1> p \in Sessions
  BY DEF Sessions
<1> USE SessionDomains DEF Moves, Rests, rowVars, providerVars, Goto, Unlocked
<1>1. CASE find_payments_needing_reconciliation(p) \/ ReconcileCall(p)
  BY <1>1 DEF PassStep, find_payments_needing_reconciliation, ReconcileCall
<1>2. CASE ReconcileCheck(p)
  BY <1>2 DEF PassStep, ReconcileCheck
<1>3. CASE ProviderStatus(p)
  BY <1>3 DEF PassStep, ProviderStatus
<1>4. CASE ReconcileResolve(p)
  BY <1>4, TransitionWrites, Zenon DEF PassStep, ReconcileResolve, record_payment_settled
<1>5. CASE ReconcileConflict(p) \/ write_report(p) \/ ReconcileAbandon(p)
  BY <1>5, Zenon DEF PassStep, ReconcileConflict, write_report, ReconcileAbandon
<1> QED
  BY <1>1, <1>2, <1>3, <1>4, <1>5 DEF ReconcileNext

\* The steps of refund_payment are as summarised.
LEMMA RefundSummary ==
  ASSUME TypeOK, NEW r \in Refunds, RefundNext(r) PROVE RefundStep(r)
<1> r \in Sessions
  BY DEF Sessions
<1> USE SessionDomains
    DEF Moves, Rests, rowVars, refundVars, providerVars, Goto, Unlocked
<1>1. CASE RefundReject(r) \/ RefundAbandon(r)
  BY <1>1, Zenon DEF RefundStep, RefundReject, RefundAbandon
<1>4. CASE ProviderRefund(r)
  BY <1>4 DEF RefundStep, ProviderRefund
<1>2. CASE RefundReserve(r)
  BY <1>2, TransitionWrites DEF RefundStep, RefundReserve, Refundable
<1>3. CASE RefundSettle(r)
  BY <1>3, TransitionWrites, ZenonT(30) DEF RefundStep, RefundSettle
<1> QED
  BY <1>1, <1>2, <1>3, <1>4 DEF RefundNext

-------------------------------------------------------------------------------
(***************************************************************************)
(* Refund rows.  Only refund_payment touches them: the other handlers      *)
(* leave a refund session, its row and its ledger entry alone, and none of *)
(* them makes a payment REFUNDED.                                          *)
(***************************************************************************)

OtherNext ==
  \/ CreateNext
  \/ \E c \in Captures : CaptureNext(c)
  \/ \E w \in Webhooks : WebhookNext(w)
  \/ \E p \in Passes : ReconcileNext(p)
  \/ ProviderLearns

RefundsUntouched ==
  /\ UNCHANGED refundVars
  /\ \A r \in Refunds : pc'[r] = pc[r] /\ answer'[r] = answer[r]
  /\ status' = "REFUNDED" => status = "REFUNDED"

\* The handlers other than refund_payment leave refunds alone.
LEMMA OthersLeaveRefunds == TypeOK /\ OtherNext => RefundsUntouched
<1> SUFFICES ASSUME TypeOK, OtherNext PROVE RefundsUntouched
  OBVIOUS
<1> USE DEF RefundsUntouched, Moves, Writes, Rests
<1>0. \A r \in Refunds : r \in Sessions /\ r \notin {Create} \cup Captures \cup Webhooks \cup Passes
  BY SessionsAssumption DEF Sessions
<1>1. CASE CreateNext
  BY <1>0, <1>1, CreateSummary, ZenonT(30) DEF CreateStep
<1>2. ASSUME NEW c \in Captures, CaptureNext(c) PROVE RefundsUntouched
  BY <1>0, <1>2, CaptureSummary, ZenonT(30) DEF CaptureStep
<1>3. ASSUME NEW w \in Webhooks, WebhookNext(w) PROVE RefundsUntouched
  <2>1. answer[w] # "REFUNDED"
    BY DEF TypeOK, Sessions, ProviderOutcome, ReportResult
  <2> QED
    BY <1>0, <1>3, <2>1, WebhookSummary DEF WebhookStep
<1>4. ASSUME NEW p \in Passes, ReconcileNext(p) PROVE RefundsUntouched
  BY <1>0, <1>4, PassSummary, ZenonT(30) DEF PassStep
<1>5. CASE ProviderLearns
  BY <1>5, ZenonT(30) DEF ProviderLearns, rowVars
<1> QED
  BY <1>1, <1>2, <1>3, <1>4, <1>5 DEF OtherNext

\* What a refund session has written when it is at a control point.
RefundRows ==
  \A r \in Refunds :
    /\ pc[r] \in {"idle", "rejected", "refunding", "answered", "done", "failed"}
    /\ pc[r] \in {"idle", "rejected"} => refund[r] = "NONE"
    /\ pc[r] \in {"refunding", "answered", "failed"} => refund[r] = "PENDING"
    /\ pc[r] = "answered" /\ answer[r] = "SUCCEEDED" => r \in paid
    /\ pc[r] \in {"idle", "rejected", "refunding"} => r \notin paid
    /\ r \in paid => answer[r] \in {"SUCCEEDED", "UNKNOWN"}
    /\ pc[r] = "done" /\ answer[r] = "SUCCEEDED" => refund[r] = "SUCCEEDED"

Refunded == SumAmounts(amount, WithStatus(refund, {"SUCCEEDED"}))

RefundInv ==
  /\ RefundRows
  /\ LedgerMatchesRefunds
  /\ RefundsWithinPayment
  /\ status = "REFUNDED" => Refunded >= AmountMinor

\* A handler that leaves refunds alone keeps the invariant.
LEMMA UntouchedKeepsRefundInv == RefundInv /\ RefundsUntouched => RefundInv'
BY DEF RefundInv, RefundsUntouched, RefundRows, LedgerMatchesRefunds, RefundsWithinPayment,
       Reserved, Refunded, WithStatus, refundVars

\* Every step of a refund session keeps the row in step with its control point, and
\* the ledger in step with the rows.
LEMMA RefundKeepsRows ==
  ASSUME TypeOK, RefundRows, LedgerMatchesRefunds, NEW r \in Refunds, RefundNext(r)
  PROVE  RefundRows' /\ LedgerMatchesRefunds'
<1> USE DEF TypeOK, Sessions, RefundStatus, RefundRows, LedgerMatchesRefunds, rowVars, providerVars,
            refundVars, Goto
<1>1. CASE RefundReject(r)
  BY <1>1, Zenon DEF RefundReject
<1>2. CASE RefundReserve(r)
  <2>1. /\ pc[r] = "idle" /\ pc' = [pc EXCEPT ![r] = "refunding"]
        /\ refund' = [refund EXCEPT ![r] = "PENDING"]
        /\ UNCHANGED <<answer, paid, refundEntries>>
    BY <1>2, ZenonT(30) DEF RefundReserve
  <2> QED
    BY <2>1
<1>3. CASE ProviderRefund(r)
  BY <1>3, SMTT(30) DEF ProviderRefund
<1>4. CASE RefundSettle(r)
  <2>1. /\ pc[r] = "answered" /\ pc' = [pc EXCEPT ![r] = "done"]
        /\ refund' = [refund EXCEPT
                        ![r] = IF answer[r] = "SUCCEEDED" THEN "SUCCEEDED" ELSE "FAILED"]
        /\ refundEntries' = IF answer[r] = "SUCCEEDED"
                            THEN [refundEntries EXCEPT ![r] = @ + 1] ELSE refundEntries
        /\ UNCHANGED <<answer, paid>>
    BY <1>4, Zenon DEF RefundSettle, record_refund_settled
  <2> QED
    BY <2>1, SMTT(30)
<1>5. CASE RefundAbandon(r)
  BY <1>5 DEF RefundAbandon
<1> QED
  BY <1>1, <1>2, <1>3, <1>4, <1>5, ZenonT(30) DEF RefundNext

\* The sets of rows that the sums range over are finite, and the sums are naturals.
LEMMA SumsAreNat ==
  ASSUME TypeOK, NEW states
  PROVE  /\ IsFiniteSet(WithStatus(refund, states))
         /\ \A r \in WithStatus(refund, states) : amount[r] \in Nat
         /\ SumAmounts(amount, WithStatus(refund, states)) \in Nat
<1>1. IsFiniteSet(WithStatus(refund, states))
  BY RefundsAssumption, FS_Subset DEF WithStatus
<1>2. \A r \in WithStatus(refund, states) : amount[r] \in Nat
  BY DEF WithStatus, TypeOK
<1> QED
  BY <1>1, <1>2, SumAmountsType

\* A reservation that passed the balance check keeps the balance: the rows of the
\* sum gain one row, whose amount the check compared with what remains.
LEMMA ReserveKeepsBalance ==
  ASSUME TypeOK, TypeOK', RefundRows, RefundsWithinPayment,
         NEW r \in Refunds, RefundReserve(r)
  PROVE  RefundsWithinPayment' /\ Refunded' = Refunded
<1> DEFINE live == {"PENDING", "SUCCEEDED"}
           old  == WithStatus(refund, live)
           done == WithStatus(refund, {"SUCCEEDED"})
<1>1. PICK a \in RequestAmounts : /\ a <= AmountMinor - Reserved
                                  /\ amount' = [amount EXCEPT ![r] = a]
                                  /\ refund' = [refund EXCEPT ![r] = "PENDING"]
  BY ZenonT(30) DEF RefundReserve, FitsBalance
<1>2. r \notin old /\ r \notin done
  BY DEF RefundReserve, RefundRows, WithStatus
<1>3. WithStatus(refund', live) = old \cup {r} /\ WithStatus(refund', {"SUCCEEDED"}) = done
  BY <1>1, <1>2, SMTT(30) DEF WithStatus, TypeOK
<1>4. amount'[r] = a /\ \A q \in Refunds \ {r} : amount'[q] = amount[q]
  BY <1>1 DEF TypeOK
<1>5. SumAmounts(amount', old) = Reserved /\ SumAmounts(amount', done) = SumAmounts(amount, done)
  BY <1>2, <1>4, SumAmountsSame, ZenonT(30) DEF Reserved, WithStatus
<1>6. SumAmounts(amount', old \cup {r}) = SumAmounts(amount', old) + a
  <2>1. IsFiniteSet(old)
    BY SumsAreNat
  <2>2. \A q \in old \cup {r} : amount'[q] \in Nat
    BY DEF TypeOK, WithStatus
  <2> HIDE DEF old
  <2> QED
    BY <1>2, <1>4, <2>1, <2>2, SumAmountsAdd
<1>7. Reserved' = Reserved + a
  BY <1>3, <1>5, <1>6 DEF Reserved
<1>8. Reserved \in Nat /\ a \in Nat /\ AmountMinor \in Nat
  BY SumsAreNat, RequestAmountsAssumption, AmountAssumption DEF Reserved
<1>9. RefundsWithinPayment'
  BY <1>1, <1>7, <1>8 DEF RefundsWithinPayment
<1>10. Refunded' = Refunded
  BY <1>3, <1>5 DEF Refunded
<1> QED
  BY <1>9, <1>10

\* Settling a refund never reserves more and never refunds less, and it makes the
\* payment REFUNDED only when the refunded total reaches the payment's amount.
LEMMA SettleKeepsBalance ==
  ASSUME TypeOK, TypeOK', RefundRows, RefundsWithinPayment,
         status = "REFUNDED" => Refunded >= AmountMinor,
         NEW r \in Refunds, RefundSettle(r)
  PROVE  RefundsWithinPayment' /\ (status' = "REFUNDED" => Refunded' >= AmountMinor)
<1> DEFINE live == {"PENDING", "SUCCEEDED"}
           outcome == IF answer[r] = "SUCCEEDED" THEN "SUCCEEDED" ELSE "FAILED"
<1>1. /\ refund' = [refund EXCEPT ![r] = outcome]
      /\ amount' = amount
      /\ refund[r] = "PENDING"
  BY ZenonT(30) DEF RefundSettle, RefundRows
<1>2. /\ WithStatus(refund', live) \in SUBSET WithStatus(refund, live)
      /\ WithStatus(refund, {"SUCCEEDED"}) \in SUBSET WithStatus(refund', {"SUCCEEDED"})
  <2>1. /\ \A q \in Refunds : refund'[q] \in live => refund[q] \in live
        /\ \A q \in Refunds : refund[q] = "SUCCEEDED" => refund'[q] = "SUCCEEDED"
    BY <1>1 DEF TypeOK
  <2> HIDE DEF live
  <2> QED
    BY <2>1, Zenon DEF WithStatus
<1>3. Reserved' <= Reserved
  BY <1>1, <1>2, SumsAreNat, SumAmountsMonotone, Zenon DEF Reserved
<1>4. Refunded <= Refunded'
  <2>1. /\ IsFiniteSet(WithStatus(refund', {"SUCCEEDED"}))
        /\ \A q \in WithStatus(refund', {"SUCCEEDED"}) : amount[q] \in Nat
    BY <1>1, RefundsAssumption, FS_Subset DEF WithStatus, TypeOK
  <2> QED
    BY <1>1, <1>2, <2>1, SumAmountsMonotone, ZenonT(30) DEF Refunded
<1>5. /\ Reserved \in Nat /\ Refunded \in Nat /\ AmountMinor \in Nat
      /\ Reserved' \in Nat /\ Refunded' \in Nat
  <2>1. Reserved \in Nat /\ Refunded \in Nat
    BY SumsAreNat DEF Reserved, Refunded
  <2>2. ASSUME NEW states PROVE SumAmounts(amount, WithStatus(refund', states)) \in Nat
    <3>1. /\ IsFiniteSet(WithStatus(refund', states))
          /\ \A q \in WithStatus(refund', states) : amount[q] \in Nat
      BY RefundsAssumption, FS_Subset DEF WithStatus, TypeOK
    <3> QED
      BY <3>1, SumAmountsType, Zenon
  <2> QED
    BY <1>1, <2>1, <2>2, AmountAssumption, Zenon DEF Reserved, Refunded
<1>6. RefundsWithinPayment'
  BY <1>3, <1>5 DEF RefundsWithinPayment
<1>7. ASSUME status' = "REFUNDED" PROVE Refunded' >= AmountMinor
  <2>1. \/ status' = status
        \/ status' = AggregateStatus(Refunded')
    BY <1>1, Zenon DEF RefundSettle, apply_transition, Refunded
  <2> QED
    BY <1>4, <1>5, <1>7, <2>1 DEF AggregateStatus
<1> QED
  BY <1>6, <1>7, ZenonT(30)

\* The refund invariant is inductive.
LEMMA RefundInvInductive ==
  /\ Init => RefundInv
  /\ TypeOK /\ TypeOK' /\ RefundInv /\ [Next]_vars => RefundInv'
<1>1. ASSUME Init PROVE RefundInv
  <2>1. \A r \in Refunds : r \in Sessions /\ r # Create
    BY SessionsAssumption DEF Sessions
  <2>2. WithStatus(refund, {"PENDING", "SUCCEEDED"}) = {}
    BY <1>1 DEF Init, WithStatus
  <2>3. RefundsWithinPayment
    BY <2>2, SumAmountsEmpty, AmountAssumption DEF RefundsWithinPayment, Reserved
  <2> QED
    BY <1>1, <2>1, <2>3 DEF Init, RefundInv, RefundRows, LedgerMatchesRefunds
<1>2. ASSUME TypeOK, TypeOK', RefundInv, [Next]_vars PROVE RefundInv'
  <2>1. CASE OtherNext
    BY <1>2, <2>1, OthersLeaveRefunds, UntouchedKeepsRefundInv
  <2>2. CASE UNCHANGED vars
    <3>1. RefundsUntouched
      BY <2>2 DEF RefundsUntouched, vars, rowVars, providerVars
    <3> QED
      BY <1>2, <3>1, UntouchedKeepsRefundInv
  <2>3. ASSUME NEW r \in Refunds, RefundNext(r) PROVE RefundInv'
    <3>1. RefundRows' /\ LedgerMatchesRefunds'
      BY <1>2, <2>3, RefundKeepsRows DEF RefundInv
    <3>2. CASE RefundReserve(r)
      <4>1. status' # "REFUNDED" \/ status' = status
        BY <3>2 DEF RefundReserve, apply_transition
      <4> QED
        BY <1>2, <3>1, <3>2, <4>1, ReserveKeepsBalance DEF RefundInv
    <3>3. CASE RefundSettle(r)
      BY <1>2, <3>1, <3>3, SettleKeepsBalance DEF RefundInv
    <3>4. CASE RefundReject(r) \/ ProviderRefund(r) \/ RefundAbandon(r)
      <4>1. UNCHANGED <<status, refund, amount>>
        BY <3>4, Zenon DEF RefundReject, ProviderRefund, RefundAbandon, rowVars, providerVars, refundVars
      <4> QED
        BY <1>2, <3>1, <4>1
        DEF RefundInv, RefundsWithinPayment, Reserved, Refunded, WithStatus
    <3> QED
      BY <2>3, <3>2, <3>3, <3>4 DEF RefundNext
  <2> QED
    BY <1>2, <2>1, <2>2, <2>3 DEF Next, OtherNext
<1> QED
  BY <1>1, <1>2

\* The refund invariant holds throughout.
LEMMA RefundInvHolds == Spec => []RefundInv
BY TypeInductive, RefundInvInductive, PTL DEF Spec

\* However many refunds, captures, webhooks and passes interleave, and whatever is
\* abandoned, the reserved refunds never exceed the payment: the balance check of
\* refund_payment under the row lock suffices.
THEOREM BalanceNeverExceeded == Spec => []RefundsWithinPayment
<1>1. RefundInv => RefundsWithinPayment
  BY DEF RefundInv
<1> QED
  BY <1>1, RefundInvHolds, PTL

\* record_refund_settled has been called once for each SUCCEEDED refund, and for no
\* other, and its money has moved.
THEOREM RefundLedgerExact == Spec => []LedgerMatchesRefunds
<1>1. RefundInv => LedgerMatchesRefunds
  BY DEF RefundInv
<1> QED
  BY <1>1, RefundInvHolds, PTL

\* A payment that shows REFUNDED has been refunded in full, whichever webhook or
\* stale session wrote in between.
THEOREM RefundedMeansInFull == Spec => []RefundedInFull
<1>1. ASSUME TypeOK, RefundInv PROVE RefundedInFull
  <2>1. WithStatus(refund, {"SUCCEEDED"}) \in SUBSET WithStatus(refund, {"PENDING", "SUCCEEDED"})
    BY DEF WithStatus
  <2>2. Refunded <= Reserved
    BY <1>1, <2>1, SumsAreNat, SumAmountsMonotone DEF Refunded, Reserved
  <2>3. Refunded \in Nat /\ Reserved \in Nat /\ AmountMinor \in Nat
    BY <1>1, SumsAreNat, AmountAssumption DEF Refunded, Reserved
  <2> QED
    BY <1>1, <2>2, <2>3 DEF RefundInv, RefundsWithinPayment, RefundedInFull, Refunded
<1> QED
  BY <1>1, TypeCorrect, RefundInvHolds, PTL

\* Whatever refunds interleave and whichever answers are lost, what the provider paid
\* beyond the payment is only what it paid under a lost answer.
THEOREM PayoutsBounded == Spec => []PaidWithinPayment
<1>1. ASSUME TypeOK, RefundInv PROVE PaidWithinPayment
  <2> DEFINE known == { r \in paid : answer[r] # "UNKNOWN" }
             live  == WithStatus(refund, {"PENDING", "SUCCEEDED"})
  <2>1. known \in SUBSET live
    BY <1>1 DEF RefundInv, RefundRows, WithStatus, TypeOK
  <2>2. SumAmounts(amount, live) \in Nat /\ SumAmounts(amount, known) <= SumAmounts(amount, live)
    <3>1. IsFiniteSet(live) /\ (\A r \in live : amount[r] \in Nat) /\ SumAmounts(amount, live) \in Nat
      BY <1>1, SumsAreNat
    <3> HIDE DEF known, live
    <3> QED
      BY <2>1, <3>1, SumAmountsMonotone
  <2>3. SumAmounts(amount, known) \in Nat
    <3>1. IsFiniteSet(known) /\ \A r \in known : amount[r] \in Nat
      BY <1>1, RefundsAssumption, FS_Subset DEF TypeOK
    <3> HIDE DEF known
    <3> QED
      BY <3>1, SumAmountsType
  <2>4. SumAmounts(amount, live) <= AmountMinor /\ AmountMinor \in Nat
    BY <1>1, AmountAssumption DEF RefundInv, RefundsWithinPayment, Reserved
  <2> HIDE DEF known, live
  <2>5. SumAmounts(amount, known) <= AmountMinor
    BY <2>2, <2>3, <2>4, SMTT(30)
  <2> QED
    BY <2>5 DEF known, PaidWithinPayment
<1> QED
  BY <1>1, TypeCorrect, RefundInvHolds, PTL

-------------------------------------------------------------------------------
(***************************************************************************)
(* Settlement.  A status that says the money was collected, in the row or  *)
(* in the copy a session holds of it, is backed by the ledger.             *)
(***************************************************************************)

SettlementInv ==
  /\ status \in SETTLED_STATUSES => settlements > 0
  /\ \A s \in Sessions : seen[s] \in SETTLED_STATUSES => settlements > 0
  /\ RefundsImplySettlement

\* A step of session s books a settlement, or writes no status that claims one.
Backs(s) ==
  /\ \A t \in Sessions \ {s} : seen'[t] = seen[t]
  /\ \/ settlements' = settlements + 1
     \/ /\ settlements' = settlements
        /\ status' = status \/ status' \notin SETTLED_STATUSES
        /\ seen'[s] \in {seen[s], status} \/ seen'[s] \notin SETTLED_STATUSES

\* The handlers other than refund_payment book what they claim.
LEMMA OthersBack ==
  ASSUME TypeOK, OtherNext PROVE \E s \in Sessions : Backs(s)
<1> USE DEF Backs, Writes, Rests, SETTLED_STATUSES
<1>1. CASE CreateNext
  <2>1. CreateStep /\ Create \in Sessions
    BY <1>1, CreateSummary DEF Sessions
  <2>2. Backs(Create)
    BY <2>1, ZenonT(30) DEF CreateStep, Moves
  <2> QED
    BY <2>1, <2>2
<1>2. ASSUME NEW c \in Captures, CaptureNext(c) PROVE \E s \in Sessions : Backs(s)
  <2>1. CaptureStep(c) /\ c \in Sessions
    BY <1>2, CaptureSummary, ZenonT(30) DEF Sessions
  <2>2. Backs(c)
    BY <2>1, Zenon DEF CaptureStep, Moves
  <2> QED
    BY <2>1, <2>2
<1>3. ASSUME NEW w \in Webhooks, WebhookNext(w) PROVE \E s \in Sessions : Backs(s)
  <2>1. WebhookStep(w) /\ w \in Sessions
    BY <1>3, WebhookSummary DEF Sessions
  <2>2. answer[w] \notin SETTLED_STATUSES \/ answer[w] = "SUCCEEDED"
    BY <2>1 DEF TypeOK, ProviderOutcome, ReportResult
  <2>3. Backs(w)
    BY <2>1, <2>2, Zenon DEF WebhookStep, Moves
  <2> QED
    BY <2>1, <2>3
<1>4. ASSUME NEW p \in Passes, ReconcileNext(p) PROVE \E s \in Sessions : Backs(s)
  <2>1. PassStep(p) /\ p \in Sessions
    BY <1>4, PassSummary, Zenon DEF Sessions
  <2>2. Backs(p)
    BY <2>1, Zenon DEF PassStep, Moves, lock_payment
  <2> QED
    BY <2>1, <2>2
<1>5. CASE ProviderLearns
  BY <1>5 DEF ProviderLearns, rowVars, Sessions
<1> QED
  BY <1>1, <1>2, <1>3, <1>4, <1>5, ZenonT(30) DEF OtherNext

\* Every step keeps the settlement invariant: it settles the ledger, or it moves
\* between statuses of which the first was already backed.
LEMMA SettlementInvInductive ==
  /\ Init => SettlementInv
  /\ TypeOK /\ RefundInv /\ SettlementInv /\ [Next]_vars => SettlementInv'
<1>1. ASSUME Init PROVE SettlementInv
  BY <1>1 DEF Init, SettlementInv, RefundsImplySettlement, SETTLED_STATUSES
<1>2. ASSUME TypeOK, RefundInv, SettlementInv, [Next]_vars PROVE SettlementInv'
  <2>0. settlements \in Nat
    BY <1>2, Zenon DEF TypeOK
  <2>1. CASE OtherNext
    <3>1. UNCHANGED refund
      BY <1>2, <2>1, OthersLeaveRefunds DEF RefundsUntouched, refundVars
    <3>2. PICK s \in Sessions : Backs(s)
      BY <1>2, <2>1, OthersBack
    <3> QED
      BY <1>2, <2>0, <3>1, <3>2, SMTT(30) DEF Backs, SettlementInv, RefundsImplySettlement
  <2>2. ASSUME NEW r \in Refunds, RefundNext(r) PROVE SettlementInv'
    <3>1. RefundStep(r) /\ r \in Sessions
      BY <1>2, <2>2, RefundSummary DEF Sessions
    <3>2. pc[r] = "answered" => settlements > 0
      BY <1>2 DEF RefundInv, RefundRows, SettlementInv, RefundsImplySettlement
    <3>3. lock_payment(r) \in REFUNDABLE_SOURCE_STATUSES => settlements > 0
      BY <1>2, <3>1, Zenon DEF SettlementInv, lock_payment, REFUNDABLE_SOURCE_STATUSES, SETTLED_STATUSES
    <3>4. \/ pc[r] = "answered"
          \/ lock_payment(r) \in REFUNDABLE_SOURCE_STATUSES
          \/ UNCHANGED <<status, refund>> /\ seen'[r] = seen[r]
      BY <3>1, ZenonT(30) DEF RefundStep, Rests
    <3>5. settlements' = settlements /\ \A s \in Sessions \ {r} : seen'[s] = seen[s]
      BY <3>1 DEF RefundStep, Moves
    <3> QED
      BY <1>2, <3>2, <3>3, <3>4, <3>5 DEF SettlementInv, RefundsImplySettlement
  <2>3. CASE UNCHANGED vars
    BY <1>2, <2>3 DEF vars, rowVars, refundVars, SettlementInv, RefundsImplySettlement
  <2> QED
    BY <1>2, <2>1, <2>2, <2>3, Zenon DEF Next, OtherNext
<1> QED
  BY <1>1, <1>2

\* A refund row implies a settlement on the ledger, webhooks and stale sessions
\* included.
THEOREM RefundsAreBacked == Spec => []RefundsImplySettlement
<1>1. SettlementInv => RefundsImplySettlement
  BY DEF SettlementInv
<1> QED
  BY <1>1, TypeCorrect, RefundInvHolds, SettlementInvInductive, PTL DEF Spec

-------------------------------------------------------------------------------
(***************************************************************************)
(* The creation key.  It is linked in the transaction that records the     *)
(* provider's answer, so before anything can make the payment UNKNOWN.     *)
(***************************************************************************)

LinkInv ==
  /\ linked => pc[Create] = "done"
  /\ status = "UNKNOWN" \/ ptx => linked
  /\ \A c \in Captures : pc[c] = "capturing" => linked
  /\ \A p \in Passes : pc[p] \in {"asking", "asked"} => linked
  /\ \A w \in Webhooks : pc[w] \in {"received", "found"} => answer[w] # "UNKNOWN"

\* The link invariant is inductive.
LEMMA LinkInvInductive ==
  /\ Init => LinkInv
  /\ TypeOK /\ LinkInv /\ [Next]_vars => LinkInv'
<1>0. /\ \A c \in Captures : c \in Sessions \ {Create}
      /\ \A p \in Passes : p \in Sessions \ {Create}
      /\ \A w \in Webhooks : w \in Sessions \ {Create}
      /\ Captures \cap (Webhooks \cup Passes \cup Refunds) = {}
      /\ Webhooks \cap (Passes \cup Refunds) = {}
      /\ Passes \cap Refunds = {}
      /\ Create \in Sessions \ Refunds
  BY SessionsAssumption DEF Sessions
<1>1. ASSUME Init PROVE LinkInv
  BY <1>0, <1>1 DEF Init, LinkInv
<1>2. ASSUME TypeOK, LinkInv, [Next]_vars PROVE LinkInv'
  <2> USE <1>0 DEF Moves, Writes, Rests
  <2>1. CASE CreateNext
    <3>1. CreateStep
      BY <1>2, <2>1, CreateSummary, Zenon
    <3>2. \/ linked' = TRUE /\ pc'[Create] = "done"
          \/ /\ UNCHANGED <<linked, ptx>> /\ pc[Create] # "done"
             /\ status' # "UNKNOWN" \/ status' = status
      BY <3>1, Zenon DEF CreateStep
    <3>3. \A t \in Sessions \ {Create} : pc'[t] = pc[t] /\ answer'[t] = answer[t]
      BY <3>1, Zenon DEF CreateStep
    <3>4. CASE linked' = TRUE /\ pc'[Create] = "done"
      BY <1>2, <3>3, <3>4, Zenon DEF LinkInv
    <3>5. CASE /\ UNCHANGED <<linked, ptx>> /\ pc[Create] # "done"
               /\ status' # "UNKNOWN" \/ status' = status
      BY <1>2, <3>3, <3>5, ZenonT(30) DEF LinkInv
    <3> QED
      BY <3>2, <3>4, <3>5, ZenonT(30)
  <2>2. ASSUME NEW c \in Captures, CaptureNext(c) PROVE LinkInv'
    <3>1. CaptureStep(c)
      BY <1>2, <2>2, CaptureSummary, ZenonT(30)
    <3>2. linked' = linked /\ ptx' = ptx /\ (pc[c] = "capturing" \/ status' = status)
      BY <3>1 DEF CaptureStep
    <3>3. pc'[c] = "capturing" => linked
      BY <1>2, <3>1, ZenonT(30) DEF CaptureStep, LinkInv
    <3>4. (\A t \in Sessions \ {c} : pc'[t] = pc[t] /\ answer'[t] = answer[t])
      BY <3>1, ZenonT(30) DEF CaptureStep
    <3> HIDE DEF Moves, Writes, Rests
    <3> QED
      BY <1>2, <3>2, <3>3, <3>4 DEF LinkInv
  <2>3. ASSUME NEW w \in Webhooks, WebhookNext(w) PROVE LinkInv'
    <3>1. WebhookStep(w)
      BY <1>2, <2>3, WebhookSummary
    <3>2. linked' = linked /\ ptx' = ptx /\ (status' # "UNKNOWN" \/ status' = status)
      BY <1>2, <3>1, ZenonT(30) DEF WebhookStep, LinkInv
    <3>3. pc'[w] \in {"received", "found"} => answer'[w] # "UNKNOWN"
      BY <1>2, <3>1, Zenon DEF WebhookStep, LinkInv
    <3>4. (\A t \in Sessions \ {w} : pc'[t] = pc[t] /\ answer'[t] = answer[t])
      BY <3>1, ZenonT(30) DEF WebhookStep
    <3> HIDE DEF Moves, Writes, Rests
    <3> QED
      BY <1>2, <3>2, <3>3, <3>4, Zenon DEF LinkInv
  <2>4. ASSUME NEW p \in Passes, ReconcileNext(p) PROVE LinkInv'
    <3>1. PassStep(p)
      BY <1>2, <2>4, PassSummary
    <3>2. /\ linked' = linked
          /\ \/ linked
             \/ ptx' = ptx /\ (status' # "UNKNOWN" \/ status' = status)
      BY <1>2, <3>1, ZenonT(30) DEF PassStep, LinkInv
    <3>3. pc'[p] \in {"asking", "asked"} => linked
      BY <1>2, <3>1, ZenonT(30) DEF PassStep, LinkInv
    <3>4. (\A t \in Sessions \ {p} : pc'[t] = pc[t] /\ answer'[t] = answer[t])
      BY <3>1, Zenon DEF PassStep
    <3> HIDE DEF Moves, Writes, Rests
    <3>5. /\ linked' => pc'[Create] = "done"
          /\ status' = "UNKNOWN" \/ ptx' => linked'
      <4>1. linked' => pc'[Create] = "done"
        BY <1>2, <3>2, <3>4 DEF LinkInv
      <4>2. CASE linked
        BY <3>2, <4>1, <4>2, ZenonT(30)
      <4>3. CASE ~linked
        BY <1>2, <3>2, <4>1, <4>3, SMTT(30) DEF LinkInv
      <4> QED
        BY <4>2, <4>3, ZenonT(30)
    <3>6. /\ \A c \in Captures : pc'[c] = "capturing" => linked'
          /\ \A q \in Passes : pc'[q] \in {"asking", "asked"} => linked'
          /\ \A w \in Webhooks : pc'[w] \in {"received", "found"} => answer'[w] # "UNKNOWN"
      BY <1>2, <3>2, <3>3, <3>4, ZenonT(30) DEF LinkInv
    <3> QED
      BY <3>5, <3>6 DEF LinkInv
  <2>5. ASSUME NEW r \in Refunds, RefundNext(r) PROVE LinkInv'
    <3>1. RefundStep(r)
      BY <1>2, <2>5, RefundSummary
    <3>2. status' # "UNKNOWN" \/ status' = status
      BY <3>1, ZenonT(30) DEF RefundStep, AggregateStatus
    <3>4. (\A t \in Sessions \ {r} : pc'[t] = pc[t] /\ answer'[t] = answer[t]) /\ UNCHANGED <<linked, ptx>>
      BY <3>1, ZenonT(30) DEF RefundStep
    <3> HIDE DEF Moves, Writes, Rests
    <3> QED
      BY <1>2, <3>2, <3>4 DEF LinkInv
  <2>6. CASE ProviderLearns \/ UNCHANGED vars
    <3>1. UNCHANGED <<linked, ptx, status, pc, answer>>
      BY <2>6 DEF ProviderLearns, vars, rowVars
    <3> QED
      BY <1>2, <3>1 DEF LinkInv
  <2> QED
    BY <1>2, <2>1, <2>2, <2>3, <2>4, <2>5, <2>6, Zenon DEF Next
<1> QED
  BY <1>1, <1>2

\* An UNKNOWN payment has its creation key on record, webhooks and stale sessions
\* included: reconcile_payment can always ask the provider about it.
THEOREM UnknownCanBeAsked == Spec => []UnknownHasKey
<1>1. LinkInv => UnknownHasKey
  BY DEF LinkInv, UnknownHasKey
<1> QED
  BY <1>1, TypeCorrect, LinkInvInductive, PTL DEF Spec

-------------------------------------------------------------------------------
(***************************************************************************)
(* Captures.  One that has collected and did not die has taken the payment *)
(* out of PROCESSING, and nothing takes it back there.                     *)
(***************************************************************************)

Kept(c) == c \in collected /\ pc[c] # "failed"

Undecided == {"CREATED", "PROCESSING"}

CollectInv ==
  /\ CollectedOnceUnlessAbandoned
  /\ collected # {} => linked
  /\ \A c \in Captures : /\ pc[c] = "idle" => seen[c] = "NONE" /\ c \notin collected
                         /\ pc[c] = "capturing" => /\ lock = c /\ c \notin collected
                                                   /\ status = "PROCESSING"
                                                   /\ seen[c] = "PROCESSING"
                         /\ Kept(c) => status \notin Undecided

\* A step other than a capture's: it writes the status only while no capture holds
\* the row, and makes the payment undecided only before its key is linked.
LeavesCaptures ==
  /\ UNCHANGED <<lock, collected>>
  /\ \A c \in Captures : pc'[c] = pc[c] /\ seen'[c] = seen[c]
  /\ linked = TRUE => linked' = TRUE
  /\ \/ status' = status
     \/ lock = NoSession /\ (status' \in Undecided => linked # TRUE)

\* The handlers other than capture_payment leave captures alone.
LEMMA OthersLeaveCaptures ==
  ASSUME TypeOK, LinkInv,
         \/ CreateNext \/ ProviderLearns \/ UNCHANGED vars
         \/ \E w \in Webhooks : WebhookNext(w)
         \/ \E p \in Passes : ReconcileNext(p)
         \/ \E r \in Refunds : RefundNext(r)
  PROVE  LeavesCaptures
<1>0. \A c \in Captures : c \in Sessions /\ c \notin {Create} \cup Webhooks \cup Passes \cup Refunds
  BY SessionsAssumption DEF Sessions
<1> USE <1>0 DEF LeavesCaptures, Moves, Writes, Rests, Undecided
<1>1. CASE CreateNext
  <2>1. CreateStep
    BY <1>1, CreateSummary
  <2>2. pc[Create] # "done" => linked # TRUE
    BY Zenon DEF LinkInv
  <2> QED
    BY <2>1, <2>2, Zenon DEF CreateStep
<1>2. ASSUME NEW w \in Webhooks, WebhookNext(w) PROVE LeavesCaptures
  <2>1. WebhookStep(w)
    BY <1>2, WebhookSummary, ZenonT(30)
  <2>2. answer[w] \notin Undecided
    BY DEF TypeOK, Sessions, ProviderOutcome, ReportResult
  <2> QED
    BY <2>1, <2>2, Zenon DEF WebhookStep
<1>3. ASSUME NEW p \in Passes, ReconcileNext(p) PROVE LeavesCaptures
  <2>1. PassStep(p)
    BY <1>3, PassSummary
  <2> QED
    BY <2>1, Zenon DEF PassStep
<1>4. ASSUME NEW r \in Refunds, RefundNext(r) PROVE LeavesCaptures
  <2>1. RefundStep(r)
    BY <1>4, RefundSummary
  <2> QED
    BY <2>1, ZenonT(30) DEF RefundStep, AggregateStatus
<1>5. CASE ProviderLearns
  BY <1>5, ZenonT(30) DEF ProviderLearns, rowVars
<1>6. CASE UNCHANGED vars
  BY <1>6 DEF vars, rowVars, providerVars
<1> QED
  BY <1>1, <1>2, <1>3, <1>4, <1>5, <1>6, ZenonT(30)

\* The collection invariant is inductive.
LEMMA CollectInvInductive ==
  /\ Init => CollectInv
  /\ TypeOK /\ LinkInv /\ CollectInv /\ [Next]_vars => CollectInv'
<1>1. ASSUME Init PROVE CollectInv
  <2>1. \A c \in Captures : c \in Sessions /\ c # Create
    BY SessionsAssumption DEF Sessions
  <2> QED
    BY <1>1, <2>1 DEF Init, CollectInv, CollectedOnceUnlessAbandoned, Kept
<1>2. ASSUME TypeOK, LinkInv, CollectInv, LeavesCaptures PROVE CollectInv'
  <2>1. linked \in BOOLEAN /\ \A c \in Captures : Kept(c) => linked
    BY <1>2 DEF CollectInv, Kept, TypeOK
  <2>2. \A c \in Captures : c # NoSession
    BY SessionsAssumption DEF Sessions
  <2>3. CollectedOnceUnlessAbandoned'
    <3>1. collected' = collected /\ \A c \in collected : pc'[c] = pc[c]
      BY <1>2 DEF LeavesCaptures, TypeOK
    <3> QED
      BY <1>2, <3>1, ZenonT(30) DEF CollectInv, CollectedOnceUnlessAbandoned
  <2> QED
    BY <1>2, <2>1, <2>2, <2>3, ZenonT(30) DEF LeavesCaptures, CollectInv, Kept
<1>3. ASSUME TypeOK, LinkInv, CollectInv, NEW c \in Captures, CaptureNext(c) PROVE CollectInv'
  <2>1. CaptureStep(c)
    BY <1>3, CaptureSummary
  <2>2. \A d \in Captures \ {c} : pc'[d] = pc[d] /\ seen'[d] = seen[d]
    BY <2>1, Zenon DEF CaptureStep, Moves, Sessions
  <2>3. c # NoSession
    BY SessionsAssumption DEF Sessions
  <2> USE DEF Writes, Rests, Kept, Undecided
  <2>4. CASE pc[c] = "idle"
    <3>1. /\ UNCHANGED <<status, collected, linked>>
          /\ \/ pc'[c] \in {"done", "rejected"} /\ UNCHANGED lock
             \/ /\ pc'[c] = "capturing" /\ lock = NoSession /\ lock' = c
                /\ lock_payment(c) = "PROCESSING" /\ seen'[c] = "PROCESSING"
      BY <2>1, <2>4, Zenon DEF CaptureStep
    <3>2. c \notin collected /\ lock_payment(c) = status
      BY <1>3, <2>4, Zenon DEF CollectInv, lock_payment
    <3>3. CollectedOnceUnlessAbandoned'
      <4>1. collected' = collected /\ \A d \in collected : pc'[d] = pc[d]
        BY <1>3, <2>2, <3>1, <3>2, ZenonT(30) DEF TypeOK
      <4> QED
        BY <1>3, <4>1, Zenon DEF CollectInv, CollectedOnceUnlessAbandoned
    <3>4. \A d \in Captures : pc[d] = "capturing" => lock = d /\ d # NoSession
      BY <1>3, SessionsAssumption DEF CollectInv, Sessions
    <3> QED
      BY <1>3, <2>2, <2>4, <3>1, <3>2, <3>3, <3>4, ZenonT(30) DEF CollectInv
  <2>5. CASE pc[c] = "capturing"
    <3>2. lock = c /\ c \notin collected /\ status = "PROCESSING" /\ linked
        /\ seen[c] = "PROCESSING"
      BY <1>3, <2>5, Zenon DEF CollectInv, LinkInv
    <3>1. /\ pc'[c] \in {"done", "failed"} /\ lock' = NoSession /\ linked' = linked
          /\ collected' \in {collected, collected \cup {c}}
          /\ \/ status' \in {"SUCCEEDED", "UNKNOWN", "FAILED"}
             \/ pc'[c] = "failed" /\ status' = status
      BY <2>1, <2>5, <3>2, Zenon DEF CaptureStep
    <3>3. \A d \in Captures : ~Kept(d)
      BY <1>3, <3>2, Zenon DEF CollectInv
    <3>4. \A d \in Captures \ {c} : ~Kept(d)' /\ pc'[d] # "capturing"
      BY <1>3, <2>2, <3>1, <3>2, <3>3, ZenonT(30) DEF CollectInv
    <3>5. CollectedOnceUnlessAbandoned'
      BY <1>3, <3>1, <3>4 DEF CollectedOnceUnlessAbandoned, TypeOK
    <3> QED
      BY <1>3, <2>2, <3>1, <3>2, <3>4, <3>5, ZenonT(30) DEF CollectInv
  <2> QED
    BY <2>1, <2>4, <2>5, Zenon DEF CaptureStep
<1> QED
  BY <1>1, <1>2, <1>3, OthersLeaveCaptures, ZenonT(30) DEF Next

\* Any number of capture requests, beside webhooks, passes and refunds, collect the
\* payment once, unless one of them dies after its provider call.
THEOREM CollectedOnce == Spec => []CollectedOnceUnlessAbandoned
<1>1. CollectInv => CollectedOnceUnlessAbandoned
  BY DEF CollectInv
<1> QED
  BY <1>1, TypeCorrect, LinkInvInductive, CollectInvInductive, PTL DEF Spec

-------------------------------------------------------------------------------
(***************************************************************************)
(* Settlements beside webhooks.  A capture or a pass settles at most once  *)
(* between them: the capture needs a provider transaction on record and a  *)
(* payment that is PROCESSING, the pass needs that there is none.          *)
(***************************************************************************)

\* The webhook events that were applied, or found applied, as "payment.succeeded".
Applied == { w \in Webhooks : pc[w] = "done" /\ answer[w] = "SUCCEEDED" }

\* record_payment_settled posts the payment once, and once more at most for each
\* webhook event that says it succeeded.
ExtraSettlementsAreWebhooks == settlements <= Cardinality(Applied) + 1

DirectInv ==
  /\ ExtraSettlementsAreWebhooks
  /\ settlements > Cardinality(Applied) => ptx /\ status \notin Undecided
  /\ \A c \in Captures : pc[c] = "capturing" => ptx

\* A step of another session than a webhook's leaves the applied events as they are.
LEMMA AppliedStays ==
  ASSUME NEW s \in Sessions \ Webhooks, Moves(s) PROVE Applied' = Applied
BY Zenon DEF Applied, Moves, Sessions

\* An event that is applied is a new one, and one that was applied stays so.
LEMMA AppliedGrows ==
  ASSUME IsFiniteSet(Webhooks), NEW w \in Webhooks, WebhookStep(w)
  PROVE  /\ Cardinality(Applied) \in Nat /\ Cardinality(Applied') \in Nat
         /\ Cardinality(Applied) <= Cardinality(Applied')
         /\ pc'[w] = "done" /\ answer'[w] = "SUCCEEDED" =>
              Cardinality(Applied') = Cardinality(Applied) + 1
<1>1. Applied' \subseteq Webhooks /\ Applied \subseteq Webhooks
  BY DEF Applied
<1>2. IsFiniteSet(Applied) /\ IsFiniteSet(Applied')
  BY <1>1, FS_Subset, ZenonT(30)
<1>3. /\ w \notin Applied
      /\ Applied' = IF pc'[w] = "done" /\ answer'[w] = "SUCCEEDED" THEN Applied \cup {w} ELSE Applied
  BY Zenon DEF Applied, WebhookStep, Moves, Sessions
<1>4. Cardinality(Applied \cup {w}) = Cardinality(Applied) + 1
  BY <1>2, <1>3, FS_AddElement, Zenon
<1>5. Cardinality(Applied) \in Nat /\ Cardinality(Applied') \in Nat
  BY <1>2, FS_CardinalityType
<1>6. CASE pc'[w] = "done" /\ answer'[w] = "SUCCEEDED"
  <2>1. Cardinality(Applied') = Cardinality(Applied) + 1
    BY <1>3, <1>4, <1>6, Zenon
  <2> QED
    BY <1>5, <2>1, SMTT(30)
<1>7. CASE ~(pc'[w] = "done" /\ answer'[w] = "SUCCEEDED")
  <2>1. Cardinality(Applied') = Cardinality(Applied)
    BY <1>3, <1>7
  <2> QED
    BY <1>5, <1>7, <2>1, SMTT(30)
<1> QED
  BY <1>6, <1>7, Zenon

\* The invariant of direct settlements is inductive.
LEMMA DirectInvInductive ==
  ASSUME IsFiniteSet(Webhooks), TypeOK, LinkInv, CollectInv, DirectInv, [Next]_vars
  PROVE  DirectInv'
<1>0. /\ settlements \in Nat /\ ptx \in BOOLEAN /\ linked \in BOOLEAN
      /\ Cardinality(Applied) \in Nat
  <2>1. Applied \subseteq Webhooks
    BY DEF Applied
  <2>2. IsFiniteSet(Applied)
    BY <2>1, FS_Subset
  <2> QED
    BY <2>2, FS_CardinalityType DEF TypeOK
<1>1. /\ settlements <= Cardinality(Applied) + 1
      /\ settlements > Cardinality(Applied) => ptx /\ status \notin Undecided
      /\ \A c \in Captures : pc[c] = "capturing" => ptx
      /\ ptx => linked /\ pc[Create] = "done"
  BY ZenonT(30) DEF DirectInv, ExtraSettlementsAreWebhooks, LinkInv
<1>2. ASSUME NEW s \in Sessions \ (Webhooks \cup Captures), Moves(s),
             UNCHANGED settlements, ptx => ptx',
             status' \in Undecided => status \in Undecided \/ ~ptx
      PROVE  DirectInv'
  <2>1. Applied' = Applied /\ \A c \in Captures : pc'[c] = pc[c]
    BY <1>2, AppliedStays, Zenon DEF Moves, Sessions
  <2> QED
    BY <1>0, <1>1, <1>2, <2>1 DEF DirectInv, ExtraSettlementsAreWebhooks
<1>3. CASE CreateNext
  <2>1. CreateStep /\ Create \in Sessions \ (Webhooks \cup Captures)
    BY <1>3, CreateSummary, SessionsAssumption DEF Sessions
  <2>2. Moves(Create) /\ UNCHANGED settlements /\ pc[Create] # "done"
    BY <2>1, Zenon DEF CreateStep
  <2> QED
    BY <1>1, <1>2, <2>1, <2>2
<1>4. ASSUME NEW c \in Captures, CaptureNext(c) PROVE DirectInv'
  <2>1. CaptureStep(c) /\ c \in Sessions \ Webhooks
    BY <1>4, CaptureSummary, SessionsAssumption DEF Sessions
  <2>2. Applied' = Applied /\ \A d \in Captures \ {c} : pc'[d] = pc[d]
    BY <2>1, AppliedStays, ZenonT(30) DEF CaptureStep, Moves, Sessions
  <2>3. pc[c] = "capturing" => status = "PROCESSING" /\ seen[c] = "PROCESSING" /\ ptx
    BY <1>1 DEF CollectInv
  <2>4. /\ ptx' = ptx /\ (pc'[c] = "capturing" => ptx)
        /\ \/ UNCHANGED <<status, settlements>>
           \/ status = "PROCESSING" /\ status' = "SUCCEEDED" /\ settlements' = settlements + 1 /\ ptx
           \/ status' \in {"UNKNOWN", "FAILED"} /\ settlements' = settlements
    BY <2>1, <2>3, Zenon DEF CaptureStep, Writes, Rests
  <2>5. Cardinality(Applied') = Cardinality(Applied)
    BY <2>2
  <2>6. settlements' <= Cardinality(Applied') + 1
    BY <1>0, <1>1, <2>4, <2>5, SMTT(30) DEF Undecided
  <2>7. settlements' > Cardinality(Applied') => ptx' /\ status' \notin Undecided
    BY <1>0, <1>1, <2>4, <2>5, Zenon DEF Undecided
  <2>8. \A d \in Captures : pc'[d] = "capturing" => ptx'
    BY <1>1, <2>2, <2>4, ZenonT(30)
  <2> QED
    BY <2>6, <2>7, <2>8 DEF DirectInv, ExtraSettlementsAreWebhooks
<1>5. ASSUME NEW w \in Webhooks, WebhookNext(w) PROVE DirectInv'
  <2>1. WebhookStep(w)
    BY <1>5, WebhookSummary
  <2>2. \A c \in Captures : pc'[c] = pc[c]
    BY <2>1, SessionsAssumption, ZenonT(30) DEF WebhookStep, Moves, Sessions
  <2>3. answer[w] \notin Undecided
    BY Zenon DEF TypeOK, Sessions, ProviderOutcome, ReportResult, Undecided
  <2>4. /\ ptx' = ptx /\ (status' = status \/ status' \notin Undecided)
        /\ \/ settlements' = settlements
           \/ /\ settlements' = settlements + 1 /\ pc'[w] = "done" /\ answer[w] = "SUCCEEDED"
              /\ answer'[w] = answer[w]
    BY <2>1, <2>3, ZenonT(30) DEF WebhookStep, Writes, Rests
  <2>5. /\ Cardinality(Applied') \in Nat
        /\ Cardinality(Applied) <= Cardinality(Applied')
        /\ pc'[w] = "done" /\ answer'[w] = "SUCCEEDED" =>
             Cardinality(Applied') = Cardinality(Applied) + 1
    BY <2>1, AppliedGrows, ZenonT(30)
  <2>6. settlements' <= Cardinality(Applied') + 1
    BY <1>0, <1>1, <2>4, <2>5, SMTT(30)
  <2>7. settlements' > Cardinality(Applied') => settlements > Cardinality(Applied)
    BY <1>0, <1>1, <2>4, <2>5, SMTT(30)
  <2> QED
    BY <1>1, <2>2, <2>4, <2>6, <2>7 DEF DirectInv, ExtraSettlementsAreWebhooks
<1>6. ASSUME NEW p \in Passes, ReconcileNext(p) PROVE DirectInv'
  <2>1. PassStep(p) /\ p \in Sessions \ (Webhooks \cup Captures)
    BY <1>6, PassSummary, SessionsAssumption DEF Sessions
  <2>2. Applied' = Applied /\ \A c \in Captures : pc'[c] = pc[c]
    BY <2>1, AppliedStays, ZenonT(30) DEF PassStep, Moves, Sessions
  <2>3. \/ /\ ptx' = ptx /\ settlements' = settlements
           /\ status' = status \/ status' \notin Undecided
        \/ ~ptx /\ ptx' = TRUE /\ settlements' = settlements + 1 /\ status' = "SUCCEEDED"
    BY <2>1, Zenon DEF PassStep, Writes, Rests, Undecided
  <2> QED
    BY <1>0, <1>1, <2>2, <2>3, SMTT(30) DEF DirectInv, ExtraSettlementsAreWebhooks, Undecided
<1>7. ASSUME NEW r \in Refunds, RefundNext(r) PROVE DirectInv'
  <2>1. RefundStep(r) /\ r \in Sessions \ (Webhooks \cup Captures)
    BY <1>7, RefundSummary, SessionsAssumption DEF Sessions
  <2>2. /\ Moves(r) /\ UNCHANGED <<ptx, settlements>>
        /\ status' = status \/ status' \notin Undecided
    BY <2>1, Zenon DEF RefundStep, Writes, Rests, AggregateStatus, Undecided
  <2> QED
    BY <1>2, <2>1, <2>2, Zenon
<1>8. CASE ProviderLearns \/ UNCHANGED vars
  <2>1. UNCHANGED <<status, ptx, settlements, pc, answer>>
    BY <1>8 DEF ProviderLearns, vars, rowVars
  <2>2. Applied' = Applied
    BY <2>1 DEF Applied
  <2> QED
    BY <1>1, <2>1, <2>2 DEF DirectInv, ExtraSettlementsAreWebhooks
<1> QED
  BY <1>3, <1>4, <1>5, <1>6, <1>7, <1>8, ZenonT(30) DEF Next

\* However captures, passes, webhooks and refunds interleave, and however stale the
\* sessions are, the ledger holds at most one settlement that is not a webhook's.
THEOREM SettlementsBounded ==
  ASSUME IsFiniteSet(Webhooks) PROVE Spec => []ExtraSettlementsAreWebhooks
<1>1. Init => DirectInv
  <2> SUFFICES ASSUME Init PROVE DirectInv
    BY ZenonT(30)
  <2>1. settlements = 0 /\ Applied = {} /\ \A c \in Captures : pc[c] # "capturing"
    BY SessionsAssumption DEF Init, Applied, Sessions
  <2>2. Cardinality(Applied) = 0
    BY <2>1, FS_EmptySet, Zenon
  <2> QED
    BY <2>1, <2>2 DEF DirectInv, ExtraSettlementsAreWebhooks
<1>2. TypeOK /\ LinkInv /\ CollectInv /\ DirectInv /\ [Next]_vars => DirectInv'
  BY DirectInvInductive
<1>3. DirectInv => ExtraSettlementsAreWebhooks
  BY DEF DirectInv
<1> QED
  BY <1>1, <1>2, <1>3, TypeCorrect, LinkInvInductive, CollectInvInductive, PTL DEF Spec

===============================================================================
