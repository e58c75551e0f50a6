------------------------- MODULE LifecycleExactProofs -------------------------
(***************************************************************************)
(* Proofs about PaymentLifecycle where no webhook is applied: exactly one  *)
(* settlement, a status that is the aggregate of the refunds, legal        *)
(* transitions only and a chain of events, for any number of captures,     *)
(* passes and refunds.                                                     *)
(*                                                                         *)
(* Sessions decide on statuses they loaded earlier.  The creating request  *)
(* and a capture keep theirs true, the first because nothing else touches  *)
(* the payment yet, the second by the row lock.  A pass may hold a stale   *)
(* UNKNOWN; the provider's record keeps it harmless: a pass settles only   *)
(* while no provider transaction is on record, and fails the payment only  *)
(* if the provider recorded a failure, which excludes a transaction.       *)
(***************************************************************************)
EXTENDS PaymentLifecycleProofs

Failure == {"DECLINED", "TEMPORARY_FAILURE"}

CreationInv ==
  /\ pc[Create] = "created" => status = "CREATED" /\ seen[Create] = "CREATED"
  /\ pc[Create] \in {"processing", "authorized"} =>
       status = "PROCESSING" /\ seen[Create] = "PROCESSING"
  /\ pc[Create] = "authorized" /\ answer[Create] = "SUCCEEDED" => truth = "SUCCEEDED"
  /\ ptx => truth = "SUCCEEDED"

PassInv ==
  \A p \in Passes :
    /\ pc[p] \in {"asking", "asked"} => seen[p] = "UNKNOWN"
    /\ pc[p] = "asked" /\ answer[p] \in Failure \cup {"SUCCEEDED"} => truth = answer[p]
    /\ seen[p] = "UNKNOWN" =>
         /\ linked
         /\ ptx \/ status = "UNKNOWN" \/ (status = "FAILED" /\ truth \in Failure)

SessionInv ==
  /\ \A c \in Captures : pc[c] = "capturing" => ptx
  /\ \A r \in Refunds : /\ pc[r] = "idle" => seen[r] = "NONE"
                        /\ pc[r] \in {"refunding", "answered"} => seen[r] = "REFUND_PENDING"

ExactInv ==
  /\ CreationInv
  /\ PassInv
  /\ SessionInv
  /\ ~ptx => settlements = 0
  /\ SettledExactlyOnce
  /\ StatusAggregatesRefunds

\* The invariants of PaymentLifecycleProofs, which hold with webhooks too.
GeneralInv == TypeOK /\ RefundInv /\ SettlementInv /\ LinkInv /\ CollectInv

\* A step whose new status is a legal successor of the status the row had.
Legal == status' # status => is_valid_payment_transition(status, status', event'.actor)

\* The exact invariant holds initially.
LEMMA ExactInvInit == Init => ExactInv
<1> SUFFICES ASSUME Init PROVE ExactInv
  OBVIOUS
<1>1. /\ Create \in Sessions
      /\ \A s \in Captures \cup Passes \cup Refunds : s \in Sessions /\ s # Create
  BY SessionsAssumption DEF Sessions
<1>2. CreationInv /\ PassInv /\ SessionInv
  BY <1>1 DEF Init, CreationInv, PassInv, SessionInv
<1>3. SettledExactlyOnce /\ settlements = 0
  BY DEF Init, SettledExactlyOnce, SETTLED_STATUSES
<1>4. StatusAggregatesRefunds
  BY DEF Init, StatusAggregatesRefunds, WithStatus
<1> QED
  BY <1>2, <1>3, <1>4 DEF ExactInv

\* Where nothing has been settled there is no refund row.
LEMMA UnsettledHasNoRefunds ==
  ASSUME GeneralInv, settlements = 0
  PROVE  /\ WithStatus(refund, {"PENDING"}) = {}
         /\ SumAmounts(amount, WithStatus(refund, {"SUCCEEDED"})) = 0
<1>1. \A r \in Refunds : refund[r] = "NONE"
  BY DEF GeneralInv, SettlementInv, RefundsImplySettlement
<1>2. WithStatus(refund, {"PENDING"}) = {} /\ WithStatus(refund, {"SUCCEEDED"}) = {}
  BY <1>1 DEF WithStatus
<1> QED
  BY <1>2, SumAmountsEmpty

\* A step that leaves the refund rows alone keeps the aggregate if it keeps the status
\* or writes one that is not about refunds over another of that kind.
LEMMA AggregateKept ==
  ASSUME GeneralInv, ExactInv, UNCHANGED refundVars,
         \/ status' = status
         \/ settlements = 0 /\ status' \in {"PROCESSING", "FAILED", "UNKNOWN", "SUCCEEDED"}
  PROVE  StatusAggregatesRefunds'
<1>1. UNCHANGED <<refund, amount>>
  BY DEF refundVars
<1>2. CASE status' = status
  BY <1>1, <1>2 DEF ExactInv, StatusAggregatesRefunds, WithStatus
<1>3. CASE settlements = 0 /\ status' \in {"PROCESSING", "FAILED", "UNKNOWN", "SUCCEEDED"}
  <2>1. /\ WithStatus(refund', {"PENDING"}) = {}
        /\ SumAmounts(amount', WithStatus(refund', {"SUCCEEDED"})) = 0
    BY <1>1, <1>3, UnsettledHasNoRefunds
  <2> QED
    BY <1>3, <2>1, AmountAssumption DEF StatusAggregatesRefunds
<1> QED
  BY <1>2, <1>3

\* The steps of create_payment keep the exact invariant and are legal.
LEMMA CreateKeepsExact ==
  ASSUME GeneralInv, ExactInv, CreateNext PROVE ExactInv' /\ Legal
<1>1. CreateStep
  BY CreateSummary DEF GeneralInv
<1>2. /\ \A t \in Captures \cup Passes \cup Refunds :
           pc'[t] = pc[t] /\ seen'[t] = seen[t] /\ answer'[t] = answer[t]
      /\ UNCHANGED <<refundVars, settlements>>
  BY <1>1, SessionsAssumption DEF CreateStep, Moves, Sessions
<1>3. /\ linked \in BOOLEAN /\ ptx \in BOOLEAN
      /\ pc[Create] # "done" => ~linked /\ ~ptx
      /\ \A p \in Passes : pc[Create] # "done" => seen[p] # "UNKNOWN"
      /\ pc[Create] # "done" => settlements = 0
  BY DEF GeneralInv, TypeOK, LinkInv, ExactInv, PassInv
<1>4. pc[Create] \in {"created", "processing", "authorized"} =>
        lock_payment(Create) = status
  BY DEF ExactInv, CreationInv, lock_payment
<1>5. pc[Create] # "done"
  BY <1>1 DEF CreateStep
<1>6. status' = status \/ status' \in {"PROCESSING", "FAILED", "UNKNOWN"}
  BY <1>1 DEF CreateStep, Writes, Rests
<1>7. CreationInv'
  BY <1>1, <1>3, <1>4 DEF CreateStep, Writes, Rests, ExactInv, CreationInv
<1>8. PassInv' /\ SessionInv'
  BY <1>2, <1>3, <1>5 DEF ExactInv, PassInv, SessionInv, GeneralInv, LinkInv
<1>9. (~ptx => settlements = 0)' /\ SettledExactlyOnce'
  BY <1>2, <1>3, <1>5, <1>6 DEF ExactInv, SettledExactlyOnce, SETTLED_STATUSES
<1>10. StatusAggregatesRefunds'
  BY <1>2, <1>3, <1>5, <1>6, AggregateKept, Zenon
<1>11. Legal
  BY <1>1, <1>4 DEF CreateStep, Writes, Rests, Legal
<1> QED
  BY <1>7, <1>8, <1>9, <1>10, <1>11 DEF ExactInv

\* The steps of capture_payment keep the exact invariant and are legal.
LEMMA CaptureKeepsExact ==
  ASSUME GeneralInv, ExactInv, NEW c \in Captures, CaptureNext(c) PROVE ExactInv' /\ Legal
<1>1. CaptureStep(c)
  BY CaptureSummary DEF GeneralInv
<1>2. /\ \A t \in {Create} \cup (Captures \ {c}) \cup Passes \cup Refunds :
           pc'[t] = pc[t] /\ seen'[t] = seen[t] /\ answer'[t] = answer[t]
      /\ UNCHANGED <<refundVars, ptx, linked, truth>>
  BY <1>1, SessionsAssumption DEF CaptureStep, Moves, Sessions
<1>3. /\ pc[c] = "capturing" => ptx /\ status = "PROCESSING" /\ seen[c] = "PROCESSING"
      /\ ptx => pc[Create] = "done" /\ linked
      /\ status = "PROCESSING" => settlements = 0
  BY DEF GeneralInv, CollectInv, LinkInv, ExactInv, SessionInv, SettledExactlyOnce, SETTLED_STATUSES
<1>4. \/ UNCHANGED <<status, event, settlements>> /\ (pc'[c] = "capturing" => ptx)
      \/ /\ pc[c] = "capturing" /\ pc'[c] # "capturing"
         /\ \/ status' = "SUCCEEDED" /\ settlements' = settlements + 1
            \/ status' \in {"UNKNOWN", "FAILED"} /\ settlements' = settlements
         /\ is_valid_payment_transition("PROCESSING", status', event'.actor)
      \/ pc'[c] # "capturing" /\ UNCHANGED <<status, settlements>>
  BY <1>1, <1>3, Zenon DEF CaptureStep, Writes, Rests
<1>5. CreationInv' /\ PassInv'
  BY <1>2, <1>3, <1>4 DEF ExactInv, CreationInv, PassInv
<1>6. SessionInv'
  BY <1>2, <1>4 DEF ExactInv, SessionInv
<1>7. (~ptx => settlements = 0)' /\ SettledExactlyOnce'
  BY <1>2, <1>3, <1>4 DEF ExactInv, SettledExactlyOnce, SETTLED_STATUSES
<1>8. StatusAggregatesRefunds'
  BY <1>2, <1>3, <1>4, AggregateKept
<1>9. Legal
  BY <1>3, <1>4 DEF Legal
<1> QED
  BY <1>5, <1>6, <1>7, <1>8, <1>9 DEF ExactInv

\* The steps of a pass keep the exact invariant and are legal, although the UNKNOWN a
\* pass holds may be stale.
LEMMA PassKeepsExact ==
  ASSUME GeneralInv, ExactInv, NEW p \in Passes, ReconcileNext(p) PROVE ExactInv' /\ Legal
<1>1. PassStep(p)
  BY PassSummary DEF GeneralInv
<1>2. /\ \A t \in {Create} \cup Captures \cup (Passes \ {p}) \cup Refunds :
           pc'[t] = pc[t] /\ seen'[t] = seen[t] /\ answer'[t] = answer[t]
      /\ UNCHANGED <<refundVars, linked, truth>>
  BY <1>1, SessionsAssumption DEF PassStep, Moves, Sessions
<1>3. /\ ptx \in BOOLEAN /\ linked \in BOOLEAN
      /\ ptx => truth = "SUCCEEDED"
      /\ status = "UNKNOWN" => linked
      /\ linked => pc[Create] = "done"
      /\ status = "UNKNOWN" => settlements = 0
      /\ ~ptx => settlements = 0
      /\ status = "FAILED" => settlements = 0
  BY DEF GeneralInv, TypeOK, LinkInv, ExactInv, CreationInv, SettledExactlyOnce, SETTLED_STATUSES
<1>4. pc[p] = "asked" =>
        /\ seen[p] = "UNKNOWN" /\ linked
        /\ answer[p] \in Failure \cup {"SUCCEEDED"} => truth = answer[p]
        /\ ptx \/ status = "UNKNOWN" \/ (status = "FAILED" /\ truth \in Failure)
  BY DEF ExactInv, PassInv
<1>5. \/ UNCHANGED <<status, ptx, settlements>>
      \/ /\ status = "UNKNOWN" /\ ~ptx /\ ptx' = TRUE /\ truth = "SUCCEEDED" /\ linked
         /\ status' = "SUCCEEDED" /\ settlements' = settlements + 1
         /\ is_valid_payment_transition(status, status', event'.actor)
      \/ /\ status \in {"UNKNOWN", "FAILED"} /\ ~ptx /\ truth \in Failure /\ linked
         /\ status' = "FAILED" /\ UNCHANGED <<ptx, settlements>>
         /\ status' # status => is_valid_payment_transition(status, status', event'.actor)
  BY <1>1, <1>3, <1>4, Zenon DEF PassStep, Writes, Rests, Failure
<1>6. /\ pc'[p] \in {"asking", "asked"} => seen'[p] = "UNKNOWN"
      /\ pc'[p] = "asked" /\ answer'[p] \in Failure \cup {"SUCCEEDED"} => truth = answer'[p]
  BY <1>1, <1>4, Zenon DEF PassStep, Writes, Rests, ExactInv, PassInv, Failure
<1>7. seen'[p] = "UNKNOWN" => seen[p] = "UNKNOWN" \/ status = "UNKNOWN"
  BY <1>1, <1>4 DEF PassStep, Writes, Rests, lock_payment
<1>8. CreationInv'
  BY <1>2, <1>3, <1>5, SMTT(30) DEF ExactInv, CreationInv
<1>9. PassInv'
  BY <1>2, <1>3, <1>5, <1>6, <1>7, Zenon DEF ExactInv, PassInv
<1>10. SessionInv'
  BY <1>2, <1>5 DEF ExactInv, SessionInv
<1>11. (~ptx => settlements = 0)' /\ SettledExactlyOnce'
  BY <1>3, <1>5 DEF ExactInv, SettledExactlyOnce, SETTLED_STATUSES
<1>12. StatusAggregatesRefunds'
  BY <1>2, <1>3, <1>5, AggregateKept
<1>13. Legal
  BY <1>5 DEF Legal
<1> QED
  BY <1>8, <1>9, <1>10, <1>11, <1>12, <1>13, ZenonT(30) DEF ExactInv

\* The refunded total never exceeds the payment.
LEMMA RefundedWithinPayment ==
  TypeOK /\ RefundInv =>
    /\ SumAmounts(amount, WithStatus(refund, {"SUCCEEDED"})) \in Nat
    /\ SumAmounts(amount, WithStatus(refund, {"SUCCEEDED"})) <= AmountMinor
<1> SUFFICES ASSUME TypeOK, RefundInv
             PROVE  /\ SumAmounts(amount, WithStatus(refund, {"SUCCEEDED"})) \in Nat
                    /\ SumAmounts(amount, WithStatus(refund, {"SUCCEEDED"})) <= AmountMinor
  OBVIOUS
<1> DEFINE done == WithStatus(refund, {"SUCCEEDED"})
           live == WithStatus(refund, {"PENDING", "SUCCEEDED"})
<1>1. done \in SUBSET live
  BY DEF WithStatus
<1>2. /\ IsFiniteSet(live) /\ \A r \in live : amount[r] \in Nat
      /\ SumAmounts(amount, live) \in Nat /\ SumAmounts(amount, done) \in Nat
  BY SumsAreNat
<1>3. SumAmounts(amount, live) <= AmountMinor /\ AmountMinor \in Nat
  BY AmountAssumption DEF RefundInv, RefundsWithinPayment, Reserved
<1> HIDE DEF done, live
<1>4. SumAmounts(amount, done) <= SumAmounts(amount, live)
  BY <1>1, <1>2, SumAmountsMonotone
<1>5. SumAmounts(amount, done) \in Nat /\ SumAmounts(amount, done) <= AmountMinor
  BY <1>2, <1>3, <1>4, SMTT(30)
<1> QED
  BY <1>5 DEF done

\* The steps of refund_payment keep the exact invariant and are legal: while a refund
\* is in flight the row really is REFUND_PENDING.
LEMMA RefundKeepsExact ==
  ASSUME GeneralInv, GeneralInv', ExactInv, NEW r \in Refunds, RefundNext(r)
  PROVE  ExactInv' /\ Legal
<1>1. RefundStep(r)
  BY RefundSummary DEF GeneralInv
<1>2. /\ \A t \in {Create} \cup Captures \cup Passes \cup (Refunds \ {r}) :
           pc'[t] = pc[t] /\ seen'[t] = seen[t] /\ answer'[t] = answer[t]
      /\ UNCHANGED <<ptx, linked, truth, settlements>>
  BY <1>1, SessionsAssumption, ZenonT(30) DEF RefundStep, Moves, Sessions
<1>3. /\ refund \in [Refunds -> RefundStatus \cup {"NONE"}]
      /\ pc[r] = "idle" => seen[r] = "NONE"
      /\ pc[r] \in {"refunding", "answered"} => seen[r] = "REFUND_PENDING"
      /\ pc[r] = "answered" => refund[r] = "PENDING"
      /\ refund[r] = "PENDING" => status = "REFUND_PENDING"
      /\ status = "REFUND_PENDING" <=> WithStatus(refund, {"PENDING"}) # {}
      /\ pc[r] \in {"idle", "rejected", "refunding", "answered", "done", "failed"}
      /\ pc[Create] \in {"created", "processing", "authorized"} => status \notin SETTLED_STATUSES
  BY DEF GeneralInv, TypeOK, RefundInv, RefundRows, ExactInv, SessionInv, CreationInv,
         StatusAggregatesRefunds, WithStatus, SETTLED_STATUSES
<1>4. CASE /\ \/ pc'[r] \in {"rejected", "failed"}
              \/ pc[r] = "refunding" /\ pc'[r] = "answered"
           /\ Rests(r) /\ UNCHANGED <<refund, amount>>
  <2>2. CreationInv' /\ PassInv' /\ SessionInv'
    BY <1>2, <1>3, <1>4, SMTT(30) DEF Rests, ExactInv, CreationInv, PassInv, SessionInv
  <2>3. (~ptx => settlements = 0)' /\ SettledExactlyOnce' /\ StatusAggregatesRefunds'
    BY <1>2, <1>4 DEF Rests, ExactInv, SettledExactlyOnce, StatusAggregatesRefunds, WithStatus
  <2> QED
    BY <1>4, <2>2, <2>3, ZenonT(30) DEF Rests, ExactInv, Legal
<1>5. ASSUME status \in SETTLED_STATUSES, status' \in SETTLED_STATUSES, pc'[r] # "idle",
             pc'[r] \in {"refunding", "answered"} => seen'[r] = "REFUND_PENDING"
      PROVE  CreationInv' /\ PassInv' /\ SessionInv' /\ (~ptx => settlements = 0)' /\ SettledExactlyOnce'
  <2>1. CreationInv' /\ SessionInv'
    BY <1>2, <1>3, <1>5 DEF ExactInv, CreationInv, SessionInv
  <2>2. PassInv'
    BY <1>2, <1>5, Zenon DEF ExactInv, PassInv, SETTLED_STATUSES
  <2>3. (~ptx => settlements = 0)' /\ SettledExactlyOnce'
    BY <1>2, <1>5 DEF ExactInv, SettledExactlyOnce
  <2> QED
    BY <2>1, <2>2, <2>3, Zenon
<1>6. CASE /\ pc[r] = "idle" /\ pc'[r] = "refunding"
           /\ lock_payment(r) \in REFUNDABLE_SOURCE_STATUSES
           /\ refund' = [refund EXCEPT ![r] = "PENDING"]
           /\ \/ /\ lock_payment(r) # "REFUND_PENDING"
                 /\ Writes(r, lock_payment(r), "REFUND_PENDING")
              \/ /\ lock_payment(r) = "REFUND_PENDING"
                 /\ seen'[r] = "REFUND_PENDING" /\ UNCHANGED <<status, event>>
  <2>1. lock_payment(r) = status
    BY <1>3, <1>6 DEF lock_payment
  <2>2. /\ status \in SETTLED_STATUSES /\ status' = "REFUND_PENDING"
        /\ seen'[r] = "REFUND_PENDING" /\ Legal
    BY <1>6, <2>1 DEF Writes, REFUNDABLE_SOURCE_STATUSES, SETTLED_STATUSES, Legal
  <2>3. r \in WithStatus(refund', {"PENDING"})
    BY <1>3, <1>6 DEF WithStatus
  <2>4. StatusAggregatesRefunds'
    BY <2>2, <2>3 DEF StatusAggregatesRefunds
  <2> QED
    BY <1>5, <1>6, <2>2, <2>4, Zenon DEF ExactInv, SETTLED_STATUSES
<1>7. CASE /\ pc[r] = "answered" /\ pc'[r] = "done"
           /\ refund' = [refund EXCEPT
                           ![r] = IF answer[r] = "SUCCEEDED" THEN "SUCCEEDED" ELSE "FAILED"]
           /\ UNCHANGED amount
           /\ \/ /\ NoneInFlight(refund') /\ lock_payment(r) = "REFUND_PENDING"
                 /\ Writes(r, "REFUND_PENDING",
                      AggregateStatus(SumAmounts(amount, WithStatus(refund', {"SUCCEEDED"}))))
              \/ ~(NoneInFlight(refund') /\ lock_payment(r) = "REFUND_PENDING") /\ Rests(r)
  <2> DEFINE total == SumAmounts(amount, WithStatus(refund', {"SUCCEEDED"}))
  <2>1. lock_payment(r) = "REFUND_PENDING" /\ status = "REFUND_PENDING"
    BY <1>3, <1>7, Zenon DEF lock_payment
  <2>2. total \in Nat /\ total <= AmountMinor /\ AmountMinor \in Nat
    <3>1. (TypeOK /\ RefundInv =>
             /\ SumAmounts(amount, WithStatus(refund, {"SUCCEEDED"})) \in Nat
             /\ SumAmounts(amount, WithStatus(refund, {"SUCCEEDED"})) <= AmountMinor)'
      BY RefundedWithinPayment, PTL
    <3>2. TypeOK' /\ RefundInv'
      BY DEF GeneralInv
    <3> QED
      BY <1>7, <3>1, <3>2, AmountAssumption
  <2> HIDE DEF total
  <2>3. \/ /\ WithStatus(refund', {"PENDING"}) = {}
           /\ status' = AggregateStatus(total)
           /\ is_valid_payment_transition("REFUND_PENDING", status', event'.actor)
        \/ WithStatus(refund', {"PENDING"}) # {} /\ UNCHANGED status
    <3>1. AggregateStatus(total) # "REFUND_PENDING"
      BY DEF AggregateStatus
    <3> QED
      BY <1>7, <2>1, <3>1, ZenonT(30) DEF NoneInFlight, Writes, Rests, total
  <2>4. status' \in SETTLED_STATUSES /\ Legal
    BY <2>1, <2>3 DEF AggregateStatus, SETTLED_STATUSES, Legal
  <2>5. /\ status' = "REFUND_PENDING" <=> WithStatus(refund', {"PENDING"}) # {}
        /\ status' = "REFUNDED" => total = AmountMinor
        /\ status' = "REFUND_FAILED" => total = 0
        /\ status' = "SUCCEEDED" => total < AmountMinor
    BY <2>1, <2>2, <2>3 DEF AggregateStatus
  <2>6. StatusAggregatesRefunds'
    BY <1>7, <2>5, Zenon DEF StatusAggregatesRefunds, total
  <2> QED
    BY <1>5, <1>7, <2>1, <2>4, <2>6, ZenonT(30) DEF ExactInv, SETTLED_STATUSES
<1> QED
  BY <1>1, <1>4, <1>6, <1>7 DEF RefundStep

\* The exact invariant is inductive where no webhook is applied.
LEMMA ExactInvInductive ==
  ASSUME Webhooks = {}, GeneralInv, GeneralInv', ExactInv, [Next]_vars PROVE ExactInv' /\ Legal
<1>1. CASE ProviderLearns
  <2>1. /\ truth = "UNKNOWN" /\ UNCHANGED <<status, ptx, linked, settlements, refund, amount>>
        /\ UNCHANGED <<pc, seen, answer>>
    BY <1>1, Zenon DEF ProviderLearns, rowVars, refundVars
  <2>2. CreationInv' /\ PassInv' /\ SessionInv'
    BY <2>1 DEF ExactInv, CreationInv, PassInv, SessionInv, Failure
  <2>3. (~ptx => settlements = 0)' /\ SettledExactlyOnce' /\ StatusAggregatesRefunds'
    BY <2>1 DEF ExactInv, SettledExactlyOnce, StatusAggregatesRefunds, WithStatus
  <2> QED
    BY <2>1, <2>2, <2>3 DEF ExactInv, Legal
<1>2. CASE UNCHANGED vars
  <2>1. UNCHANGED <<status, ptx, linked, truth, settlements, refund, amount, pc, seen, answer>>
    BY <1>2 DEF vars, rowVars, refundVars, providerVars
  <2>2. CreationInv' /\ PassInv' /\ SessionInv'
    BY <2>1 DEF ExactInv, CreationInv, PassInv, SessionInv
  <2>3. (~ptx => settlements = 0)' /\ SettledExactlyOnce' /\ StatusAggregatesRefunds'
    BY <2>1 DEF ExactInv, SettledExactlyOnce, StatusAggregatesRefunds, WithStatus
  <2> QED
    BY <2>1, <2>2, <2>3 DEF ExactInv, Legal
<1> QED
  BY <1>1, <1>2, CreateKeepsExact, CaptureKeepsExact, PassKeepsExact, RefundKeepsExact, Zenon DEF Next

\* The invariants of PaymentLifecycleProofs hold throughout.
LEMMA GeneralInvHolds == Spec => []GeneralInv
BY TypeCorrect, TypeInductive, RefundInvHolds, SettlementInvInductive, LinkInvInductive,
   CollectInvInductive, PTL DEF Spec, GeneralInv

\* The exact invariant holds throughout where no webhook is applied.
LEMMA ExactInvHolds == ASSUME Webhooks = {} PROVE Spec => []ExactInv
<1>1. GeneralInv /\ GeneralInv' /\ ExactInv /\ [Next]_vars => ExactInv'
  BY ExactInvInductive
<1> QED
  BY <1>1, GeneralInvHolds, ExactInvInit, PTL DEF Spec

\* Where no webhook is applied, the ledger holds exactly one settlement of the
\* payment while its status says the money was collected and none otherwise,
\* however many captures, overlapping passes and refunds there are.
THEOREM SettledOnceWithoutWebhooks ==
  ASSUME Webhooks = {} PROVE Spec => []SettledExactlyOnce
<1>1. ExactInv => SettledExactlyOnce
  BY DEF ExactInv
<1> QED
  BY <1>1, ExactInvHolds, PTL

\* Where no webhook is applied, the payment's status is the aggregate of its refund
\* rows: the last refund to finish settles it from the complete picture.
THEOREM StatusIsAggregate ==
  ASSUME Webhooks = {} PROVE Spec => []StatusAggregatesRefunds
<1>1. ExactInv => StatusAggregatesRefunds
  BY DEF ExactInv
<1> QED
  BY <1>1, ExactInvHolds, PTL

\* Where no webhook is applied, every change of the row's status is a transition of the
\* state machine from the status the row had, although passes decide on stale copies.
THEOREM OnlyLegalTransitions ==
  ASSUME Webhooks = {} PROVE Spec => TransitionsLegal
<1>1. GeneralInv /\ GeneralInv' /\ ExactInv /\ [Next]_vars =>
        [status' # status => is_valid_payment_transition(status, status', event'.actor)]_vars
  BY ExactInvInductive DEF Legal
<1> QED
  BY <1>1, GeneralInvHolds, ExactInvHolds, PTL DEF Spec, TransitionsLegal

-------------------------------------------------------------------------------
(***************************************************************************)
(* The chain of payment_events.                                            *)
(***************************************************************************)

\* The creating request writes its events from the status the row has.
LEMMA CreateChains ==
  ASSUME GeneralInv, ExactInv, CreateNext PROVE event' # event => event'.from = status
<1>1. CreateStep
  BY CreateSummary DEF GeneralInv
<1>2. pc[Create] \in {"created", "processing", "authorized"} =>
        lock_payment(Create) = status
  BY DEF ExactInv, CreationInv, lock_payment
<1> QED
  BY <1>1, <1>2, ZenonT(30) DEF CreateStep, Writes, Rests

\* A capture writes its event from PROCESSING, which its row lock keeps true.
LEMMA CaptureChains ==
  ASSUME GeneralInv, NEW c \in Captures, CaptureNext(c)
  PROVE  event' # event => event'.from = status
<1>1. CaptureStep(c)
  BY CaptureSummary DEF GeneralInv
<1>2. pc[c] = "capturing" => status = seen[c]
  BY ZenonT(30) DEF GeneralInv, CollectInv
<1> QED
  BY <1>1, <1>2 DEF CaptureStep, Writes, Rests

\* A refund reserves from the status it loads under the lock, and settles from
\* REFUND_PENDING, which its own PENDING row keeps true.
LEMMA RefundChains ==
  ASSUME GeneralInv, ExactInv, NEW r \in Refunds, RefundNext(r)
  PROVE  event' # event => event'.from = status
<1>1. RefundStep(r)
  BY RefundSummary DEF GeneralInv
<1>2. pc[r] = "idle" => lock_payment(r) = status
  BY DEF ExactInv, SessionInv, lock_payment
<1>3. pc[r] = "answered" => status = "REFUND_PENDING"
  BY Zenon DEF GeneralInv, RefundInv, RefundRows, ExactInv, StatusAggregatesRefunds, WithStatus
<1> QED
  BY <1>1, <1>2, <1>3 DEF RefundStep, Writes, Rests

\* A pass writes its event from the UNKNOWN it holds.  Where that is stale the row is
\* settled already, or failed as the provider says, and the pass changes nothing.
LEMMA PassChains ==
  ASSUME GeneralInv, ExactInv, NEW p \in Passes, ReconcileNext(p)
  PROVE  event' # event =>
           /\ event'.actor = "RECONCILIATION" /\ event'.from = "UNKNOWN" /\ seen[p] = "UNKNOWN"
           /\ status = "UNKNOWN" \/ status' = status
<1>1. PassStep(p)
  BY PassSummary DEF GeneralInv
<1>2. event' # event => event'.actor = "RECONCILIATION"
  <2>1. CASE ReconcileResolve(p)
    BY <2>1 DEF ReconcileResolve, apply_transition
  <2>2. CASE ~ReconcileResolve(p)
    <3>1. UNCHANGED event
      BY <2>2 DEF ReconcileNext, find_payments_needing_reconciliation, ReconcileCall,
         ReconcileCheck, ProviderStatus, ReconcileConflict, write_report, ReconcileAbandon,
         rowVars
    <3> QED
      BY <3>1, Zenon
  <2> QED
    BY <2>1, <2>2, Zenon
<1>3. pc[p] = "asked" =>
        /\ seen[p] = "UNKNOWN"
        /\ answer[p] \in Failure \cup {"SUCCEEDED"} => truth = answer[p]
        /\ ptx \/ status = "UNKNOWN" \/ (status = "FAILED" /\ truth \in Failure)
        /\ ptx => truth = "SUCCEEDED"
  BY DEF ExactInv, PassInv, CreationInv
<1> QED
  BY <1>1, <1>2, <1>3 DEF PassStep, Writes, Rests, Failure

\* Every step of the system is a chain step where no webhook is applied.
LEMMA StepsChain ==
  ASSUME Webhooks = {}, GeneralInv, ExactInv, [Next]_vars PROVE ChainStep
<1>1. CASE ProviderLearns \/ UNCHANGED vars
  BY <1>1 DEF ProviderLearns, ChainStep, vars, rowVars
<1> QED
  BY <1>1, CreateChains, CaptureChains, PassChains, RefundChains, Zenon DEF Next, ChainStep

\* Where no webhook is applied, and however many passes overlap, an event written by
\* apply_transition starts at the status the row has.  The only exception is the event
\* of a pass that holds a stale UNKNOWN, and that commit leaves the status alone.
THEOREM ChainUpToStalePasses ==
  ASSUME Webhooks = {} PROVE Spec => EventsFormChain
<1>1. GeneralInv /\ ExactInv /\ [Next]_vars => [ChainStep]_vars
  BY StepsChain
<1> QED
  BY <1>1, GeneralInvHolds, ExactInvHolds, PTL DEF Spec, EventsFormChain

\* A single pass never holds a stale UNKNOWN: only a pass takes the payment out of it.
FreshPass == \A p \in Passes : seen[p] = "UNKNOWN" => status = "UNKNOWN"

\* FreshPass is inductive with one pass at a time.
LEMMA FreshPassInductive ==
  ASSUME Webhooks = {}, \A p, q \in Passes : p = q,
         GeneralInv, ExactInv, FreshPass, [Next]_vars
  PROVE  FreshPass'
<1> SUFFICES ASSUME NEW p \in Passes, seen'[p] = "UNKNOWN" PROVE status' = "UNKNOWN"
  BY DEF FreshPass
<1>1. seen[p] = "UNKNOWN" =>
        status = "UNKNOWN" /\ linked /\ pc[Create] = "done"
  BY DEF FreshPass, ExactInv, PassInv, GeneralInv, LinkInv
<1>2. p \in Sessions \ ({Create} \cup Captures \cup Refunds)
  BY SessionsAssumption, ZenonT(30) DEF Sessions
<1>3. CASE CreateNext
  <2>1. CreateStep
    BY <1>3, CreateSummary, ZenonT(30) DEF GeneralInv
  <2> QED
    BY <1>1, <1>2, <2>1 DEF CreateStep, Moves
<1>4. ASSUME NEW c \in Captures, CaptureNext(c) PROVE status' = "UNKNOWN"
  <2>1. CaptureStep(c)
    BY <1>4, CaptureSummary DEF GeneralInv
  <2>2. pc[c] = "capturing" => status = "PROCESSING"
    BY ZenonT(30) DEF GeneralInv, CollectInv
  <2> QED
    BY <1>1, <1>2, <2>1, <2>2 DEF CaptureStep, Moves, Rests
<1>5. CASE ReconcileNext(p)
  <2>1. PassStep(p)
    BY <1>5, PassSummary DEF GeneralInv
  <2>2. pc[p] = "asked" => seen[p] = "UNKNOWN"
    BY Zenon DEF ExactInv, PassInv
  <2> QED
    BY <1>1, <2>1, <2>2 DEF PassStep, Writes, Rests, lock_payment
<1>6. ASSUME NEW r \in Refunds, RefundNext(r) PROVE status' = "UNKNOWN"
  <2>1. RefundStep(r)
    BY <1>6, RefundSummary DEF GeneralInv
  <2>2. pc[r] = "idle" => lock_payment(r) = status
    BY ZenonT(30) DEF ExactInv, SessionInv, lock_payment
  <2>3. pc[r] = "answered" => status = "REFUND_PENDING"
    BY DEF GeneralInv, RefundInv, RefundRows, ExactInv, StatusAggregatesRefunds, WithStatus
  <2> QED
    BY <1>1, <1>2, <2>1, <2>2, <2>3, ZenonT(30) DEF RefundStep, Moves, Rests, REFUNDABLE_SOURCE_STATUSES
<1>7. CASE ProviderLearns \/ UNCHANGED vars
  BY <1>1, <1>7 DEF ProviderLearns, vars, rowVars
<1> QED
  BY <1>3, <1>4, <1>5, <1>6, <1>7, ZenonT(30) DEF Next

\* Every event starts at the status the row had when it was written.
UnbrokenChain == [][event' # event => event'.from = status]_vars

\* Where no webhook is applied and there is one reconciliation task, which makes its
\* passes one after the other, payment_events is an unbroken chain.
THEOREM EventsChainWithOnePass ==
  ASSUME Webhooks = {}, \A p, q \in Passes : p = q PROVE Spec => UnbrokenChain
<1>1. Init => FreshPass
  BY SessionsAssumption DEF Init, FreshPass, Sessions
<1>2. GeneralInv /\ ExactInv /\ FreshPass /\ [Next]_vars => FreshPass'
  BY FreshPassInductive
<1>3. GeneralInv /\ ExactInv /\ FreshPass /\ [Next]_vars =>
        [event' # event => event'.from = status]_vars
  <2> SUFFICES ASSUME GeneralInv, ExactInv, FreshPass, [Next]_vars, event' # event
               PROVE  event'.from = status
    OBVIOUS
  <2>1. ~(ProviderLearns \/ UNCHANGED vars)
    BY DEF ProviderLearns, vars, rowVars
  <2>2. ASSUME NEW p \in Passes, ReconcileNext(p) PROVE event'.from = status
    BY <2>2, PassChains DEF FreshPass
  <2> QED
    BY <2>1, <2>2, CreateChains, CaptureChains, RefundChains, Zenon DEF Next
<1> QED
  BY <1>1, <1>2, <1>3, GeneralInvHolds, ExactInvHolds, PTL DEF Spec, UnbrokenChain

===============================================================================
