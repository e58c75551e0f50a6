---------------------------- MODULE MerchantReads ----------------------------
(***************************************************************************)
(* The pages a merchant and an auditor read while the payments change.     *)
(*                                                                         *)
(* A page is put together from several statements in one READ COMMITTED    *)
(* transaction, so each statement sees what is committed when it runs.     *)
(* What one commit of the payments service changes, it changes at once:    *)
(* Commit writes it, as PaymentLifecycle has it.  Readers write nothing,   *)
(* so it is enough to follow one reader at a time.                         *)
(***************************************************************************)
EXTENDS Integers, Sequences, Functions, Amounts

CONSTANTS
  Payments,      \* payments of one merchant, each with one refund
  AmountMinor,   \* their amount_minor
  PAGE_SIZE,     \* limit of a page of the list
  MaxEntries,    \* bound: with as many ledger entries, no further webhook is applied
  NoPayment

ASSUME ReadsAssumption ==
  /\ IsFiniteSet(Payments) /\ NoPayment \notin Payments
  /\ AmountMinor \in Nat \ {0} /\ PAGE_SIZE \in Nat \ {0} /\ MaxEntries \in Nat

VARIABLES
  created_at, \* payment_intents.created_at, 0 while the creation has not begun
  status,    \* payment_intents.status, "NONE" while the row is not committed
  events,    \* payment_events: the statuses the payment has gone to
  attempts,  \* payment_attempts: outcomes, every failure as "FAILED"
  refund,    \* the refund row: status and amount
  ledger,    \* ledger_entries
  task,      \* what the reader is doing, "idle"
  target,    \* the payment it reads about
  shown,     \* what its statements have returned
  walk       \* a walk through the pages of the list

dbVars     == <<created_at, status, events, attempts, refund, ledger>>
readerVars == <<task, target, shown, walk>>
vars       == <<dbVars, readerVars>>

Nothing == [s \in {} |-> {}]
NoWalk  == [offset |-> 0, total |-> 0, due |-> {}, seen |-> {}, torn |-> FALSE]
NoRefund == [status |-> "NONE", amount |-> 0]

Init ==
  /\ created_at = [i \in Payments |-> 0]
  /\ status = [i \in Payments |-> "NONE"]
  /\ events = [i \in Payments |-> {}]
  /\ attempts = [i \in Payments |-> {}]
  /\ refund = [i \in Payments |-> NoRefund]
  /\ ledger = {}
  /\ task = "idle"
  /\ target = NoPayment
  /\ shown = Nothing
  /\ walk = NoWalk

-------------------------------------------------------------------------------
(***************************************************************************)
(* The writers.                                                            *)
(***************************************************************************)

_entry(tx, account, direction, amount_minor) ==
  [tx |-> tx, account |-> account, direction |-> direction, amount_minor |-> amount_minor]

EntriesOf(i) == { e \in ledger : e.tx[2] = i }

\* Mutant: the credit is a negative amount.
Pair_Signed(kind, i, debit, credit, amount_minor) ==
  LET tx == <<kind, i, Cardinality(EntriesOf(i))>>
  IN { _entry(tx, debit, "DEBIT", amount_minor), _entry(tx, credit, "CREDIT", -amount_minor) }

\* Two rows of one new ledger_transaction_id.
Pair(kind, i, debit, credit, amount_minor) ==
  LET tx == <<kind, i, Cardinality(EntriesOf(i))>>
  IN { _entry(tx, debit, "DEBIT", amount_minor), _entry(tx, credit, "CREDIT", amount_minor) }

build_payment_settled_pair(i) ==
  Pair("payment", i, "MERCHANT_RECEIVABLE", "PAYMENT_CLEARING", AmountMinor)

build_refund_settled_pair(i, amount_minor) ==
  Pair("refund", i, "REFUND_LIABILITY", "MERCHANT_RECEIVABLE", amount_minor)

\* The status and its event, of the transaction that Commit writes.
Write(i, to) ==
  /\ status' = [status EXCEPT ![i] = to]
  /\ events' = [events EXCEPT ![i] = @ \cup {to}]

Transition(i, from, to) == status[i] = from /\ Write(i, to)

Commit(i, outcomes, row, entries) ==
  /\ attempts' = [attempts EXCEPT ![i] = @ \cup outcomes]
  /\ refund' = [refund EXCEPT ![i] = row]
  /\ ledger' = ledger \cup entries
  /\ UNCHANGED <<created_at, readerVars>>

\* created_at is the start of the creating transaction, which commits later.
Begin(i) ==
  /\ created_at[i] = 0
  /\ created_at' = [created_at EXCEPT ![i] = Cardinality({ j \in Payments : created_at[j] # 0 }) + 1]
  /\ UNCHANGED <<status, events, attempts, refund, ledger, readerVars>>

\* The commits of create_payment: the row, PROCESSING, a blocked payment, and
\* the provider's answer.
CreatePayment(i) ==
  \/ /\ created_at[i] # 0
     /\ Transition(i, "NONE", "CREATED") /\ Commit(i, {}, refund[i], {})
  \/ Transition(i, "CREATED", "PROCESSING") /\ Commit(i, {}, refund[i], {})
  \/ /\ attempts[i] = {}
     /\ \/ Transition(i, "PROCESSING", "FAILED") /\ Commit(i, {}, refund[i], {})
        \/ Transition(i, "PROCESSING", "FAILED") /\ Commit(i, {"FAILED"}, refund[i], {})
        \/ Transition(i, "PROCESSING", "UNKNOWN") /\ Commit(i, {"UNKNOWN"}, refund[i], {})
        \/ /\ status[i] = "PROCESSING" /\ UNCHANGED <<status, events>>
           /\ \E o \in {"SUCCEEDED", "FAILED"} : Commit(i, {o}, refund[i], {})

\* The payment was PROCESSING with a provider transaction: only then is there no
\* attempt beside the one that succeeded.
Authorized(i) == attempts[i] = {"SUCCEEDED"}

CapturePayment(i) ==
  /\ Authorized(i)
  /\ \/ /\ Transition(i, "PROCESSING", "SUCCEEDED")
        /\ Commit(i, {}, refund[i], build_payment_settled_pair(i))
     \/ \E to \in {"UNKNOWN", "FAILED"} :
          Transition(i, "PROCESSING", to) /\ Commit(i, {}, refund[i], {})

\* reconcile_payment.  A provider transaction that is on record already cannot be
\* recorded again: a payment lost at its capture is not resolved.  What a pass with
\* a stale UNKNOWN writes again, an event or a failed attempt, is there already.
ReconcilePayment(i) ==
  /\ "SUCCEEDED" \notin attempts[i]
  /\ \/ /\ Transition(i, "UNKNOWN", "SUCCEEDED")
        /\ Commit(i, {"SUCCEEDED"}, refund[i], build_payment_settled_pair(i))
     \/ Transition(i, "UNKNOWN", "FAILED") /\ Commit(i, {"FAILED"}, refund[i], {})

\* A "payment.succeeded" or "payment.failed" webhook is applied to the status its
\* worker has loaded, which is one the payment had with a provider transaction,
\* and is written over the status the payment has.
HandlePaymentOutcome(i) ==
  /\ Cardinality(ledger) < MaxEntries
  /\ \/ /\ Authorized(i) \/ "REFUND_PENDING" \in events[i]
        /\ Write(i, "SUCCEEDED") /\ Commit(i, {}, refund[i], build_payment_settled_pair(i))
     \/ /\ Authorized(i)
        /\ Write(i, "FAILED") /\ Commit(i, {}, refund[i], {})

\* refund_payment: the reservation, then the provider's answer.  The session holds
\* REFUND_PENDING throughout, so it settles the status whatever a webhook wrote.
RefundPayment(i) ==
  LET a == refund[i].amount
      settled(s) == [status |-> s, amount |-> a]
  IN \/ /\ refund[i].status = "NONE" /\ "SUCCEEDED" \in attempts[i]
        /\ Transition(i, "SUCCEEDED", "REFUND_PENDING")
        /\ \E n \in 1 .. AmountMinor : Commit(i, {}, [status |-> "PENDING", amount |-> n], {})
     \/ /\ refund[i].status = "PENDING"
        /\ Write(i, IF a = AmountMinor THEN "REFUNDED" ELSE "SUCCEEDED")
        /\ Commit(i, {}, settled("SUCCEEDED"), build_refund_settled_pair(i, a))
     \/ /\ refund[i].status = "PENDING"
        /\ Write(i, "REFUND_FAILED")
        /\ Commit(i, {}, settled("FAILED"), {})

-------------------------------------------------------------------------------
(***************************************************************************)
(* The readers: the statements of each page, in the order they are made.   *)
(***************************************************************************)

Visible == { i \in Payments : status[i] # "NONE" }

\* Mutant: the ledger is read before what it explains.
get_payment_detail_LedgerFirst ==
  <<"ledger_entries", "intent", "events", "attempts", "refunds">>

get_payment_detail == <<"intent", "events", "attempts", "refunds", "ledger_entries">>

\* Mutant: the totals are read before the counts.
get_dashboard_summary_TotalsFirst ==
  <<"total_refunded_amount", "total_succeeded_amount", "counts_by_status">>

get_dashboard_summary ==
  <<"counts_by_status", "total_succeeded_amount", "total_refunded_amount">>

\* Mutant: the two sums the other way round.
global_ledger_balance_CreditsFirst == <<"CREDIT", "DEBIT">>

global_ledger_balance == <<"DEBIT", "CREDIT">>

Statements(t) ==
  CASE t = "detail"  -> get_payment_detail
    [] t = "summary" -> get_dashboard_summary
    [] t = "audit"   -> global_ledger_balance

_sum_by_direction(direction, entries) ==
  SumAmounts([e \in entries |-> e.amount_minor],
             { e \in entries : e.direction = direction })

\* What a statement returns when it runs.
Select(statement) ==
  CASE statement = "intent"         -> status[target]
    [] statement = "events"         -> events[target]
    [] statement = "attempts"       -> attempts[target]
    [] statement = "refunds"        -> refund[target]
    [] statement = "ledger_entries" -> EntriesOf(target)
    [] statement = "counts_by_status" ->
         [s \in Range(status) \ {"NONE"} |-> Cardinality({ i \in Payments : status[i] = s })]
    [] statement = "total_succeeded_amount" ->
         SumAmounts([i \in Payments |-> AmountMinor],
                    { i \in Payments : status[i] = "SUCCEEDED" })
    [] statement = "total_refunded_amount" ->
         SumAmounts([i \in Payments |-> refund[i].amount],
                    { i \in Payments : refund[i].status = "SUCCEEDED" })
    [] statement \in {"DEBIT", "CREDIT"} -> _sum_by_direction(statement, ledger)

\* PAYMENT_NOT_FOUND for a payment that is not visible: nothing is shown.
Open(t, i) ==
  /\ task = "idle"
  /\ t = "detail" => i \in Visible
  /\ task' = t
  /\ target' = IF t = "detail" THEN i ELSE NoPayment
  /\ UNCHANGED <<dbVars, shown, walk>>

Complete(t) == task = t /\ DOMAIN shown = Range(Statements(t))

\* The next statement is the one whose predecessors have returned.
Execute ==
  /\ task \in {"detail", "summary", "audit"}
  /\ \E n \in DOMAIN Statements(task) :
       /\ DOMAIN shown = { Statements(task)[m] : m \in 1 .. (n - 1) }
       /\ shown' = [s \in DOMAIN shown \cup {Statements(task)[n]} |->
                      IF s \in DOMAIN shown THEN shown[s] ELSE Select(s)]
  /\ UNCHANGED <<dbVars, task, target, walk>>

(***************************************************************************)
(* list_payments without a status filter, called by a dashboard that goes  *)
(* to the next page while offset + PAGE_SIZE < total.  The total and the   *)
(* page are two statements.                                                *)
(***************************************************************************)

\* Mutant: ORDER BY version DESC, so that a change moves its row to the front.
RowNumber_ByVersion(i) ==
  Cardinality({ j \in Visible : Cardinality(events[j]) >= Cardinality(events[i]) })

\* ORDER BY created_at DESC.
RowNumber(i) == Cardinality({ j \in Visible : created_at[j] >= created_at[i] })

\* LIMIT PAGE_SIZE OFFSET offset.
Page(offset) == { i \in Visible : RowNumber(i) > offset /\ RowNumber(i) <= offset + PAGE_SIZE }

Count ==
  /\ task \in {"idle", "counting"}
  /\ task' = "listing"
  /\ walk' = [walk EXCEPT !.total = Cardinality(Visible),
                         !.due = IF task = "idle" THEN Visible ELSE @]
  /\ UNCHANGED <<dbVars, target, shown>>

list_payments ==
  /\ task = "listing"
  /\ walk' = [walk EXCEPT !.offset = @ + PAGE_SIZE,
                         !.seen = @ \cup Page(walk.offset),
                         !.torn = Cardinality(Visible) # walk.total]
  /\ task' = IF walk.offset + PAGE_SIZE < walk.total THEN "counting" ELSE "walked"
  /\ UNCHANGED <<dbVars, target, shown>>

Close ==
  /\ task # "idle"
  /\ task' = "idle"
  /\ target' = NoPayment
  /\ shown' = Nothing
  /\ walk' = NoWalk
  /\ UNCHANGED dbVars

Next ==
  \/ \E i \in Payments :
       \/ Begin(i)
       \/ CreatePayment(i)
       \/ CapturePayment(i)
       \/ ReconcilePayment(i)
       \/ HandlePaymentOutcome(i)
       \/ RefundPayment(i)
       \/ \E t \in {"detail", "summary", "audit"} : Open(t, i)
  \/ Execute
  \/ Count
  \/ list_payments
  \/ Close

Spec == Init /\ [][Next]_vars

-------------------------------------------------------------------------------
(***************************************************************************)
(* Properties.                                                             *)
(***************************************************************************)

PaymentStatus ==
  {"CREATED", "PROCESSING", "UNKNOWN", "FAILED", "SUCCEEDED", "REFUND_PENDING", "REFUNDED",
   "REFUND_FAILED"}

LedgerEntry ==
  [tx : {"payment", "refund"} \X Payments \X Nat,
   account : {"MERCHANT_RECEIVABLE", "PAYMENT_CLEARING", "REFUND_LIABILITY"},
   direction : {"DEBIT", "CREDIT"},
   amount_minor : 1 .. AmountMinor]

\* Every row holds what its column may: amounts are positive, on both sides of the
\* ledger, creations begin one after the other, and a row is visible only then.
TypeOK ==
  /\ created_at \in [Payments -> Nat]
  /\ status \in [Payments -> PaymentStatus \cup {"NONE"}]
  /\ events \in [Payments -> SUBSET PaymentStatus]
  /\ attempts \in [Payments -> SUBSET {"SUCCEEDED", "FAILED", "UNKNOWN"}]
  /\ refund \in [Payments -> [status : {"NONE", "PENDING", "SUCCEEDED", "FAILED"}, amount : 0 .. AmountMinor]]
  /\ \A e \in ledger : e \in LedgerEntry
  /\ \A i, j \in Payments : created_at[i] = created_at[j] => i = j \/ created_at[i] = 0
  /\ \A i \in Visible : created_at[i] # 0
  /\ task \in {"idle", "detail", "summary", "audit", "counting", "listing", "walked"}
  /\ target \in Payments \cup {NoPayment}
  /\ walk \in [offset : Nat, total : Nat, due : SUBSET Payments, seen : SUBSET Payments, torn : BOOLEAN]
  /\ walk.due \cup walk.seen \subseteq Visible

Posted(entries, kind, direction) ==
  SumAmounts([e \in entries |-> e.amount_minor],
             { e \in entries : e.tx[1] = kind /\ e.direction = direction })

\* The detail page holds "every record that explains how it got to its current
\* state" even though its five statements see five different moments: the status
\* it shows is among the events it shows, a settled payment is shown with a
\* successful attempt and its settlement, a refund with its status and with its
\* ledger entries.
DetailExplained ==
  Complete("detail") =>
    /\ shown.intent \in shown.events
    /\ shown.intent \in {"SUCCEEDED", "REFUND_PENDING", "REFUNDED", "REFUND_FAILED"} =>
         /\ "SUCCEEDED" \in shown.attempts
         /\ Posted(shown.ledger_entries, "payment", "CREDIT") >= AmountMinor
    /\ shown.intent = "REFUND_PENDING" => shown.refunds.status # "NONE"
    /\ shown.intent = "REFUNDED" => shown.refunds = [status |-> "SUCCEEDED", amount |-> AmountMinor]
    /\ shown.refunds.status = "SUCCEEDED" =>
         Posted(shown.ledger_entries, "refund", "CREDIT") = shown.refunds.amount

\* The landing page reads its counts before its totals: it never shows more
\* payments as REFUNDED than the refunded total it shows can pay for.
SummaryCovers ==
  Complete("summary") /\ "REFUNDED" \in DOMAIN shown.counts_by_status =>
    shown.counts_by_status["REFUNDED"] * AmountMinor <= shown.total_refunded_amount

\* GROUP BY ledger_transaction_id HAVING sum(debit) != sum(credit).
find_unbalanced_ledger_transactions ==
  LET of(tx) == { e \in ledger : e.tx = tx }
  IN { tx \in { e.tx : e \in ledger } :
         _sum_by_direction("DEBIT", of(tx)) # _sum_by_direction("CREDIT", of(tx)) }

\* The audit adds the debits first and the credits later, without an isolation
\* level of its own.  A settlement that commits in between makes the credits look
\* larger, and then no transaction is found unbalanced; a ledger that is balanced
\* never looks as if credits were missing.
AuditErrsOneWay ==
  Complete("audit") =>
    shown.DEBIT <= shown.CREDIT /\ find_unbalanced_ledger_transactions = {}

\* A walk through the unfiltered list to its last page shows every payment that
\* was there when it began, whatever is created or changes meanwhile, unless a
\* payment was committed between the total and the rows of the last page.
WalkComplete == task = "walked" /\ ~walk.torn => walk.due \subseteq walk.seen

===============================================================================
