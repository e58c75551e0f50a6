-------------------------- MODULE MerchantReadsProofs --------------------------
(***************************************************************************)
(* What the pages of MerchantReads show, for any payments, amounts and     *)
(* page size.                                                              *)
(*                                                                         *)
(* The writers never look at the reader and the reader writes nothing.     *)
(* The proof follows that: DbInv is what every committed state satisfies,  *)
(* Grows is what no commit takes back, and PageInv says of each page how   *)
(* far it is and what its statements have returned, in terms that Grows    *)
(* preserves.                                                              *)
(***************************************************************************)
EXTENDS MerchantReads, AmountsProofs

Outcomes   == {"SUCCEEDED", "FAILED", "UNKNOWN"}
Settled    == {"SUCCEEDED", "REFUND_PENDING", "REFUNDED", "REFUND_FAILED"}
FullRefund == [status |-> "SUCCEEDED", amount |-> AmountMinor]

Settlement(i) ==
  \E e \in ledger : e.tx[1] = "payment" /\ e.tx[2] = i /\ e.direction = "CREDIT" /\ e.amount_minor = AmountMinor

RefundCredits(i) == { e \in ledger : e.tx[1] = "refund" /\ e.tx[2] = i /\ e.direction = "CREDIT" }

\* Each payment's rows agree with one another.
RowInv(i) ==
  /\ status[i] # "NONE" => status[i] \in events[i]
  /\ status[i] # "NONE" \/ attempts[i] # {} => created_at[i] # 0
  /\ status[i] \in Settled \/ refund[i].status # "NONE" \/ "REFUND_PENDING" \in events[i] =>
       "SUCCEEDED" \in attempts[i] /\ Settlement(i)
  /\ status[i] = "REFUND_PENDING" => refund[i].status # "NONE"
  /\ status[i] = "REFUNDED" => refund[i] = FullRefund
  /\ refund[i].status # "NONE" => refund[i].amount # 0
  /\ IF refund[i].status = "SUCCEEDED"
       THEN \E e \in ledger : RefundCredits(i) = {e} /\ e.amount_minor = refund[i].amount
       ELSE RefundCredits(i) = {}

begun == { j \in Payments : created_at[j] # 0 }

\* Creations are numbered in the order in which they begin.
StampInv ==
  /\ created_at \in [Payments -> Nat]
  /\ \A i \in Payments : created_at[i] <= Cardinality(begun)
  /\ \A i, j \in Payments : created_at[i] = created_at[j] => i = j \/ created_at[i] = 0

RowTypes ==
  /\ status \in [Payments -> PaymentStatus \cup {"NONE"}]
  /\ events \in [Payments -> SUBSET PaymentStatus]
  /\ attempts \in [Payments -> SUBSET Outcomes]
  /\ refund \in [Payments -> [status : {"NONE", "PENDING", "SUCCEEDED", "FAILED"}, amount : 0 .. AmountMinor]]

Balance(direction) == _sum_by_direction(direction, ledger)

\* The ledger is made of pairs: the ids in use are below the number of entries,
\* an entry has one mate with its amount in the other direction.
LedgerInv ==
  /\ IsFiniteSet(ledger)
  /\ ledger \subseteq LedgerEntry
  /\ \A e \in ledger : e.tx[3] < Cardinality(EntriesOf(e.tx[2]))
  /\ \A e, f \in ledger : e.tx = f.tx /\ e.direction = f.direction => e = f
  /\ \A e \in ledger : \E f \in ledger :
       f.tx = e.tx /\ f.direction # e.direction /\ f.amount_minor = e.amount_minor
  /\ Balance("DEBIT") = Balance("CREDIT")

DbInv == RowTypes /\ StampInv /\ LedgerInv /\ \A i \in Payments : RowInv(i)

\* What no commit takes back.
Grows ==
  /\ \A i \in Payments :
       /\ events[i] \subseteq events'[i]
       /\ attempts[i] \subseteq attempts'[i]
       /\ status[i] # "NONE" => status'[i] # "NONE" /\ created_at'[i] = created_at[i]
       /\ refund[i].status # "NONE" => refund'[i].status # "NONE"
       /\ refund[i].status = "SUCCEEDED" => refund'[i] = refund[i]
  /\ ledger \subseteq ledger'

FullyRefunded == { i \in Payments : refund[i] = FullRefund }

\* The detail page: what it has shown is still explained by what it has yet to read.
DetailInv ==
  task = "detail" =>
    /\ target \in Visible
    /\ "intent" \in DOMAIN shown =>
         /\ shown.intent \in events[target]
         /\ shown.intent \in Settled => "SUCCEEDED" \in attempts[target] /\ Settlement(target)
         /\ shown.intent = "REFUND_PENDING" => refund[target].status # "NONE"
         /\ shown.intent = "REFUNDED" => refund[target] = FullRefund
    /\ "events" \in DOMAIN shown => shown.intent \in shown.events
    /\ "attempts" \in DOMAIN shown /\ shown.intent \in Settled => "SUCCEEDED" \in shown.attempts
    /\ "refunds" \in DOMAIN shown =>
         /\ shown.intent = "REFUND_PENDING" => shown.refunds.status # "NONE"
         /\ shown.intent = "REFUNDED" => shown.refunds = FullRefund
         /\ shown.refunds.status = "SUCCEEDED" => refund[target] = shown.refunds
    /\ "ledger_entries" \in DOMAIN shown =>
         /\ shown.intent \in Settled => Posted(shown.ledger_entries, "payment", "CREDIT") >= AmountMinor
         /\ shown.refunds.status = "SUCCEEDED" =>
              Posted(shown.ledger_entries, "refund", "CREDIT") = shown.refunds.amount

\* The landing page: the payments it has counted as REFUNDED stay fully refunded.
SummaryInv ==
  task = "summary" =>
    /\ "counts_by_status" \in DOMAIN shown /\ "REFUNDED" \in DOMAIN shown.counts_by_status =>
         /\ shown.counts_by_status["REFUNDED"] \in Nat
         /\ shown.counts_by_status["REFUNDED"] <= Cardinality(FullyRefunded)
         /\ "total_refunded_amount" \in DOMAIN shown =>
              shown.counts_by_status["REFUNDED"] * AmountMinor <= shown.total_refunded_amount

\* The audit: the credits have reached at least the debits it has added.
AuditInv ==
  task = "audit" =>
    /\ "DEBIT" \in DOMAIN shown => shown.DEBIT \in Nat /\ shown.DEBIT <= Balance("CREDIT")
    /\ "CREDIT" \in DOMAIN shown => shown.DEBIT <= shown.CREDIT

\* The walk: what it has yet to show is below the rows it has gone through.
WalkInv ==
  /\ walk \in [offset : Nat, total : Nat, due : SUBSET Payments, seen : SUBSET Payments, torn : BOOLEAN]
  /\ walk.due \cup walk.seen \subseteq Visible
  /\ task \notin {"counting", "listing", "walked"} => walk = NoWalk
  /\ \A i \in walk.due \ walk.seen : RowNumber(i) > walk.offset
  /\ WalkComplete

TaskInv ==
  /\ task \in {"idle", "detail", "summary", "audit", "counting", "listing", "walked"}
  /\ target \in Payments \cup {NoPayment}
  /\ task \notin {"detail", "summary", "audit"} => shown = Nothing

PageInv == TaskInv /\ DetailInv /\ SummaryInv /\ AuditInv /\ WalkInv

ReadsInv == DbInv /\ PageInv

-------------------------------------------------------------------------------
(***************************************************************************)
(* The ledger.                                                             *)
(***************************************************************************)

\* An entry's amount is positive, in either direction.
LEMMA EntryAmount ==
  ASSUME NEW e \in LedgerEntry
  PROVE  e.amount_minor \in Nat /\ e.amount_minor # 0
<1>1. e.amount_minor \in 1 .. AmountMinor
  BY DEF LedgerEntry
<1>2. AmountMinor \in Nat
  BY ReadsAssumption
<1> QED
  BY <1>1, <1>2

\* The sums of the ledger are natural numbers.
LEMMA BalanceType ==
  ASSUME IsFiniteSet(ledger), ledger \subseteq LedgerEntry, NEW d \in {"DEBIT", "CREDIT"}
  PROVE  Balance(d) \in Nat
<1> DEFINE amount == [e \in ledger |-> e.amount_minor]
           rows == { e \in ledger : e.direction = d }
<1>1. IsFiniteSet(rows)
  <2>1. rows \in SUBSET ledger
    OBVIOUS
  <2> QED
    BY <2>1, FS_Subset
<1>2. \A e \in rows : amount[e] \in Nat
  BY EntryAmount
<1> HIDE DEF amount, rows
<1>3. SumAmounts(amount, rows) \in Nat
  BY <1>1, <1>2, SumAmountsType
<1> QED
  BY <1>3 DEF Balance, _sum_by_direction, amount, rows

\* One more entry adds its amount to the sum of its direction, and leaves the
\* other alone.
LEMMA BalanceAdd ==
  ASSUME NEW L, IsFiniteSet(L), L \subseteq LedgerEntry,
         NEW x \in LedgerEntry, x \notin L, NEW d \in {"DEBIT", "CREDIT"}
  PROVE  _sum_by_direction(d, L \cup {x}) =
           _sum_by_direction(d, L) + (IF x.direction = d THEN x.amount_minor ELSE 0)
<1> DEFINE old == [e \in L |-> e.amount_minor]
           new == [e \in L \cup {x} |-> e.amount_minor]
           rows == { e \in L : e.direction = d }
           more == { e \in L \cup {x} : e.direction = d }
<1>1. IsFiniteSet(rows)
  <2>1. rows \in SUBSET L
    OBVIOUS
  <2> QED
    BY <2>1, FS_Subset
<1>2. x.amount_minor \in Nat
  BY EntryAmount
<1>3. /\ \A e \in rows : old[e] = new[e] /\ new[e] \in Nat /\ old[e] \in Nat
      /\ new[x] = x.amount_minor /\ new[x] \in Nat
      /\ x \notin rows
  BY <1>2, EntryAmount
<1>4. more = IF x.direction = d THEN rows \cup {x} ELSE rows
  OBVIOUS
<1>5. /\ _sum_by_direction(d, L \cup {x}) = SumAmounts(new, more)
      /\ _sum_by_direction(d, L) = SumAmounts(old, rows)
  BY DEF _sum_by_direction
<1> HIDE DEF old, new, rows, more
<1>6. SumAmounts(old, rows) = SumAmounts(new, rows) /\ SumAmounts(new, rows) \in Nat
  BY <1>1, <1>3, SumAmountsSame, SumAmountsType
<1>7. CASE x.direction = d
  <2>1. SumAmounts(new, rows \cup {x}) = SumAmounts(new, rows) + new[x]
    BY <1>1, <1>3, SumAmountsAdd, Zenon
  <2> QED
    BY <1>3, <1>4, <1>5, <1>6, <1>7, <2>1
<1>8. CASE x.direction # d
  BY <1>4, <1>5, <1>6, <1>8
<1> QED
  BY <1>7, <1>8

\* The id of a new pair is not in use.
LEMMA PairIsNew ==
  ASSUME LedgerInv, NEW i \in Payments, NEW kind
  PROVE  /\ IsFiniteSet(EntriesOf(i)) /\ Cardinality(EntriesOf(i)) \in Nat
         /\ \A e \in ledger : e.tx # <<kind, i, Cardinality(EntriesOf(i))>>
<1>1. EntriesOf(i) \in SUBSET ledger
  BY DEF EntriesOf
<1>2. IsFiniteSet(EntriesOf(i)) /\ Cardinality(EntriesOf(i)) \in Nat
  BY <1>1, FS_Subset, FS_CardinalityType DEF LedgerInv
<1>3. ASSUME NEW e \in ledger, e.tx = <<kind, i, Cardinality(EntriesOf(i))>>
      PROVE  FALSE
  <2>1. e.tx[2] = i /\ e.tx[3] = Cardinality(EntriesOf(i))
    BY <1>3
  <2>2. e.tx[3] < Cardinality(EntriesOf(e.tx[2]))
    BY DEF LedgerInv
  <2> QED
    BY <1>2, <2>1, <2>2
<1> QED
  BY <1>2, <1>3

\* A pair keeps the ledger balanced.
LEMMA PairKeepsLedger ==
  ASSUME LedgerInv, NEW i \in Payments, NEW kind \in {"payment", "refund"},
         NEW debit \in {"MERCHANT_RECEIVABLE", "PAYMENT_CLEARING", "REFUND_LIABILITY"},
         NEW credit \in {"MERCHANT_RECEIVABLE", "PAYMENT_CLEARING", "REFUND_LIABILITY"},
         NEW a \in 1 .. AmountMinor, ledger' = ledger \cup Pair(kind, i, debit, credit, a)
  PROVE  LedgerInv'
<1> DEFINE N == Cardinality(EntriesOf(i))
           tx == <<kind, i, N>>
           d == _entry(tx, debit, "DEBIT", a)
           c == _entry(tx, credit, "CREDIT", a)
<1>1. N \in Nat /\ IsFiniteSet(EntriesOf(i)) /\ \A e \in ledger : e.tx # tx
  BY PairIsNew
<1>2. /\ d.tx = tx /\ d.direction = "DEBIT" /\ d.amount_minor = a
      /\ c.tx = tx /\ c.direction = "CREDIT" /\ c.amount_minor = a
      /\ tx[2] = i /\ tx[3] = N
  BY DEF _entry
<1>3. d \in LedgerEntry /\ c \in LedgerEntry
  BY <1>1 DEF _entry, LedgerEntry
<1>4. ledger' = (ledger \cup {d}) \cup {c}
  BY DEF Pair
<1> HIDE DEF d, c, tx, N
<1>5. d \notin ledger /\ c \notin ledger \cup {d}
  BY <1>1, <1>2
<1>6. /\ IsFiniteSet(ledger) /\ ledger \subseteq LedgerEntry
      /\ \A e \in ledger : e.tx[3] < Cardinality(EntriesOf(e.tx[2]))
      /\ \A e, f \in ledger : e.tx = f.tx /\ e.direction = f.direction => e = f
      /\ \A e \in ledger : \E f \in ledger :
           f.tx = e.tx /\ f.direction # e.direction /\ f.amount_minor = e.amount_minor
      /\ Balance("DEBIT") = Balance("CREDIT")
  BY DEF LedgerInv
<1>7. IsFiniteSet(ledger \cup {d}) /\ IsFiniteSet(ledger')
  <2>1. IsFiniteSet(ledger \cup {d})
    BY <1>6, FS_AddElement
  <2>2. IsFiniteSet((ledger \cup {d}) \cup {c})
    BY <2>1, FS_AddElement
  <2> QED
    BY <1>4, <2>1, <2>2
<1>8. ledger \cup {d} \subseteq LedgerEntry /\ ledger' \subseteq LedgerEntry
  BY <1>3, <1>4, <1>6
<1>9. \A e \in ledger' : e.tx[3] < Cardinality(EntriesOf(e.tx[2])')
  <2>1. ASSUME NEW j \in Payments
        PROVE  /\ Cardinality(EntriesOf(j)) \in Nat /\ Cardinality(EntriesOf(j)') \in Nat
               /\ Cardinality(EntriesOf(j)) <= Cardinality(EntriesOf(j)')
    <3>1. EntriesOf(j)' \in SUBSET ledger' /\ EntriesOf(j) \in SUBSET EntriesOf(j)'
      BY <1>4 DEF EntriesOf
    <3>2. IsFiniteSet(EntriesOf(j)')
      BY <1>7, <3>1, FS_Subset
    <3> QED
      BY <3>1, <3>2, FS_Subset, FS_CardinalityType
  <2>2. N < Cardinality(EntriesOf(i)')
    <3>1. EntriesOf(i)' \in SUBSET ledger' /\ EntriesOf(i) \cup {d} \in SUBSET EntriesOf(i)' /\ d \notin EntriesOf(i)
      BY <1>2, <1>4, <1>5 DEF EntriesOf
    <3>2. IsFiniteSet(EntriesOf(i)')
      BY <1>7, <3>1, FS_Subset
    <3>3. Cardinality(EntriesOf(i) \cup {d}) = Cardinality(EntriesOf(i)) + 1
      BY <1>1, <3>1, FS_AddElement, Zenon
    <3>4. Cardinality(EntriesOf(i) \cup {d}) <= Cardinality(EntriesOf(i)')
      BY <3>1, <3>2, FS_Subset
    <3>5. Cardinality(EntriesOf(i)) \in Nat /\ Cardinality(EntriesOf(i)') \in Nat
      BY <2>1
    <3> QED
      BY <3>3, <3>4, <3>5 DEF N
  <2>3. ASSUME NEW e \in ledger PROVE e.tx[3] < Cardinality(EntriesOf(e.tx[2])')
    <3>1. e.tx[2] \in Payments /\ e.tx[3] \in Nat
      BY <1>6 DEF LedgerEntry
    <3>2. e.tx[3] < Cardinality(EntriesOf(e.tx[2]))
      BY <1>6
    <3>3. /\ Cardinality(EntriesOf(e.tx[2])) \in Nat /\ Cardinality(EntriesOf(e.tx[2])') \in Nat
          /\ Cardinality(EntriesOf(e.tx[2])) <= Cardinality(EntriesOf(e.tx[2])')
      BY <2>1, <3>1
    <3> QED
      BY <3>1, <3>2, <3>3
  <2> QED
    BY <1>2, <1>4, <2>2, <2>3
<1>10. \A e, f \in ledger' : e.tx = f.tx /\ e.direction = f.direction => e = f
  <2>1. SUFFICES ASSUME NEW e \in ledger', NEW f \in ledger', e.tx = f.tx, e.direction = f.direction
                 PROVE  e = f
    OBVIOUS
  <2>2. CASE e \in ledger /\ f \in ledger
    BY <1>6, <2>1, <2>2
  <2>3. CASE e \notin ledger /\ f \notin ledger
    <3>1. (e = d \/ e = c) /\ (f = d \/ f = c)
      BY <1>4, <2>3
    <3> QED
      BY <1>2, <2>1, <3>1
  <2>4. CASE e \in ledger /\ f \notin ledger
    BY <1>1, <1>2, <1>4, <2>1, <2>4
  <2>5. CASE e \notin ledger /\ f \in ledger
    BY <1>1, <1>2, <1>4, <2>1, <2>5
  <2> QED
    BY <2>2, <2>3, <2>4, <2>5
<1>11. \A e \in ledger' : \E f \in ledger' :
         f.tx = e.tx /\ f.direction # e.direction /\ f.amount_minor = e.amount_minor
  BY <1>2, <1>4, <1>6
<1>12. Balance("DEBIT")' = Balance("CREDIT")'
  <2>1. /\ _sum_by_direction("DEBIT", ledger \cup {d}) = _sum_by_direction("DEBIT", ledger) + a
        /\ _sum_by_direction("CREDIT", ledger \cup {d}) = _sum_by_direction("CREDIT", ledger) + 0
    <3>1. \A s \in {"DEBIT", "CREDIT"} : _sum_by_direction(s, ledger \cup {d}) =
            _sum_by_direction(s, ledger) + (IF d.direction = s THEN d.amount_minor ELSE 0)
      BY <1>3, <1>5, <1>6, BalanceAdd, Zenon
    <3> QED
      BY <1>2, <3>1
  <2>2. /\ _sum_by_direction("DEBIT", ledger') = _sum_by_direction("DEBIT", ledger \cup {d}) + 0
        /\ _sum_by_direction("CREDIT", ledger') = _sum_by_direction("CREDIT", ledger \cup {d}) + a
    <3>1. \A s \in {"DEBIT", "CREDIT"} : _sum_by_direction(s, (ledger \cup {d}) \cup {c}) =
            _sum_by_direction(s, ledger \cup {d}) + (IF c.direction = s THEN c.amount_minor ELSE 0)
      BY <1>3, <1>5, <1>7, <1>8, BalanceAdd
    <3> QED
      BY <1>2, <1>4, <3>1
  <2>3. Balance("DEBIT") \in Nat /\ Balance("CREDIT") \in Nat
    BY <1>6, BalanceType
  <2>4. _sum_by_direction("DEBIT", ledger') = _sum_by_direction("CREDIT", ledger')
    <3>1. a \in Nat
      <4>1. AmountMinor \in Nat
        BY ReadsAssumption
      <4> QED
        BY <4>1
    <3> QED
      BY <1>6, <2>1, <2>2, <2>3, <3>1 DEF Balance
  <2> QED
    BY <2>4 DEF Balance
<1> QED
  BY <1>7, <1>8, <1>9, <1>10, <1>11, <1>12 DEF LedgerInv

-------------------------------------------------------------------------------
(***************************************************************************)
(* The writers: every commit is of one of five kinds.                      *)
(***************************************************************************)

Advances(i) ==
  \E to \in {"CREATED", "PROCESSING", "FAILED", "UNKNOWN"}, o \in SUBSET Outcomes :
    created_at[i] # 0 /\ Write(i, to) /\ Commit(i, o, refund[i], {})

Settles(i) ==
  \E o \in SUBSET Outcomes :
    /\ created_at[i] # 0 /\ "SUCCEEDED" \in attempts[i] \cup o
    /\ Write(i, "SUCCEEDED") /\ Commit(i, o, refund[i], build_payment_settled_pair(i))

Reserves(i) ==
  /\ status[i] = "SUCCEEDED" /\ refund[i].status = "NONE" /\ Write(i, "REFUND_PENDING")
  /\ \E n \in 1 .. AmountMinor : Commit(i, {}, [status |-> "PENDING", amount |-> n], {})

Refunds(i) ==
  LET a == refund[i].amount
  IN /\ refund[i].status = "PENDING"
     /\ Write(i, IF a = AmountMinor THEN "REFUNDED" ELSE "SUCCEEDED")
     /\ Commit(i, {}, [status |-> "SUCCEEDED", amount |-> a], build_refund_settled_pair(i, a))

RefundFails(i) ==
  /\ refund[i].status = "PENDING" /\ Write(i, "REFUND_FAILED")
  /\ Commit(i, {}, [status |-> "FAILED", amount |-> refund[i].amount], {})

Writes(i) == Advances(i) \/ Settles(i) \/ Reserves(i) \/ Refunds(i) \/ RefundFails(i)

\* A status that stays is one that is on record: recording it again changes nothing.
LEMMA RecordedAgain ==
  ASSUME RowTypes, NEW i \in Payments, RowInv(i), status[i] = "PROCESSING",
         UNCHANGED <<status, events>>
  PROVE  Write(i, "PROCESSING")
<1>1. events[i] \cup {"PROCESSING"} = events[i]
  BY DEF RowInv
<1> QED
  BY <1>1 DEF Write, RowTypes

\* Creation, capture, reconciliation, webhooks and refunds do nothing else.
LEMMA WritersWrite ==
  ASSUME DbInv, NEW i \in Payments,
         \/ CreatePayment(i) \/ CapturePayment(i) \/ ReconcilePayment(i)
         \/ HandlePaymentOutcome(i) \/ RefundPayment(i)
  PROVE  Writes(i)
<1>1. RowTypes /\ RowInv(i)
  BY DEF DbInv
<1>2. attempts[i] \in SUBSET Outcomes
  BY <1>1 DEF RowTypes
<1>3. status[i] # "NONE" \/ attempts[i] # {} => created_at[i] # 0
  BY <1>1 DEF RowInv
<1>4. CASE CreatePayment(i)
  <2>1. CASE created_at[i] # 0 /\ Transition(i, "NONE", "CREATED") /\ Commit(i, {}, refund[i], {})
    BY <2>1 DEF Writes, Advances, Transition
  <2>2. CASE Transition(i, "CREATED", "PROCESSING") /\ Commit(i, {}, refund[i], {})
    BY <1>3, <2>2 DEF Writes, Advances, Transition
  <2>3. CASE \/ Transition(i, "PROCESSING", "FAILED") /\ Commit(i, {}, refund[i], {})
             \/ Transition(i, "PROCESSING", "FAILED") /\ Commit(i, {"FAILED"}, refund[i], {})
             \/ Transition(i, "PROCESSING", "UNKNOWN") /\ Commit(i, {"UNKNOWN"}, refund[i], {})
    BY <1>3, <2>3 DEF Writes, Advances, Transition, Outcomes
  <2>4. CASE /\ status[i] = "PROCESSING" /\ UNCHANGED <<status, events>>
             /\ \E o \in {"SUCCEEDED", "FAILED"} : Commit(i, {o}, refund[i], {})
    <3>1. Write(i, "PROCESSING")
      BY <1>1, <2>4, RecordedAgain
    <3> QED
      BY <1>3, <2>4, <3>1 DEF Writes, Advances, Outcomes
  <2> QED
    BY <1>4, <2>1, <2>2, <2>3, <2>4 DEF CreatePayment
<1>5. CASE CapturePayment(i)
  <2>1. CASE /\ Transition(i, "PROCESSING", "SUCCEEDED")
             /\ Commit(i, {}, refund[i], build_payment_settled_pair(i))
    BY <1>3, <1>5, <2>1 DEF Writes, Settles, Transition, CapturePayment, Authorized
  <2>2. CASE \E to \in {"UNKNOWN", "FAILED"} :
               Transition(i, "PROCESSING", to) /\ Commit(i, {}, refund[i], {})
    BY <1>3, <2>2 DEF Writes, Advances, Transition
  <2> QED
    BY <1>5, <2>1, <2>2 DEF CapturePayment
<1>6. CASE ReconcilePayment(i)
  <2>1. CASE /\ Transition(i, "UNKNOWN", "SUCCEEDED")
             /\ Commit(i, {"SUCCEEDED"}, refund[i], build_payment_settled_pair(i))
    BY <1>3, <2>1 DEF Writes, Settles, Transition, Outcomes
  <2>2. CASE Transition(i, "UNKNOWN", "FAILED") /\ Commit(i, {"FAILED"}, refund[i], {})
    BY <1>3, <2>2 DEF Writes, Advances, Transition, Outcomes
  <2> QED
    BY <1>6, <2>1, <2>2 DEF ReconcilePayment
<1>7. CASE HandlePaymentOutcome(i)
  <2>1. "REFUND_PENDING" \in events[i] => "SUCCEEDED" \in attempts[i]
    BY <1>1 DEF RowInv
  <2>2. CASE /\ Authorized(i) \/ "REFUND_PENDING" \in events[i]
             /\ Write(i, "SUCCEEDED") /\ Commit(i, {}, refund[i], build_payment_settled_pair(i))
    BY <1>3, <2>1, <2>2 DEF Writes, Settles, Authorized
  <2>3. CASE Authorized(i) /\ Write(i, "FAILED") /\ Commit(i, {}, refund[i], {})
    BY <1>3, <2>3 DEF Writes, Advances, Authorized
  <2> QED
    BY <1>7, <2>2, <2>3 DEF HandlePaymentOutcome
<1>8. CASE RefundPayment(i)
  BY <1>8 DEF RefundPayment, Writes, Reserves, Refunds, RefundFails, Transition
<1> QED
  BY <1>4, <1>5, <1>6, <1>7, <1>8

NewEntry(kind, i, account, direction, a) ==
  _entry(<<kind, i, Cardinality(EntriesOf(i))>>, account, direction, a)

\* A pair is a debit and a credit of one amount for one payment.
LEMMA PairShape ==
  ASSUME NEW kind, NEW i, NEW debit, NEW credit, NEW a
  PROVE  /\ Pair(kind, i, debit, credit, a) =
              {NewEntry(kind, i, debit, "DEBIT", a), NewEntry(kind, i, credit, "CREDIT", a)}
         /\ \A account, direction : LET e == NewEntry(kind, i, account, direction, a)
                                   IN /\ e.tx[1] = kind /\ e.tx[2] = i
                                      /\ e.direction = direction /\ e.amount_minor = a
BY DEF Pair, NewEntry, _entry

\* A commit of another payment leaves a payment's rows in agreement.
LEMMA OthersAgree ==
  ASSUME NEW j \in Payments, RowInv(j),
         status'[j] = status[j], events'[j] = events[j], attempts'[j] = attempts[j],
         refund'[j] = refund[j], created_at'[j] = created_at[j],
         ledger \subseteq ledger', \A e \in ledger' \ ledger : e.tx[2] # j
  PROVE  RowInv(j)'
<1>1. Settlement(j) => Settlement(j)'
  BY DEF Settlement
<1>2. RefundCredits(j)' = RefundCredits(j)
  BY DEF RefundCredits
<1> QED
  BY <1>1, <1>2 DEF RowInv

\* Types of the rows after a commit.
LEMMA CommitTypes ==
  ASSUME RowTypes, NEW i \in Payments, NEW to \in PaymentStatus, NEW o \in SUBSET Outcomes,
         NEW row \in [status : {"NONE", "PENDING", "SUCCEEDED", "FAILED"}, amount : 0 .. AmountMinor],
         NEW entries, Write(i, to), Commit(i, o, row, entries)
  PROVE  RowTypes'
BY DEF RowTypes, Write, Commit

\* A payment that advances has no settlement, or keeps the one it has.
LEMMA AdvanceKeeps ==
  ASSUME DbInv, NEW i \in Payments, Advances(i)
  PROVE  DbInv' /\ Grows
<1>1. PICK to \in {"CREATED", "PROCESSING", "FAILED", "UNKNOWN"}, o \in SUBSET Outcomes :
        created_at[i] # 0 /\ Write(i, to) /\ Commit(i, o, refund[i], {})
  BY DEF Advances
<1>2. RowTypes /\ StampInv /\ LedgerInv /\ \A j \in Payments : RowInv(j)
  BY DEF DbInv
<1>3. /\ status'[i] = to /\ events'[i] = events[i] \cup {to}
      /\ attempts'[i] = attempts[i] \cup o /\ refund'[i] = refund[i]
      /\ ledger' = ledger
      /\ created_at' = created_at
      /\ \A j \in Payments \ {i} :
           /\ status'[j] = status[j] /\ events'[j] = events[j]
           /\ attempts'[j] = attempts[j] /\ refund'[j] = refund[j]
  BY <1>1, <1>2 DEF RowTypes, Write, Commit
<1>4. ledger' = ledger
  BY <1>3
<1>5. RowTypes'
  <2>1. /\ to \in PaymentStatus
        /\ refund[i] \in [status : {"NONE", "PENDING", "SUCCEEDED", "FAILED"}, amount : 0 .. AmountMinor]
    BY <1>2 DEF PaymentStatus, RowTypes
  <2> QED
    BY <1>1, <1>2, <2>1, CommitTypes
<1>6. StampInv' /\ LedgerInv'
  BY <1>2, <1>3, <1>4 DEF StampInv, begun, LedgerInv, EntriesOf, Balance
<1>7. RowInv(i)'
  <2>1. RowInv(i) /\ created_at[i] # 0
    BY <1>1, <1>2
  <2>2. (Settlement(i)' <=> Settlement(i)) /\ RefundCredits(i)' = RefundCredits(i)
    BY <1>4 DEF Settlement, RefundCredits
  <2> QED
    BY <1>3, <1>4, <2>1, <2>2 DEF RowInv, Settled
<1>8. ASSUME NEW j \in Payments \ {i} PROVE RowInv(j)'
  BY <1>2, <1>3, <1>4, OthersAgree
<1>9. Grows
  BY <1>1, <1>3, <1>4 DEF Grows
<1> QED
  BY <1>5, <1>6, <1>7, <1>8, <1>9 DEF DbInv

\* A settlement comes with its pair.
LEMMA SettleKeeps ==
  ASSUME DbInv, NEW i \in Payments, Settles(i)
  PROVE  DbInv' /\ Grows
<1>1. PICK o \in SUBSET Outcomes :
        /\ created_at[i] # 0 /\ "SUCCEEDED" \in attempts[i] \cup o
        /\ Write(i, "SUCCEEDED") /\ Commit(i, o, refund[i], build_payment_settled_pair(i))
  BY DEF Settles
<1>2. RowTypes /\ StampInv /\ LedgerInv /\ \A j \in Payments : RowInv(j)
  BY DEF DbInv
<1>3. /\ status'[i] = "SUCCEEDED" /\ events'[i] = events[i] \cup {"SUCCEEDED"}
      /\ attempts'[i] = attempts[i] \cup o /\ refund'[i] = refund[i]
      /\ ledger' = ledger \cup build_payment_settled_pair(i)
      /\ created_at' = created_at
      /\ \A j \in Payments \ {i} :
           /\ status'[j] = status[j] /\ events'[j] = events[j]
           /\ attempts'[j] = attempts[j] /\ refund'[j] = refund[j]
  BY <1>1, <1>2 DEF RowTypes, Write, Commit
<1> DEFINE d == NewEntry("payment", i, "MERCHANT_RECEIVABLE", "DEBIT", AmountMinor)
           c == NewEntry("payment", i, "PAYMENT_CLEARING", "CREDIT", AmountMinor)
<1>4. /\ build_payment_settled_pair(i) = {d, c}
      /\ d.tx[1] = "payment" /\ d.tx[2] = i
      /\ c.tx[1] = "payment" /\ c.tx[2] = i /\ c.direction = "CREDIT" /\ c.amount_minor = AmountMinor
  BY PairShape DEF build_payment_settled_pair
<1> HIDE DEF d, c
<1>5. RowTypes'
  <2>1. /\ "SUCCEEDED" \in PaymentStatus
        /\ refund[i] \in [status : {"NONE", "PENDING", "SUCCEEDED", "FAILED"}, amount : 0 .. AmountMinor]
    BY <1>2 DEF PaymentStatus, RowTypes
  <2> QED
    BY <1>1, <1>2, <2>1, CommitTypes
<1>6. StampInv'
  BY <1>2, <1>3 DEF StampInv, begun
<1>7. LedgerInv'
  <2>1. AmountMinor \in Nat \ {0}
    BY ReadsAssumption
  <2>2. AmountMinor \in 1 .. AmountMinor
    BY <2>1
  <2> QED
    BY <1>2, <1>3, <2>2, PairKeepsLedger DEF build_payment_settled_pair
<1>8. RowInv(i)'
  <2>1. RowInv(i) /\ created_at[i] # 0
    BY <1>1, <1>2
  <2>2. Settlement(i)'
    BY <1>3, <1>4 DEF Settlement
  <2>3. RefundCredits(i)' = RefundCredits(i) /\ ledger \subseteq ledger'
    BY <1>3, <1>4 DEF RefundCredits
  <2> QED
    BY <1>1, <1>3, <2>1, <2>2, <2>3 DEF RowInv
<1>9. ASSUME NEW j \in Payments \ {i} PROVE RowInv(j)'
  <2>1. ledger \subseteq ledger' /\ \A e \in ledger' \ ledger : e.tx[2] # j
    BY <1>3, <1>4
  <2> QED
    BY <1>2, <1>3, <2>1, OthersAgree
<1>10. Grows
  BY <1>1, <1>3 DEF Grows
<1> QED
  BY <1>5, <1>6, <1>7, <1>8, <1>9, <1>10 DEF DbInv

\* A reservation is made on a payment that has been settled.
LEMMA ReserveKeeps ==
  ASSUME DbInv, NEW i \in Payments, Reserves(i)
  PROVE  DbInv' /\ Grows
<1>1. PICK n \in 1 .. AmountMinor : Commit(i, {}, [status |-> "PENDING", amount |-> n], {})
  BY DEF Reserves
<1>2. status[i] = "SUCCEEDED" /\ refund[i].status = "NONE" /\ Write(i, "REFUND_PENDING")
  BY DEF Reserves
<1>3. RowTypes /\ StampInv /\ LedgerInv /\ \A j \in Payments : RowInv(j)
  BY DEF DbInv
<1> DEFINE row == [status |-> "PENDING", amount |-> n]
<1>4. /\ status'[i] = "REFUND_PENDING" /\ events'[i] = events[i] \cup {"REFUND_PENDING"}
      /\ attempts'[i] = attempts[i] /\ refund'[i] = row
      /\ ledger' = ledger
      /\ created_at' = created_at
      /\ \A j \in Payments \ {i} :
           /\ status'[j] = status[j] /\ events'[j] = events[j]
           /\ attempts'[j] = attempts[j] /\ refund'[j] = refund[j]
  BY <1>1, <1>2, <1>3 DEF RowTypes, Write, Commit
<1>5. AmountMinor \in Nat /\ n \in Nat /\ n # 0 /\ n \in 0 .. AmountMinor
  <2>1. AmountMinor \in Nat
    BY ReadsAssumption
  <2> QED
    BY <2>1
<1>6. row.status = "PENDING" /\ row.amount = n
  OBVIOUS
<1>7. RowTypes'
  <2>1. /\ "REFUND_PENDING" \in PaymentStatus /\ {} \in SUBSET Outcomes
        /\ row \in [status : {"NONE", "PENDING", "SUCCEEDED", "FAILED"}, amount : 0 .. AmountMinor]
    BY <1>5 DEF PaymentStatus
  <2> QED
    BY <1>1, <1>2, <1>3, <2>1, CommitTypes
<1> HIDE DEF row
<1>8. StampInv' /\ LedgerInv'
  BY <1>3, <1>4 DEF StampInv, begun, LedgerInv, EntriesOf, Balance
<1>9. RowInv(i)'
  <2>1. RowInv(i)
    BY <1>3
  <2>2. (Settlement(i)' <=> Settlement(i)) /\ RefundCredits(i)' = RefundCredits(i)
    BY <1>4 DEF Settlement, RefundCredits
  <2>3. "SUCCEEDED" \in attempts[i] /\ Settlement(i) /\ created_at[i] # 0 /\ RefundCredits(i) = {}
    BY <1>2, <2>1 DEF RowInv, Settled
  <2> QED
    BY <1>4, <1>5, <1>6, <2>2, <2>3 DEF RowInv
<1>10. ASSUME NEW j \in Payments \ {i} PROVE RowInv(j)'
  BY <1>3, <1>4, OthersAgree
<1>11. Grows
  BY <1>2, <1>4 DEF Grows
<1> QED
  BY <1>7, <1>8, <1>9, <1>10, <1>11 DEF DbInv

\* A refund that is settled has one credit, of its amount.
LEMMA RefundKeeps ==
  ASSUME DbInv, NEW i \in Payments, Refunds(i)
  PROVE  DbInv' /\ Grows
<1> DEFINE a == refund[i].amount
           to == IF a = AmountMinor THEN "REFUNDED" ELSE "SUCCEEDED"
           row == [status |-> "SUCCEEDED", amount |-> a]
           d == NewEntry("refund", i, "REFUND_LIABILITY", "DEBIT", a)
           c == NewEntry("refund", i, "MERCHANT_RECEIVABLE", "CREDIT", a)
<1>1. /\ refund[i].status = "PENDING" /\ Write(i, to)
      /\ Commit(i, {}, row, build_refund_settled_pair(i, a))
  BY DEF Refunds
<1>2. RowTypes /\ StampInv /\ LedgerInv /\ RowInv(i) /\ \A j \in Payments : RowInv(j)
  BY DEF DbInv
<1>3. /\ build_refund_settled_pair(i, a) = {d, c}
      /\ build_refund_settled_pair(i, a) =
           Pair("refund", i, "REFUND_LIABILITY", "MERCHANT_RECEIVABLE", a)
      /\ d.tx[1] = "refund" /\ d.tx[2] = i /\ d.direction = "DEBIT"
      /\ c.tx[1] = "refund" /\ c.tx[2] = i /\ c.direction = "CREDIT" /\ c.amount_minor = a
  BY PairShape DEF build_refund_settled_pair
<1>4. row.status = "SUCCEEDED" /\ row.amount = a /\ (a = AmountMinor => row = FullRefund)
  BY DEF FullRefund
<1>5. /\ to \in {"REFUNDED", "SUCCEEDED"} /\ to \in PaymentStatus
      /\ to = "REFUNDED" => a = AmountMinor
  BY DEF PaymentStatus
<1>6. a \in 1 .. AmountMinor /\ a # 0
  <2>1. AmountMinor \in Nat
    BY ReadsAssumption
  <2>2. a \in 0 .. AmountMinor /\ a # 0
    BY <1>1, <1>2, Zenon DEF RowTypes, RowInv
  <2> QED
    BY <2>1, <2>2
<1>7. RowTypes'
  <2>1. row \in [status : {"NONE", "PENDING", "SUCCEEDED", "FAILED"}, amount : 0 .. AmountMinor]
    BY <1>2 DEF RowTypes
  <2>2. {} \in SUBSET Outcomes
    OBVIOUS
  <2> HIDE DEF to, row, a
  <2> QED
    BY <1>1, <1>2, <1>5, <2>1, <2>2, CommitTypes
<1> HIDE DEF a, to, row, d, c
<1>8. /\ status'[i] = to /\ events'[i] = events[i] \cup {to}
      /\ attempts'[i] = attempts[i] /\ refund'[i] = row
      /\ ledger' = ledger \cup {d, c}
      /\ created_at' = created_at
      /\ \A j \in Payments \ {i} :
           /\ status'[j] = status[j] /\ events'[j] = events[j]
           /\ attempts'[j] = attempts[j] /\ refund'[j] = refund[j]
  BY <1>1, <1>2, <1>3, Zenon DEF RowTypes, Write, Commit
<1>9. StampInv'
  BY <1>2, <1>8 DEF StampInv, begun
<1>10. LedgerInv'
  BY <1>2, <1>3, <1>6, <1>8, PairKeepsLedger, SMTT(30)
<1>11. RowInv(i)'
  <2>1. "SUCCEEDED" \in attempts[i] /\ Settlement(i) /\ created_at[i] # 0 /\ RefundCredits(i) = {}
    BY <1>1, <1>2 DEF RowInv
  <2>2. Settlement(i)'
    BY <1>8, <2>1 DEF Settlement
  <2>3. RefundCredits(i)' = {c} /\ c \in ledger'
    BY <1>3, <1>8, <2>1 DEF RefundCredits
  <2> QED
    BY <1>3, <1>4, <1>5, <1>6, <1>8, <2>1, <2>2, <2>3, Zenon DEF RowInv
<1>12. ASSUME NEW j \in Payments \ {i} PROVE RowInv(j)'
  <2>1. ledger \subseteq ledger' /\ \A e \in ledger' \ ledger : e.tx[2] # j
    BY <1>3, <1>8
  <2> QED
    BY <1>2, <1>8, <2>1, OthersAgree
<1>13. Grows
  BY <1>1, <1>4, <1>5, <1>8 DEF Grows
<1> QED
  BY <1>7, <1>9, <1>10, <1>11, <1>12, <1>13 DEF DbInv

\* A refund that fails leaves the ledger as it was.
LEMMA RefundFailKeeps ==
  ASSUME DbInv, NEW i \in Payments, RefundFails(i)
  PROVE  DbInv' /\ Grows
<1> DEFINE row == [status |-> "FAILED", amount |-> refund[i].amount]
<1>1. refund[i].status = "PENDING" /\ Write(i, "REFUND_FAILED") /\ Commit(i, {}, row, {})
  BY DEF RefundFails
<1>2. RowTypes /\ StampInv /\ LedgerInv /\ RowInv(i) /\ \A j \in Payments : RowInv(j)
  BY DEF DbInv
<1>3. row.status = "FAILED" /\ row.amount = refund[i].amount
  OBVIOUS
<1>4. RowTypes'
  <2>1. /\ "REFUND_FAILED" \in PaymentStatus /\ {} \in SUBSET Outcomes
        /\ row \in [status : {"NONE", "PENDING", "SUCCEEDED", "FAILED"}, amount : 0 .. AmountMinor]
    BY <1>2 DEF PaymentStatus, RowTypes
  <2> HIDE DEF row
  <2> QED
    BY <1>1, <1>2, <2>1, CommitTypes
<1> HIDE DEF row
<1>5. /\ status'[i] = "REFUND_FAILED" /\ events'[i] = events[i] \cup {"REFUND_FAILED"}
      /\ attempts'[i] = attempts[i] /\ refund'[i] = row
      /\ ledger' = ledger
      /\ created_at' = created_at
      /\ \A j \in Payments \ {i} :
           /\ status'[j] = status[j] /\ events'[j] = events[j]
           /\ attempts'[j] = attempts[j] /\ refund'[j] = refund[j]
  BY <1>1, <1>2 DEF RowTypes, Write, Commit
<1>6. StampInv' /\ LedgerInv'
  BY <1>2, <1>5 DEF StampInv, begun, LedgerInv, EntriesOf, Balance
<1>7. RowInv(i)'
  <2>1. /\ "SUCCEEDED" \in attempts[i] /\ Settlement(i) /\ created_at[i] # 0
        /\ RefundCredits(i) = {} /\ refund[i].amount # 0
    BY <1>1, <1>2 DEF RowInv
  <2>2. (Settlement(i)' <=> Settlement(i)) /\ RefundCredits(i)' = RefundCredits(i)
    BY <1>5, Zenon DEF Settlement, RefundCredits
  <2> QED
    BY <1>3, <1>5, <2>1, <2>2, Zenon DEF RowInv
<1>8. ASSUME NEW j \in Payments \ {i} PROVE RowInv(j)'
  BY <1>2, <1>5, OthersAgree
<1>9. Grows
  BY <1>1, <1>3, <1>5 DEF Grows
<1> QED
  BY <1>4, <1>6, <1>7, <1>8, <1>9 DEF DbInv

\* A creation that begins gets a stamp later than all others, and nobody sees it.
LEMMA BeginKeeps ==
  ASSUME DbInv, NEW i \in Payments, Begin(i)
  PROVE  DbInv' /\ Grows
<1> DEFINE stamp == Cardinality(begun) + 1
<1>1. /\ created_at[i] = 0 /\ created_at' = [created_at EXCEPT ![i] = stamp]
      /\ UNCHANGED <<status, events, attempts, refund, ledger>>
  BY DEF Begin, begun
<1>2. RowTypes /\ StampInv /\ LedgerInv /\ \A j \in Payments : RowInv(j)
  BY DEF DbInv
<1>3. IsFiniteSet(begun) /\ Cardinality(begun) \in Nat /\ stamp \in Nat /\ stamp # 0
  <2>1. begun \in SUBSET Payments /\ IsFiniteSet(Payments)
    BY ReadsAssumption DEF begun
  <2>2. IsFiniteSet(begun) /\ Cardinality(begun) \in Nat
    BY <2>1, FS_Subset, FS_CardinalityType
  <2> QED
    BY <2>2
<1>4. /\ created_at \in [Payments -> Nat]
      /\ \A j \in Payments : created_at[j] <= Cardinality(begun)
      /\ \A j, k \in Payments : created_at[j] = created_at[k] => j = k \/ created_at[j] = 0
  BY <1>2 DEF StampInv
<1>5. begun' = begun \cup {i} /\ i \notin begun
  BY <1>1, <1>3, <1>4 DEF begun
<1>6. Cardinality(begun') = stamp
  BY <1>3, <1>5, FS_AddElement
<1>7. ASSUME NEW j \in Payments
      PROVE  created_at[j] \in Nat /\ created_at[j] # stamp /\ created_at[j] <= stamp
  <2>1. created_at[j] \in Nat /\ created_at[j] <= Cardinality(begun)
    BY <1>4
  <2> QED
    BY <1>3, <2>1
<1> HIDE DEF stamp
<1>8. /\ created_at'[i] = stamp
      /\ \A j \in Payments \ {i} : created_at'[j] = created_at[j]
  BY <1>1, <1>4
<1>9. StampInv'
  <2>1. created_at' \in [Payments -> Nat]
    BY <1>1, <1>3, <1>4
  <2>2. \A j \in Payments : created_at'[j] <= Cardinality(begun')
    BY <1>3, <1>6, <1>7, <1>8
  <2>3. \A j, k \in Payments : created_at'[j] = created_at'[k] => j = k \/ created_at'[j] = 0
    BY <1>4, <1>7, <1>8
  <2> QED
    BY <2>1, <2>2, <2>3 DEF StampInv
<1>10. RowTypes' /\ LedgerInv'
  BY <1>1, <1>2 DEF RowTypes, LedgerInv, EntriesOf, Balance
<1>11. ASSUME NEW j \in Payments PROVE RowInv(j)'
  <2>1. (Settlement(j)' <=> Settlement(j)) /\ RefundCredits(j)' = RefundCredits(j)
    BY <1>1 DEF Settlement, RefundCredits
  <2>2. RowInv(j) /\ (created_at[j] # 0 => created_at'[j] # 0)
    BY <1>1, <1>2, <1>8
  <2> QED
    BY <1>1, <2>1, <2>2 DEF RowInv
<1>12. Grows
  <2>1. status[i] = "NONE"
    BY <1>1, <1>2, Zenon DEF RowInv
  <2> QED
    BY <1>1, <1>8, <2>1 DEF Grows
<1> QED
  BY <1>9, <1>10, <1>11, <1>12 DEF DbInv

\* What stays as it is keeps its invariant.
LEMMA ReadKeeps ==
  ASSUME DbInv, UNCHANGED dbVars
  PROVE  DbInv' /\ Grows
<1>1. /\ created_at' = created_at /\ status' = status /\ events' = events
      /\ attempts' = attempts /\ refund' = refund /\ ledger' = ledger
  BY Zenon DEF dbVars
<1>2. RowTypes' /\ StampInv' /\ LedgerInv'
  BY <1>1, Zenon DEF DbInv, RowTypes, StampInv, begun, LedgerInv, EntriesOf, Balance
<1>3. ASSUME NEW j \in Payments PROVE RowInv(j)'
  BY <1>1, OthersAgree DEF DbInv
<1> QED
  BY <1>1, <1>2, <1>3 DEF DbInv, Grows

Reader ==
  \/ \E t \in {"detail", "summary", "audit"}, i \in Payments : Open(t, i)
  \/ Execute \/ Count \/ list_payments \/ Close

\* Every step is a reader's, which leaves the database alone, or a writer's, which
\* leaves the reader alone and takes nothing back.
LEMMA EveryStep ==
  ASSUME DbInv, [Next]_vars
  PROVE  /\ DbInv' /\ Grows
         /\ UNCHANGED readerVars \/ (UNCHANGED dbVars /\ Reader)
<1>1. CASE UNCHANGED vars
  BY <1>1, ReadKeeps DEF vars
<1>2. CASE Reader
  <2>1. UNCHANGED dbVars
    BY <1>2 DEF Reader, Open, Execute, Count, list_payments, Close
  <2> QED
    BY <1>2, <2>1, ReadKeeps
<1>3. ASSUME NEW i \in Payments, Begin(i)
      PROVE  DbInv' /\ Grows /\ UNCHANGED readerVars
  BY <1>3, BeginKeeps DEF Begin, readerVars
<1>4. ASSUME NEW i \in Payments,
             \/ CreatePayment(i) \/ CapturePayment(i) \/ ReconcilePayment(i)
             \/ HandlePaymentOutcome(i) \/ RefundPayment(i)
      PROVE  DbInv' /\ Grows /\ UNCHANGED readerVars
  <2>1. Writes(i)
    BY <1>4, WritersWrite
  <2>2. UNCHANGED readerVars
    BY <2>1 DEF Writes, Advances, Settles, Reserves, Refunds, RefundFails, Commit
  <2> QED
    BY <2>1, <2>2, AdvanceKeeps, SettleKeeps, ReserveKeeps, RefundKeeps, RefundFailKeeps DEF Writes
<1> QED
  BY <1>1, <1>2, <1>3, <1>4 DEF Next, Reader

-------------------------------------------------------------------------------
(***************************************************************************)
(* The writers leave a page explained.                                     *)
(***************************************************************************)

\* The sums of the ledger never fall.
LEMMA BalanceGrows ==
  ASSUME LedgerInv, LedgerInv', ledger \subseteq ledger', NEW s \in {"DEBIT", "CREDIT"}
  PROVE  /\ Balance(s) \in Nat /\ Balance(s)' \in Nat
         /\ Balance(s) <= Balance(s)'
<1> DEFINE old == [e \in ledger |-> e.amount_minor]
           new == [e \in ledger' |-> e.amount_minor]
           rows == { e \in ledger : e.direction = s }
           more == { e \in ledger' : e.direction = s }
<1>1. /\ IsFiniteSet(ledger) /\ ledger \subseteq LedgerEntry
      /\ IsFiniteSet(ledger') /\ ledger' \subseteq LedgerEntry
  BY DEF LedgerInv, LedgerEntry
<1>2. more \in SUBSET ledger' /\ rows \in SUBSET more
  OBVIOUS
<1>3. IsFiniteSet(more)
  BY <1>1, <1>2, FS_Subset
<1>4. (\A e \in more : new[e] \in Nat) /\ \A e \in rows : old[e] = new[e] /\ old[e] \in Nat
  BY <1>1, EntryAmount
<1>5. Balance(s) = SumAmounts(old, rows) /\ Balance(s)' = SumAmounts(new, more)
  BY DEF Balance, _sum_by_direction
<1> HIDE DEF old, new, rows, more
<1>6. IsFiniteSet(rows)
  BY <1>2, <1>3, FS_Subset
<1>7. SumAmounts(old, rows) \in Nat /\ SumAmounts(new, more) \in Nat
  BY <1>3, <1>4, <1>6, SumAmountsType
<1>8. SumAmounts(old, rows) = SumAmounts(new, rows)
  BY <1>4, SumAmountsSame
<1>9. SumAmounts(new, rows) <= SumAmounts(new, more)
  BY <1>2, <1>3, <1>4, SumAmountsMonotone
<1> QED
  BY <1>5, <1>7, <1>8, <1>9

\* The row number of a visible payment never falls: no row comes before a page
\* that is already read, except by moving rows further down.
LEMMA RowNumberGrows ==
  ASSUME StampInv, Grows, NEW i \in Visible
  PROVE  /\ i \in Visible'
         /\ RowNumber(i) \in Nat /\ RowNumber(i)' \in Nat
         /\ RowNumber(i) <= RowNumber(i)'
<1> DEFINE old == { j \in Visible : created_at[j] >= created_at[i] }
           new == { j \in Visible' : created_at'[j] >= created_at'[i] }
<1>1. /\ Visible \subseteq Visible' /\ Visible' \subseteq Payments
      /\ \A j \in Visible : created_at'[j] = created_at[j]
  BY DEF Grows, Visible
<1>2. old \in SUBSET new /\ new \in SUBSET Payments
  BY <1>1
<1>3. IsFiniteSet(new) /\ IsFiniteSet(old)
  BY <1>2, FS_Subset, ReadsAssumption
<1>4. RowNumber(i) = Cardinality(old) /\ RowNumber(i)' = Cardinality(new)
  BY DEF RowNumber
<1> HIDE DEF old, new
<1>5. Cardinality(old) \in Nat /\ Cardinality(new) \in Nat /\ Cardinality(old) <= Cardinality(new)
  BY <1>2, <1>3, FS_Subset, FS_CardinalityType
<1> QED
  BY <1>1, <1>4, <1>5

\* Whatever commits between two statements, the page stays explained.
LEMMA WriterKeepsPage ==
  ASSUME DbInv, DbInv', Grows, PageInv, UNCHANGED readerVars
  PROVE  PageInv'
<1>1. task' = task /\ target' = target /\ shown' = shown /\ walk' = walk
  BY DEF readerVars
<1>2. TaskInv'
  BY <1>1 DEF PageInv, TaskInv
<1>3. Visible \subseteq Visible'
  BY DEF Grows, Visible
<1>4. DetailInv'
  <2>1. CASE task # "detail"
    BY <1>1, <2>1, Zenon DEF DetailInv
  <2>2. CASE task = "detail"
    <3>1. DetailInv /\ target \in Visible /\ target \in Payments
      BY <2>2 DEF PageInv, DetailInv, Visible
    <3>2. /\ events[target] \subseteq events'[target]
          /\ attempts[target] \subseteq attempts'[target]
          /\ refund[target].status # "NONE" => refund'[target].status # "NONE"
          /\ refund[target].status = "SUCCEEDED" => refund'[target] = refund[target]
      BY <3>1 DEF Grows
    <3>3. refund[target] = FullRefund => refund'[target] = FullRefund
      <4>1. FullRefund.status = "SUCCEEDED"
        BY DEF FullRefund
      <4> QED
        BY <3>2, <4>1
    <3>4. Settlement(target) => Settlement(target)'
      BY <1>1, Zenon DEF Settlement, Grows
    <3>5. /\ shown'.intent \in Settled <=> shown.intent \in Settled
          /\ Posted(shown.ledger_entries, "payment", "CREDIT")' = Posted(shown.ledger_entries, "payment", "CREDIT")
          /\ Posted(shown.ledger_entries, "refund", "CREDIT")' = Posted(shown.ledger_entries, "refund", "CREDIT")
      BY <1>1 DEF Posted
    <3>6. (FullRefund)' = FullRefund /\ AmountMinor' = AmountMinor
      BY DEF FullRefund
    <3> QED
      BY <1>1, <1>3, <2>2, <3>1, <3>2, <3>3, <3>4, <3>5, <3>6, Zenon DEF DetailInv
  <2> QED
    BY <2>1, <2>2
<1>5. SummaryInv'
  <2>1. FullyRefunded \in SUBSET FullyRefunded' /\ FullyRefunded' \in SUBSET Payments
    BY DEF FullyRefunded, FullRefund, Grows
  <2>2. IsFiniteSet(FullyRefunded') /\ IsFiniteSet(FullyRefunded)
    BY <2>1, FS_Subset, ReadsAssumption
  <2>3. /\ Cardinality(FullyRefunded) \in Nat /\ Cardinality(FullyRefunded') \in Nat
        /\ Cardinality(FullyRefunded) <= Cardinality(FullyRefunded')
    BY <2>1, <2>2, FS_Subset, FS_CardinalityType
  <2> QED
    BY <1>1, <2>3 DEF PageInv, SummaryInv
<1>6. AuditInv'
  <2>1. Balance("CREDIT") \in Nat /\ Balance("CREDIT")' \in Nat /\ Balance("CREDIT") <= Balance("CREDIT")'
    BY BalanceGrows DEF DbInv, Grows
  <2> QED
    BY <1>1, <2>1, SMTT(30) DEF PageInv, AuditInv
<1>7. WalkInv'
  <2>1. WalkInv /\ walk.offset \in Nat
    BY DEF PageInv, WalkInv
  <2>2. \A i \in (walk.due \ walk.seen) : RowNumber(i)' > walk.offset
    <3>1. SUFFICES ASSUME NEW i \in walk.due \ walk.seen PROVE RowNumber(i)' > walk.offset
      OBVIOUS
    <3>2. i \in Visible /\ RowNumber(i) > walk.offset
      BY <2>1 DEF WalkInv
    <3>3. RowNumber(i) \in Nat /\ RowNumber(i)' \in Nat /\ RowNumber(i) <= RowNumber(i)'
      BY <3>2, RowNumberGrows DEF DbInv
    <3> QED
      BY <2>1, <3>2, <3>3
  <2> QED
    BY <1>1, <1>3, <2>1, <2>2 DEF WalkInv, WalkComplete, NoWalk
<1> QED
  BY <1>2, <1>4, <1>5, <1>6, <1>7 DEF PageInv

-------------------------------------------------------------------------------
(***************************************************************************)
(* The reader's own steps.                                                 *)
(***************************************************************************)

\* One more statement has returned.
Adds(s) ==
  /\ s \in DOMAIN shown' /\ shown'[s] = Select(s)
  /\ DOMAIN shown' = DOMAIN shown \cup {s}
  /\ \A r \in DOMAIN shown : shown'[r] = shown[r]

\* The statements of a page are made in their order.
LEMMA ExecuteAdds ==
  ASSUME Execute
  PROVE  \E n \in DOMAIN Statements(task) :
           /\ DOMAIN shown = { Statements(task)[m] : m \in 1 .. (n - 1) }
           /\ Statements(task)[n] \notin DOMAIN shown => Adds(Statements(task)[n])
<1>1. PICK n \in DOMAIN Statements(task) :
        /\ DOMAIN shown = { Statements(task)[m] : m \in 1 .. (n - 1) }
        /\ shown' = [s \in DOMAIN shown \cup {Statements(task)[n]} |->
                       IF s \in DOMAIN shown THEN shown[s] ELSE Select(s)]
  BY DEF Execute
<1> DEFINE st == Statements(task)[n]
<1>2. /\ shown' = [s \in DOMAIN shown \cup {st} |-> IF s \in DOMAIN shown THEN shown[s] ELSE Select(s)]
      /\ DOMAIN shown = { Statements(task)[m] : m \in 1 .. (n - 1) }
  BY <1>1
<1> HIDE DEF st
<1>3. st \notin DOMAIN shown => Adds(st)
  BY <1>2 DEF Adds
<1> QED
  BY <1>2, <1>3 DEF st

\* The detail page: the payment, its events, its attempts, its refunds, its ledger.
LEMMA DetailAdds ==
  ASSUME Execute, task = "detail"
  PROVE  \/ DOMAIN shown = {} /\ Adds("intent")
         \/ DOMAIN shown = {"intent"} /\ Adds("events")
         \/ DOMAIN shown = {"intent", "events"} /\ Adds("attempts")
         \/ DOMAIN shown = {"intent", "events", "attempts"} /\ Adds("refunds")
         \/ DOMAIN shown = {"intent", "events", "attempts", "refunds"} /\ Adds("ledger_entries")
<1> DEFINE st == Statements(task)
<1>1. st = <<"intent", "events", "attempts", "refunds", "ledger_entries">>
  BY DEF Statements, get_payment_detail
<1>2. /\ DOMAIN st = 1 .. 5 /\ st[1] = "intent" /\ st[2] = "events" /\ st[3] = "attempts"
      /\ st[4] = "refunds" /\ st[5] = "ledger_entries"
  BY <1>1
<1>3. PICK n \in DOMAIN st :
        /\ DOMAIN shown = { st[m] : m \in 1 .. (n - 1) }
        /\ st[n] \notin DOMAIN shown => Adds(st[n])
  BY ExecuteAdds, Zenon
<1> HIDE DEF st
<1>4. n = 1 \/ n = 2 \/ n = 3 \/ n = 4 \/ n = 5
  BY <1>2
<1>5. CASE n = 1
  <2>1. DOMAIN shown = {}
    BY <1>3, <1>5
  <2> QED
    BY <1>2, <1>3, <1>5, <2>1
<1>6. CASE n = 2
  <2>1. DOMAIN shown = {"intent"}
    BY <1>2, <1>3, <1>6
  <2> QED
    BY <1>2, <1>3, <1>6, <2>1
<1>7. CASE n = 3
  <2>1. DOMAIN shown = {"intent", "events"}
    BY <1>2, <1>3, <1>7
  <2> QED
    BY <1>2, <1>3, <1>7, <2>1
<1>8. CASE n = 4
  <2>1. DOMAIN shown = {"intent", "events", "attempts"}
    BY <1>2, <1>3, <1>8
  <2> QED
    BY <1>2, <1>3, <1>8, <2>1
<1>9. CASE n = 5
  <2>1. DOMAIN shown = {"intent", "events", "attempts", "refunds"}
    BY <1>2, <1>3, <1>9
  <2> QED
    BY <1>2, <1>3, <1>9, <2>1
<1> QED
  BY <1>4, <1>5, <1>6, <1>7, <1>8, <1>9

\* The landing page: the counts before the totals.
LEMMA SummaryAdds ==
  ASSUME Execute, task = "summary"
  PROVE  \/ DOMAIN shown = {} /\ Adds("counts_by_status")
         \/ DOMAIN shown = {"counts_by_status"} /\ Adds("total_succeeded_amount")
         \/ /\ DOMAIN shown = {"counts_by_status", "total_succeeded_amount"}
            /\ Adds("total_refunded_amount")
<1> DEFINE st == Statements(task)
<1>1. st = <<"counts_by_status", "total_succeeded_amount", "total_refunded_amount">>
  BY DEF Statements, get_dashboard_summary
<1>2. /\ DOMAIN st = 1 .. 3 /\ st[1] = "counts_by_status" /\ st[2] = "total_succeeded_amount"
      /\ st[3] = "total_refunded_amount"
  BY <1>1
<1>3. PICK n \in DOMAIN st :
        /\ DOMAIN shown = { st[m] : m \in 1 .. (n - 1) }
        /\ st[n] \notin DOMAIN shown => Adds(st[n])
  BY ExecuteAdds, Zenon
<1> HIDE DEF st
<1>4. n = 1 \/ n = 2 \/ n = 3
  BY <1>2
<1>5. CASE n = 1
  <2>1. DOMAIN shown = {}
    BY <1>3, <1>5
  <2> QED
    BY <1>2, <1>3, <1>5, <2>1
<1>6. CASE n = 2
  <2>1. DOMAIN shown = {"counts_by_status"}
    BY <1>2, <1>3, <1>6
  <2> QED
    BY <1>2, <1>3, <1>6, <2>1
<1>7. CASE n = 3
  <2>1. DOMAIN shown = {"counts_by_status", "total_succeeded_amount"}
    BY <1>2, <1>3, <1>7
  <2> QED
    BY <1>2, <1>3, <1>7, <2>1
<1> QED
  BY <1>4, <1>5, <1>6, <1>7

\* The audit: the debits before the credits.
LEMMA AuditAdds ==
  ASSUME Execute, task = "audit"
  PROVE  \/ DOMAIN shown = {} /\ Adds("DEBIT")
         \/ DOMAIN shown = {"DEBIT"} /\ Adds("CREDIT")
<1> DEFINE st == Statements(task)
<1>1. st = <<"DEBIT", "CREDIT">>
  BY DEF Statements, global_ledger_balance
<1>2. DOMAIN st = 1 .. 2 /\ st[1] = "DEBIT" /\ st[2] = "CREDIT"
  BY <1>1
<1>3. PICK n \in DOMAIN st :
        /\ DOMAIN shown = { st[m] : m \in 1 .. (n - 1) }
        /\ st[n] \notin DOMAIN shown => Adds(st[n])
  BY ExecuteAdds, Zenon
<1> HIDE DEF st
<1>4. n = 1 \/ n = 2
  BY <1>2
<1>5. CASE n = 1
  <2>1. DOMAIN shown = {}
    BY <1>3, <1>5
  <2> QED
    BY <1>2, <1>3, <1>5, <2>1
<1>6. CASE n = 2
  <2>1. DOMAIN shown = {"DEBIT"}
    BY <1>2, <1>3, <1>6
  <2> QED
    BY <1>2, <1>3, <1>6, <2>1
<1> QED
  BY <1>4, <1>5, <1>6

\* What is posted is at least any one of its entries.
LEMMA PostedMember ==
  ASSUME NEW E, IsFiniteSet(E), E \subseteq LedgerEntry, NEW kind, NEW direction,
         NEW e \in E, e.tx[1] = kind, e.direction = direction
  PROVE  Posted(E, kind, direction) >= e.amount_minor
<1> DEFINE amount == [f \in E |-> f.amount_minor]
           rows == { f \in E : f.tx[1] = kind /\ f.direction = direction }
<1>1. rows \in SUBSET E /\ e \in rows /\ amount[e] = e.amount_minor
  OBVIOUS
<1>2. IsFiniteSet(rows)
  BY <1>1, FS_Subset
<1>3. \A f \in rows : amount[f] \in Nat
  BY EntryAmount
<1>4. Posted(E, kind, direction) = SumAmounts(amount, rows)
  BY DEF Posted
<1> HIDE DEF amount, rows
<1>5. amount[e] <= SumAmounts(amount, rows)
  BY <1>1, <1>2, <1>3, SumAmountsMember
<1>6. amount[e] \in Nat /\ SumAmounts(amount, rows) \in Nat
  BY <1>1, <1>2, <1>3, SumAmountsType
<1> QED
  BY <1>1, <1>4, <1>5, <1>6

\* What is posted by one entry is its amount.
LEMMA PostedOne ==
  ASSUME NEW E, E \subseteq LedgerEntry, NEW kind, NEW direction, NEW e \in E,
         { f \in E : f.tx[1] = kind /\ f.direction = direction } = {e}
  PROVE  Posted(E, kind, direction) = e.amount_minor
<1> DEFINE amount == [f \in E |-> f.amount_minor]
<1>1. amount[e] = e.amount_minor /\ amount[e] \in Nat
  BY EntryAmount
<1>2. Posted(E, kind, direction) = SumAmounts(amount, {e})
  BY Zenon DEF Posted
<1> HIDE DEF amount
<1> QED
  BY <1>1, <1>2, SumAmountsOne, Zenon

\* What the statements of the detail page return.
LEMMA DetailSelects ==
  /\ Select("intent") = status[target] /\ Select("events") = events[target]
  /\ Select("attempts") = attempts[target] /\ Select("refunds") = refund[target]
  /\ Select("ledger_entries") = EntriesOf(target)
BY DEF Select

\* The next statement of the detail page finds what the earlier ones have shown.
LEMMA ExecuteKeepsDetail ==
  ASSUME DbInv, PageInv, Execute, task = "detail"
  PROVE  DetailInv'
<1>1. /\ task' = task /\ target' = target /\ created_at' = created_at /\ status' = status
      /\ events' = events /\ attempts' = attempts /\ refund' = refund /\ ledger' = ledger
  BY DEF Execute, dbVars
<1>2. target \in Payments /\ status[target] # "NONE" /\ target \in Visible /\ target' \in Visible'
  BY <1>1 DEF PageInv, DetailInv, Visible
<1>3. RowInv(target)
  BY <1>2 DEF DbInv
<1>4. Settlement(target)' <=> Settlement(target)
  BY <1>1, Zenon DEF Settlement
<1>5. /\ "intent" \in DOMAIN shown =>
           /\ shown.intent \in events[target]
           /\ shown.intent \in Settled => "SUCCEEDED" \in attempts[target] /\ Settlement(target)
           /\ shown.intent = "REFUND_PENDING" => refund[target].status # "NONE"
           /\ shown.intent = "REFUNDED" => refund[target] = FullRefund
      /\ "events" \in DOMAIN shown => shown.intent \in shown.events
      /\ "attempts" \in DOMAIN shown /\ shown.intent \in Settled => "SUCCEEDED" \in shown.attempts
      /\ "refunds" \in DOMAIN shown =>
           /\ shown.intent = "REFUND_PENDING" => shown.refunds.status # "NONE"
           /\ shown.intent = "REFUNDED" => shown.refunds = FullRefund
           /\ shown.refunds.status = "SUCCEEDED" => refund[target] = shown.refunds
  BY DEF PageInv, DetailInv
<1>6. CASE DOMAIN shown = {} /\ Adds("intent")
  <2>1. DOMAIN shown' = {"intent"} /\ shown'.intent = status[target]
    BY <1>6, DetailSelects, Zenon DEF Adds
  <2> QED
    BY <1>1, <1>2, <1>3, <1>4, <2>1, ZenonT(30) DEF DetailInv, RowInv
<1>7. CASE DOMAIN shown = {"intent"} /\ Adds("events")
  <2>1. /\ DOMAIN shown' = {"intent", "events"} /\ shown'.intent = shown.intent
        /\ shown'.events = events[target]
    BY <1>7, DetailSelects, Zenon DEF Adds
  <2> QED
    BY <1>1, <1>2, <1>4, <1>5, <1>7, <2>1, Zenon DEF DetailInv
<1>8. CASE DOMAIN shown = {"intent", "events"} /\ Adds("attempts")
  <2>1. /\ DOMAIN shown' = {"intent", "events", "attempts"} /\ shown'.intent = shown.intent
        /\ shown'.events = shown.events /\ shown'.attempts = attempts[target]
    BY <1>8, DetailSelects, Zenon DEF Adds
  <2> QED
    BY <1>1, <1>2, <1>4, <1>5, <1>8, <2>1 DEF DetailInv
<1>9. CASE DOMAIN shown = {"intent", "events", "attempts"} /\ Adds("refunds")
  <2>1. /\ DOMAIN shown' = {"intent", "events", "attempts", "refunds"} /\ shown'.intent = shown.intent
        /\ shown'.events = shown.events /\ shown'.attempts = shown.attempts
        /\ shown'.refunds = refund[target]
    BY <1>9, DetailSelects, Zenon DEF Adds
  <2> QED
    BY <1>1, <1>2, <1>4, <1>5, <1>9, <2>1, Zenon DEF DetailInv
<1>10. CASE DOMAIN shown = {"intent", "events", "attempts", "refunds"} /\ Adds("ledger_entries")
  <2>1. /\ DOMAIN shown' = {"intent", "events", "attempts", "refunds", "ledger_entries"}
        /\ shown'.intent = shown.intent /\ shown'.events = shown.events
        /\ shown'.attempts = shown.attempts /\ shown'.refunds = shown.refunds
        /\ shown'.ledger_entries = EntriesOf(target)
    BY <1>10, DetailSelects DEF Adds
  <2>2. EntriesOf(target) \in SUBSET ledger /\ ledger \subseteq LedgerEntry /\ IsFiniteSet(ledger)
    BY DEF EntriesOf, DbInv, LedgerInv
  <2>3. IsFiniteSet(EntriesOf(target)) /\ EntriesOf(target) \subseteq LedgerEntry
    BY <2>2, FS_Subset
  <2>4. ASSUME shown.intent \in Settled
        PROVE  Posted(EntriesOf(target), "payment", "CREDIT") >= AmountMinor
    <3>1. PICK e \in EntriesOf(target) :
            e.tx[1] = "payment" /\ e.direction = "CREDIT" /\ e.amount_minor = AmountMinor
      BY <1>5, <1>10, <2>4 DEF Settlement, EntriesOf
    <3>2. Posted(EntriesOf(target), "payment", "CREDIT") >= e.amount_minor
      BY <2>3, <3>1, PostedMember
    <3> QED
      BY <3>1, <3>2
  <2>5. ASSUME shown.refunds.status = "SUCCEEDED"
        PROVE  Posted(EntriesOf(target), "refund", "CREDIT") = shown.refunds.amount
    <3>1. refund[target] = shown.refunds
      BY <1>5, <1>10, <2>5
    <3>2. PICK e \in ledger : RefundCredits(target) = {e} /\ e.amount_minor = refund[target].amount
      BY <1>3, <2>5, <3>1 DEF RowInv
    <3>3. /\ { f \in EntriesOf(target) : f.tx[1] = "refund" /\ f.direction = "CREDIT" } = {e}
          /\ e \in EntriesOf(target)
      BY <3>2 DEF RefundCredits, EntriesOf
    <3> QED
      BY <2>3, <3>1, <3>2, <3>3, PostedOne, SMTT(30)
  <2>6. /\ Posted(shown.ledger_entries, "payment", "CREDIT")' = Posted(EntriesOf(target), "payment", "CREDIT")
        /\ Posted(shown.ledger_entries, "refund", "CREDIT")' = Posted(EntriesOf(target), "refund", "CREDIT")
    BY <2>1 DEF Posted
  <2> QED
    BY <1>1, <1>2, <1>4, <1>5, <1>10, <2>1, <2>4, <2>5, <2>6, Zenon DEF DetailInv
<1> QED
  BY <1>6, <1>7, <1>8, <1>9, <1>10, DetailAdds

\* Fewer payments of one amount are worth no more.
LEMMA TimesMonotone ==
  ASSUME NEW c \in Nat, NEW k \in Nat, NEW a \in Nat, c <= k
  PROVE  c * a <= k * a
OBVIOUS

\* The refunded total covers every payment that is fully refunded.
LEMMA TotalCoversRefunded ==
  ASSUME DbInv
  PROVE  /\ IsFiniteSet(FullyRefunded) /\ Cardinality(FullyRefunded) \in Nat
         /\ Select("total_refunded_amount") \in Nat
         /\ Cardinality(FullyRefunded) * AmountMinor <= Select("total_refunded_amount")
<1> DEFINE amount == [i \in Payments |-> refund[i].amount]
           rows == { i \in Payments : refund[i].status = "SUCCEEDED" }
<1>1. AmountMinor \in Nat /\ IsFiniteSet(Payments)
  BY ReadsAssumption
<1>2. /\ FullyRefunded \in SUBSET rows /\ rows \in SUBSET Payments
      /\ \A i \in FullyRefunded : amount[i] = AmountMinor
  BY DEF FullyRefunded, FullRefund
<1>3. \A i \in rows : amount[i] \in Nat
  <2>1. SUFFICES ASSUME NEW i \in rows PROVE amount[i] \in Nat
    OBVIOUS
  <2>2. refund[i].amount \in 0 .. AmountMinor
    BY DEF DbInv, RowTypes
  <2>3. refund[i].amount \in Nat
    BY <1>1, <2>2
  <2> QED
    BY <2>3
<1>4. Select("total_refunded_amount") = SumAmounts(amount, rows)
  BY DEF Select
<1> HIDE DEF amount, rows
<1>5. IsFiniteSet(rows)
  BY <1>1, <1>2, FS_Subset
<1>6. IsFiniteSet(FullyRefunded) /\ Cardinality(FullyRefunded) \in Nat
  BY <1>2, <1>5, FS_Subset, FS_CardinalityType
<1>7. SumAmounts(amount, FullyRefunded) = Cardinality(FullyRefunded) * AmountMinor
  BY <1>1, <1>2, <1>6, SumAmountsConstant
<1>8. SumAmounts(amount, FullyRefunded) <= SumAmounts(amount, rows)
  BY <1>2, <1>3, <1>5, SumAmountsMonotone
<1>9. SumAmounts(amount, rows) \in Nat
  BY <1>3, <1>5, SumAmountsType
<1> QED
  BY <1>4, <1>6, <1>7, <1>8, <1>9

\* The payments counted as REFUNDED are fully refunded.
LEMMA CountedAreRefunded ==
  ASSUME DbInv, "REFUNDED" \in DOMAIN Select("counts_by_status")
  PROVE  /\ Select("counts_by_status")["REFUNDED"] \in Nat
         /\ Select("counts_by_status")["REFUNDED"] <= Cardinality(FullyRefunded)
<1> DEFINE counted == { i \in Payments : status[i] = "REFUNDED" }
<1>1. Select("counts_by_status") =
        [s \in Range(status) \ {"NONE"} |-> Cardinality({ i \in Payments : status[i] = s })]
  BY DEF Select
<1>2. Select("counts_by_status")["REFUNDED"] = Cardinality(counted)
  BY <1>1
<1>3. counted \in SUBSET FullyRefunded
  BY DEF FullyRefunded, DbInv, RowInv
<1>4. IsFiniteSet(FullyRefunded) /\ Cardinality(FullyRefunded) \in Nat
  BY TotalCoversRefunded
<1> HIDE DEF counted
<1>5. IsFiniteSet(counted) /\ Cardinality(counted) \in Nat /\ Cardinality(counted) <= Cardinality(FullyRefunded)
  BY <1>3, <1>4, FS_Subset, FS_CardinalityType
<1> QED
  BY <1>2, <1>5

\* The next statement of the landing page covers what the counts have shown.
LEMMA ExecuteKeepsSummary ==
  ASSUME DbInv, PageInv, Execute, task = "summary"
  PROVE  SummaryInv'
<1>1. task' = task /\ FullyRefunded' = FullyRefunded
  BY DEF Execute, dbVars, FullyRefunded, FullRefund
<1>2. "counts_by_status" \in DOMAIN shown /\ "REFUNDED" \in DOMAIN shown.counts_by_status =>
        /\ shown.counts_by_status["REFUNDED"] \in Nat
        /\ shown.counts_by_status["REFUNDED"] <= Cardinality(FullyRefunded)
  BY DEF PageInv, SummaryInv
<1>3. CASE DOMAIN shown = {} /\ Adds("counts_by_status")
  <2>1. DOMAIN shown' = {"counts_by_status"} /\ shown'.counts_by_status = Select("counts_by_status")
    BY <1>3 DEF Adds
  <2> QED
    BY <1>1, <2>1, CountedAreRefunded DEF SummaryInv
<1>4. CASE DOMAIN shown = {"counts_by_status"} /\ Adds("total_succeeded_amount")
  <2>1. /\ DOMAIN shown' = {"counts_by_status", "total_succeeded_amount"}
        /\ shown'.counts_by_status = shown.counts_by_status
    BY <1>4 DEF Adds
  <2> QED
    BY <1>1, <1>2, <1>4, <2>1 DEF SummaryInv
<1>5. CASE /\ DOMAIN shown = {"counts_by_status", "total_succeeded_amount"}
           /\ Adds("total_refunded_amount")
  <2>1. /\ shown'.counts_by_status = shown.counts_by_status
        /\ shown'.total_refunded_amount = Select("total_refunded_amount")
    BY <1>5 DEF Adds
  <2> DEFINE c == shown.counts_by_status["REFUNDED"]
             k == Cardinality(FullyRefunded)
             total == Select("total_refunded_amount")
  <2>2. ASSUME "REFUNDED" \in DOMAIN shown.counts_by_status
        PROVE  c \in Nat /\ c <= k /\ c * AmountMinor <= total
    <3>1. c \in Nat /\ c <= k
      BY <1>2, <1>5, <2>2
    <3>2. k \in Nat /\ k * AmountMinor <= total /\ total \in Nat
      BY TotalCoversRefunded
    <3>3. AmountMinor \in Nat
      BY ReadsAssumption
    <3> HIDE DEF c, k, total
    <3>4. c * AmountMinor <= k * AmountMinor
      BY <3>1, <3>2, <3>3, TimesMonotone
    <3>5. c * AmountMinor \in Nat /\ k * AmountMinor \in Nat
      BY <3>1, <3>2, <3>3
    <3> QED
      BY <3>1, <3>2, <3>3, <3>4, <3>5
  <2> QED
    BY <1>1, <2>1, <2>2 DEF SummaryInv
<1> QED
  BY <1>3, <1>4, <1>5, SummaryAdds

\* The credits are added after the debits, so they have reached them.
LEMMA ExecuteKeepsAudit ==
  ASSUME DbInv, PageInv, Execute, task = "audit"
  PROVE  AuditInv'
<1>1. task' = task /\ Balance("CREDIT")' = Balance("CREDIT")
  BY DEF Execute, dbVars, Balance
<1>2. /\ Select("DEBIT") = Balance("DEBIT") /\ Select("CREDIT") = Balance("CREDIT")
      /\ Balance("DEBIT") = Balance("CREDIT") /\ Balance("CREDIT") \in Nat
  <2>1. Select("DEBIT") = Balance("DEBIT") /\ Select("CREDIT") = Balance("CREDIT")
    BY DEF Select, Balance
  <2>2. Balance("DEBIT") = Balance("CREDIT") /\ Balance("CREDIT") \in Nat
    BY BalanceType DEF DbInv, LedgerInv
  <2> QED
    BY <2>1, <2>2
<1>3. CASE DOMAIN shown = {} /\ Adds("DEBIT")
  <2>1. DOMAIN shown' = {"DEBIT"} /\ shown'.DEBIT = Balance("CREDIT")
    BY <1>2, <1>3 DEF Adds
  <2> QED
    BY <1>1, <1>2, <2>1 DEF AuditInv
<1>4. CASE DOMAIN shown = {"DEBIT"} /\ Adds("CREDIT")
  <2>1. shown'.DEBIT = shown.DEBIT /\ shown'.CREDIT = Balance("CREDIT")
    BY <1>2, <1>4 DEF Adds
  <2>2. shown.DEBIT \in Nat /\ shown.DEBIT <= Balance("CREDIT")
    BY <1>4 DEF PageInv, AuditInv
  <2> QED
    BY <1>1, <2>1, <2>2 DEF AuditInv
<1> QED
  BY <1>3, <1>4, AuditAdds

\* A statement leaves the other pages, and the walk, as they were.
LEMMA ExecuteKeepsPage ==
  ASSUME DbInv, PageInv, Execute
  PROVE  PageInv'
<1>1. /\ task' = task /\ target' = target /\ walk' = walk /\ UNCHANGED dbVars
      /\ task \in {"detail", "summary", "audit"}
  BY DEF Execute
<1>2. DetailInv'
  BY <1>1, ExecuteKeepsDetail DEF DetailInv
<1>3. SummaryInv'
  BY <1>1, ExecuteKeepsSummary DEF SummaryInv
<1>4. AuditInv'
  BY <1>1, ExecuteKeepsAudit DEF AuditInv
<1>5. TaskInv'
  BY <1>1 DEF PageInv, TaskInv
<1>6. WalkInv'
  <2>1. Visible' = Visible /\ \A i : RowNumber(i)' = RowNumber(i)
    BY <1>1 DEF dbVars, Visible, RowNumber
  <2> QED
    BY <1>1, <2>1 DEF PageInv, WalkInv, WalkComplete, NoWalk
<1> QED
  BY <1>2, <1>3, <1>4, <1>5, <1>6 DEF PageInv

\* A page is opened empty.
LEMMA OpenKeepsPage ==
  ASSUME DbInv, PageInv, NEW t \in {"detail", "summary", "audit"}, NEW i \in Payments, Open(t, i)
  PROVE  PageInv'
<1>1. /\ task = "idle" /\ task' = t /\ target' = IF t = "detail" THEN i ELSE NoPayment
      /\ t = "detail" => i \in Visible
      /\ shown' = shown /\ walk' = walk /\ UNCHANGED dbVars
  BY DEF Open
<1>2. /\ DOMAIN shown' = {} /\ walk = NoWalk
      /\ walk \in [offset : Nat, total : Nat, due : SUBSET Payments, seen : SUBSET Payments, torn : BOOLEAN]
  BY <1>1 DEF PageInv, TaskInv, Nothing, WalkInv
<1>3. Visible' = Visible
  BY <1>1 DEF dbVars, Visible
<1>4. TaskInv'
  BY <1>1, Zenon DEF TaskInv
<1>5. DetailInv'
  BY <1>1, <1>2, <1>3 DEF DetailInv
<1>6. SummaryInv' /\ AuditInv'
  BY <1>2 DEF SummaryInv, AuditInv
<1>7. WalkInv'
  BY <1>1, <1>2 DEF WalkInv, WalkComplete, NoWalk
<1> QED
  BY <1>4, <1>5, <1>6, <1>7 DEF PageInv

\* A page is closed without a trace.
LEMMA CloseKeepsPage ==
  ASSUME Close
  PROVE  PageInv'
<1>1. task' = "idle" /\ target' = NoPayment /\ shown' = Nothing /\ walk' = NoWalk
  BY DEF Close
<1>2. TaskInv'
  BY <1>1 DEF TaskInv, Nothing
<1>3. DetailInv' /\ SummaryInv' /\ AuditInv'
  BY <1>1, Zenon DEF DetailInv, SummaryInv, AuditInv
<1>4. WalkInv'
  BY <1>1 DEF WalkInv, WalkComplete, NoWalk
<1> QED
  BY <1>2, <1>3, <1>4 DEF PageInv

\* A row's number is at least one, and at most the number of rows.
LEMMA RowNumberBounds ==
  ASSUME StampInv, NEW i \in Visible
  PROVE  /\ RowNumber(i) \in Nat /\ Cardinality(Visible) \in Nat
         /\ RowNumber(i) > 0 /\ RowNumber(i) <= Cardinality(Visible)
<1> DEFINE rows == { j \in Visible : created_at[j] >= created_at[i] }
<1>1. Visible \in SUBSET Payments /\ rows \in SUBSET Visible
  BY DEF Visible
<1>2. i \in rows
  <2>1. created_at[i] \in Nat
    BY <1>1 DEF StampInv
  <2> QED
    BY <2>1
<1>3. RowNumber(i) = Cardinality(rows)
  BY DEF RowNumber
<1> HIDE DEF rows
<1>4. IsFiniteSet(Visible) /\ Cardinality(Visible) \in Nat
  BY <1>1, FS_Subset, FS_CardinalityType, ReadsAssumption
<1>5. IsFiniteSet(rows) /\ Cardinality(rows) \in Nat /\ Cardinality(rows) <= Cardinality(Visible)
  BY <1>1, <1>4, FS_Subset, FS_CardinalityType
<1>6. Cardinality(rows) # 0
  BY <1>2, <1>5, FS_EmptySet
<1> QED
  BY <1>3, <1>4, <1>5, <1>6

\* The total is counted anew for every page.
LEMMA CountKeepsPage ==
  ASSUME DbInv, PageInv, Count
  PROVE  PageInv'
<1>1. /\ task \in {"idle", "counting"} /\ task' = "listing"
      /\ walk' = [walk EXCEPT !.total = Cardinality(Visible),
                              !.due = IF task = "idle" THEN Visible ELSE @]
      /\ UNCHANGED dbVars /\ target' = target /\ shown' = shown
  BY DEF Count
<1>2. /\ walk \in [offset : Nat, total : Nat, due : SUBSET Payments, seen : SUBSET Payments, torn : BOOLEAN]
      /\ walk.due \cup walk.seen \subseteq Visible
      /\ task = "idle" => walk = NoWalk
      /\ \A i \in walk.due \ walk.seen : RowNumber(i) > walk.offset
  BY DEF PageInv, WalkInv
<1>3. Visible' = Visible /\ (\A i : RowNumber(i)' = RowNumber(i)) /\ Visible \subseteq Payments
  BY <1>1 DEF dbVars, Visible, RowNumber
<1>4. Cardinality(Visible) \in Nat
  BY <1>3, FS_Subset, FS_CardinalityType, ReadsAssumption
<1>5. walk' \in [offset : Nat, total : Nat, due : SUBSET Payments, seen : SUBSET Payments, torn : BOOLEAN]
  BY <1>1, <1>2, <1>3, <1>4, Zenon
<1>6. /\ walk'.offset = walk.offset /\ walk'.seen = walk.seen
      /\ walk'.due = IF task = "idle" THEN Visible ELSE walk.due
  BY <1>1, <1>2
<1>7. ASSUME NEW i \in walk'.due \ walk'.seen PROVE RowNumber(i) > walk'.offset
  <2>1. CASE task = "idle"
    <3>1. walk'.offset = 0 /\ i \in Visible
      BY <1>2, <1>6, <1>7, <2>1 DEF NoWalk
    <3> QED
      BY <3>1, RowNumberBounds, Zenon DEF DbInv
  <2>2. CASE task # "idle"
    BY <1>2, <1>6, <1>7, <2>2
  <2> QED
    BY <2>1, <2>2
<1>8. WalkInv'
  BY <1>1, <1>2, <1>3, <1>5, <1>6, <1>7 DEF WalkInv, WalkComplete
<1>9. TaskInv' /\ DetailInv' /\ SummaryInv' /\ AuditInv'
  BY <1>1 DEF PageInv, TaskInv, DetailInv, SummaryInv, AuditInv
<1> QED
  BY <1>8, <1>9 DEF PageInv

\* A page shows the rows with its numbers: what it leaves out comes later.
LEMMA ListKeepsPage ==
  ASSUME DbInv, PageInv, list_payments
  PROVE  PageInv'
<1>1. /\ task = "listing"
      /\ walk' = [walk EXCEPT !.offset = @ + PAGE_SIZE,
                              !.seen = @ \cup Page(walk.offset),
                              !.torn = Cardinality(Visible) # walk.total]
      /\ task' = IF walk.offset + PAGE_SIZE < walk.total THEN "counting" ELSE "walked"
      /\ UNCHANGED dbVars /\ target' = target /\ shown' = shown
  BY DEF list_payments
<1>2. /\ walk \in [offset : Nat, total : Nat, due : SUBSET Payments, seen : SUBSET Payments, torn : BOOLEAN]
      /\ walk.due \cup walk.seen \subseteq Visible
      /\ \A i \in walk.due \ walk.seen : RowNumber(i) > walk.offset
  BY DEF PageInv, WalkInv
<1>3. Visible' = Visible /\ (\A i : RowNumber(i)' = RowNumber(i)) /\ Visible \subseteq Payments
  BY <1>1 DEF dbVars, Visible, RowNumber
<1>4. Page(walk.offset) \subseteq Visible /\ PAGE_SIZE \in Nat
  BY ReadsAssumption DEF Page
<1>5. walk' \in [offset : Nat, total : Nat, due : SUBSET Payments, seen : SUBSET Payments, torn : BOOLEAN]
  <2> DEFINE torn == Cardinality(Visible) # walk.total
             seen == walk.seen \cup Page(walk.offset)
             offset == walk.offset + PAGE_SIZE
  <2>1. torn \in BOOLEAN /\ seen \in SUBSET Payments
    BY <1>2, <1>3, <1>4
  <2>2. offset \in Nat
    BY <1>2, <1>4
  <2>3. walk' = [walk EXCEPT !.offset = offset, !.seen = seen, !.torn = torn]
    BY <1>1
  <2> HIDE DEF torn, seen, offset
  <2> QED
    BY <1>2, <2>1, <2>2, <2>3, ZenonT(30)
<1>6. /\ walk'.offset = walk.offset + PAGE_SIZE /\ walk'.total = walk.total /\ walk'.due = walk.due
      /\ walk'.seen = walk.seen \cup Page(walk.offset)
      /\ walk'.torn = (Cardinality(Visible) # walk.total)
      /\ walk.offset \in Nat /\ walk.total \in Nat
  BY <1>1, <1>2
<1>7. ASSUME NEW i \in walk'.due \ walk'.seen
      PROVE  /\ i \in Visible /\ RowNumber(i) \in Nat /\ RowNumber(i) > walk'.offset
             /\ RowNumber(i) <= Cardinality(Visible) /\ Cardinality(Visible) \in Nat
  <2>1. i \in Visible /\ RowNumber(i) > walk.offset /\ i \notin Page(walk.offset)
    BY <1>2, <1>6, <1>7
  <2>2. /\ RowNumber(i) \in Nat /\ RowNumber(i) <= Cardinality(Visible)
        /\ Cardinality(Visible) \in Nat
    BY <2>1, RowNumberBounds DEF DbInv
  <2>3. ~(RowNumber(i) <= walk.offset + PAGE_SIZE)
    BY <2>1 DEF Page
  <2> QED
    BY <1>4, <1>6, <2>1, <2>2, <2>3
<1>8. WalkComplete'
  <2>1. SUFFICES ASSUME task' = "walked", ~walk'.torn, NEW i \in walk'.due \ walk'.seen
                 PROVE  FALSE
    BY <1>5 DEF WalkComplete
  <2>2. ~(walk.offset + PAGE_SIZE < walk.total) /\ Cardinality(Visible) = walk.total
    BY <1>1, <1>6, <2>1, ZenonT(30)
  <2>3. /\ RowNumber(i) \in Nat /\ RowNumber(i) > walk.offset + PAGE_SIZE
        /\ RowNumber(i) <= walk.total
    BY <1>6, <1>7, <2>2
  <2> QED
    BY <1>4, <1>6, <2>2, <2>3
<1>9. WalkInv'
  BY <1>1, <1>2, <1>3, <1>4, <1>5, <1>6, <1>7, <1>8 DEF WalkInv
<1>10. TaskInv' /\ DetailInv' /\ SummaryInv' /\ AuditInv'
  BY <1>1 DEF PageInv, TaskInv, DetailInv, SummaryInv, AuditInv
<1> QED
  BY <1>9, <1>10 DEF PageInv

-------------------------------------------------------------------------------
(***************************************************************************)
(* The theorems.                                                           *)
(***************************************************************************)

\* Initially there are no rows, and nothing is being read.
LEMMA InitReads ==
  ASSUME Init
  PROVE  ReadsInv
<1>1. /\ created_at = [i \in Payments |-> 0] /\ status = [i \in Payments |-> "NONE"]
      /\ events = [i \in Payments |-> {}] /\ attempts = [i \in Payments |-> {}]
      /\ refund = [i \in Payments |-> NoRefund] /\ ledger = {}
      /\ task = "idle" /\ target = NoPayment /\ shown = Nothing /\ walk = NoWalk
  BY DEF Init
<1>2. RowTypes
  <2>1. AmountMinor \in Nat
    BY ReadsAssumption
  <2>2. NoRefund \in [status : {"NONE", "PENDING", "SUCCEEDED", "FAILED"}, amount : 0 .. AmountMinor]
    BY <2>1 DEF NoRefund
  <2> QED
    BY <1>1, <2>2 DEF RowTypes, PaymentStatus
<1>3. StampInv
  <2>1. begun = {}
    BY <1>1 DEF begun
  <2> QED
    BY <1>1, <2>1, FS_EmptySet DEF StampInv
<1>4. LedgerInv
  <2>1. IsFiniteSet(ledger)
    BY <1>1, FS_EmptySet
  <2>2. Balance("DEBIT") = Balance("CREDIT")
    <3>1. { e \in ledger : e.direction = "DEBIT" } = { e \in ledger : e.direction = "CREDIT" }
      BY <1>1
    <3> QED
      BY <3>1, ZenonT(30) DEF Balance, _sum_by_direction
  <2> QED
    BY <1>1, <2>1, <2>2 DEF LedgerInv
<1>5. ASSUME NEW i \in Payments PROVE RowInv(i)
  <2>1. /\ status[i] = "NONE" /\ events[i] = {} /\ attempts[i] = {} /\ created_at[i] = 0
        /\ refund[i].status = "NONE" /\ RefundCredits(i) = {}
    BY <1>1, Zenon DEF NoRefund, RefundCredits
  <2> QED
    BY <2>1 DEF RowInv, Settled
<1>6. TaskInv /\ DetailInv /\ SummaryInv /\ AuditInv
  BY <1>1 DEF TaskInv, DetailInv, SummaryInv, AuditInv
<1>7. WalkInv
  BY <1>1, Zenon DEF WalkInv, WalkComplete, NoWalk
<1> QED
  BY <1>2, <1>3, <1>4, <1>5, <1>6, <1>7 DEF ReadsInv, DbInv, PageInv

\* ReadsInv is inductive.
LEMMA ReadsInvInductive ==
  ASSUME ReadsInv, [Next]_vars
  PROVE  ReadsInv'
<1>1. DbInv /\ PageInv
  BY DEF ReadsInv
<1>2. DbInv' /\ Grows /\ (UNCHANGED readerVars \/ (UNCHANGED dbVars /\ Reader))
  BY <1>1, EveryStep
<1>3. CASE UNCHANGED readerVars
  BY <1>1, <1>2, <1>3, WriterKeepsPage DEF ReadsInv
<1>4. CASE Reader
  <2>1. PageInv'
    BY <1>1, <1>4, OpenKeepsPage, ExecuteKeepsPage, CountKeepsPage, ListKeepsPage, CloseKeepsPage
       DEF Reader
  <2> QED
    BY <1>2, <2>1 DEF ReadsInv
<1> QED
  BY <1>2, <1>3, <1>4

\* The rows and the pages satisfy ReadsInv in every reachable state.
THEOREM ReadsInvHolds == Spec => []ReadsInv
<1>1. Init => ReadsInv
  BY InitReads
<1>2. ReadsInv /\ [Next]_vars => ReadsInv'
  BY ReadsInvInductive
<1> QED
  BY <1>1, <1>2, PTL DEF Spec

\* Rows, pages and walks keep their types: amounts are positive on both sides of the
\* ledger, creations begin one after the other, a row is visible only then.
THEOREM ReadsTypeCorrect == Spec => []TypeOK
<1>1. ReadsInv => TypeOK
  <2>1. SUFFICES ASSUME ReadsInv PROVE TypeOK
    OBVIOUS
  <2>2. RowTypes /\ StampInv /\ LedgerInv /\ TaskInv /\ WalkInv /\ \A i \in Payments : RowInv(i)
    BY <2>1, Zenon DEF ReadsInv, DbInv, PageInv
  <2>3. \A i \in Visible : created_at[i] # 0
    BY <2>2, Zenon DEF RowInv, Visible
  <2> QED
    BY <2>2, <2>3 DEF TypeOK, RowTypes, StampInv, LedgerInv, TaskInv, WalkInv, Outcomes
<1> QED
  BY <1>1, ReadsInvHolds, PTL

\* The detail page explains the status it shows, whatever is committed between its
\* statements.
THEOREM DetailAlwaysExplained == Spec => []DetailExplained
<1>1. ReadsInv => DetailExplained
  <2>1. SUFFICES ASSUME ReadsInv, Complete("detail") PROVE DetailExplained
    BY DEF DetailExplained
  <2>2. /\ task = "detail" /\ "intent" \in DOMAIN shown /\ "events" \in DOMAIN shown
        /\ "attempts" \in DOMAIN shown /\ "refunds" \in DOMAIN shown
        /\ "ledger_entries" \in DOMAIN shown
    <3>1. Range(Statements("detail")) = { get_payment_detail[n] : n \in DOMAIN get_payment_detail }
      BY DEF Statements, Range
    <3>2. {"intent", "events", "attempts", "refunds", "ledger_entries"} \subseteq Range(Statements("detail"))
      <4>1. /\ 1 \in DOMAIN get_payment_detail /\ get_payment_detail[1] = "intent"
            /\ 2 \in DOMAIN get_payment_detail /\ get_payment_detail[2] = "events"
            /\ 3 \in DOMAIN get_payment_detail /\ get_payment_detail[3] = "attempts"
            /\ 4 \in DOMAIN get_payment_detail /\ get_payment_detail[4] = "refunds"
            /\ 5 \in DOMAIN get_payment_detail /\ get_payment_detail[5] = "ledger_entries"
        BY DEF get_payment_detail
      <4> QED
        BY <3>1, <4>1
    <3> QED
      BY <2>1, <3>2 DEF Complete
  <2> QED
    BY <2>1, <2>2, Zenon DEF ReadsInv, PageInv, DetailInv, DetailExplained, Settled, FullRefund
<1> QED
  BY <1>1, ReadsInvHolds, PTL

\* The landing page never shows more payments as REFUNDED than its refunded total
\* pays for.
THEOREM SummaryAlwaysCovers == Spec => []SummaryCovers
<1>1. ReadsInv => SummaryCovers
  <2>1. SUFFICES ASSUME ReadsInv, Complete("summary") PROVE SummaryCovers
    BY DEF SummaryCovers
  <2>2. task = "summary" /\ "counts_by_status" \in DOMAIN shown /\ "total_refunded_amount" \in DOMAIN shown
    <3>1. Range(Statements("summary")) = { get_dashboard_summary[n] : n \in DOMAIN get_dashboard_summary }
      BY DEF Statements, Range
    <3>2. /\ 1 \in DOMAIN get_dashboard_summary /\ get_dashboard_summary[1] = "counts_by_status"
          /\ 3 \in DOMAIN get_dashboard_summary /\ get_dashboard_summary[3] = "total_refunded_amount"
      BY DEF get_dashboard_summary
    <3> QED
      BY <2>1, <3>1, <3>2 DEF Complete
  <2> QED
    BY <2>1, <2>2 DEF ReadsInv, PageInv, SummaryInv, SummaryCovers
<1> QED
  BY <1>1, ReadsInvHolds, PTL

\* No transaction of the ledger is unbalanced.
LEMMA EveryTransactionBalanced ==
  ASSUME LedgerInv
  PROVE  find_unbalanced_ledger_transactions = {}
<1>1. /\ ledger \subseteq LedgerEntry
      /\ \A e, f \in ledger : e.tx = f.tx /\ e.direction = f.direction => e = f
      /\ \A e \in ledger : \E f \in ledger :
           f.tx = e.tx /\ f.direction # e.direction /\ f.amount_minor = e.amount_minor
  BY DEF LedgerInv
<1>2. ASSUME NEW e \in ledger
      PROVE  _sum_by_direction("DEBIT", { g \in ledger : g.tx = e.tx }) =
               _sum_by_direction("CREDIT", { g \in ledger : g.tx = e.tx })
  <2> DEFINE of == { g \in ledger : g.tx = e.tx }
             amount == [g \in of |-> g.amount_minor]
  <2>1. PICK f \in ledger : f.tx = e.tx /\ f.direction # e.direction /\ f.amount_minor = e.amount_minor
    BY <1>1
  <2>2. e \in of /\ f \in of
    BY <2>1
  <2>3. /\ e.direction \in {"DEBIT", "CREDIT"} /\ f.direction \in {"DEBIT", "CREDIT"}
        /\ amount[e] \in Nat /\ amount[f] \in Nat /\ amount[e] = amount[f]
    BY <1>1, <2>1, <2>2, EntryAmount DEF LedgerEntry
  <2>4. /\ { g \in of : g.direction = e.direction } = {e}
        /\ { g \in of : g.direction = f.direction } = {f}
    BY <1>1, <2>1, <2>2
  <2>5. /\ _sum_by_direction(e.direction, of) = SumAmounts(amount, {e})
        /\ _sum_by_direction(f.direction, of) = SumAmounts(amount, {f})
    BY <2>4, Zenon DEF _sum_by_direction
  <2> HIDE DEF amount
  <2>6. _sum_by_direction(e.direction, of) = _sum_by_direction(f.direction, of)
    BY <2>3, <2>5, SumAmountsOne
  <2> HIDE DEF of
  <2>7. _sum_by_direction("DEBIT", of) = _sum_by_direction("CREDIT", of)
    BY <2>1, <2>3, <2>6
  <2> QED
    BY <2>7 DEF of
<1> QED
  BY <1>2 DEF find_unbalanced_ledger_transactions

\* The audit never finds credits missing, and no transaction unbalanced.
THEOREM AuditAlwaysErrsOneWay == Spec => []AuditErrsOneWay
<1>1. ReadsInv => AuditErrsOneWay
  <2>1. SUFFICES ASSUME ReadsInv, Complete("audit") PROVE AuditErrsOneWay
    BY DEF AuditErrsOneWay
  <2>2. task = "audit" /\ "CREDIT" \in DOMAIN shown
    <3>1. Range(Statements("audit")) = { global_ledger_balance[n] : n \in DOMAIN global_ledger_balance }
      BY DEF Statements, Range
    <3>2. 2 \in DOMAIN global_ledger_balance /\ global_ledger_balance[2] = "CREDIT"
      BY DEF global_ledger_balance
    <3> QED
      BY <2>1, <3>1, <3>2 DEF Complete
  <2>3. shown.DEBIT <= shown.CREDIT
    BY <2>1, <2>2 DEF ReadsInv, PageInv, AuditInv
  <2>4. find_unbalanced_ledger_transactions = {}
    BY <2>1, EveryTransactionBalanced DEF ReadsInv, DbInv
  <2> QED
    BY <2>3, <2>4 DEF AuditErrsOneWay
<1> QED
  BY <1>1, ReadsInvHolds, PTL

\* A walk that is not torn at its last page shows every payment that was there when
\* it began, for any page size.
THEOREM WalkAlwaysComplete == Spec => []WalkComplete
<1>1. ReadsInv => WalkComplete
  BY DEF ReadsInv, PageInv, WalkInv
<1> QED
  BY <1>1, ReadsInvHolds, PTL

\* The history is append-only: no commit takes back an event, an attempt, a ledger
\* entry, a visible row or its place in the list, or a refund that has succeeded.
THEOREM HistoryAppendOnly == Spec => [][Grows]_vars
<1>1. ReadsInv /\ [Next]_vars => [Grows]_vars
  BY EveryStep DEF ReadsInv
<1> QED
  BY <1>1, ReadsInvHolds, PTL DEF Spec

===============================================================================
