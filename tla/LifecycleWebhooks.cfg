\* Webhooks beside captures, a reconciliation pass and refunds.
CONSTANTS
  Create = create
  Captures = {c1, c2}
  Webhooks = {w1}
  Passes = {p1}
  Refunds = {r1, r2}
  AmountMinor = 2
  RequestAmounts = {1, 2}
  NoSession = NoSession
SYMMETRY Symmetry
SPECIFICATION Spec
INVARIANTS CollectedOnceUnlessAbandoned RefundsImplySettlement RefundedInFull PaidWithinPayment
