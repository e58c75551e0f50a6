\* Everything but webhooks: two captures, two passes and two refunds.
CONSTANTS
  Create = create
  Captures = {c1, c2}
  Webhooks = {}
  Passes = {p1, p2}
  Refunds = {r1, r2}
  AmountMinor = 2
  RequestAmounts = {1, 2}
  NoSession = NoSession
SYMMETRY Symmetry
SPECIFICATION Spec
INVARIANTS TypeOK SettledExactlyOnce RefundsWithinPayment LedgerMatchesRefunds
  StatusAggregatesRefunds UnknownHasKey
PROPERTIES TransitionsLegal EventsFormChain
