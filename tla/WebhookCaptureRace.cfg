\* A webhook reads the payment, a capture settles it, the webhook applies.
CONSTANTS
  Create = create
  Captures = {c1}
  Webhooks = {w1}
  Passes = {}
  Refunds = {}
  AmountMinor = 2
  RequestAmounts = {1, 2}
  NoSession = NoSession
SPECIFICATION Spec
INVARIANT SettledAtMostOnce
CHECK_DEADLOCK FALSE
