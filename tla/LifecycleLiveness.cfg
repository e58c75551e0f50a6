\* Requests that keep running and passes that are triggered again and again.
CONSTANTS
  Create = create
  Captures = {c1}
  Webhooks = {}
  Passes = {p1}
  Refunds = {r1, r2}
  AmountMinor = 2
  RequestAmounts = {1, 2}
  NoSession = NoSession
SPECIFICATION FairSpec
PROPERTIES CreationIsDecided LostAuthorizationIsResolved RefundsSettleUnlessAbandoned
