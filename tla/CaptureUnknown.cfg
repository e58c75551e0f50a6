\* The answer to a capture is lost.
CONSTANTS
  Create = create
  Captures = {c1}
  Webhooks = {}
  Passes = {p1}
  Refunds = {}
  AmountMinor = 2
  RequestAmounts = {1, 2}
  NoSession = NoSession
SPECIFICATION FairSpec
PROPERTY UnknownIsResolved
