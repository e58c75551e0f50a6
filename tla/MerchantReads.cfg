SPECIFICATION Spec
CONSTANTS
  Payments = {a, b}
  AmountMinor = 2
  PAGE_SIZE = 1
  MaxEntries = 3
  NoPayment = NoPayment
SYMMETRY PaymentSymmetry
INVARIANTS
  TypeOK
  DetailExplained
  SummaryCovers
  AuditErrsOneWay
  WalkComplete
