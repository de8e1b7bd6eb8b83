CONSTANTS
  o1 = o1
  o2 = o2
  p1 = p1
  p2 = p2
  r1 = r1
  r2 = r2
  Order = {o1}
  Product = {p1, p2}
  Request = {r1}
  InitialStock <- OneOfEach
  MaxAttempts = 2
  Lines <- TwoLines
  About <- AboutFirst
  CancelFrom = {"AWAITING_PAYMENT"}
  PayFrom = {"AWAITING_PAYMENT"}
  Faults = {}
  MaxRestarts = 1
SPECIFICATION FairSpec
INVARIANTS
  LifecycleInvariant
PROPERTIES
  OpenPaymentIsOffered
  CanceledOrdersClosePayment
CHECK_DEADLOCK FALSE
