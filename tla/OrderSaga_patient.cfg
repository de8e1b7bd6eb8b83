CONSTANTS
  o1 = o1
  o2 = o2
  p1 = p1
  p2 = p2
  r1 = r1
  r2 = r2
  Order = {o1, o2}
  Product = {p1, p2}
  Request = {r1, r2}
  InitialStock <- OneOfEach
  MaxAttempts = 2
  Lines <- Crossed
  About <- AboutEach
  CancelFrom = {"AWAITING_PAYMENT"}
  PayFrom = {"AWAITING_PAYMENT"}
  Faults = {}
  MaxRestarts = 0
SPECIFICATION FairSpec
INVARIANTS
  StockIsConserved
  NoOversell
PROPERTIES
  ImplementsLifecycle
  PlacedOrdersAreSettled
  PaidOrdersComplete
  ClosedOrdersGiveBack
CHECK_DEADLOCK FALSE
