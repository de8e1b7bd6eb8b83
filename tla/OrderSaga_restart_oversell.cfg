CONSTANTS
  o1 = o1
  o2 = o2
  p1 = p1
  p2 = p2
  r1 = r1
  r2 = r2
  Order = {o1, o2}
  Product = {p1}
  Request = {}
  InitialStock <- OneOfEach
  MaxAttempts = 2
  Lines <- SameProduct
  About <- AboutFirst
  CancelFrom = {}
  PayFrom = {}
  Faults = {}
  MaxRestarts = 1
SPECIFICATION Spec
INVARIANTS
  NoOversell
CHECK_DEADLOCK FALSE
