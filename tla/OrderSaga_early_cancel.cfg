CONSTANTS
  o1 = o1
  o2 = o2
  p1 = p1
  p2 = p2
  r1 = r1
  r2 = r2
  Order = {o1}
  Product = {p1}
  Request = {r1}
  InitialStock <- OneOfEach
  MaxAttempts = 2
  Lines <- OneLine
  About <- AboutFirst
  CancelFrom = {"PENDING"}
  PayFrom = {}
  Faults = {}
  MaxRestarts = 0
SPECIFICATION Spec
INVARIANTS
  NoPhantomStock
CHECK_DEADLOCK FALSE
