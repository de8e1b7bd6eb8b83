CONSTANTS
  o1 = o1
  o2 = o2
  p1 = p1
  p2 = p2
  r1 = r1
  r2 = r2
  Order = {o1}
  Product = {p1, p2}
  Request = {}
  InitialStock <- OneOfEach
  MaxAttempts = 2
  Lines <- TwoLines
  About <- AboutFirst
  CancelFrom = {}
  PayFrom = {}
  Faults = {}
  MaxRestarts = 1
SPECIFICATION FairSpec
PROPERTIES
  PlacedOrdersAreSettled
CHECK_DEADLOCK FALSE
