CONSTANTS
  r1 = r1
  r2 = r2
  r3 = r3
  p1 = p1
  p2 = p2
  p3 = p3
  alice = alice
  bob = bob
  clerk = clerk
  c1 = c1
  c2 = c2
  User = {alice, bob, clerk}
  Stranger = Stranger
  Customer = {c1, c2}
  NoCustomer = NoCustomer
  CustomerOf <- Customers
  Request = {r1, r2, r3}
  Product = {p1, p2, p3}
  Catalog = {p1, p2}
  Command <- Commands
  MaxCrashes = 1
SYMMETRY Requests
SPECIFICATION Spec
INVARIANTS
  CartInvariant
  UndisturbedCartsAreExact
  NoLineExceedsRequests
CHECK_DEADLOCK FALSE
