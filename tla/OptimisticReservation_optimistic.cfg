CONSTANTS
  o1 = o1
  o2 = o2
  o3 = o3
  p1 = p1
  p2 = p2
  p3 = p3
  p4 = p4
  Order = {o1, o2, o3}
  Product = {p1, p2}
  Lines <- Mixed
  PriceOf <- Prices
  InitialStock <- TwoEach
  DatabaseFails = TRUE
  PoolSize = 2
  MaxCrashes = 1
SPECIFICATION FairSpec
INVARIANTS
  ReservationInvariant
  VersionsCountUpdates
  OrderWithItsSaga
  TakenIsCharged
  RepositoriesAreCurrent
  ConnectionsComeBack
PROPERTIES
  ReservesAllOrNothing
  CommandsEnd
CHECK_DEADLOCK FALSE
