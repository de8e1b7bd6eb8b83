CONSTANTS
  o1 = o1
  o2 = o2
  p1 = p1
  Order = {o1, o2}
  Product = {p1}
  Cancelable = {o1}
  ProductOf <- SameProduct
  InitialStock <- OneEach
  MaxAttempts = 2
  MaxRestarts = 2
  MaxLosses = 1
SPECIFICATION FairSpec
INVARIANTS
  JobsInvariant
  AppliedOncePerDelivery
  NothingIsQueuedAgain
PROPERTIES
  StoredJobsAreApplied
CHECK_DEADLOCK FALSE
