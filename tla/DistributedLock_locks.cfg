CONSTANTS
  Client = {c1, c2}
  Name = {n1, n2}
  Free = Free
  RetryAttempts = 1
  MaxAcquires = 2
SPECIFICATION FairSpec
INVARIANTS
  TypeOK
  OneHolderPerTerm
PROPERTIES
  HoldersAreNotRobbed
  LocksAreFreed
CHECK_DEADLOCK FALSE
