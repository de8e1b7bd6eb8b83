CONSTANTS
  Base = 2
  DefaultTake = 2
  MaxTake = 3
  Likeness <- TextParts
  Item <- Items
  Products <- ProductRows
  Criteria <- AllCriteria
  LimitGiven <- Limits
  MyCart = 1
SPECIFICATION Spec
INVARIANTS
  PagingInvariant
  ForwardWalkIsComplete
  BackwardWalkIsComplete
  ProductPagesPartition
PROPERTIES
  PagesAreMine
CHECK_DEADLOCK FALSE
