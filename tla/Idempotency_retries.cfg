CONSTANTS
  r1 = r1
  r2 = r2
  r3 = r3
  i1 = i1
  i2 = i2
  NoRequest = NoRequest
  Request = {r1, r2, r3}
  Instance = {i1, i2}
  Home <- TwoInstances
  MaxExpiries = 2
  MaxCrashes = 1
SPECIFICATION Spec
INVARIANTS
  OnePerMarker
  AnswersAreTrue
CHECK_DEADLOCK FALSE
