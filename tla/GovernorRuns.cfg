CONSTANTS
  a1 = a1
  a2 = a2
  b1 = b1
  agent = agent
  A = A
  B = B
  Observer = Observer
  Requests = {a1, a2, b1}
  Runs = {A, B}
  RunOf <- MCRunOf
  D = 1
  IncreaseAfter = 1
  IdleAfter = 1
  GrowthFactor = 2
  Bounds = {3}
  RetryAfters = {1}
  MayAbort = FALSE
SPECIFICATION FairSpec
INVARIANTS
  WaitersAreWatched
  CapWithinGrowth
PROPERTIES
  WaitersAreServed
