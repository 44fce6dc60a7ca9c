CONSTANTS
  a1 = a1
  a2 = a2
  b1 = b1
  agent = agent
  A = A
  B = B
  Observer = Observer
  Requests = {a1, a2, b1}
  Runs = {A, B}
  RunOf <- MCRunOf
  D = 1
  IncreaseAfter = 2
  IdleAfter = 2
  GrowthFactor = 2
  Bounds = {}
  RetryAfters = {0, 3}
  MayAbort = TRUE
SPECIFICATION Spec
INVARIANTS
  WaitersAreWatched
