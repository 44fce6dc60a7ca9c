CONSTANTS
  a1 = a1
  a2 = a2
  b1 = b1
  agent = agent
  A = A
  B = B
  Observer = Observer
  Requests = {a1, a2, b1, agent}
  Runs = {A, B}
  RunOf <- MCRunOf
  D = 2
  IncreaseAfter = 2
  IdleAfter = 1
  GrowthFactor = 2
  Bounds = {}
  RetryAfters = {0, 1}
  MayAbort = TRUE
SPECIFICATION Spec
INVARIANTS
  TypeOK
  InFlightExact
PROPERTIES
  NoOvertaking
  BurstCountsOnce
