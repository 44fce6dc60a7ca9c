CONSTANTS
  Host = Host
  Mobile = Mobile
  MaxGeneration = 2
  Workload <- MCWorkload
  MaxMatches = 1
  MaxLosses = 1
  HighWaterMark = 1
  LowWaterMark = 0
  ReplayBufferMax = 3
SPECIFICATION Spec
INVARIANTS
  TypeOK
  AckedIsDelivered
  OnlyLossMakesGaps
  BytesAreKept
  TimerArmed
  NothingStuck
  QuiescentIsComplete
PROPERTIES
  ImplementsExactlyOnce
CHECK_DEADLOCK FALSE
