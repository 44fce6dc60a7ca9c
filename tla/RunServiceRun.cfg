CONSTANTS
  h1 = h1
  h2 = h2
  Holes = {h1,h2}
  Holed = {1}
  MaxRuns = 2
  MaxLaunches = 4
  MaxRestarts = 1
  Bounds = {2}
  InitialBound = 1
  TerminalLimit = 1
SPECIFICATION FairSpec
CHECK_DEADLOCK FALSE
INVARIANTS
  TypeOK
  EnginesAreRegistered
  RowsFollowEngines
  OnlyAmendmentsOutliveClose
  DraftFollowsScript
PROPERTIES
  FillsAreKept
  RowsTakeLegalTurns
  CallsReturn
