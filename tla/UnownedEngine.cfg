CONSTANTS
  h1 = h1
  h2 = h2
  Holes = {}
  Holed = {}
  MaxRuns = 2
  MaxLaunches = 2
  MaxRestarts = 0
  Bounds = {}
  InitialBound = 1
  TerminalLimit = 1
SPECIFICATION Spec
CHECK_DEADLOCK FALSE
INVARIANT
  EnginesAreOwned
