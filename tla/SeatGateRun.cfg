CONSTANTS
  s1 = s1
  s2 = s2
  s3 = s3
  s4 = s4
  Subagents = {s1, s2, s3, s4}
  Limits = {1, 2, 3}
SPECIFICATION TurnSpec
INVARIANTS
  AsksAreCounted
  SeatsAreTaken
PROPERTIES
  NoDispatchPastParked
  CutTakesEffect
  ParkedAreSeated
CHECK_DEADLOCK FALSE
