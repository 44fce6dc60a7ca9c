CONSTANTS
  s1 = s1
  s2 = s2
  s3 = s3
  s4 = s4
  a1 = a1
  a2 = a2
  a3 = a3
  b1 = b1
  b2 = b2
  Sites = {s1, s2, s3, s4}
  TypedSites = {}
  Actors = {a1, a2, a3}
  ActorOrder <- MCActorOrder
  Branches = {b1, b2}
  BranchOrder <- MCBranchOrder
  Prog <- MCProg
  Awaited = {b1, b2}
  Throwing = {}
  MaxOrdinal = 1
  InitialCap = 2
  CapChoices = {}
  MaxRetunes = 0
  RepairAttempts = 1
  NudgeAttempts = 1
  StopReasons = {"user"}
  MaxLives = 3
  MayCrash = TRUE
  TornSettle = TRUE
  SessionMayFail = FALSE
  LiveOutrunsReplay = TRUE
SPECIFICATION Spec
INVARIANTS
  TranscriptOrder
  EveryCallIsInOnePlace
  SettlementAnswersAll
PROPERTIES
  SettledRowsAreFinal
