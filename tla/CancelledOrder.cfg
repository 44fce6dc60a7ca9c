CONSTANTS
  s1 = s1
  s2 = s2
  a1 = a1
  a2 = a2
  b1 = b1
  b2 = b2
  Sites = {s1, s2}
  TypedSites = {}
  Actors = {a1, a2}
  ActorOrder <- MCActorOrder
  Branches = {b1, b2}
  BranchOrder <- MCBranchOrder
  Prog <- MCProg
  Awaited = {b1, b2}
  Throwing = {}
  MaxOrdinal = 2
  InitialCap = 2
  CapChoices = {}
  MaxRetunes = 0
  RepairAttempts = 1
  NudgeAttempts = 1
  StopReasons = {"user"}
  MaxLives = 3
  MayCrash = FALSE
  TornSettle = FALSE
  SessionMayFail = FALSE
  LiveOutrunsReplay = FALSE
SPECIFICATION Spec
INVARIANTS
  NoReplayMismatch
