SPECIFICATION Spec
CONSTANTS
  Files <- MCFiles
  Alphabetical <- MCAlphabetical
  Agents <- MCAgents
  Profile <- MCProfile
  Policy = "balanced"
  Default = 1
  None = None
  MaxTasks = 3
  MaxParallel = 2
  MaxRounds = 2
  MaxChanges = 2
  RetryLimit = 1
  Risk = 80
  TokenBudget = 32
  Authoritative = {4, 28, 40}
  Retrievals <- MCRetrievals
  SourceSizes <- MCSizes
  Costs = {0, 2}
  HardTask = 2
  HardProject = 4
INVARIANTS
  PlanIsSound
  BatchIsSafe
  OverspendIsBounded
  PacketFits
PROPERTY StaleWorkNeverLands
CHECK_DEADLOCK FALSE
