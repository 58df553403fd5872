SPECIFICATION FairSpec
CONSTANTS
  t1 = t1
  t2 = t2
  t3 = t3
  Tasks = {t1, t2, t3}
  Agents = {a1, a2}
  Resources <- MCResources
  None = None
  RetryLimit = 2
  GitFaults = FALSE
  Operators = {}
  Requests <- MCRequests
  Initially <- MCInitially
  Initial = {t1, t2, t3}
  MaxParallel = 2
  MaxRounds = 2
  MaxAttempts = 0
  MaxCrashes = 1
INVARIANTS
  RunsHoldTheirLeases
  IntegratedIsVerified
  AttemptsBounded
PROPERTY ExecutionEnds
