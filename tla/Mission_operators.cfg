SPECIFICATION Spec
CONSTANTS
  t1 = t1
  t2 = t2
  t3 = t3
  Tasks = {t1, t3}
  Agents = {a1}
  Resources <- MCResources
  None = None
  RetryLimit = 0
  GitFaults = TRUE
  Operators = {o1, o2}
  Requests <- MCRequests
  Initially <- MCInitially
  Initial = {t1}
  MaxParallel = 2
  MaxRounds = 1
  MaxAttempts = 1
  MaxCrashes = 1
SYMMETRY MCSymmetry
ACTION_CONSTRAINT MCBounds
INVARIANT AcceptedIsIntegrated
PROPERTIES
  OnlyCommandsUndoCompletion
  KeepsLedger
