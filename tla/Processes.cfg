SPECIFICATION FairSpec
CONSTANTS
  Procs = {p1, p2}
  MaxTurns = 2
  MaxCrashes = 1
  None = None
CHECK_DEADLOCK FALSE
INVARIANTS
  StoppedTurnsLeaveNothing
  NoHandoffLeft
PROPERTIES
  RuntimesEndFirst
  StopEndsTurn
