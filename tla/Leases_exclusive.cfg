SPECIFICATION Spec
CONSTANTS
  t1 = t1
  t2 = t2
  t3 = t3
  a1 = a1
  a2 = a2
  None = None
  Tasks = {t1, t2}
  Agents = {a1, a2}
  Resources <- MCResources
  Declared <- MCSharedDeclared
  MaxToken = 7
  MaxCrashes = 0
INVARIANTS
  ExclusiveAcrossAgents
CHECK_DEADLOCK FALSE
