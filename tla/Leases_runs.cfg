SPECIFICATION FairSpec
CONSTANTS
  t1 = t1
  t2 = t2
  t3 = t3
  a1 = a1
  a2 = a2
  None = None
  Tasks = {t1, t2, t3}
  Agents = {a1, a2}
  Resources <- MCResources
  Declared <- MCDeclared
  MaxToken = 7
  MaxCrashes = 1
INVARIANTS
  FencingUnmasksStaleHolders
  ExclusiveUnlessContested
PROPERTIES
  RunsEnd
CHECK_DEADLOCK FALSE
