SPECIFICATION Spec
CONSTANTS
  Manifests <- MCManifests
  SortedArms <- MCManifests
  Shuffle <- MCShuffle
  BaseSeed = 0
  B7 = "B7"
  Repositories <- MCRepositories
  Attempts = {a001, a002}
  Operators = {o1, o2}
  Repeats = 3
  MaxFaults = 1
  None = None
SYMMETRY MCSymmetry
ACTION_CONSTRAINT MCBounds
CHECK_DEADLOCK FALSE
INVARIANTS
  SuccessIsWhole
  NoHiddenTurns
  OrdersAreBalanced
  NoWorkspaceLeft
  ClaimsAreOriented
PROPERTY ResultsAreFinal
