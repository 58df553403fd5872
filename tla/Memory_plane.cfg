SPECIFICATION Spec
CONSTANTS
  Topics = {"cache"}
  MaxVersion = 5
  MaxCrashes = 1
  Recurring = 2
  None = None
CHECK_DEADLOCK FALSE
INVARIANTS
  RowsAreRecorded
  NoConflictingKnowledge
  SearchFollowsTable
PROPERTY NoResurrection
