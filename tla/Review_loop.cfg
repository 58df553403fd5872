SPECIFICATION FairSpec
CONSTANTS
  r1 = r1
  k1 = k1
  m1 = m1
  m2 = m2
  None = None
  Routes = {r1}
  Supervisors = {k1}
  Loops = {k1}
  Process <- MCProcess
  Comments = {m1, m2}
  ListOf <- MCListOf
  Shown = 1
  RawChecks <- MCStatusChecks
  MaxChanges = 2
  MaxCrashes = 1
INVARIANTS
  NoFeedbackLost
  PublishedIsLinked
PROPERTY FeedbackReachesWorker
CHECK_DEADLOCK FALSE
