CONSTANTS
  s1 = s1  s2 = s2  s3 = s3
  o1 = o1
  Shot = {s1, s2, s3}
  Old = {o1}
  BatchSize = 1
  DbMayFail = TRUE
  MaxRuns = 2
CHECK_DEADLOCK FALSE
SPECIFICATION FairAllSpec
INVARIANTS
  BreakdownCoversFailed
  TotalDoneIsTrue
  LeavesNothing
PROPERTIES
  TesterEnds
