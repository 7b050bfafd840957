CONSTANTS
  s1 = s1  s2 = s2  s3 = s3
  o1 = o1
  Shot = {s1, s2}
  Old = {}
  BatchSize = 1
  DbMayFail = FALSE
  MaxRuns = 1
CHECK_DEADLOCK FALSE
SPECIFICATION AllSpec
INVARIANTS
  CampaignIsComplete
