CONSTANTS
  w1 = w1  w2 = w2
  Worker = {w1, w2}
  MaxJobs = 3
  MaxShed = 1
  c1 = c1  c2 = c2
  Client = {c1, c2}
  BroadcastCap = 1
  ClientCap = 2
  MaxEvents = 3
CHECK_DEADLOCK FALSE
SPECIFICATION FairAllSpec
INVARIANTS
  LatencyCoversThroughput
  OutcomesKeepUp
  RegisteredIsOpen
PROPERTIES
  ShownInOrder
  NewIsAdmitted
  GoneIsReleased
