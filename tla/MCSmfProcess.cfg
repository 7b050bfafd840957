CONSTANTS
  r1 = r1  r2 = r2  r3 = r3
  s1 = s1
  w1 = w1  w2 = w2
  Req = {r1, r2, r3}
  Stream = {s1}
  Worker = {w1, w2}
  QueueSize = 1
  NoJob = NoJob
  Absent = Absent
  Files <- SomeFiles
  Envs <- SomeEnvs
  c1 = c1
  g1 = g1  g2 = g2  g3 = g3
  Ref = {c1}
  PgUser = {g1, g2, g3}
  MaxConns = 1
  Limit = 1
CHECK_DEADLOCK FALSE
SPECIFICATION FairAllSpec
INVARIANTS
  AcceptedIsDone
  WorkersHavePfcp
  PanicNeedsTimeout
  OneDatabase
  PoolIsUsed
PROPERTIES
  SignalEndsProcess
  EveryStatementReturns
