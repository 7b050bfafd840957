CONSTANTS
  r1 = r1  r2 = r2  r3 = r3
  alice = alice  internet = internet
  w1 = w1  w2 = w2
  Req = {r1, r2}
  Supi = {alice}
  Profile = {internet}
  SupiOf <- Supis
  ProfileOf <- Profiles
  Subscription <- Subscriptions
  NotFound = NotFound
  NoRef = NoRef
  NoJob = NoJob
  Worker = {w1}
  QueueSize = 1
  DbMayFail = FALSE
  MaxCrashes <- EachOnce
CHECK_DEADLOCK FALSE
SPECIFICATION RecoverySpec
INVARIANTS
  InstalledHasRow
  SurvivorsAreSettled
  LeavesOnlyByRestart
