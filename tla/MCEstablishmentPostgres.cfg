CONSTANTS
  r1 = r1  r2 = r2  r3 = r3
  alice = alice  bob = bob
  internet = internet  ims = ims
  w1 = w1  w2 = w2
  Req = {r1, r2}
  Supi = {alice, bob}
  Profile = {internet, ims}
  SupiOf <- Supis
  ProfileOf <- Profiles
  Subscription <- Subscriptions
  NotFound = NotFound
  NoRef = NoRef
  NoJob = NoJob
  Worker = {w1}
  QueueSize = 1
  DbMayFail = TRUE
CHECK_DEADLOCK FALSE
SPECIFICATION FairSpec
PROPERTIES
  ImplementsLifecycle
  AcceptedIsWorkedOff
