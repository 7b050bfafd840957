CONSTANTS
  c1 = c1  c2 = c2  c3 = c3
  s1 = s1  s2 = s2  g1 = g1  g2 = g2  g3 = g3
  ip1 = ip1  ip2 = ip2  ip3 = ip3
  Call = {c1, c2, c3}
  Smf = {s1}
  Address = {ip1, ip2, ip3}
  SeqSpace = 4
  NoCall = NoCall
  NoIp = NoIp
  IpOf <- Ips
  Datagram <- SomeDatagrams
  Goroutine = {g1, g2, g3}
  Owner <- OnePod
CHECK_DEADLOCK FALSE
SPECIFICATION FairAllSpec
INVARIANTS
  AcceptedIsInstalled
  PendingIsOpen
  AllReadAreStored
  NothingInvented
PROPERTIES
  ImplementsTransaction
  CallReturns
