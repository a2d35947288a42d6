SPECIFICATION FairSpec
CONSTANTS
  h1 = h1
  h2 = h2
  k1 = k1
  k2 = k2
  k3 = k3
  Sessions = {s1, s2}
  Hosts = {h1, h2}
  Keys = {k1, k2, k3}
  KnownHosts <- MCKnownHosts
  KindOf <- MCKindOf
  Route <- MCRoute
  Handshakes <- MCHandshakes
  HostOf <- MCHostOf
  None = None
INVARIANTS
  AcceptedIsVouched
  NothingOutlives
  ListedIsAlive
PROPERTIES
  SessionsReport
CHECK_DEADLOCK FALSE
