SPECIFICATION MCSpec
CONSTANTS
  c1 = c1
  c2 = c2
  j1 = j1
  j2 = j2
  t1 = t1
  l1 = l1
  l2 = l2
  CredIds = {c1, c2}
  JumpIds = {j1, j2}
  TunnelIds = {t1}
  ConsoleIds = {s1}
  GroupIds = {g1}
  Labels = {l1, l2}
  AuthTypes = {"password", "agent"}
  Bundles <- MCBundles
  Proposals <- MCProposals
  None = None
  MaxRecords = 4
  Creds = {p1, p2}
  Hosts = {h1, h2}
  Auths = {"agent", "password", "key"}
  Nil = Nil
  MaxClicks = 5
  w1 = w1
  w2 = w2
  Rows = {w1, w2}
  Packs <- MCPacks
  Idle = Idle
  MaxWrites = 3
INVARIANT ImportDisposes
SYMMETRY Alike
CONSTRAINTS SmallDoc FewUnderWay
CHECK_DEADLOCK FALSE
