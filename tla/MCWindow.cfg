SPECIFICATION MCSpec
CONSTANTS
  MaxEdits = 2
  MaxDialogs = 2
  near = near
  bad = bad
  Hosts = {near, bad}
  Refused = {bad}
  NoHost = NoHost
  MaxOpens = 2
  MaxTests = 2
  MaxLate = 2
  t1 = t1
  t2 = t2
  t3 = t3
  c1 = c1
  c2 = c2
  g1 = g1
  g2 = g2
  g3 = g3
  Tunnels = {t1, t2, t3}
  Consoles = {c1, c2}
  Groups = {g1, g2, g3}
  Unborn = {c2, g3}
  Ungrouped = Ungrouped
  NoRow = NoRow
  MaxActs = 2
  k1 = k1
  k2 = k2
  Shells = {k1, k2}
  NoShell = NoShell
  MaxSessions = 2
  MaxDeeds = 3
  MaxTransit = 3
  ka = ka
  kb = kb
  kc = kc
  ta = ta
  tb = tb
  Cards <- CardList
  Tabs <- TabList
  OldStores <- OldSettings
  Retired = Retired
  NoHold = NoHold
  NoTab = NoTab
  Nothing = Nothing
  Columns = 2
  Reach = 1
  MaxMoves = 4
INVARIANTS
  EditorKeepsUp
  DropLandsAtGap
  TreeIsSound
  PaneIsTrue
  GridIsSound
  FormRoundTrips
CONSTRAINT Bounds
CHECK_DEADLOCK FALSE
