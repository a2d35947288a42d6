SPECIFICATION Spec
CONSTANTS
  MCKinds = {"moved", "auto", "remote", "off"}
  Defs <- MCDefs
  Attempts = {a1, a2}
  Conns = {c1, c2}
  Socks = {l1, l2, l3}
  None = None
  MaxReconnectAttempts = 2
SYMMETRY Symmetry
VIEW WhatCounts
CONSTRAINT FewCrossings
INVARIANTS
  LinkIsSound
  TimersAndWaitersAreSound
  DisposedIsInert
  ServesItsClients
  LastCallWins
  LinkFollowsNeed
PROPERTIES
  EditsWaitTheirTurn
CHECK_DEADLOCK FALSE
