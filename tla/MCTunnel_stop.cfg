SPECIFICATION Spec
CONSTANTS
  MCKinds = {"moved", "auto", "remote", "off"}
  Defs <- MCDefs
  Attempts = {a1, a2}
  Conns = {c1}
  Socks = {l1, l2}
  None = None
  MaxReconnectAttempts = 1
INVARIANT EveryStopWins
CHECK_DEADLOCK FALSE
