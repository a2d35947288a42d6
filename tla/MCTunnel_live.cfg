SPECIFICATION CalmSpec
CONSTANTS
  MCKinds = {"lazy", "kept", "remote", "off"}
  Defs <- MCDefs
  Attempts = {a1, a2}
  Conns = {c1}
  Socks = {l1, l2}
  None = None
  MaxReconnectAttempts = 2
PROPERTIES
  NeedIsServed
CHECK_DEADLOCK FALSE
