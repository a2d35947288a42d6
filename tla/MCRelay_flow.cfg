SPECIFICATION MCSpec
CONSTANTS
  Relays = {r1, r2}
  Kinds = {"local", "socks", "reverse"}
  Streams <- MCStreams
  Refusals = {1, 3, 4, 5, 6}
  Tunnels = {t1, t2}
  Governed = {t2}
  MaxAsks = 2
  MaxLoads = 2
  MaxActs = 1
INVARIANTS
  LaunchIsHandled
  CountBalances
  ChunksDoNotMatter
PROPERTIES
  PauseHolds
  DataFlows
  QuitEnds
CHECK_DEADLOCK FALSE
