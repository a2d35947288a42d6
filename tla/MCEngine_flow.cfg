SPECIFICATION MCSpec
CONSTANTS
  Ids = {i1, i2}
  Managed = {i2}
  Tunnels = {t1, t2, t3}
  Calls = {c1, c2}
  Crowd = 1
  None = None
  Listed = {i1, i2}
SYMMETRY Symmetry
INVARIANTS
  MapIsSound
  RendererIsTold
  StatusIsTold
CHECK_DEADLOCK FALSE
