SPECIFICATION MCSpec
CONSTANTS
  s1 = s1
  s2 = s2
  Secrets <- MCSecrets
  None = None
  Windows = TRUE
  MaxKeys = 4
  Items = {a, b}
  Missing = {missing}
  Torn = {torn}
  DirSyncs = TRUE
  MaxTemps = 2
SYMMETRY Symmetry
INVARIANTS
  NoneOrphaned
  UnlockedReadsAll
  SettledIsUniform
  ResumeCanFinish
  AckedSurvives
PROPERTIES
  ImplementsDurableDoc
