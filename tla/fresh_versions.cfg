CONSTANTS
  s1 = s1
  s2 = s2
  a = a
  b = b
  c = c
  d = d
  Sets = {s1}
  Ids = {a, b, c}
  Unreadable = {}
  Versions <- TwoVersions
  Values <- MCValues
  Specs <- MCSpecs
  Data <- MCData
  Rendering <- VersionsRendering
  PolledSpecs = {}
  Preexisting = {}
  UserIds = {}
  Foreign = Foreign
  Nobody = Nobody
  NoVal = NoVal
  Faults <- SafeFaults
  Crashes = FALSE
  MaxStale = 0
  MaxFaults = 2
  MaxUserOps = 4
SPECIFICATION FairSpec
INVARIANTS ReadyIsTruthful SettledIsClean
PROPERTIES Converges
CHECK_DEADLOCK FALSE
