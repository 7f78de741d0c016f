CONSTANTS
  s1 = s1
  s2 = s2
  a = a
  b = b
  c = c
  d = d
  Sets = {s1}
  Ids = {a, b, c}
  Unreadable = {}
  Versions <- OneVersion
  Values <- MCValues
  Specs <- MCSpecs
  Data <- MCData
  Rendering <- OneSetRendering
  PolledSpecs = {}
  Preexisting = {}
  UserIds = {}
  Foreign = Foreign
  Nobody = Nobody
  NoVal = NoVal
  Faults <- NoFaults
  Crashes = TRUE
  MaxStale = 0
  MaxFaults = 1
  MaxUserOps = 3
SPECIFICATION Spec
INVARIANT GoneLeavesNothing
CHECK_DEADLOCK FALSE
