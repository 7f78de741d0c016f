CONSTANTS
  s1 = s1
  s2 = s2
  a = a
  b = b
  c = c
  d = d
  Sets = {s1}
  Ids = {a, b, c}
  Unreadable = {}
  Versions <- OneVersion
  Values <- MCValues
  Specs <- MCSpecs
  Data <- MCData
  Rendering <- OneSetRendering
  PolledSpecs = {}
  Preexisting = {c}
  UserIds = {}
  Foreign = Foreign
  Nobody = Nobody
  NoVal = NoVal
  Faults <- RetriedFaults
  Crashes = TRUE
  MaxStale = 1
  MaxFaults = 1
  MaxUserOps = 3
SPECIFICATION FairSpec
PROPERTIES DeletionCompletes RequestsAreHandled
CHECK_DEADLOCK FALSE
