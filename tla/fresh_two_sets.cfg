CONSTANTS
  s1 = s1
  s2 = s2
  a = a
  b = b
  c = c
  d = d
  Sets = {s1, s2}
  Ids = {a, b}
  Unreadable = {}
  Versions <- OneVersion
  Values <- MCValues
  Specs <- MCSpecs
  Data <- MCData
  Rendering <- TwoSetsRendering
  PolledSpecs = {"right"}
  Preexisting = {}
  UserIds = {}
  Foreign = Foreign
  Nobody = Nobody
  NoVal = NoVal
  Faults <- SafeFaults
  Crashes = FALSE
  MaxStale = 0
  MaxFaults = 0
  MaxUserOps = 4
SPECIFICATION Spec
INVARIANTS OwnedIsRecorded GoneLeavesNothing
PROPERTIES FailureKeepsInventory
CHECK_DEADLOCK FALSE
