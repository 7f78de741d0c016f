CONSTANTS
  s1 = s1
  s2 = s2
  a = a
  b = b
  c = c
  d = d
  Sets = {s1}
  Ids = {a, b, c, d}
  Unreadable = {d}
  Versions <- OneVersion
  Values <- MCValues
  Specs <- MCSpecs
  Data <- MCData
  Rendering <- UnreadableRendering
  PolledSpecs = {"left"}
  Preexisting = {c}
  UserIds = {b}
  Foreign = Foreign
  Nobody = Nobody
  NoVal = NoVal
  Faults <- AllFaults
  Crashes = TRUE
  MaxStale = 2
  MaxFaults = 2
  MaxUserOps = 3
SPECIFICATION Spec
INVARIANTS TypeOK ForeignUntouched WorkIsGuarded IndInv
PROPERTIES PruneSparesRendered FinalizeRemovesRecorded StatusAdvances
CHECK_DEADLOCK FALSE
