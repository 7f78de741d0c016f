CONSTANTS
  s1 = s1
  s2 = s2
  n1 = n1
  n2 = n2
  x = x
  k1 = k1
  red = red
  blue = blue
  isRed = isRed
  Sets = {s1, s2}
  Namespaces = {n1, n2}
  NamespaceOf <- OtherNamespace
  Names = {x}
  Sources <- MCSources
  Versions = {1}
  Clusters = {k1}
  ClusterStates = {red, blue}
  Selectors = {isRed, NoSelector}
  Matching <- MCMatching
  NoSelector = NoSelector
  NoCluster = NoCluster
  Missing = Missing
  Waiting = Waiting
  Specs <- ClusterSpecs
  NoSpec = NoSpec
  Enabled <- MCEnabled
  MaxOps = 2
SPECIFICATION Spec
INVARIANT NothingMissed
CHECK_DEADLOCK FALSE
