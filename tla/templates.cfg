CONSTANTS
  a = a
  b = b
  c = c
  Unnamed = Unnamed
  NoKey = NoKey
  Null = Null
  MapKeys <- MCMapKeys
  ListKeys <- MCListKeys
  Sets <- MCSets
SPECIFICATION Spec
INVARIANTS TypeOK IndexesInRange
PROPERTIES IndexesAdvance RendersAsPromised RenderingEnds
CHECK_DEADLOCK FALSE
