SPECIFICATION Spec
CONSTANTS
  Zero <- ZeroPage
  IntPages = 1000
  SlotNum = 14
  LeafMaxSize = 3
  InternalMaxSize = 3
  Plans <- LeaningLeft
CHECK_DEADLOCK FALSE
PROPERTY ImplementsMap
