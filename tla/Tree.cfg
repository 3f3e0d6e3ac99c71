SPECIFICATION Spec
CONSTANTS
  Zero <- ZeroPage
  IntPages = 1000
  SlotNum = 7
  LeafMaxSize = 4
  InternalMaxSize = 3
  Plans <- AllPlans
CHECK_DEADLOCK FALSE
INVARIANTS ShapeKept ChainComplete 
PROPERTY ImplementsMap
