SPECIFICATION Spec
CONSTANTS
  Zero <- ZeroPage
  IntPages = 1000
  SlotNum = 5
  LeafMaxSize = 3
  InternalMaxSize = 3
  PageSize = 7
  HeaderSize = 2
  SlotSize = 1
  ByteValues = 4
  KeyLen = 2
  Uses <- IntegersAndDoubles
CHECK_DEADLOCK FALSE
INVARIANTS ValuesOwned ScanFaithful
PROPERTY ImplementsKv
