SPECIFICATION Spec
CONSTANTS
  Threads = {t1, t2}
  Zero = 0
  PageData = {0, 1}
  SlotNum = 2
  MaxPages = 3
  IntPages = 8
INVARIANTS PointersStayValid PinsCounted FullOnlyWhenPinned
PROPERTY ImplementsPageStore
