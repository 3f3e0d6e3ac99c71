SPECIFICATION FairSpec
CONSTANTS
  a = a
  b = b
  c = c
  Channels = {a, b, c}
  Worlds <- SlotsAndReports
INVARIANT SlotsConsistent
PROPERTIES ReportsAsked QuitStops
