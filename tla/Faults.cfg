SPECIFICATION FairSpec
CONSTANTS
  a = a
  b = b
  BatchId = {a, b}
  Requests <- OneRequest
  Oversize = {}
  None = None
  MaxFaults = 1
  MaxEpoch = 2
  Writers = {w1}
  MaxAttempts = 2
  Indexers = {i1}
  MaxIndexAttempts = 2
  MaxWalPerPass = 2
  MaxKeys = 14
  Readers = {}
  ProbeMinimum = 1
  ProbeInitial = 1
  ProbeMaximum = 1
INVARIANT TypeOK
PROPERTIES StateVersionsIncrease ImplementsCommitLog DurableEventuallyVisible
