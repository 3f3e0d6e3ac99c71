SPECIFICATION Spec
CONSTANTS
  a = a
  b = b
  BatchId = {a, b}
  Requests <- TwoRequests
  Oversize = {}
  None = None
  MaxFaults = 0
  MaxEpoch = 1
  Writers = {w1}
  MaxAttempts = 1
  Indexers = {i1}
  MaxIndexAttempts = 1
  MaxWalPerPass = 2
  MaxKeys = 5
  Readers = {r1}
  ProbeMinimum = 1
  ProbeInitial = 1
  ProbeMaximum = 1
SYMMETRY AnyRequest
INVARIANTS SnapshotExact ReadYourCommits PublishedWalPresent ManifestComplete
PROPERTIES ReadsMonotonic
