SPECIFICATION Spec
CONSTANTS
  a = a
  b = b
  BatchId = {a, b}
  Requests <- Overlapping
  Oversize = {}
  None = None
  MaxFaults = 0
  MaxEpoch = 2
  Writers = {w1, w2}
  MaxAttempts = 2
  Indexers = {i1}
  MaxIndexAttempts = 2
  MaxWalPerPass = 2
  MaxKeys = 5
  Readers = {}
  ProbeMinimum = 1
  ProbeInitial = 1
  ProbeMaximum = 1
SYMMETRY AnyWriter
INVARIANTS ExactlyOnce AcksHold WalContiguous EpochsNondecreasing TransitionsValid
