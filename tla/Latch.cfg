SPECIFICATION FairSpec
CONSTANTS
  Threads = {t1, t2, t3, t4}
  MaxReaders = 3
INVARIANTS MutualExclusion FieldsTell NoLostWakeup
PROPERTY WriterGetsIn
