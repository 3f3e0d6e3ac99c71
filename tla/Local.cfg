SPECIFICATION Spec
CONSTANTS
  w1 = w1
  w2 = w2
  w3 = w3
  Writers = {w1, w2, w3}
  Readers = {r1}
  NoFile = NoFile
  Size <- Sizes
SYMMETRY Symmetry
INVARIANTS NeverPartial NoLitter
PROPERTY ImplementsAtomicCreate
