SPECIFICATION Spec
CONSTANTS
  Threads = {t1, t2}
  BLK = 2
  Data = {d1}
  Zero = zero
  Junk = junk
  MaxOff = 2
  Lens = {1, 2}
SYMMETRY Symmetry
INVARIANTS
  TypeOK
  BytesKept
  ReadBack
PROPERTY KeepsBytes
