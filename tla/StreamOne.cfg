SPECIFICATION FairSpec
CONSTANTS
  Threads = {t1}
  BLK = 2
  Data = {d1, d2}
  Zero = zero
  Junk = junk
  MaxOff = 5
  Lens = {0, 4}
INVARIANTS
  BlocksDisjoint
  BytesKept
  ReadBack
PROPERTIES
  ReadWriteReturn
  EachStepShrinks
  KeepsBytes
