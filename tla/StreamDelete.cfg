SPECIFICATION FairSpec
CONSTANTS
  Threads = {t1}
  BLK = 2
  Data = {d1}
  Zero = zero
  Junk = junk
  MaxOff = 3
  Lens = {2}
PROPERTY DeleteReturns
