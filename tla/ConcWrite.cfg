SPECIFICATION Spec
CONSTANTS
  Threads = {t1, t2, t3}
  Null = Null
  BufLen = 5
  MaxFails = 2
SYMMETRY Symmetry
INVARIANTS
  TypeOK
  LeftIsClosedAgain
  OffsetCounts
  AloneSafe
CHECK_DEADLOCK FALSE
