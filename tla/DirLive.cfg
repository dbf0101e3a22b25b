SPECIFICATION FairSpec
CONSTANTS
  Slash = 2
  Threads = {t1, t2}
  Paths <- Nested
  FirstBlock <- NestedBlock
  BlockPathLen = 3
  Opened <- Child
PROPERTIES
  ScanEnds
  KeepsPromise
