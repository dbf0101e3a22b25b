SPECIFICATION Spec
CONSTANTS
  Slash = 2
  Threads = {t1}
  Paths <- TwoDirs
  FirstBlock <- DirsBlock
  BlockPathLen = 3
  Opened <- Nested
PROPERTY DeleteRemovesEntry
