SPECIFICATION Spec
CONSTANTS
  Slash = 2
  Threads = {t1, t2}
  Paths <- DotDirs
  FirstBlock <- DotBlock
  BlockPathLen = 3
  Opened <- Nested
SYMMETRY Symmetry
INVARIANTS
  TypeOK
  RootStays
  ScanComplete
  ListingBounded
PROPERTIES
  EmptyTestSound
  DeleteStaysOutside
