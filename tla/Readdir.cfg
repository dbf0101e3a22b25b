SPECIFICATION FairSpec
CONSTANTS
  Last = 4
  Kind <- KindOf
  Size <- SizeOf
  Dot = Dot
  DotDot = DotDot
  None = None
  MinPage = 1
  MaxPage = 3
  MaxOdd = 1
INVARIANTS
  TypeOK
  ListingExact
  NoneTwice
  NothingSkipped
  SavedFreed
PROPERTIES
  ListingEnds
  DiesOnlyGrown
