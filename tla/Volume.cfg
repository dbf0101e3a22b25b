SPECIFICATION Spec
CONSTANTS
  Threads = {t1, t2}
  Files = {f1, f2}
  Root = root
  Batch = 2
  LowWord = 6
  Garbage = {0, 1}
  NoRec = NoRec
  MaxMounts = 3
  MaxCreates = 3

SYMMETRY Symmetry
INVARIANTS
  TypeOK
  FsinfoImpliesRoot
  UniqueInos
  CrossMountUnique
  IInv
PROPERTY KeepsPromise
CHECK_DEADLOCK FALSE
