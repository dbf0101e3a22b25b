SPECIFICATION Spec
CONSTANTS
  None = None
  Threads = {t1, t2}
  Opens = {o1, o2}
  Modes = {1}
  MaxSize = 2
  MaxHoles = 1
  MaxCalls = 5
SYMMETRY Symmetry
INVARIANTS
  TypeOK
  AttrsKept
  AnswersHonest
  MemoryAccounted
CHECK_DEADLOCK FALSE
