SPECIFICATION Spec
CONSTANTS
  Thread = {t1, t2, t3}
  NoThread = NoThread
  Size = 2
  Nesting = {}
  MaxDepth = 2
INVARIANTS
  IInv
  MutualExclusion
PROPERTIES
  ImplementsReadWriteLock
  ExclusiveEnds
