\* Nested user regions by name, no task created or left in one.
SPECIFICATION UserSpec
CONSTANTS
  Thread = {t1, t2}
  Master = t1
  TaskObj = {o1, o2, o3, o4}
  NoTask = NoTask
  NoCode = NoCode
  ParCode = par
  TaskCode = {fib}
  UserCode = {u1, u2}
  Features = {"yield", "undeferred"}
  MaxTask = 1
  MaxParallel = 1
  UserFeatures = {}
  MaxUser = 2
SYMMETRY Symmetry
INVARIANTS
  UserTypeOK
  ExclusiveMatches
  InclusiveNested
  RegionIsInnermost
  ValueIsStopMinusStart
