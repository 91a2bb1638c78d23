\* Tasks complete before the tasks they created.
SPECIFICATION Spec
CONSTANTS
  Thread = {t1, t2}
  Master = t1
  TaskObj = {o1, o2, o3, o4, o5}
  NoTask = NoTask
  NoCode = NoCode
  ParCode = par
  TaskCode = {fib}
  UserCode = {}
  Features = {"yield", "orphans"}
  MaxTask = 3
  MaxParallel = 1
SYMMETRY Symmetry
INVARIANT ValueIsStopMinusStart
