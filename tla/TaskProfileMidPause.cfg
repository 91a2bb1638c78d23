\* The profiler is paused before the workers have left the last region.
SPECIFICATION Spec
CONSTANTS
  Thread = {t1, t2}
  Master = t1
  TaskObj = {o1, o2, o3, o4, o5}
  NoTask = NoTask
  NoCode = NoCode
  ParCode = par
  TaskCode = {fib}
  UserCode = {}
  Features = {"midpause"}
  MaxTask = 0
  MaxParallel = 1
SYMMETRY Symmetry
INVARIANT ValueIsStopMinusStart
