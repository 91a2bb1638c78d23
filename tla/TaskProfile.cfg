\* Well-structured tasking with the profiler started and paused around it.
SPECIFICATION Spec
CONSTANTS
  Thread = {t1, t2}
  Master = t1
  TaskObj = {o1, o2, o3, o4, o5}
  NoTask = NoTask
  NoCode = NoCode
  ParCode = par
  TaskCode = {fib}
  UserCode = {}
  Features = {"yield", "undeferred"}
  MaxTask = 3
  MaxParallel = 2
SYMMETRY Symmetry
INVARIANTS
  TypeOK
  ExclusiveMatches
  InclusiveMatches
  CallPathFaithful
  ValueIsStopMinusStart
  MeasurementFresh
  AssertionsHold
PROPERTY RegionKept
