\* One user region with static data.
SPECIFICATION UserSpec
CONSTANTS
  Thread = {t1, t2}
  Master = t1
  TaskObj = {o1, o2, o3, o4}
  NoTask = NoTask
  NoCode = NoCode
  ParCode = par
  TaskCode = {fib}
  UserCode = {u1}
  Features = {"yield"}
  MaxTask = 0
  MaxParallel = 1
  UserFeatures = {"static"}
  MaxUser = 1
SYMMETRY Symmetry
INVARIANTS
  RegionIsInnermost
