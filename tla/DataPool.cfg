\* Two threads return to each other's pools: safety, refinement and liveness.
SPECIFICATION Spec
CONSTANTS
  Thread = {t1, t2}
  None = None
  ndatas = 1
  MaxLive = 2
INVARIANTS
  TypeOK
  IInv
  OnePlace
  PopHasData
  RemoteCounts
  MissingAreInUse
  PoolBounded
PROPERTIES
  ImplementsObjectPool
  GetDataReturns
