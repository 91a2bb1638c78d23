\* Two threads look regions up, and end, at the same time.
SPECIFICATION Spec
CONSTANTS
  Thread = {t1, t2}
  None = None
  Code = {c1}
  UserCode = {u1}
  NField = 2
  MaxRegion = 3
INVARIANTS
  TypeOK
  ListIsMap
  LocalIsGlobal
  ParentIsAsked
  SiblingsNumbered
  NothingLost
  AllMerged
  IInv
PROPERTY ThreadEnds
