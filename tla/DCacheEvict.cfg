\* One set, more lines than ways: replacement, write-back, the walk over ways, and every request accepted.
CONSTANTS
  Tag = {t1, t2, t3, t4, t5}
  NSETS = 1
  Offset = {o1}
  Lane = {l1}
  Value = {0, 1}
  StoreIndex = {0}
  Zero = 0
  NoData = NoData
  StoreTag = {t1}
SPECIFICATION MCFairSpec
INVARIANTS CacheInv
PROPERTIES ImplementsMemory RequestAccepted
VIEW FairState
