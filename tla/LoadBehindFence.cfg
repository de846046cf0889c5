\* One line: a store, and a load of it right behind a FENCE.
CONSTANTS
  Tag = {t1}
  NSETS = 1
  Offset = {o1}
  Lane = {l1}
  Value = {0, 1}
  StoreIndex = {0}
  Zero = 0
  NoData = NoData
  StoreTag = {t1}
SPECIFICATION OverlapSpec
PROPERTY LoadsReadMemory
