\* Two sets of one line of two words of two bytes: byte enables, word select, the walk over sets, resets.
CONSTANTS
  Tag = {t1}
  NSETS = 2
  Offset = {o1, o2}
  Lane = {l1, l2}
  Value = {0, 1}
  StoreIndex = {1}
  Zero = 0
  NoData = NoData
  StoreTag = {t1}
SPECIFICATION MCSpec
INVARIANTS FenceDurable
PROPERTY ImplementsMemory
VIEW LiveState
