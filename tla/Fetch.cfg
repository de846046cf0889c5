\* Three lines of three halfwords for two ways: misses, evictions, straddling instructions.
CONSTANTS
  NTAGS = 3
  NSETS = 1
  HALVES = 3
  Half <- MCHalf
  WideHalf <- MCWideHalf
  ZeroHalf <- MCZeroHalf
  rvec <- MCrvec
  None = None
  Stay = Stay
  Sequential = Sequential
SPECIFICATION MCFairSpec
INVARIANTS FetchInv
PROPERTIES ImplementsStream FetchGoesOn
VIEW LiveState
