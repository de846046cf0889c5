CONSTANTS
  DATA_BITS = 3
  BAUDS = 4
  RESET_CLOCKS = 5
  Pow2 <- MCPow2
  PROCS_MAX = 2
  Calls <- SBICalls
SPECIFICATION Spec
INVARIANTS ConsoleInv RegistersSurvive
PROPERTIES TakeTurns BothGoOn HaltEnds ImplementsTerminal
