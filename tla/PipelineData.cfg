\* The data path: two registers with two values, no jumps.
CONSTANTS
  Reg = {0, 1}
  Value = {0, 1}
  ProgKind = {"ALU", "DIV", "LOAD", "STORE", "CSR"}
  JunkKind = {"ALU"}
  Seq = 4
  DIVSTEPS = 2
SPECIFICATION Spec
VIEW LiveState
INVARIANTS InstretExact
PROPERTIES ImplementsInOrder
