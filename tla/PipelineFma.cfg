\* A multiply-add behind a load.
CONSTANTS
  Reg = {0, 1}
  Value = {0, 1}
  ProgKind = {"LOAD", "FMA"}
  JunkKind = {"ALU"}
  Seq = 4
  DIVSTEPS = 2
SPECIFICATION Spec
VIEW LiveState
PROPERTIES OperandsCurrent
