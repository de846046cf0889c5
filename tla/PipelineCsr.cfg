\* A mispredicted branch between a CSR write and a privileged instruction.
CONSTANTS
  Reg = {0, 1}
  Value = {0}
  ProgKind = {"CSR", "BRANCH"}
  JunkKind = {"ALU", "PRIV"}
  Seq = 4
  DIVSTEPS = 2
SPECIFICATION Spec
VIEW LiveState
PROPERTIES CorrectionReachesFetch
