\* Control flow: every class that waits, jumps or uses the port, on and off the path; the values do not matter.
CONSTANTS
  Reg = {0, 1}
  Value = {0}
  ProgKind = {"DIV", "LOAD", "AMO", "FENCE", "JAL", "JALR", "BRANCH", "PRIV"}
  JunkKind = {"LOAD", "JALR", "PRIV", "UNIMP", "EBREAK"}
  Seq = 4
  DIVSTEPS = 2
SPECIFICATION FairSpec
VIEW FairState
INVARIANTS PipelineInv
PROPERTIES Progress ImplementsInOrder
