\* Privileged instructions off the path of the program.
CONSTANTS
  Reg = {0, 1}
  Value = {0}
  ProgKind = {"ALU", "BRANCH"}
  JunkKind = {"ALU", "PRIV"}
  Seq = 4
  DIVSTEPS = 2
SPECIFICATION Spec
VIEW LiveState
INVARIANTS TrapsOnPath
