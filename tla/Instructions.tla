---------------------------- MODULE Instructions ----------------------------
(***************************************************************************)
(* The instructions of a program, by what the pipeline tells apart: the    *)
(* class that DecodeUnit.v decodes, the register fields, and whether the   *)
(* next instruction of the program is somewhere else than right behind     *)
(* this one.  Addresses, immediates and functions are left out.            *)
(***************************************************************************)
EXTENDS Naturals

CONSTANTS Reg,       \* register numbers; x0 is 0
          Value,     \* the values of a register
          ProgKind,  \* bound: the classes the program uses
          JunkKind   \* bound: the classes found off the program's path

AllKind == {"ALU", "DIV", "FMA", "LOAD", "STORE", "AMO", "CSR", "FENCE",
            "JAL", "JALR", "BRANCH", "PRIV", "UNIMP", "EBREAK"}

ASSUME RegAssumption  == Reg \subseteq Nat /\ 0 \in Reg
ASSUME ZeroAssumption == 0 \in Value
ASSUME KindAssumption == ProgKind \subseteq AllKind /\ JunkKind \subseteq AllKind

(* The decoder's classes: "PRIV" is ECALL, MRET and SRET, which go to an   *)
(* address held in a CSR; "UNIMP" is every opcode the decoder rejects;     *)
(* "ALU" has two source registers; "FMA" has three.                        *)
isLoadOrAMO(i)  == i.kind \in {"LOAD", "AMO"}
isPrivileged(i) == i.kind \in {"PRIV", "UNIMP"}
isJump(i)       == i.kind \in {"JAL", "JALR", "PRIV"}
isControl(i)    == isJump(i) \/ i.kind = "BRANCH"

(* What the hazard unit believes is read. *)
readsRs1(i) == i.kind # "JAL"
readsRs2(i) == i.kind \in {"STORE", "AMO", "BRANCH", "ALU", "DIV", "FMA"}

(* What the instruction is defined to read and write. *)
UsesRs1(i) == i.kind \in {"ALU", "DIV", "FMA", "LOAD", "STORE", "AMO", "CSR",
                          "JALR", "BRANCH"}
UsesRs2(i) == i.kind \in {"ALU", "DIV", "FMA", "STORE", "AMO", "BRANCH"}
UsesRs3(i) == i.kind = "FMA"
Writes(i)  == /\ i.kind \in {"ALU", "DIV", "FMA", "LOAD", "AMO", "CSR", "JAL", "JALR"}
              /\ i.rd # 0

(* Register fields that the encoding fixes, or that hold immediate bits    *)
(* nothing looks at, are 0.                                                *)
Instruction ==
  {i \in [kind : AllKind, rd : Reg, rs1 : Reg, rs2 : Reg, rs3 : Reg, taken : BOOLEAN] :
     /\ i.rd # 0  => Writes(i) \/ i.kind \in {"STORE", "BRANCH", "UNIMP"}
     /\ i.rs1 # 0 => UsesRs1(i) \/ i.kind \in {"UNIMP", "FENCE"}
     /\ i.rs2 # 0 => UsesRs2(i)
     /\ i.rs3 # 0 => UsesRs3(i)
     /\ i.kind # "BRANCH" => i.taken = isJump(i)}

NOP == [kind |-> "NOP", rd |-> 0, rs1 |-> 0, rs2 |-> 0, rs3 |-> 0, taken |-> FALSE]

ProgInstr == {i \in Instruction : i.kind \in ProgKind}
JunkInstr == {i \in Instruction : i.kind \in JunkKind}
=============================================================================
