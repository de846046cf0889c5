------------------------------ MODULE InOrder -------------------------------
(***************************************************************************)
(* What the pipeline promises to a program: its instructions execute one   *)
(* at a time, in program order, none skipped and none twice, and each one  *)
(* reads the registers as the instructions before it left them.            *)
(***************************************************************************)
EXTENDS Instructions

CONSTANTS Program,  \* the instructions a program is made of
          Seq       \* bound: program positions are counted modulo Seq

VARIABLES next,      \* the position of the next instruction of the program
          regs,      \* the registers
          instr,     \* the instruction that executed last
          operands,  \* what it read
          parity     \* of the number of instructions executed

ioVars == <<next, regs, instr, operands, parity>>

Operands(i) ==
  [rs1 |-> IF UsesRs1(i) THEN regs[i.rs1] ELSE 0,
   rs2 |-> IF UsesRs2(i) THEN regs[i.rs2] ELSE 0,
   rs3 |-> IF UsesRs3(i) THEN regs[i.rs3] ELSE 0]

Init == /\ next = 0
        /\ regs \in {r \in [Reg -> Value] : r[0] = 0}
        /\ instr = NOP
        /\ operands = [rs1 |-> 0, rs2 |-> 0, rs3 |-> 0]
        /\ parity = 0

(* The instruction chosen is the value of instr'. *)
Execute(i) ==
  /\ operands' = Operands(i)
  /\ parity' = 1 - parity
  /\ next' = (next + 1) % Seq
  /\ IF Writes(i) THEN \E v \in Value : regs' = [regs EXCEPT ![i.rd] = v]
                  ELSE UNCHANGED regs

Next == instr' \in Program /\ Execute(instr')

Spec == Init /\ [][Next]_ioVars
=============================================================================
