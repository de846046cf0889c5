--------------------------- MODULE PipelineProofs ---------------------------
(***************************************************************************)
(* Proofs about the pipeline, for every set of registers and values, every *)
(* length of a division and every number of positions, and for all         *)
(* programs but those with a mixture of instructions that the pipeline is  *)
(* known to get wrong (Pipeline.tla, CorrectionReachesFetch and            *)
(* OperandsCurrent), or that stops it or traps. CorrectionsReachFetch      *)
(* alone supposes none of this.                                            *)
(***************************************************************************)
EXTENDS Pipeline, TLAPS

USE SeqAssumption, DivAssumption, RegAssumption, ZeroAssumption, KindAssumption

(* An executed EBREAK halts the processor.                                 *)
NoHalt == "EBREAK" \notin ProgKind
(* A privileged instruction off the path waits for a CSR write with a      *)
(* branch in between, and the correction is lost.                          *)
CorrectionsKept ==
  \/ "CSR" \notin ProgKind
  \/ ProgKind \cap {"JALR", "BRANCH"} = {}
  \/ JunkKind \cap {"PRIV", "UNIMP"} = {}
(* No hazard is seen for the third operand.                                *)
ThirdOperandsReady ==
  "FMA" \notin ProgKind \/ ProgKind \cap {"LOAD", "AMO", "CSR"} = {}
(* An instruction that is not implemented writes its rd.                   *)
AllImplemented == "UNIMP" \notin ProgKind

(* What a step preserves.                                                  *)
Core == TypeOK /\ OneAccessAtATime /\ OnPath /\ NothingOwed /\ DivisionHeld

-----------------------------------------------------------------------------
(* Positions. *)

OnProgram(p) == p \in 0..(Seq - 1)

LEMMA SmallMod ==
  ASSUME NEW n \in 0..(2 * Seq - 1)
  PROVE  n % Seq = IF n < Seq THEN n ELSE n - Seq
OBVIOUS

LEMMA AfterIs ==
  ASSUME NEW p, OnProgram(p)
  PROVE  /\ After(p) = IF p = Seq - 1 THEN 0 ELSE p + 1
         /\ OnProgram(After(p)) /\ After(p) # Wrong
<1>1. (p + 1) % Seq = IF p + 1 < Seq THEN p + 1 ELSE p + 1 - Seq
  BY SmallMod DEF OnProgram
<1> QED BY <1>1 DEF After, OnProgram, Wrong

LEMMA AfterIsPosition ==
  ASSUME NEW p \in Position
  PROVE  After(p) \in Position
BY AfterIs DEF After, OnProgram, Wrong, Position

-----------------------------------------------------------------------------
(* What is in execute and what holds it there. *)

LEMMA BusyWires ==
  ASSUME NEW in
  PROVE  /\ M_busy(in) => aluBusy(in)
         /\ E_stall(in) <=> aluBusy(in)
         /\ D_stall(in) <=> F_stall(in) \/ F_busy(in)
BY DEF M_busy, aluBusy, E_stall, D_stall

(* A squashed slot in decode clears nothing that is held up. *)
LEMMA CoreCleared == Core => ClearedOnlyWhenDone
<1> SUFFICES ASSUME Core, FD_nop, ~DE_nop, NEW in \in Input, aluBusy(in)
             PROVE  M_busy(in)
  BY DEF ClearedOnlyWhenDone
<1>1. isControl(EI) BY DEF Core, OnPath
<1>2. ~divBusy /\ EI.kind # "DIV" /\ ~isLoadOrAMO(EI)
  BY <1>1 DEF Core, DivisionHeld, isControl, isJump, isLoadOrAMO
<1>3. ~in.dReady BY <1>2 DEF aluBusy
<1>4. DMemWrite \/ EM_isFENCE BY <1>2, <1>3 DEF Input, MemoryAsked, DMemRStrb
<1>5. EM.kind # "LOAD" BY <1>4 DEF DMemWrite, Core, NothingOwed
<1> QED BY <1>3, <1>5 DEF M_busy

LEMMA NotHalted ==
  ASSUME Core, NoHalt
  PROVE  ~HALT
BY DEF Core, OnPath, HALT, NoHalt, DE_nop, ProgInstr

-----------------------------------------------------------------------------
(* What one edge does to the stages.  An instruction moves on from decode  *)
(* when nothing holds it there and it is not squashed.                     *)
Moves(in) == ~FD_nop /\ ~E_flush(in) /\ ~F_stall(in)

LEMMA DecodeEffect ==
  ASSUME Core, NoHalt, NEW in \in Input, Decode(in)
  PROVE  /\ aluBusy(in) => DE' = DE \/ (DE_nop /\ DE' = Bubble)
         /\ ~aluBusy(in) /\ ~Moves(in) => DE' = Bubble
         /\ Moves(in) => /\ DE' = [instr |-> DI, seq |-> FD.seq, predict |-> in.predict]
                         /\ ~aluBusy(in) /\ ~E_correctPC /\ ~dataHazard /\ ~csrHazard
                         /\ ~F_busy(in)
<1>1. CASE aluBusy(in)
  <2>1. ~E_flush(in) /\ D_stall(in) /\ F_stall(in) BY <1>1 DEF E_flush, D_stall, F_stall
  <2>2. FD_nop /\ ~M_busy(in) => DE_nop
    BY <1>1, CoreCleared DEF ClearedOnlyWhenDone
  <2> QED BY <1>1, <2>1, <2>2 DEF Decode, Moves
<1>2. CASE ~aluBusy(in)
  <2>1. ~M_busy(in) BY <1>2, BusyWires
  <2>2. ~HALT BY NotHalted
  <2>3. F_stall(in) => E_flush(in) BY <1>2, <2>1, <2>2 DEF F_stall, E_flush
  <2>4. F_busy(in) => E_flush(in) BY <1>2, <2>1 DEF E_flush
  <2>5. ~E_flush(in) => ~D_stall(in) BY <2>3, <2>4, BusyWires
  <2>6. ~E_flush(in) => ~E_correctPC /\ ~dataHazard /\ ~csrHazard /\ ~F_busy(in)
    BY <1>2, <2>1 DEF E_flush
  <2> QED BY <1>2, <2>1, <2>3, <2>5, <2>6 DEF Decode, Moves
<1> QED BY <1>1, <1>2

LEMMA FetchEffect ==
  ASSUME NEW in \in Input, Fetch(in)
  PROVE  \/ /\ UNCHANGED <<PC, FD, FD_nop>>
            /\ F_stall(in) \/ F_busy(in)
         \/ /\ ~F_stall(in) /\ ~F_busy(in)
            /\ \E i \in IF PC = Wrong \/ Squash(in) THEN JunkInstr ELSE ProgInstr :
                 /\ FD' = [instr |-> i, seq |-> IF Squash(in) THEN Wrong ELSE PC]
                 /\ FD_nop' = Squash(in)
                 /\ PC' = PC_Next(in, i)
BY DEF Fetch, Advance, F_busy

LEMMA ExecuteEffect ==
  ASSUME NEW in \in Input, Execute(in)
  PROVE  /\ aluBusy(in) => /\ EM' = IF M_busy(in) THEN EM ELSE NoEM
                           /\ EM_isFENCE' = EM_isFENCE
         /\ ~aluBusy(in) =>
              /\ EM_isFENCE' = (EI.kind = "FENCE")
              /\ \E result \in Results(EI), data \in ReadData(EI) :
                   EM' = [kind |-> EI.kind, rd |-> EI.rd, wbEnable |-> wbEnable(EI),
                          isCSRWrite |-> EI.kind = "CSR" /\ EI.rs1 # 0,
                          Eresult |-> result, Mdata |-> data]
BY BusyWires DEF Execute, M_flush

LEMMA RecordEffect ==
  ASSUME Core, NEW in \in Input, Record(in)
  PROVE  /\ aluBusy(in) \/ DE_nop => UNCHANGED <<next, instr, operands, parity>>
         /\ ~aluBusy(in) /\ ~DE_nop =>
              /\ next' = After(next) /\ instr' = EI /\ parity' = 1 - parity
              /\ operands' = IF EI.kind = "DIV" THEN divOperands ELSE E_operands
BY BusyWires DEF Record, Leaves, Core, OnPath

(* The correction of a wrong prediction reaches fetch. *)
LEMMA CorrectionTaken ==
  ASSUME Core, CorrectionsKept, NoHalt, NEW in \in Input, E_correctPC, ~aluBusy(in)
  PROVE  ~F_stall(in) /\ ~F_busy(in)
<1>1. EI.kind \in {"JALR", "BRANCH"} /\ EI \in ProgInstr /\ DI \in JunkInstr
  BY DEF E_correctPC, Core, OnPath, DE_nop
<1>2. ~HALT /\ ~dataHazard BY <1>1 DEF HALT, dataHazard
<1>3. ~csrHazard
  BY <1>1 DEF csrHazard, isPrivileged, Core, NothingOwed, CorrectionsKept, ProgInstr, JunkInstr
<1>4. ~M_busy(in) BY BusyWires
<1>5. ~F_busy(in) BY DEF F_busy, ICacheValid, ICacheSplit
<1> QED BY <1>2, <1>3, <1>4, <1>5 DEF F_stall

-----------------------------------------------------------------------------
(* Types. *)

EMType == [kind : AllKind \cup {"NOP"}, rd : Reg, wbEnable : BOOLEAN,
           isCSRWrite : BOOLEAN, Eresult : Value, Mdata : Value]
OperandType == [rs1 : Value, rs2 : Value, rs3 : Value]

LEMMA InstructionType ==
  ASSUME NEW i \in Instruction \cup {NOP}
  PROVE  /\ i.kind \in AllKind \cup {"NOP"} /\ i.taken \in BOOLEAN
         /\ i.rd \in Reg /\ i.rs1 \in Reg /\ i.rs2 \in Reg /\ i.rs3 \in Reg
<1>1. CASE i \in Instruction
  <2>1. i \in [kind : AllKind, rd : Reg, rs1 : Reg, rs2 : Reg, rs3 : Reg, taken : BOOLEAN]
    BY <1>1 DEF Instruction
  <2> QED BY <2>1
<1>2. CASE i = NOP BY <1>2 DEF NOP
<1> QED BY <1>1, <1>2

LEMMA ForwardType ==
  ASSUME TypeOK, NEW r \in Reg
  PROVE  Forward(r) \in Value
<1>1. EM.Eresult \in Value /\ MW.wbData \in Value /\ rf[r] \in Value BY DEF TypeOK
<1> QED BY <1>1 DEF Forward

LEMMA OperandsType ==
  ASSUME TypeOK
  PROVE  E_operands \in OperandType
<1>1. EI.rs1 \in Reg /\ EI.rs2 \in Reg /\ EI.rs3 \in Reg
  BY InstructionType DEF TypeOK, Stage, EI
<1> QED BY <1>1, ForwardType DEF E_operands, OperandType

LEMMA BubbleTypes == Bubble \in Stage /\ NoEM \in EMType
BY DEF Bubble, NoEM, Stage, EMType, Position, Wrong

LEMMA FrontTypes ==
  ASSUME TypeOK, NEW in \in Input, Fetch(in), Decode(in)
  PROVE  /\ PC' \in Position /\ F_isSplitInstr' \in BOOLEAN
         /\ FD' \in [instr : Instruction \cup {NOP}, seq : Position] /\ FD_nop' \in BOOLEAN
         /\ DE' \in Stage
<1> USE DEF TypeOK
<1>1. FD.seq \in Position /\ DE.seq \in Position /\ DI \in Instruction \cup {NOP}
  BY DEF Stage, DI
<1>2. in.predict \in BOOLEAN BY DEF Input, AnyInput
<1>3. DE' \in Stage BY <1>1, <1>2, BubbleTypes DEF Decode, Stage
<1>4. F_isSplitInstr' \in BOOLEAN BY DEF Fetch, ICacheSplit
<1>5. CASE UNCHANGED <<PC, FD, FD_nop>> BY <1>3, <1>4, <1>5
<1>6. ASSUME NEW i \in IF PC = Wrong \/ Squash(in) THEN JunkInstr ELSE ProgInstr,
             FD' = [instr |-> i, seq |-> IF Squash(in) THEN Wrong ELSE PC],
             FD_nop' = Squash(in), PC' = PC_Next(in, i)
      PROVE  PC' \in Position /\ FD' \in [instr : Instruction \cup {NOP}, seq : Position]
             /\ FD_nop' \in BOOLEAN
  <2>1. i \in Instruction BY <1>6 DEF JunkInstr, ProgInstr
  <2>2. Wrong \in Position BY DEF Wrong, Position
  <2>3. PC_Next(in, i) \in Position
    BY <1>1, <2>1, <2>2, AfterIsPosition DEF PC_Next, CorrectedPC, PredictedPC, FollowingPC
  <2>4. Squash(in) \in BOOLEAN BY DEF Squash, D_predictPC, D_flush, E_correctPC
  <2> QED BY <1>6, <2>1, <2>2, <2>3, <2>4
<1> QED BY <1>3, <1>4, <1>5, <1>6, FetchEffect

LEMMA BackTypes ==
  ASSUME TypeOK, NEW in \in Input, Execute(in), MemoryStage(in), WriteBack
  PROVE  /\ EM' \in EMType /\ EM_isFENCE' \in BOOLEAN
         /\ MW' \in [rd : Reg, wbEnable : BOOLEAN, wbData : Value, nop : BOOLEAN]
         /\ rf' \in [Reg -> Value]
<1> USE DEF TypeOK
<1>1. EI \in Instruction \cup {NOP} BY DEF Stage, EI
<1>2. Results(EI) \subseteq Value /\ ReadData(EI) \subseteq Value
  BY DEF Results, ReadData
<1>3. wbEnable(EI) \in BOOLEAN BY DEF wbEnable
<1>4. EM' \in EMType
  <2>1. CASE aluBusy(in) BY <2>1, BubbleTypes, ExecuteEffect DEF EMType
  <2>2. CASE ~aluBusy(in)
    <3>1. EI.kind \in AllKind \cup {"NOP"} /\ EI.rd \in Reg BY <1>1, InstructionType
    <3> DEFINE csr == EI.kind = "CSR" /\ EI.rs1 # 0
    <3>2. csr \in BOOLEAN OBVIOUS
    <3>3. PICK result \in Results(EI), data \in ReadData(EI) :
            EM' = [kind |-> EI.kind, rd |-> EI.rd, wbEnable |-> wbEnable(EI),
                   isCSRWrite |-> csr, Eresult |-> result, Mdata |-> data]
      BY <2>2, ExecuteEffect
    <3>4. result \in Value /\ data \in Value BY <1>2
    <3> HIDE DEF csr
    <3> QED BY <1>3, <3>1, <3>2, <3>3, <3>4 DEF EMType
  <2> QED BY <2>1, <2>2
<1>5. EM_isFENCE' \in BOOLEAN BY ExecuteEffect
<1>6. M_wbData \in Value BY DEF M_wbData
<1>7. MW' \in [rd : Reg, wbEnable : BOOLEAN, wbData : Value, nop : BOOLEAN]
  <2>1. CASE M_busy(in)
    <3>1. MW' = [rd |-> MW.rd, wbEnable |-> FALSE, wbData |-> MW.wbData, nop |-> MW.nop]
      BY <2>1 DEF MemoryStage, StopWriting
    <3> QED BY <3>1
  <2>2. CASE ~M_busy(in)
    <3>1. EM.rd \in Reg /\ EM.wbEnable \in BOOLEAN OBVIOUS
    <3> DEFINE nop == EM.kind = "NOP"
    <3>2. nop \in BOOLEAN OBVIOUS
    <3>3. MW' = [rd |-> EM.rd, wbEnable |-> EM.wbEnable, wbData |-> M_wbData, nop |-> nop]
      BY <2>2 DEF MemoryStage
    <3> HIDE DEF nop
    <3> QED BY <1>6, <3>1, <3>2, <3>3
  <2> QED BY <2>1, <2>2
<1>8. rf' \in [Reg -> Value] BY DEF WriteBack
<1> QED BY <1>4, <1>5, <1>7, <1>8

LEMMA DividerTypes ==
  ASSUME TypeOK, Divide
  PROVE  divSteps' \in 0..DIVSTEPS /\ divFinished' \in BOOLEAN /\ divOperands' \in OperandType
BY OperandsType DEF TypeOK, Divide, divBusy, OperandType

LEMMA HistoryTypes ==
  ASSUME Core, NEW in \in Input, Record(in), CountInstruction(in)
  PROVE  /\ next' \in Position /\ next' # Wrong /\ instret' \in 0..(Seq - 1)
         /\ instr' \in Instruction \cup {NOP} /\ operands' \in OperandType
         /\ parity' \in {0, 1}
<1> USE DEF Core, TypeOK
<1>1. OnProgram(next) BY DEF OnPath, Position, Wrong, OnProgram
<1>2. OnProgram(After(next)) BY <1>1, AfterIs
<1>3. instret' \in 0..(Seq - 1)
  <2>1. (instret + 1) % Seq \in 0..(Seq - 1) BY SmallMod
  <2> QED BY <2>1 DEF CountInstruction
<1>4. E_operands \in OperandType /\ divOperands \in OperandType /\ operands \in OperandType
  BY OperandsType DEF OperandType
<1>5. EI \in Instruction \cup {NOP} BY DEF Stage, EI
<1>6. 1 - parity \in {0, 1} OBVIOUS
<1> QED
  BY <1>1, <1>2, <1>3, <1>4, <1>5, <1>6, RecordEffect DEF OnProgram, Position, Wrong

LEMMA TypeStep ==
  ASSUME Core, NEW in \in Input, Clock(in)
  PROVE  TypeOK'
<1>1. Fetch(in) /\ Decode(in) /\ Execute(in) /\ MemoryStage(in) /\ WriteBack /\ Divide
      /\ Record(in) /\ CountInstruction(in) /\ PortAnswer(in)
  BY DEF Clock, Execute
<1>2. TypeOK BY DEF Core
<1>3. fenceDone' \in BOOLEAN BY <1>1 DEF PortAnswer
<1>4. answered' \in {0, 1} BY <1>2 DEF Clock, TypeOK
<1> QED
  BY <1>1, <1>2, <1>3, <1>4, FrontTypes, BackTypes, DividerTypes, HistoryTypes
  DEF TypeOK, EMType, OperandType

-----------------------------------------------------------------------------
(* The order of the program. *)

LEMMA ClockParts ==
  ASSUME NEW in, Clock(in)
  PROVE  /\ Fetch(in) /\ Decode(in) /\ Execute(in) /\ Divide
         /\ MemoryStage(in) /\ WriteBack /\ Record(in) /\ CountInstruction(in)
BY DEF Clock, Execute

LEMMA ProgramKinds ==
  ASSUME NEW i \in ProgInstr
  PROVE  /\ i.kind \in ProgKind /\ i.kind # "NOP" /\ i \in Instruction
         /\ i.taken \in BOOLEAN /\ (i.kind # "BRANCH" => i.taken = isJump(i))
<1>1. i \in Instruction /\ i.kind \in ProgKind BY DEF ProgInstr
<1>2. i.kind # "NOP" BY <1>1 DEF AllKind
<1>3. i.kind # "BRANCH" => i.taken = isJump(i) BY <1>1 DEF Instruction
<1> QED BY <1>1, <1>2, <1>3, InstructionType

LEMMA NextIsExpected ==
  ASSUME Core, NEW in \in Input, Record(in), ~aluBusy(in)
  PROVE  next' = Expected /\ OnProgram(Expected)
<1>1. OnProgram(next) BY DEF Core, TypeOK, OnPath, OnProgram, Position, Wrong
<1>2. ~DE_nop => DE.seq = next BY DEF Core, OnPath
<1> QED BY <1>1, <1>2, RecordEffect, AfterIs DEF Expected

LEMMA BubbleEffect ==
  ASSUME DE' = Bubble
  PROVE  DE_nop' /\ ~E_correctPC' /\ Expected' = next'
<1>1. EI'.kind = "NOP" BY DEF EI, Bubble, NOP
<1> QED BY <1>1 DEF DE_nop, E_correctPC, Expected

LEMMA OnPathHeld ==
  ASSUME Core, NoHalt, NEW in \in Input, Clock(in), aluBusy(in)
  PROVE  OnPath'
<1>1. UNCHANGED <<PC, FD, FD_nop>> BY ClockParts, FetchEffect DEF F_stall
<1>2. UNCHANGED next BY ClockParts, RecordEffect
<1>3. CASE DE' = DE
  BY <1>1, <1>2, <1>3 DEF Core, OnPath, Expected, DE_nop, EI, DI, E_correctPC
<1>4. CASE DE_nop /\ DE' = Bubble
  <2>1. Expected = next /\ ~E_correctPC BY <1>4 DEF Expected, DE_nop, E_correctPC
  <2>2. DI' = DI BY <1>1 DEF DI
  <2>3. DE_nop' /\ ~E_correctPC' /\ Expected' = next' BY <1>4, BubbleEffect
  <2> QED BY <1>1, <1>2, <2>1, <2>2, <2>3 DEF Core, OnPath
<1> QED BY <1>3, <1>4, ClockParts, DecodeEffect

LEMMA OnPathCorrected ==
  ASSUME Core, NoHalt, CorrectionsKept, NEW in \in Input, Clock(in),
         ~aluBusy(in), E_correctPC
  PROVE  OnPath'
<1>1. ~F_stall(in) /\ ~F_busy(in) BY CorrectionTaken
<1>2. ~Moves(in) BY BusyWires DEF Moves, E_flush
<1>3. DE_nop' /\ ~E_correctPC' /\ Expected' = next'
  BY <1>2, ClockParts, DecodeEffect, BubbleEffect
<1>4. ~DE_nop BY DEF E_correctPC, DE_nop
<1>5. FD_nop' /\ PC' = After(DE.seq)
  BY <1>1, ClockParts, FetchEffect DEF Squash, D_flush, PC_Next, CorrectedPC
<1>6. next' = After(DE.seq) /\ next' # Wrong
  BY <1>4, ClockParts, NextIsExpected, HistoryTypes DEF Expected
<1> QED BY <1>3, <1>5, <1>6 DEF OnPath

LEMMA OnPathBubble ==
  ASSUME Core, NoHalt, NEW in \in Input, Clock(in),
         ~aluBusy(in), ~E_correctPC, ~Moves(in)
  PROVE  OnPath'
<1>1. DE_nop' /\ ~E_correctPC' /\ Expected' = next'
  BY ClockParts, DecodeEffect, BubbleEffect
<1>2. next' = Expected /\ next' # Wrong BY ClockParts, NextIsExpected, HistoryTypes
<1>3. CASE UNCHANGED <<PC, FD, FD_nop>>
  <2>1. DI' = DI BY <1>3 DEF DI
  <2> QED BY <1>1, <1>2, <1>3, <2>1 DEF Core, OnPath
<1>4. ASSUME ~F_stall(in), ~F_busy(in),
             NEW i \in IF PC = Wrong \/ Squash(in) THEN JunkInstr ELSE ProgInstr,
             FD' = [instr |-> i, seq |-> IF Squash(in) THEN Wrong ELSE PC],
             FD_nop' = Squash(in), PC' = PC_Next(in, i)
      PROVE  OnPath'
  <2>1. FD_nop BY <1>4 DEF Moves, E_flush, F_stall
  <2>2. ~D_predictPC(in) /\ ~Squash(in) BY <2>1 DEF D_predictPC, Squash, D_flush
  <2>3. PC = next' BY <1>2, <2>1 DEF Core, OnPath
  <2>4. i \in ProgInstr /\ FD'.seq = PC /\ DI' = i
    BY <1>2, <1>4, <2>2, <2>3 DEF DI
  <2>5. PC' = FollowingPC(i) BY <1>4, <2>2 DEF PC_Next
  <2>6. FD_nop' = FALSE BY <1>4, <2>2
  <2> QED BY <1>1, <1>2, <2>3, <2>4, <2>5, <2>6 DEF OnPath, FollowingPC
<1> QED BY <1>3, <1>4, ClockParts, FetchEffect

LEMMA OnPathMoves ==
  ASSUME Core, NoHalt, NEW in \in Input, Clock(in), Moves(in)
  PROVE  OnPath'
<1>1. /\ DE' = [instr |-> DI, seq |-> FD.seq, predict |-> in.predict]
      /\ ~aluBusy(in) /\ ~E_correctPC /\ ~F_stall(in) /\ ~F_busy(in) /\ ~FD_nop
  BY ClockParts, DecodeEffect DEF Moves
<1>2. /\ FD.seq = next' /\ next' # Wrong /\ OnProgram(FD.seq) /\ DI \in ProgInstr
      /\ PC = IF DI.taken THEN Wrong ELSE After(FD.seq)
  BY <1>1, ClockParts, NextIsExpected, HistoryTypes DEF Core, OnPath
<1>3. After(FD.seq) # Wrong BY <1>2, AfterIs
<1>4. EI' = DI /\ DE'.seq = next' /\ DE'.predict = in.predict BY <1>1, <1>2 DEF EI
<1>5. ~DE_nop' /\ Expected' = After(FD.seq)
  BY <1>2, <1>4, ProgramKinds DEF DE_nop, Expected
<1>6. /\ DI.taken \in BOOLEAN /\ in.predict \in BOOLEAN
      /\ DI.kind # "BRANCH" => DI.taken = isJump(DI)
  BY <1>2, ProgramKinds DEF Input, AnyInput
<1>7. E_correctPC' <=> \/ DI.kind = "JALR" /\ ~in.predict
                       \/ DI.kind = "BRANCH" /\ DI.taken # in.predict
  BY <1>4 DEF E_correctPC
<1>8. D_predictPC(in) <=> isJump(DI) \/ (DI.kind = "BRANCH" /\ in.predict)
  BY <1>1 DEF D_predictPC
<1>9. Squash(in) <=> D_predictPC(in) BY <1>1 DEF Squash, D_flush
<1>10. PICK i \in IF PC = Wrong \/ Squash(in) THEN JunkInstr ELSE ProgInstr :
          /\ FD' = [instr |-> i, seq |-> IF Squash(in) THEN Wrong ELSE PC]
          /\ FD_nop' = Squash(in)
          /\ PC' = PC_Next(in, i)
  BY <1>1, ClockParts, FetchEffect
<1>11. DI' = i BY <1>10 DEF DI
<1>12. CASE D_predictPC(in)
  <2>1. i \in JunkInstr /\ FD_nop' BY <1>9, <1>10, <1>12
  <2>2. isControl(EI') BY <1>4, <1>8, <1>12 DEF isControl
  <2>3. ~E_correctPC' => PC' = After(FD.seq)
    BY <1>1, <1>6, <1>7, <1>8, <1>10, <1>12 DEF PC_Next, PredictedPC, isJump
  <2> QED BY <1>2, <1>4, <1>5, <1>11, <2>1, <2>2, <2>3 DEF OnPath
<1>13. CASE ~D_predictPC(in)
  <2>1. FD_nop' = FALSE /\ FD'.seq = PC /\ PC' = FollowingPC(i)
    BY <1>1, <1>9, <1>10, <1>13 DEF PC_Next
  <2>2. E_correctPC' <=> DI.taken BY <1>6, <1>7, <1>8, <1>13 DEF isJump
  <2>3. E_correctPC' => i \in JunkInstr BY <1>2, <1>10, <2>2
  <2>4. ~E_correctPC' => i \in ProgInstr /\ PC = After(FD.seq)
    BY <1>2, <1>3, <1>9, <1>10, <1>13, <2>2
  <2> QED BY <1>2, <1>4, <1>5, <1>11, <2>1, <2>3, <2>4 DEF OnPath, FollowingPC
<1> QED BY <1>12, <1>13

LEMMA OnPathStep ==
  ASSUME Core, NoHalt, CorrectionsKept, NEW in \in Input, Clock(in)
  PROVE  OnPath'
<1>1. Moves(in) => ~aluBusy(in) /\ ~E_correctPC BY ClockParts, DecodeEffect
<1> QED BY <1>1, OnPathHeld, OnPathCorrected, OnPathBubble, OnPathMoves

-----------------------------------------------------------------------------
(* The registers: what they hold changes only when an instruction leaves   *)
(* execute.                                                                *)

LEMMA OperandsAre ==
  ASSUME NEW i
  PROVE  ISA!Operands(i) = [rs1 |-> IF UsesRs1(i) THEN regs[i.rs1] ELSE 0,
                            rs2 |-> IF UsesRs2(i) THEN regs[i.rs2] ELSE 0,
                            rs3 |-> IF UsesRs3(i) THEN regs[i.rs3] ELSE 0]
BY DEF ISA!Operands, ISA!UsesRs1, ISA!UsesRs2, ISA!UsesRs3, UsesRs1, UsesRs2, UsesRs3

LEMMA ForwardsCurrent ==
  ASSUME Core
  PROVE  E_operands = ISA!Operands(EI)
<1>1. EI.rs1 \in Reg /\ EI.rs2 \in Reg /\ EI.rs3 \in Reg
  BY InstructionType DEF Core, TypeOK, Stage, EI
<1>2. ASSUME NEW r \in Reg, EM.wbEnable /\ ResultFromMemory(EM.kind) => r # EM.rd
      PROVE  Forward(r) = regs[r]
  BY <1>2 DEF Forward, regs, M_wbData
<1>3. /\ UsesRs1(EI) => Forward(EI.rs1) = regs[EI.rs1]
      /\ UsesRs2(EI) => Forward(EI.rs2) = regs[EI.rs2]
      /\ UsesRs3(EI) => Forward(EI.rs3) = regs[EI.rs3]
  BY <1>1, <1>2 DEF Core, NothingOwed
<1> QED BY <1>3, OperandsAre DEF E_operands

LEMMA RegsStalled ==
  ASSUME Core, NEW in \in Input, Clock(in), M_busy(in)
  PROVE  regs' = regs
<1>1. EM' = EM BY BusyWires, ClockParts, ExecuteEffect
<1>2. M_wbData' = M_wbData BY <1>1 DEF M_wbData
<1>3. MW'.wbEnable = FALSE BY ClockParts DEF MemoryStage, StopWriting, Core, TypeOK
<1>4. ASSUME NEW r \in Reg
      PROVE  rf'[r] = IF MW.wbEnable /\ MW.rd = r THEN MW.wbData ELSE rf[r]
  BY ClockParts DEF WriteBack, Core, TypeOK
<1> QED BY <1>1, <1>2, <1>3, <1>4 DEF regs

LEMMA RegsMove ==
  ASSUME Core, NEW in \in Input, Clock(in), ~M_busy(in)
  PROVE  regs' = [r \in Reg |-> IF EM'.wbEnable /\ EM'.rd = r THEN M_wbData' ELSE regs[r]]
<1>1. MW' = [rd |-> EM.rd, wbEnable |-> EM.wbEnable, wbData |-> M_wbData,
             nop |-> EM.kind = "NOP"]
  BY ClockParts DEF MemoryStage
<1>2. MW'.rd = EM.rd /\ MW'.wbEnable = EM.wbEnable /\ MW'.wbData = M_wbData BY <1>1
<1>3. ASSUME NEW r \in Reg
      PROVE  rf'[r] = IF MW.wbEnable /\ MW.rd = r THEN MW.wbData ELSE rf[r]
  BY ClockParts DEF WriteBack, Core, TypeOK
<1>4. ASSUME NEW r \in Reg
      PROVE  (IF MW'.wbEnable /\ MW'.rd = r THEN MW'.wbData ELSE rf'[r]) = regs[r]
  BY <1>2, <1>3 DEF regs
<1> QED BY <1>4 DEF regs

LEMMA RegsHeld ==
  ASSUME Core, NEW in \in Input, Clock(in), aluBusy(in)
  PROVE  regs' = regs
<1>1. CASE M_busy(in) BY <1>1, RegsStalled
<1>2. CASE ~M_busy(in)
  <2>1. EM'.wbEnable = FALSE BY <1>2, ClockParts, ExecuteEffect DEF NoEM
  <2>2. regs' = [r \in Reg |-> regs[r]] BY <1>2, <2>1, RegsMove
  <2>3. regs = [r \in Reg |-> regs[r]] BY DEF regs
  <2> QED BY <2>2, <2>3
<1> QED BY <1>1, <1>2

LEMMA RegsWritten ==
  ASSUME Core, NEW in \in Input, Clock(in), ~aluBusy(in)
  PROVE  IF wbEnable(EI) THEN regs' = [regs EXCEPT ![EI.rd] = M_wbData'] ELSE regs' = regs
<1>1. EM'.wbEnable = wbEnable(EI) /\ EM'.rd = EI.rd BY ClockParts, ExecuteEffect
<1>2. regs' = [r \in Reg |-> IF wbEnable(EI) /\ EI.rd = r THEN M_wbData' ELSE regs[r]]
  BY <1>1, BusyWires, RegsMove
<1>3. regs = [r \in Reg |-> regs[r]] BY DEF regs
<1>4. CASE wbEnable(EI) 
  <2>1. regs' = [r \in Reg |-> IF EI.rd = r THEN M_wbData' ELSE regs[r]] BY <1>2, <1>4
  <2>2. [regs EXCEPT ![EI.rd] = M_wbData']
          = [r \in Reg |-> IF EI.rd = r THEN M_wbData' ELSE regs[r]]
    BY <1>3
  <2> QED BY <1>4, <2>1, <2>2
<1>5. CASE ~wbEnable(EI)
  <2>1. regs' = [r \in Reg |-> regs[r]] BY <1>2, <1>5
  <2> QED BY <1>3, <1>5, <2>1
<1> QED BY <1>4, <1>5

-----------------------------------------------------------------------------
(* The other parts of the invariant. *)

LEMMA AccessStep ==
  ASSUME Core, NoHalt, NEW in \in Input, Clock(in)
  PROVE  OneAccessAtATime'
<1>1. DE' = Bubble => ~DMemRStrb'
  <2>1. DE' = Bubble => EI'.kind = "NOP" BY DEF EI, Bubble, NOP
  <2> QED BY <2>1 DEF DMemRStrb, isLoadOrAMO
<1>2. CASE aluBusy(in)
  <2>1. EM' = EM \/ EM'.kind = "NOP" BY <1>2, ClockParts, ExecuteEffect DEF NoEM
  <2>2. DE' = DE \/ DE' = Bubble BY <1>2, ClockParts, DecodeEffect
  <2> QED BY <1>1, <2>1, <2>2 DEF Core, OneAccessAtATime, DMemRStrb, DMemWrite, EI
<1>3. CASE Moves(in)
  <2>1. EI' = DI /\ ~aluBusy(in) /\ ~dataHazard BY <1>3, ClockParts, DecodeEffect DEF EI
  <2>2. EM'.kind = EI.kind BY <2>1, ClockParts, ExecuteEffect
  <2> QED BY <2>1, <2>2 DEF dataHazard, OneAccessAtATime, DMemRStrb, DMemWrite
<1>4. CASE ~aluBusy(in) /\ ~Moves(in)
  BY <1>1, <1>4, ClockParts, DecodeEffect DEF OneAccessAtATime
<1> QED BY <1>2, <1>3, <1>4

LEMMA NothingOwedStep ==
  ASSUME Core, NoHalt, ThirdOperandsReady, NEW in \in Input, Clock(in)
  PROVE  NothingOwed'
<1> DEFINE Owed == EM'.wbEnable /\ ResultFromMemory(EM'.kind)
<1>1. DE' = Bubble => ~UsesRs1(EI') /\ ~UsesRs2(EI') /\ ~UsesRs3(EI')
  <2>1. DE' = Bubble => EI'.kind = "NOP" BY DEF EI, Bubble, NOP
  <2> QED BY <2>1 DEF UsesRs1, UsesRs2, UsesRs3
<1>2. CASE aluBusy(in)
  <2>1. EM' = EM \/ EM' = NoEM BY <1>2, ClockParts, ExecuteEffect
  <2>2. DE' = DE \/ DE' = Bubble BY <1>2, ClockParts, DecodeEffect
  <2>3. EM_isFENCE' = EM_isFENCE BY <1>2, ClockParts, ExecuteEffect
  <2>4. CASE EM' = NoEM
    <3>1. EM'.kind = "NOP" /\ EM'.wbEnable = FALSE /\ EM'.isCSRWrite = FALSE
      BY <2>4 DEF NoEM
    <3> QED BY <3>1 DEF NothingOwed
  <2>5. CASE EM' = EM /\ DE' = DE BY <2>3, <2>5 DEF Core, NothingOwed, EI
  <2>6. CASE EM' = EM /\ DE' = Bubble BY <1>1, <2>3, <2>6 DEF Core, NothingOwed
  <2> QED BY <2>1, <2>2, <2>4, <2>5, <2>6
<1>3. CASE ~aluBusy(in)
  <2>1. /\ EM'.kind = EI.kind /\ EM'.rd = EI.rd /\ EM_isFENCE' = (EI.kind = "FENCE")
        /\ EM'.isCSRWrite = (EI.kind = "CSR" /\ EI.rs1 # 0)
    BY <1>3, ClockParts, ExecuteEffect
  <2>2. EI.kind \in ProgKind \cup {"NOP"} BY ProgramKinds DEF Core, OnPath, DE_nop
  <2>3. ASSUME Owed
        PROVE  /\ UsesRs1(EI') => EI'.rs1 # EM'.rd
               /\ UsesRs2(EI') => EI'.rs2 # EM'.rd
               /\ UsesRs3(EI') => EI'.rs3 # EM'.rd
    <3>1. EI.kind \in {"LOAD", "AMO", "CSR"} BY <2>1, <2>3 DEF ResultFromMemory
    <3>2. CASE ~Moves(in) BY <1>1, <1>3, <3>2, ClockParts, DecodeEffect
    <3>3. CASE Moves(in)
      <4>1. /\ EI' = DI /\ ~dataHazard /\ ~E_correctPC /\ ~FD_nop
        BY <3>3, ClockParts, DecodeEffect DEF EI, Moves
      <4>2. ~rs1Hazard /\ ~rs2Hazard BY <3>1, <4>1 DEF dataHazard
      <4>3. UsesRs1(DI) => DI.rs1 # EI.rd BY <4>2 DEF rs1Hazard, readsRs1, UsesRs1
      <4>4. UsesRs2(DI) => DI.rs2 # EI.rd BY <4>2 DEF rs2Hazard, readsRs2, UsesRs2
      <4>5. DI \in ProgInstr BY <4>1 DEF Core, OnPath
      <4>6. ~UsesRs3(DI)
        BY <2>2, <3>1, <4>5, ProgramKinds DEF ThirdOperandsReady, UsesRs3
      <4> QED BY <2>1, <4>1, <4>3, <4>4, <4>6
    <3> QED BY <3>2, <3>3
  <2> QED BY <2>1, <2>2, <2>3 DEF NothingOwed
<1> QED BY <1>2, <1>3

LEMMA DivisionStep ==
  ASSUME Core, NoHalt, NEW in \in Input, Clock(in)
  PROVE  DivisionHeld'
<1>1. divSteps \in Nat /\ (divFinished' <=> divSteps = 1)
  <2>1. divSteps \in Nat BY DEF Core, TypeOK
  <2>2. divFinished' = (divSteps = 1) BY ClockParts DEF Divide
  <2> QED BY <2>1, <2>2
<1>2. ASSUME EI.kind = "DIV", aluBusy(in)
      PROVE  EI' = EI /\ ISA!Operands(EI)' = ISA!Operands(EI)
  <2>1. DE' = DE BY <1>2, ClockParts, DecodeEffect DEF DE_nop
  <2>2. EI' = EI BY <2>1 DEF EI
  <2>3. regs' = regs BY <1>2, RegsHeld
  <2> QED BY <2>2, <2>3 DEF ISA!Operands, ISA!UsesRs1, ISA!UsesRs2, ISA!UsesRs3
<1>3. Divide BY ClockParts
<1>4. CASE divBusy
  <2>1. divSteps' = divSteps - 1 /\ divOperands' = divOperands
    BY <1>3, <1>4 DEF Divide
  <2>2. EI.kind = "DIV" /\ divOperands = ISA!Operands(EI) /\ aluBusy(in)
    BY <1>4 DEF Core, DivisionHeld, aluBusy
  <2>3. EI' = EI /\ ISA!Operands(EI)' = ISA!Operands(EI) BY <1>2, <2>2
  <2>4. EI'.kind = "DIV" /\ divOperands' = ISA!Operands(EI)' BY <2>1, <2>2, <2>3
  <2>5. divBusy' => ~divFinished' BY <1>1, <1>4, <2>1 DEF divBusy
  <2> QED BY <2>4, <2>5 DEF DivisionHeld
<1>5. CASE ~divBusy
  <2>1. ~divFinished' BY <1>1, <1>5 DEF divBusy
  <2>2. ASSUME divBusy'
        PROVE  EI.kind = "DIV" /\ ~divFinished /\ divOperands' = E_operands
    BY <1>3, <1>5, <2>2 DEF Divide, divBusy
  <2>3. divBusy' => aluBusy(in) BY <2>2 DEF aluBusy
  <2> QED BY <1>2, <2>1, <2>2, <2>3, ForwardsCurrent DEF DivisionHeld
<1> QED BY <1>4, <1>5

-----------------------------------------------------------------------------
(* The invariant. *)

LEMMA CoreInit == Init => Core
<1> SUFFICES ASSUME Init PROVE Core
  OBVIOUS
<1>1. EI.kind = "NOP" BY DEF Init, EI, Bubble, NOP
<1>2. DE_nop /\ ~E_correctPC /\ ~DMemRStrb /\ ~divBusy
  BY <1>1 DEF DE_nop, E_correctPC, DMemRStrb, isLoadOrAMO, divBusy, Init
<1>3. OneAccessAtATime BY <1>2 DEF OneAccessAtATime
<1>4. OnPath BY <1>2 DEF OnPath, Init, Expected, Wrong
<1>5. NothingOwed BY DEF NothingOwed, Init, NoEM
<1>6. DivisionHeld BY <1>2 DEF DivisionHeld, Init
<1>7. TypeOK
  <2>1. DE \in Stage /\ EM \in EMType BY BubbleTypes DEF Init
  <2>2. Wrong \in Position /\ 0 \in Position /\ 0 \in 0..(Seq - 1) BY DEF Wrong, Position
  <2>3. rf \in [Reg -> Value] BY DEF Init
  <2>4. MW \in [rd : Reg, wbEnable : BOOLEAN, wbData : Value, nop : BOOLEAN] BY DEF Init
  <2>5. FD \in [instr : Instruction \cup {NOP}, seq : Position] BY <2>2 DEF Init
  <2>6. divOperands \in OperandType /\ operands \in OperandType BY DEF Init, OperandType
  <2>7. 0 \in 0..DIVSTEPS OBVIOUS
  <2> QED
    BY <2>1, <2>2, <2>3, <2>4, <2>5, <2>6, <2>7 DEF TypeOK, Init, EMType, OperandType
<1> QED BY <1>3, <1>4, <1>5, <1>6, <1>7 DEF Core

LEMMA CoreStep ==
  ASSUME Core, NoHalt, CorrectionsKept, ThirdOperandsReady, [Next]_vars
  PROVE  Core'
<1>1. CASE UNCHANGED vars
  BY <1>1 DEF vars, Core, TypeOK, OneAccessAtATime, DMemRStrb, DMemWrite, OnPath, Expected,
              DE_nop, E_correctPC, EI, DI, NothingOwed, DivisionHeld, divBusy, regs, M_wbData,
              ISA!Operands, ISA!UsesRs1, ISA!UsesRs2, ISA!UsesRs3
<1>2. ASSUME NEW in \in Input, Clock(in) PROVE Core'
  BY <1>2, TypeStep, AccessStep, OnPathStep, NothingOwedStep, DivisionStep DEF Core
<1> QED BY <1>1, <1>2 DEF Next

LEMMA CoreAlways ==
  ASSUME NoHalt, CorrectionsKept, ThirdOperandsReady
  PROVE  Spec => []Core
<1>1. Init => Core BY CoreInit
<1>2. Core /\ [Next]_vars => Core' BY CoreStep
<1> QED BY <1>1, <1>2, PTL DEF Spec

(* Instructions are executed in the order of the program and none that was *)
(* fetched by mistake; nothing is waited for that has not come; the port   *)
(* is asked for one thing at a time; a division in progress is that of the *)
(* instruction in execute; and no squash clears an instruction that is     *)
(* held up (ControlUnit.v:26-34, DecodeUnit.v:377-458).                    *)
THEOREM PipelineInvariant ==
  ASSUME NoHalt, CorrectionsKept, ThirdOperandsReady
  PROVE  Spec => []PipelineInv
<1>1. Core => PipelineInv BY CoreCleared DEF Core, PipelineInv
<1> QED BY <1>1, CoreAlways, PTL

-----------------------------------------------------------------------------
(* What the program sees. *)

LEMMA WritesBack ==
  ASSUME AllImplemented, NEW i \in ProgInstr
  PROVE  wbEnable(i) <=> Writes(i)
<1>1. i \in Instruction /\ i.kind \in ProgKind /\ i.kind # "UNIMP" /\ i.kind # "NOP"
  BY ProgramKinds DEF AllImplemented
<1>2. i.rd # 0 => Writes(i) \/ i.kind \in {"STORE", "BRANCH", "UNIMP"}
  BY <1>1 DEF Instruction
<1> QED BY <1>1, <1>2 DEF wbEnable, Writes

LEMMA ReadsCurrent ==
  ASSUME Core, NEW in \in Input, Clock(in), ~aluBusy(in), ~DE_nop
  PROVE  operands' = ISA!Operands(EI)
<1>1. operands' = IF EI.kind = "DIV" THEN divOperands ELSE E_operands
  BY ClockParts, RecordEffect
<1>2. EI.kind = "DIV" => divFinished BY DEF aluBusy
<1>3. EI.kind = "DIV" => divOperands = ISA!Operands(EI) BY <1>2 DEF Core, DivisionHeld
<1> QED BY <1>1, <1>3, ForwardsCurrent

LEMMA ExecutesInOrder ==
  ASSUME Core, NoHalt, CorrectionsKept, ThirdOperandsReady, AllImplemented,
         NEW in \in Input, Clock(in), ~aluBusy(in), ~DE_nop
  PROVE  ISA!Next
<1>1. /\ instr' = EI /\ next' = After(next) /\ parity' = 1 - parity
  BY ClockParts, RecordEffect
<1>2. EI \in ProgInstr /\ next # Wrong BY DEF Core, OnPath
<1>3. operands' = ISA!Operands(EI) BY ReadsCurrent
<1>4. next' = (next + 1) % Seq BY <1>1, <1>2 DEF After
<1>5. M_wbData' \in Value
  <2>1. TypeOK' BY TypeStep
  <2> QED BY <2>1 DEF TypeOK, M_wbData
<1>6. IF Writes(EI) THEN \E v \in Value : regs' = [regs EXCEPT ![EI.rd] = v]
                    ELSE regs' = regs
  BY <1>2, <1>5, RegsWritten, WritesBack
<1>7. ISA!Writes(EI) <=> Writes(EI) BY DEF ISA!Writes, Writes
<1> QED BY <1>1, <1>2, <1>3, <1>4, <1>6, <1>7 DEF ISA!Next, ISA!Execute

LEMMA StepInOrder ==
  ASSUME Core, NoHalt, CorrectionsKept, ThirdOperandsReady, AllImplemented, [Next]_vars
  PROVE  [ISA!Next]_(ISA!ioVars)
<1>1. CASE UNCHANGED vars
  BY <1>1 DEF vars, ISA!ioVars, regs, M_wbData
<1>2. ASSUME NEW in \in Input, Clock(in) PROVE [ISA!Next]_(ISA!ioVars)
  <2>1. CASE aluBusy(in)
    BY <1>2, <2>1, ClockParts, RecordEffect, RegsHeld DEF ISA!ioVars
  <2>2. CASE ~aluBusy(in) /\ DE_nop
    <3>1. ~wbEnable(EI) BY <2>2 DEF DE_nop, wbEnable
    <3> QED BY <1>2, <2>2, <3>1, ClockParts, RecordEffect, RegsWritten DEF ISA!ioVars
  <2>3. CASE ~aluBusy(in) /\ ~DE_nop BY <1>2, <2>3, ExecutesInOrder
  <2> QED BY <2>1, <2>2, <2>3
<1> QED BY <1>1, <1>2 DEF Next

LEMMA InitInOrder == Init => ISA!Init
<1> SUFFICES ASSUME Init PROVE ISA!Init
  OBVIOUS
<1>1. EM.wbEnable = FALSE /\ MW.wbEnable = FALSE BY DEF Init, NoEM
<1>2. regs = [r \in Reg |-> 0] BY <1>1 DEF regs, Init
<1> QED BY <1>2 DEF Init, ISA!Init, ISA!NOP, NOP

(* The five stages execute a program as a machine does that takes one      *)
(* instruction after the other: each once, in order, with the registers    *)
(* its predecessors left (ControlUnit.v:26-34, ExecuteUnit.v:103-125,      *)
(* DecodeUnit.v:377-458, FetchUnit.v:60-83).                               *)
THEOREM PipelineInOrder ==
  ASSUME NoHalt, CorrectionsKept, ThirdOperandsReady, AllImplemented
  PROVE  Spec => ImplementsInOrder
<1>1. Init => ISA!Init BY InitInOrder
<1>2. Core /\ [Next]_vars => [ISA!Next]_(ISA!ioVars) BY StepInOrder
<1> QED BY <1>1, <1>2, CoreAlways, PTL DEF Spec, ImplementsInOrder, ISA!Spec

(* The violation of the next one that TLC finds comes from the mixture of  *)
(* fused operations with late results, and from nothing else.              *)

(* Every instruction executes with the registers its predecessors left     *)
(* (ExecuteUnit.v:103-125, DecodeUnit.v:377-391).                          *)
THEOREM OperandsAreCurrent ==
  ASSUME NoHalt, CorrectionsKept, ThirdOperandsReady
  PROVE  Spec => OperandsCurrent
<1>1. ASSUME Core, [Next]_vars
      PROVE  [next' # next => operands' = ISA!Operands(EI)]_vars
  <2>1. ASSUME NEW in \in Input, Clock(in), next' # next
        PROVE  operands' = ISA!Operands(EI)
    <3>1. ~aluBusy(in) /\ ~DE_nop BY <1>1, <2>1, ClockParts, RecordEffect
    <3> QED BY <1>1, <2>1, <3>1, ReadsCurrent
  <2> QED BY <1>1, <2>1 DEF Next
<1> QED BY <1>1, CoreAlways, PTL DEF Spec, OperandsCurrent

(* When a mispredicted branch or return leaves execute, nothing follows it *)
(* there at once, and the fetch unit squashes what it fetches and goes to  *)
(* the corrected address, in every program and with any stall, but for     *)
(* one: a CSR hazard in that clock keeps address, instruction and slot as  *)
(* they are, and the correction is lost.  It always is then: the violation *)
(* of CorrectionReachesFetch that TLC finds is the only one there is       *)
(* (ControlUnit.v:26-34, DecodeUnit.v:377-458, FetchUnit.v:60-83).         *)
LostToCsrHazardOnly ==
  [][next' # next /\ E_correctPC =>
       /\ DE' = Bubble
       /\ IF csrHazard THEN UNCHANGED <<PC, FD, FD_nop>> ELSE PC' = CorrectedPC /\ FD_nop']_vars

THEOREM CorrectionsReachFetch == Spec => LostToCsrHazardOnly
<1>1. ASSUME NEW in \in Input, Clock(in), next' # next, E_correctPC
      PROVE  /\ DE' = Bubble
             /\ IF csrHazard THEN UNCHANGED <<PC, FD, FD_nop>> ELSE PC' = CorrectedPC /\ FD_nop'
  <2>1. ~aluBusy(in) /\ ~M_busy(in)
    <3>1. Leaves(in) BY <1>1, ClockParts DEF Record
    <3> QED BY <3>1, BusyWires DEF Leaves
  <2>2. EI.kind \in {"JALR", "BRANCH"} BY <1>1 DEF E_correctPC
  <2>3. ~HALT /\ ~dataHazard BY <2>2 DEF HALT, dataHazard
  <2>4. ~F_busy(in) BY <1>1 DEF F_busy, ICacheValid, ICacheSplit
  <2>5. F_stall(in) <=> csrHazard BY <2>1, <2>3 DEF F_stall
  <2>6. DE' = Bubble BY <1>1, <2>1, ClockParts DEF Decode, E_flush
  <2>7. CASE csrHazard
    <3>1. F_stall(in) BY <2>5, <2>7
    <3>2. UNCHANGED <<PC, FD, FD_nop>> BY <1>1, <3>1, ClockParts, FetchEffect
    <3> QED BY <2>6, <2>7, <3>2
  <2>8. CASE ~csrHazard
    <3>1. ~F_stall(in) /\ Squash(in) BY <1>1, <2>5, <2>8 DEF Squash, D_flush
    <3>2. PC' = CorrectedPC /\ FD_nop' BY <1>1, <2>4, <3>1, ClockParts, FetchEffect DEF PC_Next
    <3> QED BY <2>6, <2>8, <3>2
  <2> QED BY <2>7, <2>8
<1>2. [Next]_vars => [next' # next /\ E_correctPC =>
                        /\ DE' = Bubble
                        /\ IF csrHazard THEN UNCHANGED <<PC, FD, FD_nop>>
                           ELSE PC' = CorrectedPC /\ FD_nop']_vars
  BY <1>1 DEF Next
<1> QED BY <1>2, PTL DEF Spec, LostToCsrHazardOnly

-----------------------------------------------------------------------------
(* The count of executed instructions. *)

Lag(a, b) == (a + Seq - b) % Seq

LEMMA LagGrows ==
  ASSUME NEW a, NEW b, OnProgram(a), OnProgram(b), Lag(a, b) < Seq - 1
  PROVE  Lag(After(a), b) = Lag(a, b) + 1
<1>1. a + Seq - b \in 0..(2 * Seq - 1) BY DEF OnProgram
<1>2. Lag(a, b) = IF a < b THEN a + Seq - b ELSE a - b
  BY <1>1, SmallMod DEF Lag, OnProgram
<1>3. After(a) + Seq - b \in 0..(2 * Seq - 1) BY AfterIs DEF OnProgram
<1>4. Lag(After(a), b) = IF After(a) < b THEN After(a) + Seq - b ELSE After(a) - b
  BY <1>3, SmallMod, AfterIs DEF Lag, OnProgram
<1> QED BY <1>2, <1>4, AfterIs DEF OnProgram

LEMMA LagShrinks ==
  ASSUME NEW a, NEW b, OnProgram(a), OnProgram(b), Lag(a, b) > 0
  PROVE  Lag(a, (b + 1) % Seq) = Lag(a, b) - 1 /\ OnProgram((b + 1) % Seq)
<1>1. a + Seq - b \in 0..(2 * Seq - 1) BY DEF OnProgram
<1>2. Lag(a, b) = IF a < b THEN a + Seq - b ELSE a - b
  BY <1>1, SmallMod DEF Lag, OnProgram
<1>3. (b + 1) % Seq = IF b + 1 < Seq THEN b + 1 ELSE 0 BY SmallMod DEF OnProgram
<1> DEFINE c == (b + 1) % Seq
<1>4. c \in 0..(Seq - 1) BY <1>3 DEF OnProgram
<1> HIDE DEF c
<1>5. a + Seq - c \in 0..(2 * Seq - 1) BY <1>4 DEF OnProgram
<1>6. Lag(a, c) = IF a < c THEN a + Seq - c ELSE a - c
  BY <1>4, <1>5, SmallMod DEF Lag, OnProgram
<1>7. c = IF b + 1 < Seq THEN b + 1 ELSE 0 BY <1>3 DEF c
<1>8. Lag(a, c) = Lag(a, b) - 1 BY <1>2, <1>4, <1>6, <1>7 DEF OnProgram
<1> QED BY <1>4, <1>8 DEF c, OnProgram

Behind == One(EM.kind # "NOP") + One(~MW.nop)

LEMMA CountStep ==
  ASSUME Core, InstretExact, NEW in \in Input, Clock(in)
  PROVE  InstretExact'
<1>1. OnProgram(next) /\ OnProgram(instret)
  BY DEF Core, TypeOK, OnPath, OnProgram, Position, Wrong
<1>2. Lag(next, instret) = Behind BY DEF InstretExact, Lag, Behind
<1>3. CASE M_busy(in)
  <2>1. EM' = EM /\ next' = next BY <1>3, BusyWires, ClockParts, ExecuteEffect, RecordEffect
  <2>2. instret' = instret BY <1>3, ClockParts DEF CountInstruction
  <2>3. MW'.nop = MW.nop BY <1>3, ClockParts DEF MemoryStage, StopWriting, Core, TypeOK
  <2> QED BY <2>1, <2>2, <2>3 DEF InstretExact
<1>4. CASE ~M_busy(in)
  <2>1. MW'.nop = (EM.kind = "NOP") BY <1>4, ClockParts DEF MemoryStage
  <2>2. instret' = IF ~MW.nop THEN (instret + 1) % Seq ELSE instret
    BY <1>4, ClockParts DEF CountInstruction
  <2>3. Lag(next, instret') = One(EM.kind # "NOP") /\ OnProgram(instret')
    <3>1. CASE MW.nop
      <4>1. Behind = One(EM.kind # "NOP") BY <3>1 DEF Behind, One
      <4> QED BY <1>1, <1>2, <2>2, <3>1, <4>1
    <3>2. CASE ~MW.nop
      <4>1. Lag(next, instret) = One(EM.kind # "NOP") + 1 BY <1>2, <3>2 DEF Behind, One
      <4>2. Lag(next, instret) > 0 BY <4>1 DEF One
      <4> QED BY <1>1, <2>2, <3>2, <4>1, <4>2, LagShrinks DEF One
    <3> QED BY <3>1, <3>2
  <2>4. CASE aluBusy(in) \/ DE_nop
    <3>1. EM'.kind = "NOP"
      BY <1>4, <2>4, ClockParts, ExecuteEffect DEF NoEM, DE_nop
    <3>2. next' = next BY <2>4, ClockParts, RecordEffect
    <3>3. MW'.nop <=> EM.kind = "NOP" BY <2>1
    <3>4. One(EM'.kind # "NOP") = 0 /\ One(~MW'.nop) = One(EM.kind # "NOP")
      BY <3>1, <3>3 DEF One
    <3> QED BY <2>3, <3>2, <3>4 DEF InstretExact, Lag, One
  <2>5. CASE ~aluBusy(in) /\ ~DE_nop
    <3>1. EM'.kind # "NOP" BY <2>5, ClockParts, ExecuteEffect DEF DE_nop
    <3>2. next' = After(next) BY <2>5, ClockParts, RecordEffect
    <3>3. Lag(next', instret') = One(EM.kind # "NOP") + 1
      BY <1>1, <2>3, <3>2, LagGrows DEF One
    <3>4. MW'.nop <=> EM.kind = "NOP" BY <2>1
    <3>5. One(EM'.kind # "NOP") = 1 /\ One(~MW'.nop) = One(EM.kind # "NOP")
      BY <3>1, <3>4 DEF One
    <3> QED BY <3>3, <3>5 DEF InstretExact, Lag, One
  <2> QED BY <2>4, <2>5
<1> QED BY <1>3, <1>4

(* Once what is on its way is counted, instret is the number of            *)
(* instructions the program has executed, whatever was squashed, stalled   *)
(* or divided again (MemoryUnit.v:212).                                    *)
THEOREM InstretIsExact ==
  ASSUME NoHalt, CorrectionsKept, ThirdOperandsReady
  PROVE  Spec => []InstretExact
<1>1. Init => InstretExact
  <2> SUFFICES ASSUME Init PROVE InstretExact
    OBVIOUS
  <2>1. (0 + Seq - 0) % Seq = 0 BY SmallMod
  <2> QED BY <2>1 DEF Init, InstretExact, One, NoEM
<1>2. ASSUME Core, InstretExact, [Next]_vars PROVE InstretExact'
  <2>1. CASE UNCHANGED vars BY <1>2, <2>1 DEF vars, InstretExact
  <2>2. CASE Next BY <1>2, <2>2, CountStep DEF Next
  <2> QED BY <1>2, <2>1, <2>2
<1> QED BY <1>1, <1>2, CoreAlways, PTL DEF Spec
=============================================================================
