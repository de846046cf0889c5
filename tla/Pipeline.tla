------------------------------ MODULE Pipeline ------------------------------
(***************************************************************************)
(* The five-stage pipeline: ControlUnit.v and the part of FetchUnit.v,     *)
(* DecodeUnit.v, ExecuteUnit.v, MemoryUnit.v and WriteBackUnit.v that      *)
(* moves instructions and operands.  One step is one rising edge of clk_i. *)
(*                                                                         *)
(* The program is a sequence of instructions at positions 0, 1, 2, ...     *)
(* (counted modulo Seq) that is chosen while it is fetched; after a wrong  *)
(* prediction the fetch unit is off that path, and what it finds there is  *)
(* junk.  Positions are history: no decision of the pipeline reads one.    *)
(* The instruction cache, the data port and the predictors answer as they  *)
(* like, within the promises their own modules establish.                  *)
(***************************************************************************)
EXTENDS Instructions

CONSTANTS Seq,       \* bound: program positions are counted modulo Seq
          DIVSTEPS   \* the steps of a division, 32 in the code

ASSUME SeqAssumption == Seq \in Nat /\ Seq > 3
ASSUME DivAssumption == DIVSTEPS \in Nat \ {0}

Wrong    == Seq                \* "not on the program's path"
Position == 0..Seq
After(p) == IF p = Wrong THEN Wrong ELSE (p + 1) % Seq

Bubble == [instr |-> NOP, seq |-> Wrong, predict |-> FALSE]
NoEM   == [kind |-> "NOP", rd |-> 0, wbEnable |-> FALSE, isCSRWrite |-> FALSE,
           Eresult |-> 0, Mdata |-> 0]

VARIABLES
  PC, F_isSplitInstr,  \* position being fetched; its second half is
  FD, FD_nop,          \* the instruction in decode; it was squashed
  DE,                  \* the instruction in execute, and what was predicted
  EM, EM_isFENCE,      \* the instruction in the memory stage
  MW,                  \* the result in write-back
  rf,                  \* the register file
  divSteps,            \* steps left of a division (EE_quotientMsk), 0: idle
  divFinished,         \* EE_divFinished
  divOperands,         \* what the divider latched
  fenceDone,           \* the data cache has acknowledged the fence it is shown
  instret,             \* CSR_instret
  next, instr, operands, \* history: the position behind the instruction that
                         \* executed last, that instruction, what it read
  parity,                \* history: of the number of instructions executed,
  answered               \* of edges at which no cache held anything up

vars == <<PC, F_isSplitInstr, FD, FD_nop, DE, EM, EM_isFENCE, MW, rf, divSteps,
          divFinished, divOperands, fenceDone, instret, next, instr, operands,
          parity, answered>>

(* What comes from outside in one cycle: the data port is ready, the       *)
(* instruction cache has the address, the instruction there straddles two  *)
(* lines, and the prediction for the instruction in decode: "taken" for a  *)
(* branch, "the right return address" for a JALR.                          *)
AnyInput == [dReady : BOOLEAN, iReady : BOOLEAN, straddles : BOOLEAN, predict : BOOLEAN]

DI == FD.instr
EI == DE.instr

-----------------------------------------------------------------------------
(* The wires of the stages and of the control unit. *)

DE_nop   == EI.kind = "NOP"
HALT     == EI.kind = "EBREAK"
divBusy  == divSteps > 0

DMemRStrb == isLoadOrAMO(EI)
DMemWrite == EM.kind \in {"STORE", "AMO"}
MemoryAsked == DMemRStrb \/ DMemWrite \/ (EM_isFENCE /\ ~fenceDone)

BusyDuringDivision(in) == EI.kind = "DIV" \/ ~in.dReady    \* mutant
aluBusy(in) == divBusy \/ (EI.kind = "DIV" /\ ~divFinished) \/ ~in.dReady
BusyWhileWriting(in) == ~in.dReady /\ DMemWrite    \* mutant
M_busy(in)  == ~in.dReady /\ EM.kind # "LOAD"

E_correctPC == \/ EI.kind = "JALR" /\ ~DE.predict
               \/ EI.kind = "BRANCH" /\ EI.taken # DE.predict

D_predictPC(in) == ~FD_nop /\ (isJump(DI) \/ (DI.kind = "BRANCH" /\ in.predict))

rs1Hazard == readsRs1(DI) /\ DI.rs1 = EI.rd
rs2Hazard == readsRs2(DI) /\ DI.rs2 = EI.rd
dataHazard ==
  \/ ~FD_nop /\ EI.kind \in {"LOAD", "AMO", "CSR"} /\ (rs1Hazard \/ rs2Hazard)
  \/ isLoadOrAMO(DI) /\ EI.kind \in {"STORE", "AMO"}
  \/ (DI.kind = "CSR" \/ isPrivileged(DI)) /\ EI.kind = "CSR" /\ EI.rs1 # 0

csrHazard == isPrivileged(DI) /\ EM.isCSRWrite

ICacheValid(in) == E_correctPC \/ in.iReady
ICacheSplit(in) == ~E_correctPC /\ in.straddles /\ ~F_isSplitInstr
F_busy(in)      == ~ICacheValid(in) \/ ICacheSplit(in)

F_stall(in) == M_busy(in) \/ aluBusy(in) \/ csrHazard \/ dataHazard \/ HALT
D_stall(in) == F_stall(in) \/ F_busy(in)
E_stall(in) == M_busy(in) \/ aluBusy(in)
D_flush     == E_correctPC
FlushWithoutFetch(in) == (E_correctPC \/ csrHazard \/ dataHazard)    \* mutant
                          /\ ~M_busy(in) /\ ~aluBusy(in)
E_flush(in) == (E_correctPC \/ csrHazard \/ dataHazard \/ F_busy(in))
                /\ ~M_busy(in) /\ ~aluBusy(in)
M_flush(in) == aluBusy(in) /\ ~M_busy(in)

(* Traps and returns set the trap CSRs and the privilege from decode. *)
csrTrapSetEn(in) == isPrivileged(DI) /\ ~D_stall(in)

-----------------------------------------------------------------------------
(* Fetch. *)

(* Where the program goes on from what is in decode, if it was predicted   *)
(* well, and from what is in execute.                                      *)
PredictedPC(in) ==
  IF DI.taken /\ (DI.kind = "JALR" => in.predict) THEN After(FD.seq) ELSE Wrong
CorrectedPC == After(DE.seq)
FollowingPC(i) == IF i.taken THEN Wrong ELSE After(PC)

PC_Next(in, i) == IF E_correctPC THEN CorrectedPC
                  ELSE IF D_predictPC(in) THEN PredictedPC(in) ELSE FollowingPC(i)

Advance(in) == ~F_stall(in) /\ ICacheValid(in)

Squash(in) == D_predictPC(in) \/ D_flush

(* Half an instruction, or a squashed one, is kept from decode; the bits   *)
(* of a squashed one are there for the hazard unit to see.                 *)
Fetch(in) ==
  IF ~Advance(in) THEN UNCHANGED <<PC, F_isSplitInstr, FD, FD_nop>>
  ELSE /\ F_isSplitInstr' = ICacheSplit(in)
       /\ IF ICacheSplit(in) THEN UNCHANGED <<PC, FD, FD_nop>>
          ELSE \E i \in IF PC = Wrong \/ Squash(in) THEN JunkInstr ELSE ProgInstr :
                 /\ FD' = [instr |-> i, seq |-> IF Squash(in) THEN Wrong ELSE PC]
                 /\ FD_nop' = Squash(in)
                 /\ PC' = PC_Next(in, i)

-----------------------------------------------------------------------------
(* Decode. *)

Decode(in) ==
  DE' = IF (E_flush(in) \/ FD_nop) /\ ~M_busy(in) THEN Bubble
        ELSE IF ~D_stall(in) THEN [instr |-> DI, seq |-> FD.seq, predict |-> in.predict]
        ELSE DE

-----------------------------------------------------------------------------
(* Execute. *)

(* The value of a source register: from the memory stage, from write-back, *)
(* or from the register file.                                              *)
WriteBackFirst(r) == IF MW.wbEnable /\ MW.rd = r THEN MW.wbData    \* mutant
                     ELSE IF EM.wbEnable /\ EM.rd = r THEN EM.Eresult ELSE rf[r]
Forward(r) == IF EM.wbEnable /\ EM.rd = r THEN EM.Eresult
              ELSE IF MW.wbEnable /\ MW.rd = r THEN MW.wbData ELSE rf[r]

E_operands == [rs1 |-> IF UsesRs1(EI) THEN Forward(EI.rs1) ELSE 0,
               rs2 |-> IF UsesRs2(EI) THEN Forward(EI.rs2) ELSE 0,
               rs3 |-> IF UsesRs3(EI) THEN Forward(EI.rs3) ELSE 0]

(* An idle divider latches the operands at every edge and starts when it   *)
(* sees a division that it has not just finished.                          *)
Divide ==
  /\ IF divBusy
       THEN divSteps' = divSteps - 1 /\ UNCHANGED divOperands
       ELSE /\ divSteps' = IF EI.kind = "DIV" /\ ~dataHazard /\ ~divFinished
                           THEN DIVSTEPS ELSE 0
            /\ divOperands' = E_operands
  /\ divFinished' = (divSteps = 1)

wbEnable(i) == i.kind \notin {"NOP", "BRANCH", "STORE"} /\ i.rd # 0

(* What a load, an atomic or a CSR access forwards from its Eresult is not *)
(* what it will write back: that comes out of the memory stage.            *)
ResultFromMemory(kind) == kind \in {"LOAD", "AMO", "CSR"}

Results(i)  == IF wbEnable(i) THEN Value ELSE {0}
ReadData(i) == IF wbEnable(i) /\ ResultFromMemory(i.kind) THEN Value ELSE {0}

Execute(in) ==
  /\ IF M_flush(in) THEN EM' = NoEM
     ELSE IF E_stall(in) THEN UNCHANGED EM
     ELSE \E result \in Results(EI), data \in ReadData(EI) :
            EM' = [kind |-> EI.kind, rd |-> EI.rd, wbEnable |-> wbEnable(EI),
                   isCSRWrite |-> EI.kind = "CSR" /\ EI.rs1 # 0,
                   Eresult |-> result, Mdata |-> data]
  /\ EM_isFENCE' = IF E_stall(in) THEN EM_isFENCE ELSE EI.kind = "FENCE"
  /\ Divide

-----------------------------------------------------------------------------
(* Memory and write-back. *)

M_wbData == IF ResultFromMemory(EM.kind) THEN EM.Mdata ELSE EM.Eresult

StopWriting(in) == MW' = [MW EXCEPT !.wbEnable = FALSE]

MemoryStage(in) ==
  IF M_busy(in) THEN StopWriting(in)
  ELSE MW' = [rd |-> EM.rd, wbEnable |-> EM.wbEnable, wbData |-> M_wbData,
              nop |-> EM.kind = "NOP"]

WriteBack == rf' = IF MW.wbEnable THEN [rf EXCEPT ![MW.rd] = MW.wbData] ELSE rf

CountBubbles(in) == instret' = IF M_busy(in) THEN instret ELSE (instret + 1) % Seq    \* mutant
CountInstruction(in) ==
  instret' = IF ~MW.nop /\ ~M_busy(in) THEN (instret + 1) % Seq ELSE instret

-----------------------------------------------------------------------------
(* The data port acknowledges at once when nothing is asked of it, and     *)
(* keeps acknowledging a fence for as long as it is shown one.             *)
PortAnswer(in) == fenceDone' = (EM_isFENCE /\ EM_isFENCE' /\ (fenceDone \/ in.dReady))

(* History: an instruction executes when it leaves the execute stage.      *)
Leaves(in) == ~E_stall(in) /\ ~DE_nop

Record(in) ==
  IF Leaves(in)
    THEN /\ next' = After(DE.seq) /\ instr' = EI
         /\ operands' = IF EI.kind = "DIV" THEN divOperands ELSE E_operands
         /\ parity' = 1 - parity
    ELSE UNCHANGED <<next, instr, operands, parity>>

Clock(in) ==
  /\ WriteBack /\ CountInstruction(in) /\ MemoryStage(in)
  /\ Decode(in) /\ Record(in)
  /\ Execute(in) /\ PortAnswer(in)
  /\ answered' = IF in.dReady /\ in.iReady THEN 1 - answered ELSE answered
  /\ Fetch(in)

(* After the power-on reset. *)
Init ==
  /\ PC = 0 /\ F_isSplitInstr = FALSE
  /\ FD = [instr |-> NOP, seq |-> Wrong] /\ FD_nop = TRUE
  /\ DE = Bubble /\ EM = NoEM /\ EM_isFENCE = FALSE
  /\ MW = [rd |-> 0, wbEnable |-> FALSE, wbData |-> 0, nop |-> TRUE]
  /\ rf = [r \in Reg |-> 0]
  /\ divSteps = 0 /\ divFinished = FALSE /\ divOperands = [rs1 |-> 0, rs2 |-> 0, rs3 |-> 0]
  /\ fenceDone = FALSE
  /\ instret = 0 /\ next = 0
  /\ instr = NOP /\ operands = [rs1 |-> 0, rs2 |-> 0, rs3 |-> 0] /\ parity = 0 /\ answered = 0

(* An answer nobody asked for is not enumerated twice. *)
Input ==
  {in \in AnyInput :
     /\ MemoryAsked \/ in.dReady
     /\ in.straddles => in.iReady /\ ~F_isSplitInstr
     /\ in.predict => DI.kind \in {"JALR", "BRANCH"}}

Next == \E in \in Input : Clock(in)

Spec == Init /\ [][Next]_vars

(* Both caches answer what they are asked in the end, and an answer stays  *)
(* until it is used, so a cycle in which neither holds anything up comes   *)
(* again and again.                                                        *)
FairSpec == Spec /\ []<><<answered' # answered>>_answered

-----------------------------------------------------------------------------
(* The registers as the program sees them: the results on their way to the *)
(* register file have already been written.                                *)
regs == [r \in Reg |-> IF EM.wbEnable /\ EM.rd = r THEN M_wbData
                       ELSE IF MW.wbEnable /\ MW.rd = r THEN MW.wbData ELSE rf[r]]

ISA == INSTANCE InOrder WITH Program <- ProgInstr

Stage == [instr : Instruction \cup {NOP}, seq : Position, predict : BOOLEAN]

(* Every pipeline register has its type. *)
TypeOK ==
  /\ PC \in Position /\ F_isSplitInstr \in BOOLEAN
  /\ FD \in [instr : Instruction \cup {NOP}, seq : Position] /\ FD_nop \in BOOLEAN
  /\ DE \in Stage
  /\ EM \in [kind : AllKind \cup {"NOP"}, rd : Reg, wbEnable : BOOLEAN,
             isCSRWrite : BOOLEAN, Eresult : Value, Mdata : Value]
  /\ EM_isFENCE \in BOOLEAN
  /\ MW \in [rd : Reg, wbEnable : BOOLEAN, wbData : Value, nop : BOOLEAN]
  /\ rf \in [Reg -> Value]
  /\ divSteps \in 0..DIVSTEPS /\ divFinished \in BOOLEAN
  /\ divOperands \in [rs1 : Value, rs2 : Value, rs3 : Value]
  /\ fenceDone \in BOOLEAN
  /\ instret \in 0..(Seq - 1) /\ next \in Position
  /\ instr \in Instruction \cup {NOP} /\ operands \in [rs1 : Value, rs2 : Value, rs3 : Value]
  /\ parity \in {0, 1} /\ answered \in {0, 1}

(* The pipeline executes the program in order, each instruction once, with *)
(* the operands its predecessors left, and nothing that a wrong prediction *)
(* fetched (ControlUnit.v:26-34, ExecuteUnit.v:103-125, DecodeUnit.v:      *)
(* 377-458, FetchUnit.v:60-83).                                            *)
ImplementsInOrder == ISA!Spec

(* A squashed slot in decode clears the execute stage even while the       *)
(* execute stage is stalled (DecodeUnit.v:436), which loses no instruction *)
(* because what it clears is a jump that is not held up.                   *)
ClearedOnlyWhenDone ==
  FD_nop /\ ~DE_nop => \A in \in Input : M_busy(in) \/ ~aluBusy(in)

(* An access of the execute stage and one of the memory stage never meet   *)
(* on the single data port (DecodeUnit.v:382, Processor.v:32).             *)
OneAccessAtATime == ~(DMemRStrb /\ DMemWrite)

(* What those two and the order of the program rest on.                    *)

(* An instruction in execute is the next one of the program.  Unless it    *)
(* was predicted wrong, decode holds the one behind it, or fetch is there; *)
(* if it was, decode holds something that nobody will execute.             *)
Expected == IF DE_nop THEN next ELSE After(DE.seq)
OnPath ==
  /\ next # Wrong
  /\ ~DE_nop => DE.seq = next /\ EI \in ProgInstr
  /\ FD_nop => DE_nop \/ isControl(EI)
  /\ ~FD_nop /\ ~E_correctPC => FD.seq = Expected /\ DI \in ProgInstr
  /\ ~E_correctPC =>
       PC = IF FD_nop THEN Expected ELSE IF DI.taken THEN Wrong ELSE After(FD.seq)
  /\ E_correctPC => DI \in JunkInstr

(* The memory stage holds an instruction of the program, and one whose     *)
(* result is not there yet is not waited for in execute.                   *)
NothingOwed ==
  /\ EM.kind \in ProgKind \cup {"NOP"}
  /\ EM.isCSRWrite => EM.kind = "CSR"
  /\ EM_isFENCE => EM.kind \in {"FENCE", "NOP"}
  /\ EM.wbEnable /\ ResultFromMemory(EM.kind) =>
       /\ UsesRs1(EI) => EI.rs1 # EM.rd
       /\ UsesRs2(EI) => EI.rs2 # EM.rd
       /\ UsesRs3(EI) => EI.rs3 # EM.rd

(* The divider works on the operands of the division in execute.           *)
DivisionHeld ==
  /\ divBusy => ~divFinished
  /\ divBusy \/ divFinished => EI.kind = "DIV" /\ divOperands = ISA!Operands(EI)

(* All of it, on registers of their types.                                 *)
PipelineInv == /\ TypeOK /\ ClearedOnlyWhenDone /\ OneAccessAtATime
               /\ OnPath /\ NothingOwed /\ DivisionHeld

(* Instructions that have left execute but are not counted yet are the     *)
(* ones in the memory stage and in write-back (MemoryUnit.v:212).          *)
One(b) == IF b THEN 1 ELSE 0
InstretExact ==
  (next + Seq - instret) % Seq = One(EM.kind # "NOP") + One(~MW.nop)

(* The program goes on for ever: no combination of stalls, flushes,        *)
(* restarted divisions and wrong guesses, an EBREAK that was fetched by    *)
(* mistake among them, holds every stage up (ControlUnit.v:26-34).         *)
Progress == []<><<next' # next>>_vars

(* "Calculates branch condition and corrcts PC if needed" (Processor/      *)
(* README.md:42): when a mispredicted branch or return leaves the execute  *)
(* stage, the fetch unit goes to the address it computed.                  *)
CorrectionReachesFetch ==
  [][next' # next /\ E_correctPC => PC' = CorrectedPC]_vars

(* "Uses forwarded values from Memory/Writeback units if needed"           *)
(* (Processor/README.md:35): an instruction executes with the registers    *)
(* its predecessors left.                                                  *)
OperandsCurrent == [][next' # next => operands' = ISA!Operands(EI)]_vars

(* "Handles traps" (Processor/README.md:20): only an instruction of the    *)
(* program takes a trap or returns from one (DecodeUnit.v:352-360).        *)
TrapsOnPath == \A in \in Input : csrTrapSetEn(in) => FD.seq # Wrong
=============================================================================
