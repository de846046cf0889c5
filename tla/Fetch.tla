-------------------------------- MODULE Fetch --------------------------------
(***************************************************************************)
(* The fetch unit (src/src/Processor/Pipeline/FetchUnit.v) and the         *)
(* instruction cache it drives.  One step is one rising edge of clk_i.     *)
(*                                                                         *)
(* Instructions are one or two halfwords long and may straddle two lines;  *)
(* then two lookups are made, the first half is kept aside, and decode is  *)
(* shown its old instruction in the meantime.  The stall, the prediction   *)
(* for the instruction in decode and the correction from execute are       *)
(* inputs.  The program does not change: nothing invalidates this cache,   *)
(* and FENCE.I has no effect (MemoryUnit.v:108).                           *)
(***************************************************************************)
EXTENDS ICache

CONSTANTS rvec,             \* rvec_i
          None,             \* no prediction, no correction
          Stay, Sequential  \* answers to decode: "the same again", "the next"

ASSUME VectorAssumption == rvec \in Address
ASSUME NamesAssumption  == /\ {None, Stay, Sequential} \cap Address = {}
                           /\ Stay # Sequential

VARIABLES
  PC, F_isSplitInstr,           \* the address looked up; a second half is
  FD_PC, FD_nop, FD_isRV32C,    \* the instruction in decode
  FD_isSplitInstr, FD_instrPart, FD_instrHold,
  answer                        \* history: what decode was answered

fetchVars == <<PC, F_isSplitInstr, FD_PC, FD_nop, FD_isRV32C, FD_isSplitInstr,
               FD_instrPart, FD_instrHold>>
vars == <<icVars, fetchVars, answer>>

-----------------------------------------------------------------------------
(* Address arithmetic in halfwords, around the end of memory. *)

NextLine(l) == <<IF l[2] = NSETS - 1 THEN IF l[1] = NTAGS - 1 THEN 0 ELSE l[1] + 1
                                     ELSE l[1],
                 IF l[2] = NSETS - 1 THEN 0 ELSE l[2] + 1>>
PrevLine(l) == <<IF l[2] = 0 THEN IF l[1] = 0 THEN NTAGS - 1 ELSE l[1] - 1
                             ELSE l[1],
                 IF l[2] = 0 THEN NSETS - 1 ELSE l[2] - 1>>
Plus2(a)  == IF a.offset = HALVES - 1
               THEN [line |-> NextLine(a.line), offset |-> 0]
               ELSE [a EXCEPT !.offset = @ + 1]
Minus2(a) == IF a.offset = 0
               THEN [line |-> PrevLine(a.line), offset |-> HALVES - 1]
               ELSE [a EXCEPT !.offset = @ - 1]

AnyInput == [F_stall : BOOLEAN, predict : Address \cup {None},
             correct : Address \cup {None}]

(* Decode predicts only for an instruction it holds. *)
Input == {in \in AnyInput : FD_nop => in.predict = None}

-----------------------------------------------------------------------------
D_flush(in) == in.correct # None

ICacheSplit(in) == ~D_flush(in) /\ ~cmp_o(PC) /\ PC.offset = HALVES - 1

ICacheValid(in) == valid_o(PC, D_flush(in))
F_busy(in)      == ~ICacheValid(in) \/ ICacheSplit(in)

PC_Next(in) == IF D_flush(in) THEN in.correct
               ELSE IF in.predict # None THEN in.predict
               ELSE IF F_isSplitInstr \/ cmp_o(PC) THEN Plus2(PC)
               ELSE Plus2(Plus2(PC))

InstrWithoutHold ==    \* mutant
  IF FD_isSplitInstr THEN <<FD_instrPart, data_o[1]>> ELSE data_o
FD_instr == IF F_isSplitInstr THEN FD_instrHold
            ELSE IF FD_isSplitInstr THEN <<FD_instrPart, data_o[1]>> ELSE data_o

Advance(in) == ~in.F_stall /\ ICacheValid(in)

(* The first half of an instruction that straddles two lines is found. *)
FirstHalf ==
  /\ PC' = Plus2(PC)
  /\ FD_instrHold' = data_o
  /\ UNCHANGED <<FD_PC, FD_nop, FD_isRV32C>>

(* An instruction is found, or squashed by a prediction or a correction. *)
Instruction(in) ==
  /\ FD_PC' = IF F_isSplitInstr THEN Minus2(PC) ELSE PC
  /\ FD_nop' = (in.predict # None \/ D_flush(in))
  /\ FD_isRV32C' = (~F_isSplitInstr /\ cmp_o(PC))
  /\ PC' = PC_Next(in)
  /\ UNCHANGED FD_instrHold

FetchUnit(in) ==
  IF ~Advance(in) THEN UNCHANGED fetchVars
  ELSE /\ F_isSplitInstr' = ICacheSplit(in)
       /\ FD_isSplitInstr' = F_isSplitInstr
       /\ FD_instrPart' = IF F_isSplitInstr THEN data_o[1] ELSE FD_instrPart
       /\ IF ICacheSplit(in) THEN FirstHalf ELSE Instruction(in)

(* What decode and execute may take from this cycle: a stalled or busy     *)
(* fetch unit keeps decode where it is (D_stall, ControlUnit.v:29).        *)
Answer(in) ==
  IF in.F_stall \/ F_busy(in) THEN Stay
  ELSE IF D_flush(in) THEN in.correct
  ELSE IF in.predict # None THEN in.predict ELSE Sequential

Clock(in) ==
  /\ FetchUnit(in)
  /\ ICacheClock(PC, ~in.F_stall, D_flush(in))
  /\ answer' = Answer(in)

Reset ==
  /\ PC' = rvec /\ FD_PC' = rvec
  /\ FD_nop' = TRUE /\ FD_isRV32C' = FALSE
  /\ F_isSplitInstr' = FALSE /\ FD_isSplitInstr' = FALSE
  /\ UNCHANGED <<FD_instrPart, FD_instrHold>>
  /\ ICacheReset(PC)
  /\ answer' = rvec

Init ==
  /\ ICacheInit
  /\ PC = rvec /\ FD_PC = rvec
  /\ FD_nop = TRUE /\ FD_isRV32C = FALSE
  /\ F_isSplitInstr = FALSE /\ FD_isSplitInstr = FALSE
  /\ FD_instrPart \in Half /\ FD_instrHold \in Half \X Half
  /\ answer = Stay

Next == (\E in \in Input : Clock(in)) \/ Reset

Spec == Init /\ [][Next]_vars

(* The pipeline lets the fetch unit go on again and again (Pipeline, run   *)
(* PipelineControl), and the reset button is released for good.            *)
Unstalled == \E in \in Input : ~in.F_stall /\ Clock(in)
FairSpec == /\ Spec /\ WF_vars(Unstalled)
            /\ <>[][\E in \in Input : Clock(in)]_vars

-----------------------------------------------------------------------------
(* The stream of instructions decode sees. *)

(* The instruction at address a of memory m: one halfword, or two. *)
Halfword(m, a) == m[a.line][a.offset]
Behind(m, a)   == IF Halfword(m, a) \in WideHalf THEN Plus2(Plus2(a)) ELSE Plus2(a)
InstrAt(m, a)  ==
  [at |-> a,
   bits |-> IF Halfword(m, a) \in WideHalf THEN <<Halfword(m, a), Halfword(m, Plus2(a))>>
                                           ELSE <<Halfword(m, a)>>]
Nothing == [at |-> None, bits |-> <<>>]

pc  == IF F_isSplitInstr THEN Minus2(PC) ELSE PC
out == IF FD_nop THEN Nothing
       ELSE [at |-> FD_PC, bits |-> IF FD_isRV32C THEN <<FD_instr[1]>> ELSE FD_instr]

Stream == INSTANCE InstructionStream
            WITH ResetVector <- rvec, code <- mem

(* Every register and RAM has its type. *)
TypeOK ==
  /\ ICacheTypeOK
  /\ PC \in Address /\ FD_PC \in Address
  /\ FD_nop \in BOOLEAN /\ FD_isRV32C \in BOOLEAN
  /\ F_isSplitInstr \in BOOLEAN /\ FD_isSplitInstr \in BOOLEAN
  /\ FD_instrPart \in Half /\ FD_instrHold \in Half \X Half
  /\ answer \in Address \cup {Stay, Sequential}

(* The line on its way from memory is the line that will be filed: the     *)
(* address cannot move while a refill is under way, although a correction  *)
(* may cancel a lookup in any cycle (ICache.v:97, 141-170).                *)
RefillMatchesAddress == C_curState = MISS => IMemData = mem[PC.line]

(* While the second half of an instruction is looked up, the cache still   *)
(* puts out the first half.                                                *)
FirstHalfKept ==
  F_isSplitInstr => /\ PC.offset = 0
                    /\ Halfword(mem, pc) \in WideHalf
                    /\ data_o[1] = Halfword(mem, pc)

(* Behind an instruction that was put together from two halves the next    *)
(* one to be put together is not in the same place.                        *)
HalvesApart ==
  FD_isSplitInstr /\ ~FD_nop => ~F_isSplitInstr /\ PC.offset = 1

(* What decode holds is the instruction at its address, all of it.         *)
DecodeHoldsInstruction == ~FD_nop => out = InstrAt(mem, FD_PC)

(* Fetch unit and cache agree on what is where, in every cycle of a lookup *)
(* (FetchUnit.v:53-83, ICache.v:89-170).                                   *)
FetchInv == /\ TypeOK /\ LinesMatchMemory /\ RefillMatchesAddress
            /\ FirstHalfKept /\ HalvesApart /\ DecodeHoldsInstruction

(* Decode gets the instructions of the program one by one, whole, with     *)
(* their lengths, from exactly the addresses that predictions and          *)
(* corrections send it to (FetchUnit.v as a whole, ICache.v:89-97).        *)
ImplementsStream == Stream!Spec

(* Fetch always gives decode something new in the end: misses, and         *)
(* instructions that need two misses, do not starve each other (ICache.v:  *)
(* 95, FetchUnit.v:60).                                                    *)
FetchGoesOn == []<>(answer # Stay)
=============================================================================
