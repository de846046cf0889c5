----------------------------- MODULE FetchProofs -----------------------------
(***************************************************************************)
(* Proofs about the fetch unit and the instruction cache, for every number *)
(* of sets, every line length and every program.                           *)
(***************************************************************************)
EXTENDS Fetch, TLAPS

USE SizeAssumption, HalfAssumption DEF IDLE, MISS

-----------------------------------------------------------------------------
(* Address arithmetic. *)

LEMMA LineStepsAreInverse ==
  ASSUME NEW l \in LineAddr
  PROVE  /\ NextLine(l) \in LineAddr /\ PrevLine(l) \in LineAddr
         /\ PrevLine(NextLine(l)) = l /\ NextLine(PrevLine(l)) = l
<1>1. PICK t \in Tag, i \in Index : l = <<t, i>> BY DEF LineAddr
<1>2. l[1] = t /\ l[2] = i BY <1>1
<1>3. NextLine(l) \in LineAddr /\ PrevLine(l) \in LineAddr
  BY <1>2 DEF NextLine, PrevLine, LineAddr, Tag, Index
<1>4. PrevLine(NextLine(l)) = <<t, i>>
  BY <1>2 DEF NextLine, PrevLine, Tag, Index
<1>5. NextLine(PrevLine(l)) = <<t, i>>
  BY <1>2 DEF NextLine, PrevLine, Tag, Index
<1> QED BY <1>1, <1>3, <1>4, <1>5

LEMMA HalfwordStepsAreInverse ==
  ASSUME NEW a \in Address
  PROVE  /\ Plus2(a) \in Address /\ Minus2(a) \in Address
         /\ Minus2(Plus2(a)) = a /\ Plus2(Minus2(a)) = a
<1>1. PICK l \in LineAddr, o \in Offset : a = [line |-> l, offset |-> o]
  BY DEF Address
<1>2. Plus2(a) = IF o = HALVES - 1 THEN [line |-> NextLine(l), offset |-> 0]
                                   ELSE [line |-> l, offset |-> o + 1]
  BY <1>1 DEF Plus2
<1>3. Minus2(a) = IF o = 0 THEN [line |-> PrevLine(l), offset |-> HALVES - 1]
                           ELSE [line |-> l, offset |-> o - 1]
  BY <1>1 DEF Minus2
<1>4. Plus2(a) \in Address /\ Minus2(a) \in Address
  BY <1>2, <1>3, LineStepsAreInverse DEF Address, Offset
<1>5. Minus2(Plus2(a)) = a
  BY <1>1, <1>2, LineStepsAreInverse DEF Minus2, Offset
<1>6. Plus2(Minus2(a)) = a
  BY <1>1, <1>3, LineStepsAreInverse DEF Plus2, Offset
<1> QED BY <1>4, <1>5, <1>6

(* Behind the end of a line comes the start of the next. *)
LEMMA EndOfLine ==
  ASSUME NEW a \in Address, a.offset = HALVES - 1
  PROVE  Plus2(a).offset = 0 /\ Plus2(Plus2(a)).offset = 1
<1>1. Plus2(a) = [line |-> NextLine(a.line), offset |-> 0] BY DEF Plus2
<1> QED BY <1>1 DEF Plus2

-----------------------------------------------------------------------------
(* The cache. *)

LEMMA HitWayHits ==
  ASSUME NEW p, C_hit(p)
  PROVE  HitWay(p) \in Way /\ C_hitWay(p, HitWay(p))
BY DEF C_hit, HitWay, Way

LEMMA HitLine ==
  ASSUME TypeOK, LinesMatchMemory, NEW p \in Address, C_hit(p)
  PROVE  store[IndexOf(p)][HitWay(p)] = mem[p.line]
<1>1. PICK t \in Tag, i \in Index : p.line = <<t, i>> BY DEF Address, LineAddr
<1>2. IndexOf(p) = i /\ p.line[1] = t BY <1>1 DEF IndexOf
<1>3. HitWay(p) \in Way /\ valid[i][HitWay(p)] /\ tag[i][HitWay(p)] = t
  BY <1>2, HitWayHits DEF C_hitWay
<1> QED BY <1>1, <1>2, <1>3 DEF LinesMatchMemory

LEMMA VictimIsWay ==
  ASSUME TypeOK, NEW i \in Index
  PROVE  Victim(i) \in Way
BY DEF TypeOK, ICacheTypeOK, Victim, Way

LEMMA AddressParts ==
  ASSUME NEW p \in Address
  PROVE  /\ p.line \in LineAddr /\ IndexOf(p) \in Index /\ p.line[1] \in Tag
         /\ p.line = <<p.line[1], IndexOf(p)>> /\ p.offset \in Offset
BY DEF Address, LineAddr, IndexOf

(* What a hit puts out: the halfword asked for, and the one behind it if   *)
(* it is in the same line.                                                 *)
LEMMA LookupData ==
  ASSUME TypeOK, LinesMatchMemory, C_hit(PC), Hit(PC, TRUE, FALSE), mem' = mem
  PROVE  /\ data_o' \in Half \X Half
         /\ data_o'[1] = Halfword(mem, PC)
         /\ PC.offset # HALVES - 1 => data_o'[2] = Halfword(mem, Plus2(PC))
<1>1. PC \in Address /\ C_data \in [Way -> Line] /\ mem \in [LineAddr -> Line]
  BY DEF TypeOK, ICacheTypeOK
<1>2. store[IndexOf(PC)][HitWay(PC)] = mem[PC.line] BY <1>1, HitLine
<1>3. HitWay(PC) \in Way BY HitWayHits
<1>4. C_data'[C_dataWay'] = mem[PC.line] /\ C_offset' = PC.offset
  BY <1>1, <1>2, <1>3 DEF Hit
<1>5. data_o' = <<mem[PC.line][PC.offset],
                  IF PC.offset = HALVES - 1 THEN ZeroHalf
                  ELSE mem[PC.line][PC.offset + 1]>>
  BY <1>4 DEF data_o
<1>6. PC.line \in LineAddr /\ PC.offset \in Offset BY <1>1, AddressParts
<1>7. mem[PC.line] \in [Offset -> Half] BY <1>1, <1>6 DEF Line
<1>8. PC.offset # HALVES - 1 => PC.offset + 1 \in Offset BY <1>6 DEF Offset
<1>9. data_o' \in Half \X Half BY <1>5, <1>6, <1>7, <1>8
<1>10. PC.offset # HALVES - 1 =>
         Plus2(PC).line = PC.line /\ Plus2(PC).offset = PC.offset + 1
  BY <1>1 DEF Plus2, Address
<1> QED BY <1>5, <1>9, <1>10 DEF Halfword

LEMMA CompressedBit ==
  ASSUME TypeOK, LinesMatchMemory, C_hit(PC)
  PROVE  cmp_o(PC) <=> Halfword(mem, PC) \notin WideHalf
<1>1. store[IndexOf(PC)][HitWay(PC)] = mem[PC.line] BY HitLine DEF TypeOK
<1> QED BY <1>1 DEF cmp_o, Halfword
-----------------------------------------------------------------------------
(* The cases of a clock edge: fetch is held up, or it follows a            *)
(* correction, or it takes what the lookup finds. *)

LEMMA PCType == ASSUME TypeOK PROVE pc \in Address /\ PC \in Address
BY HalfwordStepsAreInverse DEF TypeOK, pc

LEMMA HeldUp ==
  ASSUME TypeOK, NEW in \in Input, Clock(in), ~Advance(in)
  PROVE  /\ UNCHANGED fetchVars /\ mem' = mem /\ answer' = Stay
         /\ UNCHANGED <<C_data, C_dataWay, C_offset>>
         /\ Idle(~in.F_stall, D_flush(in)) \/ Miss(PC, ~in.F_stall, D_flush(in)) \/ Refill(PC)
<1>1. UNCHANGED fetchVars BY DEF Clock, FetchUnit
<1>2. mem' = mem BY DEF Clock, ICacheClock, MemoryPort
<1>3. in.F_stall \/ F_busy(in) BY DEF Advance, F_busy
<1>4. answer' = Stay BY <1>3 DEF Clock, Answer
<1>5. ~Hit(PC, ~in.F_stall, D_flush(in))
  BY DEF Hit, Advance, ICacheValid, valid_o
<1>6. Idle(~in.F_stall, D_flush(in)) \/ Miss(PC, ~in.F_stall, D_flush(in)) \/ Refill(PC)
  BY <1>5 DEF Clock, ICacheClock
<1>7. UNCHANGED <<C_data, C_dataWay, C_offset>>
  BY <1>6 DEF Idle, Miss, Refill
<1> QED BY <1>1, <1>2, <1>4, <1>6, <1>7

LEMMA Corrected ==
  ASSUME TypeOK, NEW in \in Input, Clock(in), Advance(in), D_flush(in)
  PROVE  /\ PC' = in.correct /\ in.correct \in Address
         /\ FD_nop' = TRUE /\ ~F_isSplitInstr' /\ FD_isSplitInstr' = F_isSplitInstr
         /\ answer' = in.correct /\ mem' = mem
         /\ Idle(~in.F_stall, D_flush(in)) \/ Refill(PC)
<1>1. ~ICacheSplit(in) BY DEF ICacheSplit
<1>2. ~F_busy(in) /\ ~in.F_stall BY <1>1 DEF F_busy, Advance
<1>3. in.correct \in Address BY DEF Input, AnyInput, D_flush
<1>4. PC' = in.correct /\ FD_nop' = TRUE /\ ~F_isSplitInstr' /\ FD_isSplitInstr' = F_isSplitInstr
  BY <1>1 DEF Clock, FetchUnit, Instruction, PC_Next
<1>5. answer' = in.correct BY <1>2 DEF Clock, Answer
<1>6. mem' = mem BY DEF Clock, ICacheClock, MemoryPort
<1>7. Idle(~in.F_stall, D_flush(in)) \/ Refill(PC)
  BY DEF Clock, ICacheClock, Hit, Miss, mRden_o
<1> QED BY <1>3, <1>4, <1>5, <1>6, <1>7

LEMMA Found ==
  ASSUME NEW in \in Input, Clock(in), Advance(in), ~D_flush(in)
  PROVE  /\ C_curState = IDLE /\ C_hit(PC) /\ Hit(PC, TRUE, FALSE) /\ mem' = mem
         /\ IMemData' = IMemData
<1>1. C_curState = IDLE /\ C_hit(PC) BY DEF Advance, ICacheValid, valid_o
<1>2. ~in.F_stall BY DEF Advance
<1>3. Hit(PC, TRUE, FALSE)
  BY <1>1, <1>2 DEF Clock, ICacheClock, Hit, Miss, Idle, Refill, mRden_o
<1>4. mem' = mem BY DEF Clock, ICacheClock, MemoryPort
<1>5. IMemData' = IMemData
  BY <1>1 DEF Clock, ICacheClock, MemoryPort, mRden_o, M!ReadPort
<1> QED BY <1>1, <1>3, <1>4, <1>5

(* The first half of an instruction is found and decode keeps what it has. *)
LEMMA FirstHalfFound ==
  ASSUME FetchInv, NEW in \in Input, Clock(in), Advance(in), ICacheSplit(in)
  PROVE  /\ C_curState = IDLE /\ C_hit(PC) /\ Hit(PC, TRUE, FALSE) /\ mem' = mem
         /\ PC' = Plus2(PC) /\ PC'.offset = 0 /\ pc' = PC /\ pc = PC
         /\ F_isSplitInstr' /\ ~FD_isSplitInstr' /\ ~F_isSplitInstr
         /\ UNCHANGED <<FD_PC, FD_nop, FD_isRV32C, FD_instrPart>>
         /\ FD_instrHold' = data_o /\ data_o \in Half \X Half
         /\ ~FD_nop => FD_instr' = FD_instr
         /\ answer' = Stay
         /\ Halfword(mem, PC) \in WideHalf
         /\ data_o'[1] = Halfword(mem, PC)
<1>1. PC \in Address /\ TypeOK BY DEF FetchInv, TypeOK
<1>2. ~D_flush(in) /\ PC.offset = HALVES - 1 /\ ~cmp_o(PC) BY DEF ICacheSplit
<1>3. C_curState = IDLE /\ C_hit(PC) /\ Hit(PC, TRUE, FALSE) /\ mem' = mem BY <1>2, Found
<1>4. Halfword(mem, PC) \in WideHalf
  BY <1>1, <1>2, <1>3, CompressedBit DEF FetchInv
<1>5. ~F_isSplitInstr BY <1>2 DEF FetchInv, FirstHalfKept
<1>6. /\ F_isSplitInstr' = TRUE /\ FD_isSplitInstr' = F_isSplitInstr
      /\ FirstHalf /\ FD_instrPart' = FD_instrPart
  BY <1>5 DEF Clock, FetchUnit
<1>7. PC' = Plus2(PC) /\ FD_instrHold' = data_o BY <1>6 DEF FirstHalf
<1>8. PC'.offset = 0 BY <1>1, <1>2, <1>7, EndOfLine
<1>9. pc' = PC /\ pc = PC
  BY <1>1, <1>5, <1>6, <1>7, HalfwordStepsAreInverse DEF pc
<1>10. ~FD_nop => FD_instr' = FD_instr
  <2>1. SUFFICES ASSUME ~FD_nop PROVE FD_instr' = FD_instr OBVIOUS
  <2>2. ~FD_isSplitInstr BY <1>2, <2>1 DEF FetchInv, HalvesApart
  <2>3. FD_instr = data_o BY <1>5, <2>2 DEF FD_instr
  <2>4. FD_instr' = FD_instrHold' BY <1>6 DEF FD_instr
  <2> QED BY <1>7, <2>3, <2>4
<1>11. answer' = Stay BY DEF Clock, Answer, F_busy
<1>12. data_o \in Half \X Half
  BY <1>1 DEF data_o, TypeOK, ICacheTypeOK, Line, Offset
<1>13. data_o'[1] = Halfword(mem, PC) BY <1>1, <1>3, LookupData DEF FetchInv
<1> QED BY <1>3, <1>4, <1>5, <1>6, <1>7, <1>8, <1>9, <1>10, <1>11, <1>12, <1>13 DEF FirstHalf

(* The (rest of the) instruction is found. *)
LEMMA InstructionFound ==
  ASSUME FetchInv, NEW in \in Input, Clock(in), Advance(in), ~D_flush(in), ~ICacheSplit(in)
  PROVE  /\ C_curState = IDLE /\ C_hit(PC) /\ Hit(PC, TRUE, FALSE) /\ mem' = mem
         /\ ~F_isSplitInstr' /\ FD_isSplitInstr' = F_isSplitInstr
         /\ FD_instrHold' = FD_instrHold /\ FD_instrPart' \in Half
         /\ FD_PC' = pc /\ FD_isRV32C' \in BOOLEAN
         /\ FD_nop' = (in.predict # None)
         /\ PC' = IF in.predict # None THEN in.predict ELSE Behind(mem, pc)
         /\ F_isSplitInstr /\ in.predict = None => PC'.offset = 1
         /\ IF FD_isRV32C' THEN <<FD_instr'[1]>> = InstrAt(mem, pc).bits
                           ELSE FD_instr' = InstrAt(mem, pc).bits
         /\ answer' = IF in.predict # None THEN in.predict ELSE Sequential
<1>1. PC \in Address /\ pc \in Address /\ TypeOK BY PCType DEF FetchInv
<1>2. C_curState = IDLE /\ C_hit(PC) /\ Hit(PC, TRUE, FALSE) /\ mem' = mem BY Found
<1>3. /\ F_isSplitInstr' = FALSE /\ FD_isSplitInstr' = F_isSplitInstr
      /\ FD_instrPart' = IF F_isSplitInstr THEN data_o[1] ELSE FD_instrPart
      /\ Instruction(in)
  BY DEF Clock, FetchUnit
<1>4. /\ FD_PC' = pc /\ FD_nop' = (in.predict # None) /\ FD_instrHold' = FD_instrHold
      /\ FD_isRV32C' = (~F_isSplitInstr /\ cmp_o(PC))
  BY <1>3 DEF Instruction, pc
<1>5. cmp_o(PC) <=> Halfword(mem, PC) \notin WideHalf
  BY <1>1, <1>2, CompressedBit DEF FetchInv
<1>6. FD_instrPart' \in Half
  BY <1>1, <1>3 DEF data_o, TypeOK, ICacheTypeOK, Line, Offset
<1>7. ~F_busy(in) /\ ~in.F_stall BY DEF F_busy, Advance
<1>8. answer' = IF in.predict # None THEN in.predict ELSE Sequential
  BY <1>7 DEF Clock, Answer
<1>9. FD_instr' = IF F_isSplitInstr THEN <<FD_instrPart', data_o'[1]>> ELSE data_o'
  BY <1>3 DEF FD_instr
<1>10. /\ data_o' \in Half \X Half
       /\ data_o'[1] = Halfword(mem, PC)
       /\ PC.offset # HALVES - 1 => data_o'[2] = Halfword(mem, Plus2(PC))
  BY <1>1, <1>2, LookupData DEF FetchInv
<1>11. CASE F_isSplitInstr
  <2>1. /\ PC.offset = 0 /\ Halfword(mem, pc) \in WideHalf
        /\ data_o[1] = Halfword(mem, pc)
    BY <1>11 DEF FetchInv, FirstHalfKept
  <2>2. Plus2(pc) = PC BY <1>1, <1>11, HalfwordStepsAreInverse DEF pc
  <2>3. InstrAt(mem, pc).bits = <<Halfword(mem, pc), Halfword(mem, PC)>>
    BY <2>1, <2>2 DEF InstrAt
  <2>4. Behind(mem, pc) = Plus2(PC) BY <2>1, <2>2 DEF Behind
  <2>5. in.predict = None => PC' = Plus2(PC) BY <1>3, <1>11 DEF Instruction, PC_Next
  <2>6. in.predict # None => PC' = in.predict BY <1>3, <1>11 DEF Instruction, PC_Next
  <2>7. Plus2(PC).offset = 1 BY <1>1, <2>1 DEF Plus2, Address
  <2>8. FD_instr' = InstrAt(mem, pc).bits BY <1>3, <1>9, <1>10, <1>11, <2>1, <2>3
  <2>9. FD_isRV32C' = FALSE BY <1>4, <1>11
  <2> QED BY <1>2, <1>3, <1>4, <1>6, <1>8, <2>4, <2>5, <2>6, <2>7, <2>8, <2>9
<1>12. CASE ~F_isSplitInstr
  <2>1. pc = PC BY <1>12 DEF pc
  <2>2. in.predict # None => PC' = in.predict BY <1>3 DEF Instruction, PC_Next
  <2>3. in.predict = None =>
          PC' = IF cmp_o(PC) THEN Plus2(PC) ELSE Plus2(Plus2(PC))
    BY <1>3, <1>12 DEF Instruction, PC_Next
  <2>4. in.predict = None => PC' = Behind(mem, pc)
    BY <1>5, <2>1, <2>3 DEF Behind
  <2>5. (FD_isRV32C' <=> cmp_o(PC)) /\ FD_instr' = data_o'
    BY <1>4, <1>9, <1>12 DEF cmp_o
  <2>6. cmp_o(PC) => <<FD_instr'[1]>> = InstrAt(mem, pc).bits
    BY <1>5, <1>10, <2>1, <2>5 DEF InstrAt
  <2>7. ~cmp_o(PC) => FD_instr' = InstrAt(mem, pc).bits
    <3>1. SUFFICES ASSUME ~cmp_o(PC) PROVE FD_instr' = InstrAt(mem, pc).bits OBVIOUS
    <3>2. PC.offset # HALVES - 1 BY <3>1 DEF ICacheSplit
    <3>3. InstrAt(mem, pc).bits = <<Halfword(mem, PC), Halfword(mem, Plus2(PC))>>
      BY <1>5, <2>1, <3>1 DEF InstrAt
    <3> QED BY <1>10, <2>5, <3>2, <3>3
  <2>8. cmp_o(PC) \in BOOLEAN BY DEF cmp_o
  <2> QED BY <1>2, <1>3, <1>4, <1>6, <1>8, <1>12, <2>2, <2>4, <2>5, <2>6, <2>7, <2>8
<1> QED BY <1>11, <1>12

-----------------------------------------------------------------------------
(* The inductive invariant, part by part. *)

LEMMA InitInv == Init => FetchInv
<1> SUFFICES ASSUME Init PROVE FetchInv OBVIOUS
<1>1. ICacheTypeOK
  BY DEF Init, ICacheInit, ICacheTypeOK, Way, Offset, Index
<1>2. TypeOK BY <1>1, VectorAssumption DEF Init, TypeOK
<1>3. LinesMatchMemory BY DEF Init, ICacheInit, LinesMatchMemory
<1> QED BY <1>2, <1>3
     DEF Init, ICacheInit, FetchInv, RefillMatchesAddress, FirstHalfKept, HalvesApart,
         DecodeHoldsInstruction

LEMMA CacheTypeStep ==
  ASSUME FetchInv, NEW in \in Input, Clock(in)
  PROVE  ICacheTypeOK'
<1>1. PC \in Address /\ ICacheTypeOK BY DEF FetchInv, TypeOK
<1>2. /\ PC.line \in LineAddr /\ IndexOf(PC) \in Index /\ PC.line[1] \in Tag
      /\ PC.offset \in Offset
  BY <1>1, AddressParts
<1>3. mem' = mem /\ IMemData' \in Line
  <2>1. mem' = mem BY DEF Clock, ICacheClock, MemoryPort
  <2>2. M!ReadPort(FALSE, mRden_o(PC, ~in.F_stall, D_flush(in)), PC.line)
    BY DEF Clock, ICacheClock, MemoryPort
  <2>3. IMemData' \in {mem[PC.line], IMemData} BY <2>2 DEF M!ReadPort
  <2> QED BY <1>1, <1>2, <2>1, <2>3 DEF ICacheTypeOK
<1>4. CASE Hit(PC, ~in.F_stall, D_flush(in))
  <2>1. HitWay(PC) \in Way BY <1>4, HitWayHits DEF Hit
  <2>2. store[IndexOf(PC)][HitWay(PC)] \in Line BY <1>1, <1>2, <2>1 DEF ICacheTypeOK
  <2>3. C_data' \in [Way -> Line] BY <1>1, <1>4, <2>2 DEF Hit, ICacheTypeOK
  <2>4. lru' \in [Index -> Way]
    <3>1. 1 - HitWay(PC) \in Way BY <2>1 DEF Way
    <3>2. lru' = [lru EXCEPT ![IndexOf(PC)] = 1 - HitWay(PC)] BY <1>4 DEF Hit
    <3> QED BY <1>1, <3>1, <3>2 DEF ICacheTypeOK
  <2> QED BY <1>1, <1>2, <1>3, <1>4, <2>1, <2>3, <2>4 DEF Hit, ICacheTypeOK
<1>5. CASE Miss(PC, ~in.F_stall, D_flush(in)) \/ Idle(~in.F_stall, D_flush(in))
  BY <1>1, <1>3, <1>5 DEF Miss, Idle, ICacheTypeOK
<1>6. CASE Refill(PC)
  <2>1. Victim(IndexOf(PC)) \in Way BY <1>2, VictimIsWay DEF FetchInv
  <2>2. /\ store' \in [Index -> [Way -> Line]] /\ tag' \in [Index -> [Way -> Tag]]
        /\ valid' \in [Index -> [Way -> BOOLEAN]]
    BY <1>1, <1>2, <1>6, <2>1 DEF Refill, ICacheTypeOK
  <2> QED BY <1>1, <1>3, <1>6, <2>2 DEF Refill, ICacheTypeOK
<1> QED BY <1>4, <1>5, <1>6 DEF Clock, ICacheClock

LEMMA TypeStep ==
  ASSUME FetchInv, NEW in \in Input, Clock(in)
  PROVE  TypeOK'
<1>1. ICacheTypeOK' BY CacheTypeStep
<1>2. TypeOK /\ PC \in Address /\ pc \in Address BY PCType DEF FetchInv
<1>3. CASE ~Advance(in)
  BY <1>1, <1>2, <1>3, HeldUp DEF TypeOK, fetchVars
<1>4. CASE Advance(in) /\ D_flush(in)
  <2>1. ~ICacheSplit(in) BY <1>4 DEF ICacheSplit
  <2>2. /\ Instruction(in)
        /\ FD_instrPart' = IF F_isSplitInstr THEN data_o[1] ELSE FD_instrPart
    BY <1>4, <2>1 DEF Clock, FetchUnit
  <2>3. data_o[1] \in Half BY <1>2 DEF data_o, TypeOK, ICacheTypeOK, Line, Offset
  <2>4. FD_PC' = pc /\ FD_isRV32C' \in BOOLEAN /\ FD_instrHold' = FD_instrHold
    BY <2>2 DEF Instruction, pc
  <2>5. FD_isSplitInstr' = F_isSplitInstr /\ F_isSplitInstr' = FALSE
    BY <1>4, <2>1 DEF Clock, FetchUnit, ICacheSplit
  <2>6. PC' \in Address /\ FD_nop' = TRUE /\ answer' \in Address
    BY <1>2, <1>4, Corrected
  <2>7. FD_instrPart' \in Half BY <1>2, <2>2, <2>3 DEF TypeOK
  <2> QED BY <1>1, <1>2, <2>4, <2>5, <2>6, <2>7 DEF TypeOK
<1>5. CASE Advance(in) /\ ICacheSplit(in)
  <2>1. Plus2(PC) \in Address BY <1>2, HalfwordStepsAreInverse
  <2>2. F_isSplitInstr' \in BOOLEAN /\ FD_isSplitInstr' \in BOOLEAN
    BY <1>2, <1>5 DEF Clock, FetchUnit, ICacheSplit, TypeOK
  <2>3. PC' \in Address /\ answer' = Stay /\ FD_instrHold' \in Half \X Half
    BY <1>5, <2>1, FirstHalfFound
  <2>4. UNCHANGED <<FD_PC, FD_nop, FD_isRV32C, FD_instrPart>> BY <1>5, FirstHalfFound
  <2> QED BY <1>1, <1>2, <2>2, <2>3, <2>4 DEF TypeOK
<1>6. CASE Advance(in) /\ ~D_flush(in) /\ ~ICacheSplit(in)
  <2>1. in.predict # None => in.predict \in Address BY DEF Input, AnyInput
  <2>2. Behind(mem, pc) \in Address BY <1>2, HalfwordStepsAreInverse DEF Behind
  <2>3. FD_isSplitInstr' = F_isSplitInstr /\ F_isSplitInstr' = FALSE
        /\ FD_nop' = (in.predict # None)
    BY <1>6 DEF Clock, FetchUnit, Instruction
  <2>4. PC' \in Address /\ answer' \in Address \cup {Stay, Sequential}
    BY <1>6, <2>1, <2>2, InstructionFound
  <2> QED BY <1>1, <1>2, <1>6, <2>3, <2>4, InstructionFound DEF TypeOK
<1> QED BY <1>3, <1>4, <1>5, <1>6 DEF ICacheSplit

LEMMA LinesStep ==
  ASSUME FetchInv, NEW in \in Input, Clock(in)
  PROVE  LinesMatchMemory'
<1>1. PC \in Address /\ ICacheTypeOK /\ mem' = mem
  BY DEF FetchInv, TypeOK, Clock, ICacheClock, MemoryPort
<1>2. /\ PC.line \in LineAddr /\ IndexOf(PC) \in Index /\ PC.line[1] \in Tag
      /\ PC.line = <<PC.line[1], IndexOf(PC)>>
  BY <1>1, AddressParts
<1>3. CASE UNCHANGED <<tag, valid, store>>
  BY <1>1, <1>3 DEF FetchInv, LinesMatchMemory
<1>4. CASE Refill(PC)
  <2>1. IMemData = mem[PC.line] BY <1>4 DEF Refill, FetchInv, RefillMatchesAddress
  <2>2. SUFFICES ASSUME NEW i \in Index, NEW w \in Way, valid'[i][w]
                 PROVE  store'[i][w] = mem[<<tag'[i][w], i>>]
    BY <1>1 DEF LinesMatchMemory
  <2>3. CASE i = IndexOf(PC) /\ w = Victim(i)
    BY <1>1, <1>2, <1>4, <2>1, <2>3 DEF Refill, ICacheTypeOK
  <2>4. CASE ~(i = IndexOf(PC) /\ w = Victim(i))
    <3>1. /\ store'[i][w] = store[i][w] /\ tag'[i][w] = tag[i][w]
          /\ valid'[i][w] = valid[i][w]
      BY <1>1, <1>4, <2>4 DEF Refill, ICacheTypeOK
    <3> QED BY <2>2, <3>1 DEF FetchInv, LinesMatchMemory
  <2> QED BY <2>3, <2>4
<1> QED BY <1>3, <1>4 DEF Clock, ICacheClock, Hit, Miss, Idle

LEMMA RefillStep ==
  ASSUME FetchInv, NEW in \in Input, Clock(in)
  PROVE  RefillMatchesAddress'
<1>1. SUFFICES ASSUME C_curState' = MISS PROVE IMemData' = mem'[PC'.line]
  BY DEF RefillMatchesAddress
<1>2. Miss(PC, ~in.F_stall, D_flush(in))
  BY <1>1 DEF Clock, ICacheClock, Hit, Idle, Refill
<1>3. ~Advance(in) BY <1>2 DEF Miss, mRden_o, Advance, ICacheValid, valid_o
<1>4. PC' = PC /\ mem' = mem BY <1>3, HeldUp DEF FetchInv, fetchVars
<1>5. M!ReadPort(FALSE, TRUE, PC.line)
  BY <1>2 DEF Miss, mRden_o, Clock, ICacheClock, MemoryPort
<1> QED BY <1>4, <1>5 DEF M!ReadPort

LEMMA FirstHalfStep ==
  ASSUME FetchInv, NEW in \in Input, Clock(in)
  PROVE  FirstHalfKept'
<1>1. SUFFICES ASSUME F_isSplitInstr'
               PROVE  /\ PC'.offset = 0 /\ Halfword(mem', pc') \in WideHalf
                      /\ data_o'[1] = Halfword(mem', pc')
  BY DEF FirstHalfKept
<1>2. CASE ~Advance(in)
  <2>1. UNCHANGED <<PC, F_isSplitInstr, mem, C_data, C_dataWay, C_offset>>
    BY <1>2, HeldUp DEF FetchInv, fetchVars
  <2>2. pc' = pc /\ data_o' = data_o BY <2>1 DEF pc, data_o
  <2> QED BY <1>1, <2>1, <2>2 DEF FetchInv, FirstHalfKept
<1>3. CASE Advance(in) /\ ICacheSplit(in)
  <2>1. mem' = mem /\ pc' = PC BY <1>3, FirstHalfFound
  <2> QED BY <1>3, <2>1, FirstHalfFound
<1>4. CASE Advance(in) /\ D_flush(in) BY <1>1, <1>4, Corrected DEF FetchInv
<1>5. CASE Advance(in) /\ ~D_flush(in) /\ ~ICacheSplit(in)
  BY <1>1, <1>5, InstructionFound
<1> QED BY <1>2, <1>3, <1>4, <1>5

LEMMA HalvesStep ==
  ASSUME FetchInv, NEW in \in Input, Clock(in)
  PROVE  HalvesApart'
<1>1. SUFFICES ASSUME FD_isSplitInstr', ~FD_nop'
               PROVE  ~F_isSplitInstr' /\ PC'.offset = 1
  BY DEF HalvesApart
<1>2. CASE ~Advance(in)
  BY <1>1, <1>2, HeldUp DEF FetchInv, fetchVars, HalvesApart
<1>3. CASE Advance(in) /\ ICacheSplit(in) BY <1>1, <1>3, FirstHalfFound
<1>4. CASE Advance(in) /\ D_flush(in) BY <1>1, <1>4, Corrected DEF FetchInv
<1>5. CASE Advance(in) /\ ~D_flush(in) /\ ~ICacheSplit(in)
  <2>1. in.predict = None /\ F_isSplitInstr BY <1>1, <1>5, InstructionFound
  <2> QED BY <1>5, <2>1, InstructionFound
<1> QED BY <1>2, <1>3, <1>4, <1>5

LEMMA OutIs ==
  ASSUME NEW m, NEW a
  PROVE  InstrAt(m, a) = [at |-> a, bits |-> InstrAt(m, a).bits]
BY DEF InstrAt

LEMMA DecodeStep ==
  ASSUME FetchInv, NEW in \in Input, Clock(in)
  PROVE  DecodeHoldsInstruction'
<1>1. SUFFICES ASSUME ~FD_nop' PROVE out' = InstrAt(mem', FD_PC')
  BY DEF DecodeHoldsInstruction
<1>2. CASE ~Advance(in)
  <2>1. UNCHANGED <<fetchVars, mem, C_data, C_dataWay, C_offset>>
    BY <1>2, HeldUp DEF FetchInv
  <2>2. out' = out BY <2>1 DEF fetchVars, out, FD_instr, data_o
  <2> QED BY <1>1, <2>1, <2>2 DEF FetchInv, DecodeHoldsInstruction, fetchVars
<1>3. CASE Advance(in) /\ ICacheSplit(in)
  <2>1. UNCHANGED <<FD_PC, FD_nop, FD_isRV32C, mem>> BY <1>3, FirstHalfFound
  <2>2. FD_instr' = FD_instr BY <1>1, <1>3, <2>1, FirstHalfFound
  <2>3. out' = out BY <2>1, <2>2 DEF out
  <2> QED BY <1>1, <2>1, <2>3 DEF FetchInv, DecodeHoldsInstruction
<1>4. CASE Advance(in) /\ D_flush(in) BY <1>1, <1>4, Corrected DEF FetchInv
<1>5. CASE Advance(in) /\ ~D_flush(in) /\ ~ICacheSplit(in)
  <2>1. FD_PC' = pc /\ mem' = mem BY <1>5, InstructionFound
  <2>2. IF FD_isRV32C' THEN <<FD_instr'[1]>> = InstrAt(mem, pc).bits
                      ELSE FD_instr' = InstrAt(mem, pc).bits
    BY <1>5, InstructionFound
  <2>3. out' = [at |-> pc, bits |-> InstrAt(mem, pc).bits]
    BY <1>1, <2>1, <2>2 DEF out
  <2> QED BY <2>1, <2>3, OutIs
<1> QED BY <1>2, <1>3, <1>4, <1>5

LEMMA ResetInv ==
  ASSUME FetchInv, Reset
  PROVE  FetchInv'
<1>1. ICacheTypeOK'
  <2>1. IMemData' \in {ZeroLine, IMemData} /\ mem' = mem
    BY DEF Reset, ICacheReset, MemoryPort, M!ReadPort, mRden_o
  <2>2. ZeroLine \in Line BY DEF ZeroLine, Line
  <2> QED BY <2>1, <2>2
       DEF Reset, ICacheReset, FetchInv, TypeOK, ICacheTypeOK
<1>2. TypeOK' BY <1>1, VectorAssumption DEF Reset, FetchInv, TypeOK
<1>3. LinesMatchMemory' BY DEF Reset, ICacheReset, LinesMatchMemory
<1> QED BY <1>2, <1>3
     DEF Reset, ICacheReset, FetchInv, RefillMatchesAddress, FirstHalfKept, HalvesApart,
         DecodeHoldsInstruction

(* Fetch unit and cache agree on what is where in every cycle of a lookup: *)
(* the cache holds lines of memory, a refill is filed under the address it *)
(* was read from, halves are put together with their own other halves, and *)
(* decode holds the instruction its PC names.                              *)
THEOREM FetchInvariant == Spec => []FetchInv
<1>1. ASSUME FetchInv, [Next]_vars PROVE FetchInv'
  <2>1. CASE \E in \in Input : Clock(in)
    BY <1>1, <2>1, TypeStep, LinesStep, RefillStep, FirstHalfStep, HalvesStep, DecodeStep
       DEF FetchInv
  <2>2. CASE Reset BY <1>1, <2>2, ResetInv
  <2>3. CASE UNCHANGED vars
    BY <1>1, <2>3
       DEF vars, icVars, fetchVars, FetchInv, TypeOK, ICacheTypeOK, LinesMatchMemory,
           RefillMatchesAddress, FirstHalfKept, HalvesApart, DecodeHoldsInstruction,
           pc, out, data_o, FD_instr
  <2> QED BY <1>1, <2>1, <2>2, <2>3 DEF Next
<1> QED BY InitInv, <1>1, PTL DEF Spec

-----------------------------------------------------------------------------
(* The refinement: a cycle in which fetch is held up or finds a first half *)
(* is invisible, a cycle with a prediction or a correction is a jump, and  *)
(* every other one delivers an instruction. *)

LEMMA StreamStep ==
  ASSUME FetchInv, NEW in \in Input, Clock(in)
  PROVE  Stream!Next
<1>1. mem' = mem BY DEF Clock, ICacheClock, MemoryPort
<1>2. CASE ~Advance(in)
  <2>1. UNCHANGED <<fetchVars, mem, C_data, C_dataWay, C_offset>> /\ answer' = Stay
    BY <1>2, HeldUp DEF FetchInv
  <2>2. pc' = pc /\ out' = out BY <2>1 DEF fetchVars, pc, out, FD_instr, data_o
  <2> QED BY <1>1, <2>1, <2>2 DEF Stream!Next, Stream!Wait
<1>3. CASE Advance(in) /\ D_flush(in)
  <2>1. /\ answer' = in.correct /\ in.correct \in Address /\ PC' = in.correct
        /\ FD_nop' = TRUE /\ ~F_isSplitInstr'
    BY <1>3, Corrected DEF FetchInv
  <2>2. pc' = in.correct /\ out' = Nothing BY <2>1 DEF pc, out
  <2> QED BY <1>1, <2>1, <2>2 DEF Stream!Next, Stream!Jump
<1>4. CASE Advance(in) /\ ICacheSplit(in)
  <2>1. /\ UNCHANGED <<FD_PC, FD_nop, FD_isRV32C>> /\ pc' = pc /\ answer' = Stay
        /\ ~FD_nop => FD_instr' = FD_instr
    BY <1>4, FirstHalfFound
  <2>2. out' = out BY <2>1 DEF out
  <2> QED BY <1>1, <2>1, <2>2 DEF Stream!Next, Stream!Wait
<1>5. CASE Advance(in) /\ ~D_flush(in) /\ ~ICacheSplit(in) /\ in.predict # None
  <2>1. /\ answer' = in.predict /\ PC' = in.predict /\ ~F_isSplitInstr'
        /\ FD_nop' = TRUE
    BY <1>5, InstructionFound
  <2>2. in.predict \in Address BY <1>5 DEF Input, AnyInput
  <2>3. pc' = in.predict /\ out' = Nothing BY <2>1 DEF pc, out
  <2> QED BY <1>1, <2>1, <2>2, <2>3 DEF Stream!Next, Stream!Jump
<1>6. CASE Advance(in) /\ ~D_flush(in) /\ ~ICacheSplit(in) /\ in.predict = None
  <2>1. /\ answer' = Sequential /\ PC' = Behind(mem, pc) /\ ~F_isSplitInstr'
        /\ FD_nop' = FALSE /\ FD_PC' = pc
    BY <1>6, InstructionFound
  <2>2. IF FD_isRV32C' THEN <<FD_instr'[1]>> = InstrAt(mem, pc).bits
                      ELSE FD_instr' = InstrAt(mem, pc).bits
    BY <1>6, InstructionFound
  <2>3. out' = InstrAt(mem, pc) BY <2>1, <2>2, OutIs DEF out
  <2>4. pc' = Behind(mem, pc) BY <2>1 DEF pc
  <2> QED BY <1>1, <2>1, <2>3, <2>4 DEF Stream!Next, Stream!Deliver
<1> QED BY <1>2, <1>3, <1>4, <1>5, <1>6

(* Decode gets the instructions of the program one by one, whole, with     *)
(* their lengths, from exactly the addresses that predictions and          *)
(* corrections send the fetch unit to.                                     *)
THEOREM StreamImplemented == Spec => ImplementsStream
<1>1. Init => Stream!Init BY DEF Init, Stream!Init, pc, out
<1>2. ASSUME FetchInv, [Next]_vars PROVE [Stream!Next]_(Stream!isVars)
  <2>1. CASE \E in \in Input : Clock(in) BY <1>2, <2>1, StreamStep
  <2>2. CASE Reset
    <3>1. pc' = rvec /\ out' = Nothing /\ answer' = rvec /\ mem' = mem
      BY <2>2 DEF Reset, ICacheReset, MemoryPort, pc, out
    <3> QED BY <3>1 DEF Stream!Next, Stream!Reset
  <2>3. CASE UNCHANGED vars
    BY <2>3 DEF vars, icVars, fetchVars, Stream!isVars, pc, out, FD_instr, data_o
  <2> QED BY <1>2, <2>1, <2>2, <2>3 DEF Next
<1> QED BY <1>1, <1>2, FetchInvariant, PTL DEF Spec, Stream!Spec, ImplementsStream
=============================================================================
