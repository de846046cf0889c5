------------------------------- MODULE ICache -------------------------------
(***************************************************************************)
(* The instruction cache (src/src/Memory/ICache.v) on the instruction port *)
(* of the main memory: read-only, two ways, least recently used.  The      *)
(* fetch unit shows it an address, a strobe and a cancel signal; the       *)
(* operators take them as p, rden and cancel.                              *)
(*                                                                         *)
(* Addresses count 16-bit halfwords.  The bits that mark a halfword as a   *)
(* compressed instruction (cmp0, cmp1) are written together with the line  *)
(* and computed from it, so they are read off the line here.               *)
(***************************************************************************)
EXTENDS Naturals

CONSTANTS NTAGS,      \* 2^18 in the code
          NSETS,      \* 512
          HALVES,     \* 16-bit halfwords in a line, 16
          Half,       \* the values of a halfword
          WideHalf,   \* those that begin a 32-bit instruction
          ZeroHalf    \* 16'b0

ASSUME SizeAssumption == /\ NTAGS \in Nat \ {0} /\ NSETS \in Nat \ {0}
                         /\ HALVES \in Nat \ {0, 1, 2}
ASSUME HalfAssumption == WideHalf \subseteq Half /\ ZeroHalf \in Half \ WideHalf

Tag      == 0..(NTAGS - 1)
Index    == 0..(NSETS - 1)
Offset   == 0..(HALVES - 1)
Way      == {0, 1}
LineAddr == Tag \X Index
Line     == [Offset -> Half]
ZeroLine == [o \in Offset |-> ZeroHalf]
Address  == [line : LineAddr, offset : Offset]

IDLE == "IDLE"
MISS == "MISS"

VARIABLES
  tag, valid, lru,       \* the directory, by set and way
  store,                 \* mem0 and mem1
  C_data,                \* the line each way put out last
  C_dataWay, C_offset,   \* which halfwords of it are the output
  C_curState,
  mem, IMemData          \* main memory and its instruction read bus

icVars == <<tag, valid, lru, store, C_data, C_dataWay, C_offset, C_curState,
            mem, IMemData>>

M == INSTANCE Memory WITH DMemRData <- IMemData

-----------------------------------------------------------------------------
IndexOf(p) == p.line[2]

C_hitWay(p, w) == valid[IndexOf(p)][w] /\ tag[IndexOf(p)][w] = p.line[1]
C_hit(p)       == \E w \in Way : C_hitWay(p, w)
HitWay(p)      == IF C_hitWay(p, 0) THEN 0 ELSE 1

ValidInWay0(p, cancel) ==    \* mutant
  cancel \/ (C_curState = IDLE /\ C_hitWay(p, 0))
valid_o(p, cancel) == cancel \/ (C_curState = IDLE /\ C_hit(p))

(* The halfword at C_offset and the one behind it, zero past the line. *)
data_o == LET line == C_data[C_dataWay]
          IN  <<line[C_offset],
                IF C_offset = HALVES - 1 THEN ZeroHalf ELSE line[C_offset + 1]>>

cmp_o(p) == store[IndexOf(p)][HitWay(p)][p.offset] \notin WideHalf

RefillDespiteCancel(p, rden, cancel) ==    \* mutant
  C_curState = IDLE /\ ~C_hit(p) /\ rden
mRden_o(p, rden, cancel) == C_curState = IDLE /\ ~C_hit(p) /\ rden /\ ~cancel

(* The way a refill goes to. *)
Victim(i) == IF ~valid[i][0] THEN 0 ELSE IF ~valid[i][1] THEN 1 ELSE lru[i]

-----------------------------------------------------------------------------
(* One edge of clk_i. *)

Hit(p, rden, cancel) ==
  LET w == HitWay(p)
  IN  /\ C_curState = IDLE /\ rden /\ ~cancel /\ C_hit(p)
      /\ C_data' = [C_data EXCEPT ![w] = store[IndexOf(p)][w]]
      /\ C_dataWay' = w /\ C_offset' = p.offset
      /\ lru' = [lru EXCEPT ![IndexOf(p)] = 1 - w]
      /\ UNCHANGED <<tag, valid, store, C_curState>>

Miss(p, rden, cancel) ==
  /\ mRden_o(p, rden, cancel)
  /\ C_curState' = MISS
  /\ UNCHANGED <<tag, valid, lru, store, C_data, C_dataWay, C_offset>>

Idle(rden, cancel) ==
  /\ C_curState = IDLE /\ (~rden \/ cancel)
  /\ UNCHANGED <<tag, valid, lru, store, C_data, C_dataWay, C_offset, C_curState>>

(* The line is filed under the address of this cycle. *)
Refill(p) ==
  LET i == IndexOf(p)
      w == Victim(i)
  IN  /\ C_curState = MISS /\ M!ValidReady
      /\ store' = [store EXCEPT ![i][w] = IMemData]
      /\ tag'   = [tag EXCEPT ![i][w] = p.line[1]]
      /\ valid' = [valid EXCEPT ![i][w] = TRUE]
      /\ C_curState' = IDLE
      /\ UNCHANGED <<lru, C_data, C_dataWay, C_offset>>

MemoryPort(reset, p, rden, cancel) ==
  /\ M!ReadPort(reset, mRden_o(p, rden, cancel), p.line)
  /\ UNCHANGED mem

ICacheClock(p, rden, cancel) ==
  /\ Hit(p, rden, cancel) \/ Miss(p, rden, cancel) \/ Idle(rden, cancel) \/ Refill(p)
  /\ MemoryPort(FALSE, p, rden, cancel)

ICacheReset(p) ==
  /\ valid' = [i \in Index |-> [w \in Way |-> FALSE]]
  /\ C_curState' = IDLE
  /\ UNCHANGED <<tag, lru, store, C_data, C_dataWay, C_offset>>
  /\ MemoryPort(TRUE, p, FALSE, FALSE)

(* After power-on: the directory is empty, the RAMs are arbitrary. *)
ICacheInit ==
  /\ tag \in [Index -> [Way -> Tag]]
  /\ valid = [i \in Index |-> [w \in Way |-> FALSE]]
  /\ lru \in [Index -> Way]
  /\ store \in [Index -> [Way -> Line]] /\ C_data \in [Way -> Line]
  /\ C_dataWay = 0 /\ C_offset = 0
  /\ C_curState = IDLE
  /\ mem \in [LineAddr -> Line] /\ IMemData \in Line

-----------------------------------------------------------------------------
ICacheTypeOK ==
  /\ tag \in [Index -> [Way -> Tag]] /\ valid \in [Index -> [Way -> BOOLEAN]]
  /\ lru \in [Index -> Way]
  /\ store \in [Index -> [Way -> Line]] /\ C_data \in [Way -> Line]
  /\ C_dataWay \in Way /\ C_offset \in Offset
  /\ C_curState \in {IDLE, MISS}
  /\ mem \in [LineAddr -> Line] /\ IMemData \in Line

(* A valid way holds the line of memory it is filed under. *)
LinesMatchMemory ==
  \A i \in Index, w \in Way :
    valid[i][w] => store[i][w] = mem[<<tag[i][w], i>>]
=============================================================================
