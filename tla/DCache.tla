------------------------------- MODULE DCache -------------------------------
(***************************************************************************)
(* The data cache (src/src/Memory/DCache.v with the four line RAMs of      *)
(* DCacheMem.v) on its port of the main memory, and the request the        *)
(* pipeline holds on its inputs.  One step is one rising edge of clk_i:    *)
(* the registers take the values computed from the registers and inputs    *)
(* before the edge, and the pipeline presents its next request.            *)
(*                                                                         *)
(* The cache is write-back and write-allocate with four ways.  An access   *)
(* that misses chooses a way, writes its line back if it is dirty          *)
(* (MISS_WRITE), and reads the new line (MISS_READ); a FENCE walks every   *)
(* way of every set, writes the dirty lines back and invalidates all.      *)
(***************************************************************************)
EXTENDS Naturals, FiniteSets

CONSTANTS Tag,       \* addr_i[31:13]
          NSETS,     \* the number of sets, 256 in the code
          Offset,    \* addr_i[4:3], the 64-bit words of a line
          Lane,      \* the byte lanes of a word
          Value,     \* the values of a byte
          Zero,      \* 8'b0
          NoData,    \* "the memory stage holds no load"
          StoreTag   \* bound: the tags the program stores to

ASSUME SetsAssumption  == NSETS \in Nat \ {0}
ASSUME ZeroAssumption  == Zero \in Value
ASSUME StoreAssumption == StoreTag \subseteq Tag
ASSUME NoDataAssumption == NoData \notin [Lane -> Value]

Index    == 0..(NSETS - 1)
Way      == 0..3
Word     == [Lane -> Value]
Line     == [Offset -> Word]
LineAddr == Tag \X Index
ZeroWord == [l \in Lane |-> Zero]
ZeroLine == [o \in Offset |-> ZeroWord]
Address  == [tag : Tag, index : Index, offset : Offset]

IDLE       == "IDLE"        \* hits, replacement choice, flush walk
MISS_WRITE == "MISS_WRITE"  \* write back a dirty line
MISS_READ  == "MISS_READ"   \* read a line from memory

VARIABLES
  tag, valid, dirty,         \* the directory, by set and way
  lruTop, lru0, lru1,        \* the replacement bits of a set
  store,                     \* the line RAMs
  rdata,                     \* their registered outputs, by way
  C_mRden, C_mWren, C_mAddr, \* the registered request to memory
  C_dataWay, C_offset,       \* which word of rdata is the output
  C_curState,
  flushSet, flushWay, flushBusy, flushDone,
  flush, rden, wren,         \* flush_i, rden_i, wren_i
  addr, wdata,               \* addr_i, wdata_i
  mem, DMemRData,            \* main memory and its read bus
  emLoad,                    \* EM_isLoad: a load was accepted at the last edge
  reset_i                    \* reset_i at the last edge

directory == <<tag, valid, dirty>>
lru       == <<lruTop, lru0, lru1>>
memPort   == <<C_mRden, C_mWren, C_mAddr>>
select    == <<C_dataWay, C_offset>>
flushRegs == <<flushSet, flushWay, flushBusy, flushDone>>
rams      == <<store, rdata, mem, DMemRData>>
request   == <<flush, rden, wren, addr, wdata>>
vars == <<directory, lru, memPort, select, C_curState, flushRegs, rams,
          request, emLoad, reset_i>>

M == INSTANCE Memory

-----------------------------------------------------------------------------
(* The wires. *)

Access  == rden \/ wren # {}
Request == flush \/ Access

C_hitWay(w) == valid[addr.index][w] /\ tag[addr.index][w] = addr.tag

C_hit        == \E w \in Way : C_hitWay(w)

(* The way the if-chains reach first. *)
Lowest(ways) == CHOOSE w \in ways : \A v \in ways : w <= v
HitWay       == Lowest({w \in Way : C_hitWay(w)})

C_validDirtyWay(w) == valid[flushSet][w] /\ dirty[flushSet][w]
C_validDirty       == \E w \in Way : C_validDirtyWay(w)

C_data       == rdata[C_dataWay]
C_dataOffset == C_data[C_offset]

ReadyOnlyOnHit == (C_curState = IDLE /\ C_hit /\ (~flush \/ flushDone)) \/ ~Request  \* mutant

validReady == \/ /\ C_curState = IDLE
                 /\ flush \/ C_hit
                 /\ ~flush \/ flushDone
              \/ ~Request

C_missRead == C_curState = MISS_READ /\ ~C_mRden /\ M!ValidReady


curIndex == IF flush THEN flushSet ELSE addr.index

reqLine == <<addr.tag, addr.index>>

(* The way a miss replaces: an invalid one if there is one, else the one   *)
(* the replacement bits of the set point at.                               *)
InvalidWays == {w \in Way : ~valid[addr.index][w]}
SetFull     == InvalidWays = {}
PLRUWay(i)  == IF lruTop[i] = 0 THEN lru0[i] ELSE 2 + lru1[i]
Victim      == IF SetFull THEN PLRUWay(addr.index) ELSE Lowest(InvalidWays)
DirtyOfWay0 == SetFull /\ dirty[addr.index][0]    \* mutant
VictimDirty == SetFull /\ dirty[addr.index][Victim]

-----------------------------------------------------------------------------
(* The line RAMs and the memory behind the cache, at every edge.           *)

(* m<w>_rden: which RAMs latch the line of curIndex on their outputs. *)
ReadWays ==
  IF C_curState # IDLE \/ ~Request THEN {}
  ELSE IF flush THEN IF C_validDirty THEN Way ELSE {}
  ELSE IF C_hit THEN IF rden THEN {HitWay} ELSE {}
  ELSE IF VictimDirty THEN {Victim} ELSE {}

(* m<w>_wren: a store that hits merges its byte lanes into the line. *)
StoreHit == C_curState = IDLE /\ ~flush /\ C_hit /\ wren # {}

WholeWord(word) == wdata    \* mutant
Merge(word) == [l \in Lane |-> IF l \in wren THEN wdata[l] ELSE word[l]]

Datapath(reset) ==
  /\ rdata' = [w \in Way |-> IF w \in ReadWays THEN store[curIndex][w] ELSE rdata[w]]
  /\ store' =
       IF C_missRead
         THEN [store EXCEPT ![curIndex][C_dataWay] = DMemRData]
         ELSE IF StoreHit
           THEN [store EXCEPT ![curIndex][HitWay][addr.offset] = Merge(@)]
           ELSE store
  /\ M!Clock(reset, C_mRden, C_mWren, C_mAddr, C_data)

-----------------------------------------------------------------------------
(* The state machine.  In IDLE every edge drops the memory strobes and,    *)
(* without a flush request, the flush flags, unless a case below sets them.*)

DropStrobes    == C_mRden' = FALSE /\ C_mWren' = FALSE /\ UNCHANGED C_mAddr
KeepFlushFlags == UNCHANGED flushRegs    \* mutant
ClearFlushFlags == /\ flushBusy' = (flushBusy /\ flush)
                   /\ flushDone' = (flushDone /\ flush)
                   /\ UNCHANGED <<flushSet, flushWay>>

MarkDirty(i, w) == dirty' = [dirty EXCEPT ![i][w] = @ \/ wren # {}]

(* The set the flush walk visits after set s: an 8-bit decrement. *)
PreviousSet(s) == IF s = 0 THEN NSETS - 1 ELSE s - 1

LastOfWalkAnyWay(s, w) == s = 0    \* mutant
LastOfWalk(s, w) == s = 0 /\ w = 3

NoRequest ==
  /\ C_curState = IDLE /\ ~Request
  /\ DropStrobes /\ ClearFlushFlags
  /\ UNCHANGED <<directory, lru, select, C_curState>>

FlushStart ==
  /\ C_curState = IDLE /\ flush /\ ~flushDone /\ ~flushBusy
  /\ flushSet' = NSETS - 1 /\ flushWay' = 0 /\ flushBusy' = TRUE
  /\ DropStrobes
  /\ UNCHANGED <<directory, lru, select, C_curState, flushDone>>

(* One way of the walk: write it back if it is dirty, and invalidate it. *)
FlushLine ==
  /\ C_curState = IDLE /\ flush /\ ~flushDone /\ flushBusy
  /\ LET s == flushSet
         w == flushWay
     IN  /\ valid' = [valid EXCEPT ![s][w] = FALSE]
         /\ IF C_validDirtyWay(w)
              THEN /\ C_mWren' = TRUE /\ C_mAddr' = <<tag[s][w], s>>
                   /\ C_dataWay' = w
                   /\ C_curState' = MISS_WRITE
                   /\ dirty' = [dirty EXCEPT ![s][w] = FALSE]
              ELSE /\ C_mWren' = FALSE
                   /\ UNCHANGED <<C_mAddr, C_dataWay, C_curState, dirty>>
         /\ flushWay' = IF w = 3 THEN 0 ELSE w + 1
         /\ flushSet' = IF w = 3 THEN PreviousSet(s) ELSE s
         /\ flushDone' = LastOfWalk(s, w)
  /\ C_mRden' = FALSE
  /\ UNCHANGED <<tag, lru, C_offset, flushBusy>>

FlushFinish ==
  /\ C_curState = IDLE /\ flush /\ flushDone
  /\ flushSet' = 0 /\ flushBusy' = FALSE
  /\ DropStrobes
  /\ UNCHANGED <<directory, lru, select, C_curState, flushWay, flushDone>>

(* A hit selects the word for the output, marks a stored line dirty and    *)
(* sets the replacement bits of the set.                                   *)
Hit ==
  /\ C_curState = IDLE /\ ~flush /\ Access /\ C_hit
  /\ LET i == addr.index
         w == HitWay
     IN  /\ MarkDirty(i, w)
         /\ C_dataWay' = w /\ C_offset' = addr.offset
         /\ lruTop' = [lruTop EXCEPT ![i] = w \div 2]
         /\ lru0' = IF w \in {0, 1} THEN [lru0 EXCEPT ![i] = w] ELSE lru0
         /\ lru1' = IF w \in {2, 3} THEN [lru1 EXCEPT ![i] = w - 2] ELSE lru1
  /\ DropStrobes /\ ClearFlushFlags
  /\ UNCHANGED <<tag, valid, C_curState>>

(* A miss gives the way to the new line at once and starts the memory      *)
(* access: the write-back of the old line if it is dirty, else the read.   *)
Allocate ==
  /\ C_curState = IDLE /\ ~flush /\ Access /\ ~C_hit
  /\ LET i == addr.index
         w == Victim
     IN  /\ tag'   = [tag EXCEPT ![i][w] = addr.tag]
         /\ valid' = [valid EXCEPT ![i][w] = TRUE]
         /\ dirty' = [dirty EXCEPT ![i][w] = FALSE]
         /\ C_dataWay' = w
  /\ ClearFlushFlags
  /\ UNCHANGED <<lru, C_offset>>

MissClean ==
  /\ Allocate /\ ~VictimDirty
  /\ C_curState' = MISS_READ
  /\ C_mRden' = TRUE /\ C_mWren' = FALSE /\ C_mAddr' = reqLine

MissDirty ==
  /\ Allocate /\ VictimDirty
  /\ C_curState' = MISS_WRITE
  /\ C_mRden' = FALSE /\ C_mWren' = TRUE
  /\ C_mAddr' = <<tag[addr.index][Victim], addr.index>>

WriteStrobe ==
  /\ C_curState = MISS_WRITE /\ C_mWren
  /\ C_mWren' = FALSE
  /\ UNCHANGED <<directory, lru, select, C_curState, flushRegs, C_mRden, C_mAddr>>

WriteDone ==
  /\ C_curState = MISS_WRITE /\ ~C_mWren /\ M!ValidReady
  /\ IF flush
       THEN C_curState' = IDLE /\ UNCHANGED <<C_mRden, C_mAddr>>
       ELSE C_curState' = MISS_READ /\ C_mRden' = TRUE /\ C_mAddr' = reqLine
  /\ UNCHANGED <<directory, lru, select, flushRegs, C_mWren>>

ReadStrobe ==
  /\ C_curState = MISS_READ /\ C_mRden
  /\ C_mRden' = FALSE
  /\ UNCHANGED <<directory, lru, select, C_curState, flushRegs, C_mWren, C_mAddr>>

ReadDone ==
  /\ C_curState = MISS_READ /\ ~C_mRden /\ M!ValidReady
  /\ C_curState' = IDLE
  /\ UNCHANGED <<directory, lru, select, flushRegs, memPort>>

CacheStep ==
  /\ \/ NoRequest \/ FlushStart \/ FlushLine \/ FlushFinish
     \/ Hit \/ MissClean \/ MissDirty
     \/ WriteStrobe \/ WriteDone \/ ReadStrobe \/ ReadDone
  /\ Datapath(FALSE)

-----------------------------------------------------------------------------
(* The pipeline's side of the port.  A load or the read of an atomic comes *)
(* from the execute stage, a store or a FENCE from the memory stage; the   *)
(* hazard unit keeps a load out of the execute stage while a store is in   *)
(* the memory stage.  A request not accepted stalls both stages, so it     *)
(* stays on the port.  With no access the address bus carries an address   *)
(* the cache does not look at: the last one, here.                         *)

PresentNothing ==
  /\ flush' = FALSE /\ rden' = FALSE /\ wren' = {}
  /\ addr' = addr /\ wdata' = ZeroWord

PresentLoad(a) ==
  /\ flush' = FALSE /\ rden' = TRUE /\ wren' = {}
  /\ addr' = a /\ wdata' = ZeroWord

PresentStore(a, be, data) ==
  /\ be # {} /\ a.tag \in StoreTag
  /\ flush' = FALSE /\ rden' = FALSE /\ wren' = be
  /\ addr' = a /\ wdata' = data

PresentFence ==
  /\ flush' = TRUE /\ rden' = FALSE /\ wren' = {}
  /\ addr' = addr /\ wdata' = ZeroWord

Present ==
  IF validReady
    THEN \/ PresentNothing
         \/ \E a \in Address :
              \/ PresentLoad(a)
              \/ \E be \in SUBSET Lane, data \in Word : PresentStore(a, be, data)
         \/ PresentFence
    ELSE UNCHANGED request

Clock == /\ reset_i' = FALSE
         /\ emLoad' = (validReady /\ rden)
         /\ Present
         /\ CacheStep

(* An edge with reset_i.  The strobes, the replacement bits and the line   *)
(* RAMs are not reset; the pipeline drops its load or store, but the FENCE *)
(* flag of the memory stage is not cleared and follows the execute stage   *)
(* when nothing stalls.                                                    *)
Reset ==
  /\ valid' = [i \in Index |-> [w \in Way |-> FALSE]]
  /\ C_curState' = IDLE
  /\ flushDone' = FALSE /\ flushBusy' = FALSE
  /\ Datapath(TRUE)
  /\ flush' \in (IF validReady THEN BOOLEAN ELSE {flush})
  /\ rden' = FALSE /\ wren' = {} /\ addr' = addr /\ wdata' = ZeroWord
  /\ emLoad' = FALSE /\ reset_i' = TRUE
  /\ UNCHANGED <<tag, dirty, lru, memPort, select, flushSet, flushWay>>

(* After the power-on reset: directory empty, RAMs and bits arbitrary. *)
Init ==
  /\ tag \in [Index -> [Way -> Tag]] /\ dirty \in [Index -> [Way -> BOOLEAN]]
  /\ valid = [i \in Index |-> [w \in Way |-> FALSE]]
  /\ lruTop \in [Index -> {0, 1}] /\ lru0 \in [Index -> {0, 1}] /\ lru1 \in [Index -> {0, 1}]
  /\ store \in [Index -> [Way -> Line]] /\ rdata \in [Way -> Line]
  /\ C_mRden = FALSE /\ C_mWren = FALSE /\ C_mAddr \in LineAddr
  /\ C_dataWay = 0 /\ C_offset \in Offset
  /\ C_curState = IDLE
  /\ flushSet \in Index /\ flushWay \in Way /\ flushBusy = FALSE /\ flushDone = FALSE
  /\ flush = FALSE /\ rden = FALSE /\ wren = {} /\ addr \in Address /\ wdata = ZeroWord
  /\ mem \in [LineAddr -> Line] /\ DMemRData \in Line
  /\ emLoad = FALSE /\ reset_i = FALSE

Next == Clock \/ Reset

Spec == Init /\ [][Next]_vars

(* The clock runs for ever and the reset button is released for good. *)
FairSpec == Spec /\ WF_vars(Clock) /\ <>[][Clock]_vars

-----------------------------------------------------------------------------
(* The memory the cache implements. *)

(* The way that a miss has given to its line but not filled yet. *)
Refilling(i, w) == /\ C_curState # IDLE /\ ~flush
                   /\ i = addr.index /\ w = C_dataWay

Holds(w, a) == /\ valid[a[2]][w] /\ tag[a[2]][w] = a[1]
               /\ ~Refilling(a[2], w)

(* The logical contents of a line: the copy on its way to memory if there  *)
(* is one, else the copy in the cache, else memory itself.                 *)
memory ==
  [a \in LineAddr |->
     IF C_mWren /\ C_mAddr = a THEN C_data
     ELSE IF \E w \in Way : Holds(w, a)
       THEN store[a[2]][CHOOSE w \in Way : Holds(w, a)]
       ELSE mem[a]]

dout == IF emLoad THEN C_dataOffset ELSE NoData

DM == INSTANCE DataMemory
        WITH line <- reqLine, offset <- addr.offset,
             ready <- validReady, backing <- mem

(* Every register, wire bundle and memory row has its type. *)
TypeOK ==
  /\ tag \in [Index -> [Way -> Tag]]
  /\ valid \in [Index -> [Way -> BOOLEAN]] /\ dirty \in [Index -> [Way -> BOOLEAN]]
  /\ lruTop \in [Index -> {0, 1}]
  /\ lru0 \in [Index -> {0, 1}] /\ lru1 \in [Index -> {0, 1}]
  /\ store \in [Index -> [Way -> Line]] /\ rdata \in [Way -> Line]
  /\ C_mRden \in BOOLEAN /\ C_mWren \in BOOLEAN /\ C_mAddr \in LineAddr
  /\ C_dataWay \in Way /\ C_offset \in Offset
  /\ C_curState \in {IDLE, MISS_WRITE, MISS_READ}
  /\ flushSet \in Index /\ flushWay \in Way
  /\ flushBusy \in BOOLEAN /\ flushDone \in BOOLEAN
  /\ flush \in BOOLEAN /\ rden \in BOOLEAN /\ wren \in SUBSET Lane
  /\ addr \in Address /\ wdata \in Word
  /\ M!TypeOK
  /\ emLoad \in BOOLEAN /\ reset_i \in BOOLEAN

(* No line is in two ways of a set (DCache.v:285-321 serve the first way    *)
(* that hits, so a second copy would be a second version of the line).     *)
UniqueTags ==
  \A i \in Index : \A v, w \in Way :
    valid[i][v] /\ valid[i][w] /\ tag[i][v] = tag[i][w] => v = w

(* A line that is not dirty may be dropped: memory has the same contents   *)
(* (DCache.v:360-423 evict a clean way without a write-back).              *)
CleanLinesMatchMemory ==
  \A i \in Index, w \in Way :
    valid[i][w] /\ ~dirty[i][w] /\ ~Refilling(i, w)
      => store[i][w] = mem[<<tag[i][w], i>>]

AllInvalid == \A i \in Index, w \in Way : ~valid[i][w]

(* When a FENCE is acknowledged nothing is cached and memory holds every   *)
(* store accepted before it, so that the instruction port, which reads     *)
(* memory and not this cache, sees them (DCache.v:104-105, 224-284).       *)
FenceDurable ==
  validReady /\ flush =>
    /\ AllInvalid
    /\ mem = memory

(* What the properties above rest on.                                      *)

(* Outside IDLE the request that caused the miss is still on the port, its *)
(* way is allocated and clean, and once the read strobe is down the read   *)
(* bus carries its line.                                                   *)
MissInv ==
  /\ C_curState # IDLE /\ ~flush =>
       /\ Access
       /\ valid[addr.index][C_dataWay] /\ tag[addr.index][C_dataWay] = addr.tag
       /\ ~dirty[addr.index][C_dataWay]
  /\ C_curState = MISS_READ =>
       /\ ~flush /\ ~C_mWren
       /\ IF C_mRden THEN C_mAddr = reqLine ELSE DMemRData = mem[reqLine]

(* A line on its way to memory is in no way of the cache any more; in IDLE *)
(* it can only be the rest of a write-back that a reset cut short.         *)
WriteInv ==
  C_mWren =>
    /\ \A w \in Way : valid[C_mAddr[2]][w] => tag[C_mAddr[2]][w] # C_mAddr[1]
    /\ C_curState = IDLE => AllInvalid /\ ~flushDone

(* The flush walk leaves invalid ways behind it. *)
FlushInv ==
  /\ flush /\ flushBusy =>
       \A i \in Index, w \in Way :
         i > flushSet \/ (i = flushSet /\ w < flushWay) => ~valid[i][w]
  /\ flushDone => AllInvalid

CacheInv == /\ TypeOK /\ UniqueTags /\ CleanLinesMatchMemory
            /\ MissInv /\ WriteInv /\ FlushInv

(* The cache is a memory: every load returns the last value stored, memory *)
(* only ever receives whole current lines, and a reset loses nothing but   *)
(* stores that were not written back (DCache.v as a whole).                *)
ImplementsMemory == DM!Spec

(* Every request is accepted in the end: a miss reaches the hit that       *)
(* answers it, and the flush walk ends (DCache.v:104-105).                 *)
RequestAccepted == Request ~> validReady
=============================================================================
