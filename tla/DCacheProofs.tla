---------------------------- MODULE DCacheProofs ----------------------------
(***************************************************************************)
(* Proofs about the data cache, for every number of sets, set of tags and  *)
(* line shape.                                                             *)
(***************************************************************************)
EXTENDS DCache, TLAPS

USE DEF IDLE, MISS_WRITE, MISS_READ

-----------------------------------------------------------------------------
(* The choice operators return a way. *)

LEMMA LowestInSet ==
  ASSUME NEW ways \in SUBSET Way, ways # {}
  PROVE  /\ Lowest(ways) \in ways
         /\ \A v \in ways : Lowest(ways) <= v
<1>1. \E w \in ways : \A v \in ways : w <= v
  <2>1. PICK w \in ways : TRUE OBVIOUS
  <2>2. ways \subseteq {0, 1, 2, 3} BY DEF Way
  <2>3. CASE 0 \in ways BY <2>2, <2>3
  <2>4. CASE 0 \notin ways /\ 1 \in ways BY <2>2, <2>4
  <2>5. CASE 0 \notin ways /\ 1 \notin ways /\ 2 \in ways BY <2>2, <2>5
  <2>6. CASE 0 \notin ways /\ 1 \notin ways /\ 2 \notin ways
    <3>1. ways = {3} BY <2>1, <2>2, <2>6
    <3> QED BY <3>1
  <2> QED BY <2>3, <2>4, <2>5, <2>6
<1> QED BY <1>1 DEF Lowest

LEMMA HitWayHits ==
  ASSUME C_hit
  PROVE  HitWay \in Way /\ C_hitWay(HitWay)
<1>1. {w \in Way : C_hitWay(w)} # {} BY DEF C_hit
<1> QED BY <1>1, LowestInSet DEF HitWay

LEMMA PLRUWayIsWay ==
  ASSUME TypeOK, NEW i \in Index
  PROVE  PLRUWay(i) \in Way
BY DEF TypeOK, PLRUWay, Way

LEMMA VictimIsWay ==
  ASSUME TypeOK
  PROVE  /\ Victim \in Way
         /\ SetFull \/ ~valid[addr.index][Victim]
<1>1. addr.index \in Index BY DEF TypeOK, Address
<1>2. CASE SetFull
  BY <1>1, <1>2, PLRUWayIsWay DEF Victim
<1>3. CASE ~SetFull
  <2>1. InvalidWays \in SUBSET Way /\ InvalidWays # {} BY <1>3 DEF SetFull, InvalidWays
  <2>2. Lowest(InvalidWays) \in InvalidWays BY <2>1, LowestInSet
  <2> QED BY <1>3, <2>2 DEF Victim, InvalidWays
<1> QED BY <1>2, <1>3

LEMMA HitWayIsWay ==
  ASSUME C_hit
  PROVE  HitWay \in Way
BY HitWayHits

-----------------------------------------------------------------------------
(* Type correctness. *)

(* What the state machine owns has its type. *)
ControlTypeOK ==
  /\ tag \in [Index -> [Way -> Tag]]
  /\ valid \in [Index -> [Way -> BOOLEAN]] /\ dirty \in [Index -> [Way -> BOOLEAN]]
  /\ lruTop \in [Index -> {0, 1}]
  /\ lru0 \in [Index -> {0, 1}] /\ lru1 \in [Index -> {0, 1}]
  /\ C_mRden \in BOOLEAN /\ C_mWren \in BOOLEAN /\ C_mAddr \in LineAddr
  /\ C_dataWay \in Way /\ C_offset \in Offset
  /\ C_curState \in {IDLE, MISS_WRITE, MISS_READ}
  /\ flushSet \in Index /\ flushWay \in Way
  /\ flushBusy \in BOOLEAN /\ flushDone \in BOOLEAN

RamsTypeOK ==
  /\ store \in [Index -> [Way -> Line]] /\ rdata \in [Way -> Line]
  /\ mem \in [LineAddr -> Line] /\ DMemRData \in Line

RequestTypeOK ==
  /\ flush \in BOOLEAN /\ rden \in BOOLEAN /\ wren \in SUBSET Lane
  /\ addr \in Address /\ wdata \in Word

LEMMA TypeParts ==
  TypeOK <=> /\ ControlTypeOK /\ RamsTypeOK /\ RequestTypeOK
             /\ emLoad \in BOOLEAN /\ reset_i \in BOOLEAN
BY DEF TypeOK, ControlTypeOK, RamsTypeOK, RequestTypeOK, M!TypeOK

LEMMA ZeroTypes == ZeroWord \in Word /\ ZeroLine \in Line
BY ZeroAssumption DEF ZeroWord, ZeroLine, Word, Line

LEMMA DatapathType ==
  ASSUME TypeOK, NEW reset \in BOOLEAN, Datapath(reset)
  PROVE  RamsTypeOK'
<1> USE DEF TypeOK, RamsTypeOK
<1>1. curIndex \in Index /\ addr.index \in Index /\ addr.offset \in Offset
  BY DEF curIndex, Address
<1>2. rdata' \in [Way -> Line]
  BY <1>1 DEF Datapath
<1>3. store' \in [Index -> [Way -> Line]]
  <2>1. CASE C_missRead
    BY <1>1, <2>1 DEF Datapath, M!TypeOK
  <2>2. CASE ~C_missRead /\ StoreHit
    <3>1. HitWay \in Way BY <2>2, HitWayHits DEF StoreHit
    <3>2. ASSUME NEW word \in Word PROVE Merge(word) \in Word
      BY DEF Merge, Word
    <3>3. store[curIndex][HitWay] \in Line BY <1>1, <3>1
    <3>4. store[curIndex][HitWay][addr.offset] \in Word BY <1>1, <3>3 DEF Line
    <3>5. [store[curIndex][HitWay] EXCEPT
             ![addr.offset] = Merge(store[curIndex][HitWay][addr.offset])] \in Line
      BY <3>2, <3>3, <3>4 DEF Line
    <3>6. store' = [store EXCEPT ![curIndex] = [store[curIndex] EXCEPT ![HitWay] =
                      [store[curIndex][HitWay] EXCEPT
                        ![addr.offset] = Merge(store[curIndex][HitWay][addr.offset])]]]
      BY <2>2 DEF Datapath
    <3> QED BY <1>1, <3>1, <3>5, <3>6
  <2>3. CASE ~C_missRead /\ ~StoreHit
    BY <2>3 DEF Datapath
  <2> QED BY <2>1, <2>2, <2>3
<1>4. C_data \in Line BY DEF C_data
<1>5. mem' \in [LineAddr -> Line] /\ DMemRData' \in Line
  BY <1>4, ZeroTypes DEF Datapath, M!Clock, M!WritePort, M!ReadPort, M!TypeOK
<1> QED BY <1>2, <1>3, <1>5

LEMMA PresentType ==
  ASSUME TypeOK, Present
  PROVE  RequestTypeOK'
BY ZeroTypes DEF TypeOK, RequestTypeOK, Present, PresentNothing, PresentLoad,
   PresentStore, PresentFence, request

(* The parts of the state machine that several of its cases share. *)
LEMMA SharedType ==
  ASSUME TypeOK
  PROVE  /\ DropStrobes => /\ C_mRden' \in BOOLEAN /\ C_mWren' \in BOOLEAN
                           /\ C_mAddr' \in LineAddr
         /\ ClearFlushFlags => /\ flushSet' \in Index /\ flushWay' \in Way
                               /\ flushBusy' \in BOOLEAN /\ flushDone' \in BOOLEAN
BY DEF TypeOK, DropStrobes, ClearFlushFlags

LEMMA HitType ==
  ASSUME TypeOK, Hit
  PROVE  ControlTypeOK'
<1> DEFINE i == addr.index
           w == HitWay
<1>1. i \in Index /\ w \in Way /\ addr.offset \in Offset
  BY HitWayHits DEF Hit, TypeOK, Address
<1>2. dirty' \in [Index -> [Way -> BOOLEAN]]
  BY <1>1 DEF Hit, MarkDirty, TypeOK
<1>3. /\ lruTop' \in [Index -> {0, 1}]
      /\ lru0' \in [Index -> {0, 1}] /\ lru1' \in [Index -> {0, 1}]
  <2>1. w \in {0, 1, 2, 3} BY <1>1 DEF Way
  <2>2. w \div 2 \in {0, 1} BY <2>1
  <2>3. w \in {2, 3} => w - 2 \in {0, 1} OBVIOUS
  <2> QED BY <1>1, <2>2, <2>3 DEF Hit, TypeOK
<1> QED
  BY <1>1, <1>2, <1>3, SharedType DEF Hit, ControlTypeOK, TypeOK

LEMMA AllocateType ==
  ASSUME TypeOK, Allocate
  PROVE  /\ tag' \in [Index -> [Way -> Tag]]
         /\ valid' \in [Index -> [Way -> BOOLEAN]] /\ dirty' \in [Index -> [Way -> BOOLEAN]]
         /\ UNCHANGED <<lru, C_offset>>
         /\ C_dataWay' \in Way
         /\ flushSet' \in Index /\ flushWay' \in Way
         /\ flushBusy' \in BOOLEAN /\ flushDone' \in BOOLEAN
         /\ reqLine \in LineAddr
         /\ <<tag[addr.index][Victim], addr.index>> \in LineAddr
<1>1. Victim \in Way BY VictimIsWay
<1>2. addr.index \in Index /\ addr.tag \in Tag BY DEF TypeOK, Address
<1> QED BY <1>1, <1>2, SharedType DEF Allocate, TypeOK, reqLine, LineAddr

LEMMA FlushLineType ==
  ASSUME TypeOK, FlushLine
  PROVE  ControlTypeOK'
<1>1. flushSet \in Index /\ flushWay \in Way BY DEF TypeOK
<1>2. /\ valid' \in [Index -> [Way -> BOOLEAN]]
      /\ dirty' \in [Index -> [Way -> BOOLEAN]]
  <2>1. valid' = [valid EXCEPT ![flushSet][flushWay] = FALSE] BY DEF FlushLine
  <2>2. dirty' = [dirty EXCEPT ![flushSet][flushWay] = FALSE] \/ dirty' = dirty
    BY DEF FlushLine
  <2>3. ASSUME NEW f \in [Index -> [Way -> BOOLEAN]]
        PROVE  [f EXCEPT ![flushSet][flushWay] = FALSE] \in [Index -> [Way -> BOOLEAN]]
    <3> DEFINE g == [f[flushSet] EXCEPT ![flushWay] = FALSE]
    <3>1. g \in [Way -> BOOLEAN] BY <1>1
    <3>2. [f EXCEPT ![flushSet][flushWay] = FALSE] = [f EXCEPT ![flushSet] = g] OBVIOUS
    <3> HIDE DEF g
    <3>3. [f EXCEPT ![flushSet] = g] \in [Index -> [Way -> BOOLEAN]] BY <1>1, <3>1
    <3> QED BY <3>2, <3>3
  <2>4. valid \in [Index -> [Way -> BOOLEAN]] /\ dirty \in [Index -> [Way -> BOOLEAN]]
    BY DEF TypeOK
  <2>5. valid' \in [Index -> [Way -> BOOLEAN]] BY <2>1, <2>3, <2>4
  <2>6. CASE dirty' = dirty BY <2>4, <2>5, <2>6
  <2>7. CASE dirty' = [dirty EXCEPT ![flushSet][flushWay] = FALSE] BY <2>3, <2>4, <2>5, <2>7
  <2> QED BY <2>2, <2>6, <2>7
<1>3. <<tag[flushSet][flushWay], flushSet>> \in LineAddr
  BY <1>1 DEF TypeOK, LineAddr
<1>4. PreviousSet(flushSet) \in Index
  BY <1>1, SetsAssumption DEF PreviousSet, Index
<1>5. (IF flushWay = 3 THEN 0 ELSE flushWay + 1) \in Way
  BY <1>1 DEF Way
<1>6. flushSet' \in Index /\ flushWay' \in Way
  BY <1>1, <1>4, <1>5 DEF FlushLine
<1>7. /\ C_mRden' \in BOOLEAN /\ C_mWren' \in BOOLEAN /\ C_mAddr' \in LineAddr
      /\ C_dataWay' \in Way /\ C_curState' \in {IDLE, MISS_WRITE, MISS_READ}
  BY <1>1, <1>3 DEF FlushLine, TypeOK
<1>8. /\ tag' = tag /\ UNCHANGED lru /\ C_offset' = C_offset
      /\ flushBusy' = flushBusy /\ flushDone' \in BOOLEAN
  BY DEF FlushLine, LastOfWalk
<1> QED BY <1>2, <1>6, <1>7, <1>8 DEF ControlTypeOK, TypeOK, lru

LEMMA CacheStepType ==
  ASSUME TypeOK, CacheStep
  PROVE  ControlTypeOK'
<1> USE DEF directory, lru, memPort, select, flushRegs
<1>1. CASE NoRequest
  BY <1>1, SharedType DEF NoRequest, ControlTypeOK, TypeOK
<1>2. CASE FlushStart
  <2>1. NSETS - 1 \in Index /\ 0 \in Way BY SetsAssumption DEF Index, Way
  <2> QED BY <1>2, <2>1, SharedType DEF FlushStart, ControlTypeOK, TypeOK
<1>3. CASE FlushLine BY <1>3, FlushLineType
<1>4. CASE FlushFinish
  <2>1. 0 \in Index BY SetsAssumption DEF Index
  <2> QED BY <1>4, <2>1, SharedType DEF FlushFinish, ControlTypeOK, TypeOK
<1>5. CASE Hit BY <1>5, HitType
<1>6. CASE MissClean
  BY <1>6, AllocateType DEF MissClean, ControlTypeOK, TypeOK
<1>7. CASE MissDirty
  BY <1>7, AllocateType DEF MissDirty, ControlTypeOK, TypeOK
<1>8. CASE WriteStrobe BY <1>8 DEF WriteStrobe, ControlTypeOK, TypeOK
<1>9. CASE WriteDone
  <2>1. reqLine \in LineAddr BY DEF TypeOK, reqLine, LineAddr, Address
  <2> QED BY <1>9, <2>1 DEF WriteDone, ControlTypeOK, TypeOK
<1>10. CASE ReadStrobe BY <1>10 DEF ReadStrobe, ControlTypeOK, TypeOK
<1>11. CASE ReadDone BY <1>11 DEF ReadDone, ControlTypeOK, TypeOK
<1> QED
  BY <1>1, <1>2, <1>3, <1>4, <1>5, <1>6, <1>7, <1>8, <1>9, <1>10, <1>11
  DEF CacheStep

LEMMA ResetType ==
  ASSUME TypeOK, Reset
  PROVE  TypeOK'
<1>1. RamsTypeOK' BY DatapathType DEF Reset
<1>2. ControlTypeOK'
  BY DEF Reset, ControlTypeOK, TypeOK, lru, memPort, select
<1>3. RequestTypeOK' /\ emLoad' \in BOOLEAN /\ reset_i' \in BOOLEAN
  BY ZeroTypes DEF Reset, RequestTypeOK, TypeOK
<1> QED BY <1>1, <1>2, <1>3, TypeParts DEF TypeOK, ControlTypeOK, RamsTypeOK, RequestTypeOK, M!TypeOK

LEMMA InitType == Init => TypeOK
<1> SUFFICES ASSUME Init PROVE TypeOK OBVIOUS
<1>1. 0 \in Way BY DEF Way
<1>2. valid \in [Index -> [Way -> BOOLEAN]] BY DEF Init
<1>3. ControlTypeOK BY <1>1, <1>2 DEF Init, ControlTypeOK
<1>4. RamsTypeOK BY DEF Init, RamsTypeOK
<1>5. RequestTypeOK BY ZeroTypes DEF Init, RequestTypeOK
<1>6. emLoad \in BOOLEAN /\ reset_i \in BOOLEAN BY DEF Init
<1> QED BY <1>3, <1>4, <1>5, <1>6, TypeParts

(* Every reachable state of the cache is well typed: in particular the     *)
(* flush counter wraps instead of leaving the sets, and the replacement    *)
(* bits always name a way (DCache.v:68-81, 184-193).                       *)
THEOREM TypeCorrect == Spec => []TypeOK
<1>1. TypeOK /\ [Next]_vars => TypeOK'
  <2> SUFFICES ASSUME TypeOK, [Next]_vars PROVE TypeOK' OBVIOUS
  <2>1. CASE Clock
    <3>1. ControlTypeOK' BY <2>1, CacheStepType DEF Clock
    <3>2. RamsTypeOK' BY <2>1, DatapathType DEF Clock, CacheStep
    <3>3. RequestTypeOK' BY <2>1, PresentType DEF Clock
    <3>4. emLoad' \in BOOLEAN /\ reset_i' \in BOOLEAN BY <2>1 DEF Clock, validReady, TypeOK
    <3> QED BY <3>1, <3>2, <3>3, <3>4
        DEF TypeOK, ControlTypeOK, RamsTypeOK, RequestTypeOK, M!TypeOK
  <2>2. CASE Reset BY <2>2, ResetType
  <2>3. CASE UNCHANGED vars
    BY <2>3 DEF TypeOK, M!TypeOK, vars, directory, lru, memPort, select,
       flushRegs, rams, request
  <2> QED BY <2>1, <2>2, <2>3 DEF Next
<1> QED BY <1>1, InitType, PTL DEF Spec

-----------------------------------------------------------------------------
(* What one edge changes.                                                  *)

(* An update of one way of one set leaves the others alone. *)
LEMMA UpdateEntry ==
  ASSUME NEW S, NEW f \in [Index -> [Way -> S]], NEW i0 \in Index, NEW w0 \in Way,
         NEW x, NEW g, g = [f EXCEPT ![i0][w0] = x]
  PROVE  /\ g[i0][w0] = x
         /\ \A i \in Index, w \in Way : (i # i0 \/ w # w0) => g[i][w] = f[i][w]
<1>1. g[i0] = [f[i0] EXCEPT ![w0] = x] OBVIOUS
<1>2. \A i \in Index : i # i0 => g[i] = f[i] OBVIOUS
<1>3. \A w \in Way : w # w0 => g[i0][w] = f[i0][w] BY <1>1
<1>4. g[i0][w0] = x BY <1>1
<1> QED BY <1>2, <1>3, <1>4

SameEntry(i, w) == /\ tag'[i][w] = tag[i][w] /\ valid'[i][w] = valid[i][w]
                   /\ dirty'[i][w] = dirty[i][w]

LEMMA AllocateEffect ==
  ASSUME TypeOK, Allocate
  PROVE  LET v == Victim IN
         /\ addr.index \in Index /\ v \in Way
         /\ ~flush /\ Access /\ C_curState = IDLE /\ C_dataWay' = v
         /\ \A w \in Way : ~C_hitWay(w)
         /\ \A i \in Index, w \in Way : (i # addr.index \/ w # v) => SameEntry(i, w)
         /\ tag'[addr.index][v] = addr.tag
         /\ valid'[addr.index][v] = TRUE /\ dirty'[addr.index][v] = FALSE
         /\ flushBusy' = FALSE /\ flushDone' = FALSE
<1>1. addr.index \in Index /\ Victim \in Way BY VictimIsWay DEF TypeOK, Address
<1>2. /\ tag'   = [tag EXCEPT ![addr.index][Victim] = addr.tag]
      /\ valid' = [valid EXCEPT ![addr.index][Victim] = TRUE]
      /\ dirty' = [dirty EXCEPT ![addr.index][Victim] = FALSE]
  BY DEF Allocate
<1>3. ~flush /\ flushBusy' = FALSE /\ flushDone' = FALSE
  BY DEF Allocate, ClearFlushFlags
<1>4. \A w \in Way : ~C_hitWay(w) BY DEF Allocate, C_hit
<1> HIDE DEF Victim
<1>5. /\ tag'[addr.index][Victim] = addr.tag
      /\ valid'[addr.index][Victim] = TRUE /\ dirty'[addr.index][Victim] = FALSE
      /\ \A i \in Index, w \in Way :
           (i # addr.index \/ w # Victim) => SameEntry(i, w)
  <2>1. /\ tag \in [Index -> [Way -> Tag]]
        /\ valid \in [Index -> [Way -> BOOLEAN]] /\ dirty \in [Index -> [Way -> BOOLEAN]]
    BY DEF TypeOK
  <2> DEFINE Other(i, w) == i # addr.index \/ w # Victim
  <2>2. /\ tag'[addr.index][Victim] = addr.tag
        /\ \A i \in Index, w \in Way : Other(i, w) => tag'[i][w] = tag[i][w]
    BY <1>1, <1>2, <2>1, UpdateEntry
  <2>3. /\ valid'[addr.index][Victim] = TRUE
        /\ \A i \in Index, w \in Way : Other(i, w) => valid'[i][w] = valid[i][w]
    <3>1. valid' = [valid EXCEPT ![addr.index][Victim] = TRUE] BY <1>2
    <3>2. valid \in [Index -> [Way -> BOOLEAN]] BY <2>1
    <3> QED BY <1>1, <3>1, <3>2, UpdateEntry
  <2>4. /\ dirty'[addr.index][Victim] = FALSE
        /\ \A i \in Index, w \in Way : Other(i, w) => dirty'[i][w] = dirty[i][w]
    <3>1. dirty' = [dirty EXCEPT ![addr.index][Victim] = FALSE] BY <1>2
    <3>2. dirty \in [Index -> [Way -> BOOLEAN]] BY <2>1
    <3> QED BY <1>1, <3>1, <3>2, UpdateEntry
  <2> QED BY <2>2, <2>3, <2>4 DEF SameEntry
<1>6. C_curState = IDLE /\ Access /\ C_dataWay' = Victim BY DEF Allocate
<1> QED BY <1>1, <1>3, <1>4, <1>5, <1>6

LEMMA FlushLineEffect ==
  ASSUME TypeOK, FlushLine
  PROVE  /\ flushSet \in Index /\ flushWay \in Way
         /\ flush /\ flushBusy /\ ~flushDone /\ C_curState = IDLE /\ flushBusy'
         /\ \A i \in Index, w \in Way :
              (i # flushSet \/ w # flushWay) => SameEntry(i, w)
         /\ tag' = tag /\ ~valid'[flushSet][flushWay]
         /\ C_mRden' = FALSE /\ C_curState' \in {IDLE, MISS_WRITE}
         /\ C_mWren' => /\ valid[flushSet][flushWay]
                        /\ C_mAddr' = <<tag[flushSet][flushWay], flushSet>>
                        /\ C_curState' = MISS_WRITE
         /\ flushDone' = (flushSet = 0 /\ flushWay = 3)
<1>1. flushSet \in Index /\ flushWay \in Way BY DEF TypeOK
<1>2. /\ valid' = [valid EXCEPT ![flushSet][flushWay] = FALSE] /\ tag' = tag
      /\ dirty' = [dirty EXCEPT ![flushSet][flushWay] = FALSE] \/ dirty' = dirty
  BY DEF FlushLine
<1>3. \A i \in Index, w \in Way :
        (i # flushSet \/ w # flushWay) => SameEntry(i, w)
  <2>1. /\ valid \in [Index -> [Way -> BOOLEAN]]
        /\ dirty \in [Index -> [Way -> BOOLEAN]]
    BY DEF TypeOK
  <2>2. \A i \in Index, w \in Way :
          (i # flushSet \/ w # flushWay) => valid'[i][w] = valid[i][w]
    BY <1>1, <1>2, <2>1, UpdateEntry
  <2>3. \A i \in Index, w \in Way :
          (i # flushSet \/ w # flushWay) => dirty'[i][w] = dirty[i][w]
    <3>1. CASE dirty' = [dirty EXCEPT ![flushSet][flushWay] = FALSE]
      BY <1>1, <2>1, <3>1, UpdateEntry
    <3>2. CASE dirty' = dirty BY <3>2
    <3> QED BY <1>2, <3>1, <3>2
  <2> QED BY <1>2, <2>2, <2>3 DEF SameEntry
<1>4. valid'[flushSet][flushWay] = FALSE
  <2>1. valid \in [Index -> [Way -> BOOLEAN]] BY DEF TypeOK
  <2> QED BY <1>1, <1>2, <2>1, UpdateEntry
<1>5. C_mWren' => /\ valid[flushSet][flushWay]
                  /\ C_mAddr' = <<tag[flushSet][flushWay], flushSet>>
                  /\ C_curState' = MISS_WRITE
  BY DEF FlushLine, C_validDirtyWay
<1>6. /\ flush /\ flushBusy /\ ~flushDone /\ C_curState = IDLE /\ flushBusy'
      /\ C_mRden' = FALSE /\ C_curState' \in {IDLE, MISS_WRITE}
      /\ flushDone' = (flushSet = 0 /\ flushWay = 3)
  BY DEF FlushLine, LastOfWalk, TypeOK
<1> QED BY <1>1, <1>2, <1>3, <1>4, <1>5, <1>6

LEMMA HitEffect ==
  ASSUME TypeOK, Hit
  PROVE  /\ addr.index \in Index /\ HitWay \in Way /\ C_hitWay(HitWay)
         /\ tag' = tag /\ valid' = valid
         /\ \A i \in Index, w \in Way :
              IF i = addr.index /\ w = HitWay
                THEN dirty'[i][w] = (dirty[i][w] \/ wren # {})
                ELSE dirty'[i][w] = dirty[i][w]
         /\ C_curState = IDLE /\ C_curState' = IDLE /\ ~flush
         /\ C_mRden' = FALSE /\ C_mWren' = FALSE
         /\ flushBusy' = FALSE /\ flushDone' = FALSE
<1>1. addr.index \in Index /\ HitWay \in Way /\ C_hitWay(HitWay)
  BY HitWayHits DEF Hit, TypeOK, Address
<1>2. dirty' = [dirty EXCEPT ![addr.index][HitWay] =
                  dirty[addr.index][HitWay] \/ wren # {}]
  BY DEF Hit, MarkDirty
<1> HIDE DEF HitWay
<1>3. \A i \in Index, w \in Way :
        IF i = addr.index /\ w = HitWay
          THEN dirty'[i][w] = (dirty[i][w] \/ wren # {})
          ELSE dirty'[i][w] = dirty[i][w]
  BY <1>1, <1>2 DEF TypeOK
<1> QED BY <1>1, <1>3 DEF Hit, DropStrobes, ClearFlushFlags

LEMMA DatapathEffect ==
  ASSUME TypeOK, NEW reset, Datapath(reset)
  PROVE  /\ C_missRead => /\ store'[curIndex][C_dataWay] = DMemRData
                          /\ \A i \in Index, w \in Way :
                               (i # curIndex \/ w # C_dataWay)
                                  => store'[i][w] = store[i][w]
         /\ ~C_missRead /\ StoreHit =>
              \A i \in Index, w \in Way :
                (i # curIndex \/ w # HitWay) => store'[i][w] = store[i][w]
         /\ ~C_missRead /\ ~StoreHit => store' = store
         /\ \A a \in LineAddr :
              mem'[a] = IF C_mWren /\ a = C_mAddr THEN C_data ELSE mem[a]
         /\ C_mRden => DMemRData' = mem[C_mAddr]
<1>1. curIndex \in Index /\ C_dataWay \in Way BY DEF TypeOK, curIndex, Address
<1>2. CASE C_missRead
  <2>1. store' = [store EXCEPT ![curIndex][C_dataWay] = DMemRData]
    BY <1>2 DEF Datapath
  <2> QED BY <1>1, <1>2, <2>1 DEF TypeOK, Datapath, M!Clock, M!WritePort, M!ReadPort, M!TypeOK
<1>3. CASE ~C_missRead /\ StoreHit
  <2>1. HitWay \in Way BY <1>3, HitWayHits DEF StoreHit
  <2>2. PICK line : store' = [store EXCEPT ![curIndex][HitWay] = line]
    <3>1. store' = [store EXCEPT ![curIndex][HitWay] =
                      [store[curIndex][HitWay] EXCEPT
                        ![addr.offset] = Merge(store[curIndex][HitWay][addr.offset])]]
      BY <1>3 DEF Datapath
    <3> QED BY <3>1
  <2> HIDE DEF HitWay
  <2>3. \A i \in Index, w \in Way :
          (i # curIndex \/ w # HitWay) => store'[i][w] = store[i][w]
    BY <1>1, <2>1, <2>2 DEF TypeOK
  <2> QED BY <1>3, <2>3 DEF TypeOK, Datapath, M!Clock, M!WritePort, M!ReadPort, M!TypeOK
<1>4. CASE ~C_missRead /\ ~StoreHit
  BY <1>4 DEF TypeOK, Datapath, M!Clock, M!WritePort, M!ReadPort, M!TypeOK
<1> QED BY <1>2, <1>3, <1>4

(* A request that is not accepted stays on the port. *)
LEMMA RequestHeld ==
  ASSUME Present, ~validReady
  PROVE  UNCHANGED <<flush, rden, wren, addr, wdata>> /\ (Access' <=> Access)
BY DEF Present, request, Access

LEMMA NotReadyOutsideIdle ==
  ASSUME MissInv, C_curState # IDLE
  PROVE  ~validReady
BY DEF MissInv, validReady, Request

LEMMA NotReadyOnMiss ==
  ASSUME Allocate
  PROVE  ~validReady
BY DEF Allocate, validReady, Request

-----------------------------------------------------------------------------
(* The invariant of the cache, one conjunct at a time.                     *)

(* The cases of the state machine that leave the directory alone. *)
LookOnly == \/ NoRequest \/ FlushStart \/ FlushFinish
            \/ WriteStrobe \/ WriteDone \/ ReadStrobe \/ ReadDone

LEMMA StepCases ==
  ASSUME CacheStep
  PROVE  \/ LookOnly /\ UNCHANGED <<tag, valid, dirty>>
         \/ FlushLine \/ Hit
         \/ Allocate /\ (MissClean \/ MissDirty)
BY DEF CacheStep, LookOnly, MissClean, MissDirty, directory,
   NoRequest, FlushStart, FlushFinish, WriteStrobe, WriteDone, ReadStrobe, ReadDone

LEMMA UniqueTagsStep ==
  ASSUME TypeOK, UniqueTags, CacheStep
  PROVE  UniqueTags'
<1>1. CASE UNCHANGED <<tag, valid>> BY <1>1 DEF UniqueTags
<1>2. CASE FlushLine
  <2>1. \A i \in Index, w \in Way : valid'[i][w] => valid[i][w]
    BY <1>2, FlushLineEffect DEF SameEntry
  <2>2. tag' = tag BY <1>2, FlushLineEffect
  <2> QED BY <2>1, <2>2 DEF UniqueTags
<1>3. CASE Allocate
  <2> DEFINE x == Victim
  <2>1. /\ \A w \in Way : ~C_hitWay(w)
        /\ \A i \in Index, w \in Way : (i # addr.index \/ w # x) => SameEntry(i, w)
        /\ tag'[addr.index][x] = addr.tag
    BY <1>3, AllocateEffect
  <2> SUFFICES ASSUME NEW i \in Index, NEW v \in Way, NEW w \in Way,
                      valid'[i][v], valid'[i][w], tag'[i][v] = tag'[i][w], v # w
               PROVE  FALSE
    BY DEF UniqueTags
  <2> HIDE DEF x
  <2>2. CASE i # addr.index \/ (v # x /\ w # x)
    <3>1. SameEntry(i, v) /\ SameEntry(i, w) BY <2>1, <2>2
    <3> QED BY <3>1 DEF SameEntry, UniqueTags
  <2>3. CASE i = addr.index /\ v = x
    <3>1. SameEntry(i, w) BY <2>1, <2>3
    <3> QED BY <2>1, <2>3, <3>1 DEF SameEntry, C_hitWay
  <2>4. CASE i = addr.index /\ w = x
    <3>1. SameEntry(i, v) BY <2>1, <2>4
    <3> QED BY <2>1, <2>4, <3>1 DEF SameEntry, C_hitWay
  <2> QED BY <2>2, <2>3, <2>4
<1>4. CASE Hit BY <1>1, <1>4, HitEffect
<1> QED BY <1>1, <1>2, <1>3, <1>4, StepCases

(* The write-back of a line does not touch memory under a cached line. *)
LEMMA MemUnderCachedLines ==
  ASSUME TypeOK, WriteInv, NEW reset, Datapath(reset),
         NEW i \in Index, NEW w \in Way, valid[i][w]
  PROVE  mem'[<<tag[i][w], i>>] = mem[<<tag[i][w], i>>]
<1> DEFINE a == <<tag[i][w], i>>
<1>1. a \in LineAddr BY DEF TypeOK, LineAddr
<1>2. C_mWren => a # C_mAddr BY DEF WriteInv
<1> QED BY <1>1, <1>2, DatapathEffect

LEMMA CleanLinesStep ==
  ASSUME CacheInv, CacheStep, Present
  PROVE  CleanLinesMatchMemory'
<1> USE DEF CacheInv
<1>1. Datapath(FALSE) BY DEF CacheStep
<1> SUFFICES ASSUME NEW i \in Index, NEW w \in Way,
                    valid'[i][w], ~dirty'[i][w], ~Refilling(i, w)'
             PROVE  store'[i][w] = mem'[<<tag'[i][w], i>>]
  BY DEF CleanLinesMatchMemory
<1> DEFINE Kept == /\ SameEntry(i, w) /\ ~Refilling(i, w)
                   /\ store'[i][w] = store[i][w]
<1>2. ASSUME Kept PROVE store'[i][w] = mem'[<<tag'[i][w], i>>]
  <2>1. store[i][w] = mem[<<tag[i][w], i>>]
    BY <1>2 DEF SameEntry, CleanLinesMatchMemory
  <2>2. mem'[<<tag[i][w], i>>] = mem[<<tag[i][w], i>>]
    BY <1>1, <1>2, MemUnderCachedLines DEF SameEntry
  <2> QED BY <1>2, <2>1, <2>2 DEF SameEntry
<1>3. CASE C_curState = IDLE /\ ~StoreHit /\ SameEntry(i, w)
  <2>1. store' = store BY <1>1, <1>3, DatapathEffect DEF C_missRead
  <2> QED BY <1>2, <1>3, <2>1 DEF Refilling
<1>4. CASE NoRequest \/ FlushStart \/ FlushFinish
  <2>1. SameEntry(i, w)
    BY <1>4 DEF NoRequest, FlushStart, FlushFinish, directory, SameEntry
  <2>2. ~StoreHit /\ C_curState = IDLE
    BY <1>4 DEF NoRequest, FlushStart, FlushFinish, StoreHit, Request, Access
  <2> QED BY <1>3, <2>1, <2>2
<1>5. CASE WriteStrobe \/ ReadStrobe \/ WriteDone
  <2>1. SameEntry(i, w) /\ C_curState # IDLE /\ C_dataWay' = C_dataWay
    BY <1>5 DEF WriteStrobe, ReadStrobe, WriteDone, directory, select, SameEntry
  <2>2. ~C_missRead /\ ~StoreHit
    BY <1>5 DEF WriteStrobe, ReadStrobe, WriteDone, C_missRead, StoreHit
  <2>3. flush' = flush /\ addr' = addr BY <2>1, NotReadyOutsideIdle, RequestHeld
  <2>4. ~Refilling(i, w)
    <3>1. CASE flush BY <3>1 DEF Refilling
    <3>2. CASE ~flush
      <4>1. C_curState' # IDLE
        BY <1>5, <3>2 DEF WriteStrobe, ReadStrobe, WriteDone
      <4> QED BY <2>1, <2>3, <4>1 DEF Refilling
    <3> QED BY <3>1, <3>2
  <2>5. store' = store BY <1>1, <2>2, DatapathEffect
  <2> QED BY <1>2, <2>1, <2>4, <2>5
<1>6. CASE ReadDone
  <2>1. /\ SameEntry(i, w) /\ C_missRead /\ ~C_mWren /\ ~flush
        /\ DMemRData = mem[reqLine] /\ tag[addr.index][C_dataWay] = addr.tag
    BY <1>6 DEF ReadDone, directory, SameEntry, C_missRead, MissInv
  <2>2. curIndex = addr.index BY <2>1 DEF curIndex
  <2>3. CASE i = addr.index /\ w = C_dataWay
    <3>1. store'[i][w] = mem[reqLine]
      BY <1>1, <2>1, <2>2, <2>3, DatapathEffect
    <3>2. <<tag'[i][w], i>> = reqLine BY <2>1, <2>3 DEF reqLine, SameEntry
    <3>3. reqLine \in LineAddr BY DEF TypeOK, Address, LineAddr, reqLine
    <3>4. mem'[reqLine] = mem[reqLine] BY <1>1, <2>1, <3>3, DatapathEffect
    <3> QED BY <3>1, <3>2, <3>4
  <2>4. CASE i # addr.index \/ w # C_dataWay
    <3>1. store'[i][w] = store[i][w] BY <1>1, <2>1, <2>2, <2>4, DatapathEffect
    <3> QED BY <1>2, <2>1, <2>4, <3>1 DEF Refilling
  <2> QED BY <2>3, <2>4
<1>7. CASE FlushLine
  <2>1. C_curState = IDLE /\ flush /\ SameEntry(i, w) BY <1>7, FlushLineEffect
  <2> QED BY <1>3, <2>1 DEF StoreHit
<1>8. CASE Hit
  <2>1. C_curState = IDLE /\ tag' = tag /\ valid' = valid /\ ~flush
    BY <1>8, HitEffect
  <2>2. CASE i = addr.index /\ w = HitWay
    <3>1. wren = {} /\ ~dirty[i][w] BY <1>8, <2>2, HitEffect
    <3>2. SameEntry(i, w)
      <4>1. dirty'[i][w] = (dirty[i][w] \/ wren # {}) BY <1>8, <2>2, HitEffect
      <4>2. dirty[i][w] \in BOOLEAN BY DEF TypeOK
      <4>3. dirty'[i][w] = dirty[i][w] BY <3>1, <4>1, <4>2
      <4> QED BY <2>1, <4>3 DEF SameEntry
    <3> QED BY <1>3, <2>1, <3>1, <3>2 DEF StoreHit
  <2>3. CASE i # addr.index \/ w # HitWay
    <3>1. SameEntry(i, w) BY <1>8, <2>1, <2>3, HitEffect DEF SameEntry
    <3>2. ~C_missRead /\ curIndex = addr.index BY <2>1 DEF C_missRead, curIndex
    <3>3. store'[i][w] = store[i][w] BY <1>1, <2>3, <3>2, DatapathEffect
    <3> QED BY <1>2, <2>1, <3>1, <3>3 DEF Refilling
  <2> QED BY <2>2, <2>3
<1>9. CASE Allocate /\ (MissClean \/ MissDirty)
  <2>1. flush' = flush /\ addr' = addr BY <1>9, NotReadyOnMiss, RequestHeld
  <2>2. C_curState' # IDLE BY <1>9 DEF MissClean, MissDirty
  <2>3. i # addr.index \/ w # Victim
    BY <1>9, <2>1, <2>2, AllocateEffect DEF Refilling
  <2>4. SameEntry(i, w) /\ C_curState = IDLE BY <1>9, <2>3, AllocateEffect
  <2>5. ~StoreHit BY <1>9 DEF StoreHit, Allocate
  <2> QED BY <1>3, <2>4, <2>5
<1> QED BY <1>4, <1>5, <1>6, <1>7, <1>8, <1>9, StepCases DEF LookOnly

LEMMA MissInvStep ==
  ASSUME CacheInv, CacheStep, Present
  PROVE  MissInv'
<1> USE DEF CacheInv
<1>1. Datapath(FALSE) BY DEF CacheStep
<1>2. CASE NoRequest \/ FlushStart \/ FlushFinish \/ Hit \/ ReadDone
  BY <1>2 DEF NoRequest, FlushStart, FlushFinish, Hit, ReadDone, MissInv
<1>3. CASE FlushLine
  <2>1. flush /\ ~flushDone /\ C_curState' # MISS_READ BY <1>3, FlushLineEffect
  <2>2. ~validReady BY <2>1 DEF validReady, Request
  <2> QED BY <2>1, <2>2, RequestHeld DEF MissInv
<1>4. CASE Allocate /\ (MissClean \/ MissDirty)
  <2>1. UNCHANGED <<flush, addr>> /\ Access'
    BY <1>4, NotReadyOnMiss, RequestHeld, AllocateEffect
  <2>2. /\ valid'[addr.index][C_dataWay'] /\ tag'[addr.index][C_dataWay'] = addr.tag
        /\ ~dirty'[addr.index][C_dataWay'] /\ ~flush
    BY <1>4, AllocateEffect
  <2>3. C_curState' = MISS_READ =>
          ~C_mWren' /\ C_mRden' /\ C_mAddr' = reqLine
    BY <1>4 DEF MissClean, MissDirty
  <2>4. reqLine' = reqLine BY <2>1 DEF reqLine
  <2> QED BY <2>1, <2>2, <2>3, <2>4 DEF MissInv
<1>5. CASE WriteStrobe \/ WriteDone \/ ReadStrobe
  <2>1. C_curState # IDLE /\ UNCHANGED <<tag, valid, dirty, C_dataWay>>
    BY <1>5 DEF WriteStrobe, WriteDone, ReadStrobe, directory, select
  <2>2. UNCHANGED <<flush, addr>> /\ (Access' <=> Access)
    BY <2>1, NotReadyOutsideIdle, RequestHeld
  <2>3. reqLine' = reqLine BY <2>2 DEF reqLine
  <2>4. C_curState' = MISS_READ =>
          /\ ~flush /\ ~C_mWren'
          /\ IF C_mRden' THEN C_mAddr' = reqLine ELSE DMemRData' = mem'[reqLine]
    <3>1. CASE WriteStrobe BY <3>1 DEF WriteStrobe
    <3>2. CASE WriteDone BY <3>2 DEF WriteDone
    <3>3. CASE ReadStrobe
      <4>1. ~flush /\ ~C_mWren /\ C_mAddr = reqLine /\ C_mRden /\ C_mWren' = C_mWren
        BY <3>3 DEF ReadStrobe, MissInv
      <4>2. DMemRData' = mem[reqLine] BY <1>1, <4>1, DatapathEffect
      <4>3. reqLine \in LineAddr BY DEF TypeOK, Address, LineAddr, reqLine
      <4>4. mem'[reqLine] = mem[reqLine] BY <1>1, <4>1, <4>3, DatapathEffect
      <4> QED BY <3>3, <4>1, <4>2, <4>4 DEF ReadStrobe
    <3> QED BY <1>5, <3>1, <3>2, <3>3
  <2> QED BY <2>1, <2>2, <2>3, <2>4 DEF MissInv
<1> QED BY <1>2, <1>3, <1>4, <1>5, StepCases DEF LookOnly

LEMMA WriteInvStep ==
  ASSUME CacheInv, CacheStep
  PROVE  WriteInv'
<1> USE DEF CacheInv
<1>1. CASE NoRequest \/ FlushStart \/ FlushFinish \/ Hit \/ WriteStrobe \/ MissClean
  BY <1>1 DEF NoRequest, FlushStart, FlushFinish, Hit, WriteStrobe, MissClean,
     DropStrobes, WriteInv
<1>2. CASE WriteDone \/ ReadStrobe \/ ReadDone
  BY <1>2 DEF WriteDone, ReadStrobe, ReadDone, memPort, MissInv, WriteInv
<1>3. CASE FlushLine
  <2> SUFFICES ASSUME C_mWren',
                      NEW w \in Way, valid'[C_mAddr'[2]][w],
                      tag'[C_mAddr'[2]][w] = C_mAddr'[1]
               PROVE  FALSE
    BY <1>3, FlushLineEffect DEF WriteInv
  <2>1. /\ valid[flushSet][flushWay] /\ flushSet \in Index /\ flushWay \in Way
        /\ C_mAddr' = <<tag[flushSet][flushWay], flushSet>> /\ tag' = tag
    BY <1>3, FlushLineEffect
  <2>2. w # flushWay BY <1>3, <2>1, FlushLineEffect
  <2>3. valid[flushSet][w] BY <1>3, <2>1, <2>2, FlushLineEffect DEF SameEntry
  <2> QED BY <2>1, <2>2, <2>3 DEF UniqueTags
<1>4. CASE MissDirty
  <2> DEFINE x == Victim
             i == addr.index
  <2>1. Allocate /\ valid[i][x] BY <1>4, VictimIsWay DEF MissDirty, VictimDirty, SetFull, InvalidWays
  <2>2. /\ C_mAddr' = <<tag[i][x], i>> /\ C_curState' # IDLE
        /\ i \in Index /\ x \in Way
    BY <1>4, <2>1, AllocateEffect DEF MissDirty
  <2>3. /\ \A w \in Way : w # x => SameEntry(i, w)
        /\ tag'[i][x] = addr.tag /\ \A w \in Way : ~C_hitWay(w)
    BY <2>1, AllocateEffect
  <2> HIDE DEF x
  <2>4. ASSUME NEW w \in Way, valid'[i][w], tag'[i][w] = tag[i][x] PROVE FALSE
    <3>1. CASE w = x BY <2>1, <2>2, <2>3, <2>4, <3>1 DEF C_hitWay
    <3>2. CASE w # x
      BY <2>1, <2>2, <2>3, <2>4, <3>2 DEF SameEntry, UniqueTags
    <3> QED BY <3>1, <3>2
  <2> QED BY <2>2, <2>4 DEF WriteInv
<1> QED BY <1>1, <1>2, <1>3, <1>4 DEF CacheStep

LEMMA FlushInvStep ==
  ASSUME CacheInv, CacheStep, Present
  PROVE  FlushInv'
<1> USE DEF CacheInv
<1>1. CASE NoRequest \/ Hit \/ Allocate
  <2>1. ~flush BY <1>1 DEF NoRequest, Hit, Allocate, Request
  <2>2. flushBusy' = FALSE /\ flushDone' = FALSE
    BY <1>1, <2>1 DEF NoRequest, Hit, Allocate, ClearFlushFlags
  <2> QED BY <2>2 DEF FlushInv
<1>2. CASE FlushStart
  <2>1. /\ flushSet' = NSETS - 1 /\ flushWay' = 0 /\ flushDone' = FALSE
    BY <1>2 DEF FlushStart, TypeOK
  <2>2. \A i \in Index : ~(i > NSETS - 1) BY SetsAssumption DEF Index
  <2>3. \A w \in Way : ~(w < 0) BY DEF Way
  <2> QED BY <2>1, <2>2, <2>3 DEF FlushInv
<1>3. CASE FlushFinish
  BY <1>3 DEF FlushFinish, FlushInv, AllInvalid, directory
<1>4. CASE FlushLine
  <2>1. \A i \in Index, w \in Way : valid'[i][w] => valid[i][w]
    BY <1>4, FlushLineEffect DEF SameEntry
  <2>2. /\ flushSet \in Index /\ flushWay \in Way /\ ~valid'[flushSet][flushWay]
        /\ flushDone' = (flushSet = 0 /\ flushWay = 3)
        /\ flush /\ flushBusy
    BY <1>4, FlushLineEffect
  <2>3. /\ flushWay' = IF flushWay = 3 THEN 0 ELSE flushWay + 1
        /\ flushSet' = IF flushWay = 3 THEN PreviousSet(flushSet) ELSE flushSet
    BY <1>4 DEF FlushLine
  <2>4. ASSUME NEW i \in Index, NEW w \in Way,
               i > flushSet \/ (i = flushSet /\ w <= flushWay)
        PROVE  ~valid'[i][w]
    <3>1. CASE i = flushSet /\ w = flushWay BY <2>2, <3>1
    <3>2. CASE ~(i = flushSet /\ w = flushWay)
      <4>1. i > flushSet \/ (i = flushSet /\ w < flushWay)
        BY <2>2, <2>4, <3>2 DEF Index, Way
      <4> QED BY <2>1, <2>2, <4>1 DEF FlushInv
    <3> QED BY <3>1, <3>2
  <2>5. ASSUME NEW i \in Index, NEW w \in Way,
               i > flushSet' \/ (i = flushSet' /\ w < flushWay')
        PROVE  ~valid'[i][w]
    <3>1. i > flushSet \/ (i = flushSet /\ w <= flushWay)
      BY <2>2, <2>3, <2>5, SetsAssumption DEF PreviousSet, Index, Way
    <3> QED BY <2>4, <3>1
  <2>6. ASSUME flushDone', NEW i \in Index, NEW w \in Way
        PROVE  ~valid'[i][w]
    <3>1. flushSet = 0 /\ flushWay = 3 BY <2>2, <2>6
    <3>2. i > flushSet \/ (i = flushSet /\ w <= flushWay)
      BY <3>1, SetsAssumption DEF Index, Way
    <3> QED BY <2>4, <3>2
  <2> QED BY <2>5, <2>6 DEF FlushInv, AllInvalid
<1>5. CASE WriteStrobe \/ WriteDone \/ ReadStrobe \/ ReadDone
  <2>1. C_curState # IDLE /\ UNCHANGED <<valid, flushSet, flushWay, flushBusy, flushDone>>
    BY <1>5 DEF WriteStrobe, WriteDone, ReadStrobe, ReadDone, directory, flushRegs
  <2>2. UNCHANGED flush BY <2>1, NotReadyOutsideIdle, RequestHeld
  <2> QED BY <2>1, <2>2 DEF FlushInv, AllInvalid
<1> QED BY <1>1, <1>2, <1>3, <1>4, <1>5, StepCases DEF LookOnly

-----------------------------------------------------------------------------

LEMMA InitCacheInv == Init => CacheInv
<1> SUFFICES ASSUME Init PROVE CacheInv OBVIOUS
<1>1. TypeOK BY InitType
<1>2. AllInvalid BY DEF Init, AllInvalid
<1> QED BY <1>1, <1>2 DEF Init, CacheInv, UniqueTags, CleanLinesMatchMemory,
        MissInv, WriteInv, FlushInv, AllInvalid

LEMMA ResetCacheInv ==
  ASSUME CacheInv, Reset
  PROVE  CacheInv'
<1>1. TypeOK' BY ResetType DEF CacheInv
<1>2. AllInvalid' BY DEF Reset, AllInvalid
<1>3. \A i \in Index, w \in Way : ~valid'[i][w] BY <1>2 DEF AllInvalid
<1>4. UniqueTags' /\ CleanLinesMatchMemory'
  BY <1>3 DEF UniqueTags, CleanLinesMatchMemory
<1>5. MissInv' /\ FlushInv' BY <1>2 DEF Reset, MissInv, FlushInv, AllInvalid
<1>6. WriteInv'
  <2>1. C_mAddr' \in LineAddr BY <1>1 DEF TypeOK
  <2>2. C_mAddr'[2] \in Index BY <2>1 DEF LineAddr
  <2>3. flushDone' = FALSE BY DEF Reset
  <2> QED BY <1>2, <1>3, <2>2, <2>3 DEF WriteInv
<1> QED BY <1>1, <1>4, <1>5, <1>6 DEF CacheInv

LEMMA CacheInvStep ==
  ASSUME CacheInv, [Next]_vars
  PROVE  CacheInv'
<1>1. CASE Clock
  <2>1. CacheStep /\ Present BY <1>1 DEF Clock
  <2>2. TypeOK'
    <3>1. TypeOK /\ Datapath(FALSE) BY <2>1 DEF CacheStep, CacheInv
    <3>2. ControlTypeOK' /\ RamsTypeOK' /\ RequestTypeOK'
      BY <2>1, <3>1, CacheStepType, DatapathType, PresentType
    <3>3. emLoad' \in BOOLEAN /\ reset_i' \in BOOLEAN BY <1>1, <3>1 DEF Clock, validReady, TypeOK
    <3> QED BY <3>2, <3>3
        DEF TypeOK, ControlTypeOK, RamsTypeOK, RequestTypeOK, M!TypeOK
  <2>3. UniqueTags' BY <2>1, UniqueTagsStep DEF CacheInv
  <2> QED BY <2>1, <2>2, <2>3, CleanLinesStep, MissInvStep, WriteInvStep,
            FlushInvStep DEF CacheInv
<1>2. CASE Reset BY <1>2, ResetCacheInv
<1>3. CASE UNCHANGED vars
  BY <1>3 DEF CacheInv, TypeOK, M!TypeOK, UniqueTags, CleanLinesMatchMemory,
     Refilling, MissInv, WriteInv, FlushInv, AllInvalid, Access, reqLine, vars,
     directory, lru, memPort, select, flushRegs, rams, request
<1> QED BY <1>1, <1>2, <1>3 DEF Next

(* The invariant of the cache is inductive. *)
THEOREM CacheInvariant == Spec => []CacheInv
<1>1. CacheInv /\ [Next]_vars => CacheInv' BY CacheInvStep
<1> QED BY <1>1, InitCacheInv, PTL DEF Spec

(* No line is ever cached twice (DCache.v:285-321). *)
THEOREM TagsUnique == Spec => []UniqueTags
<1>1. CacheInv => UniqueTags BY DEF CacheInv
<1> QED BY <1>1, CacheInvariant, PTL

(* Dropping a clean line never loses a store (DCache.v:360-423). *)
THEOREM CleanLinesDurable == Spec => []CleanLinesMatchMemory
<1>1. CacheInv => CleanLinesMatchMemory BY DEF CacheInv
<1> QED BY <1>1, CacheInvariant, PTL

LEMMA DurableWhenDone == CacheInv => FenceDurable
<1> SUFFICES ASSUME CacheInv, validReady, flush PROVE AllInvalid /\ mem = memory
  BY DEF FenceDurable
<1>1. C_curState = IDLE /\ flushDone BY DEF validReady, Request
<1>2. AllInvalid /\ ~C_mWren BY <1>1 DEF CacheInv, FlushInv, WriteInv
<1>3. ASSUME NEW a \in LineAddr, NEW w \in Way PROVE ~Holds(w, a)
  BY <1>2 DEF AllInvalid, Holds, LineAddr
<1>4. memory = [a \in LineAddr |-> mem[a]] BY <1>2, <1>3 DEF memory
<1>5. mem \in [LineAddr -> Line] BY DEF CacheInv, TypeOK, M!TypeOK
<1> QED BY <1>2, <1>4, <1>5

(* When a FENCE is acknowledged the cache is empty and memory holds every  *)
(* store before it (DCache.v:104-105, 224-284).                            *)
THEOREM FenceIsDurable == Spec => []FenceDurable
BY DurableWhenDone, CacheInvariant, PTL

-----------------------------------------------------------------------------
(* The cache is a memory.                                                  *)

(* What memory holds at a line. *)
LEMMA MemoryAt ==
  ASSUME CacheInv, NEW a \in LineAddr
  PROVE  /\ C_mWren /\ C_mAddr = a => memory[a] = C_data
         /\ ~(C_mWren /\ C_mAddr = a) =>
              /\ \A w \in Way : Holds(w, a) => memory[a] = store[a[2]][w]
              /\ (\A w \in Way : ~Holds(w, a)) => memory[a] = mem[a]
<1>1. a[2] \in Index BY DEF LineAddr
<1>2. \A v, w \in Way : Holds(v, a) /\ Holds(w, a) => v = w
  BY <1>1 DEF Holds, CacheInv, UniqueTags
<1>3. ASSUME NEW w \in Way, Holds(w, a)
      PROVE  (CHOOSE v \in Way : Holds(v, a)) = w
  BY <1>2, <1>3
<1> QED BY <1>3 DEF memory

LEMMA MemoryAtNext ==
  ASSUME CacheInv', NEW a \in LineAddr
  PROVE  /\ C_mWren' /\ C_mAddr' = a => memory'[a] = C_data'
         /\ ~(C_mWren' /\ C_mAddr' = a) =>
              /\ \A w \in Way : Holds(w, a)' => memory'[a] = store'[a[2]][w]
              /\ (\A w \in Way : ~Holds(w, a)') => memory'[a] = mem'[a]
<1>1. a[2] \in Index BY DEF LineAddr
<1>2. \A v, w \in Way : Holds(v, a)' /\ Holds(w, a)' => v = w
  BY <1>1 DEF Holds, CacheInv, UniqueTags
<1>3. ASSUME NEW w \in Way, Holds(w, a)'
      PROVE  (CHOOSE v \in Way : Holds(v, a)') = w
  BY <1>2, <1>3
<1> QED BY <1>3 DEF memory

(* A line on its way to memory is held nowhere. *)
LEMMA HeldIsNotWritten ==
  ASSUME CacheInv, NEW a \in LineAddr, NEW w \in Way, Holds(w, a)
  PROVE  ~(C_mWren /\ C_mAddr = a)
BY DEF CacheInv, WriteInv, Holds

(* The ways in which a line can keep its contents: its holder stays, it    *)
(* loses a clean holder, it starts on its way to memory, it comes back.    *)
LEMMA SameHolders ==
  ASSUME CacheInv, CacheInv', NEW reset, Datapath(reset), NEW a \in LineAddr,
         ~(C_mWren' /\ C_mAddr' = a),
         \A w \in Way : /\ Holds(w, a)' <=> Holds(w, a)
                        /\ Holds(w, a) => store'[a[2]][w] = store[a[2]][w]
  PROVE  memory'[a] = memory[a]
<1>1. mem'[a] = IF C_mWren /\ a = C_mAddr THEN C_data ELSE mem[a]
  BY DatapathEffect DEF CacheInv
<1>2. CASE C_mWren /\ C_mAddr = a
  <2>1. \A w \in Way : ~Holds(w, a)' BY <1>2, HeldIsNotWritten
  <2> QED BY <1>1, <1>2, <2>1, MemoryAt, MemoryAtNext
<1>3. CASE ~(C_mWren /\ C_mAddr = a) /\ \E w \in Way : Holds(w, a)
  <2>1. PICK w \in Way : Holds(w, a) BY <1>3
  <2> QED BY <1>3, <2>1, MemoryAt, MemoryAtNext
<1>4. CASE ~(C_mWren /\ C_mAddr = a) /\ ~(\E w \in Way : Holds(w, a))
  <2>1. (\A w \in Way : ~Holds(w, a)) /\ (\A w \in Way : ~Holds(w, a)') BY <1>4
  <2> QED BY <1>1, <1>4, <2>1, MemoryAt, MemoryAtNext
<1> QED BY <1>2, <1>3, <1>4

LEMMA CleanHolderLost ==
  ASSUME CacheInv, CacheInv', NEW reset, Datapath(reset), NEW a \in LineAddr,
         ~(C_mWren' /\ C_mAddr' = a), \A w \in Way : ~Holds(w, a)',
         NEW v \in Way, Holds(v, a), ~dirty[a[2]][v]
  PROVE  memory'[a] = memory[a]
<1>1. ~(C_mWren /\ C_mAddr = a) BY HeldIsNotWritten
<1>2. mem'[a] = mem[a] BY <1>1, DatapathEffect DEF CacheInv
<1>3. a[2] \in Index /\ a = <<a[1], a[2]>> BY DEF LineAddr
<1>4. store[a[2]][v] = mem[a]
  BY <1>3 DEF CacheInv, CleanLinesMatchMemory, Holds
<1> QED BY <1>1, <1>2, <1>4, MemoryAt, MemoryAtNext

LEMMA StartsToMemory ==
  ASSUME CacheInv, CacheInv', NEW a \in LineAddr, C_mWren', C_mAddr' = a,
         NEW v \in Way, Holds(v, a), C_data' = store[a[2]][v]
  PROVE  memory'[a] = memory[a]
BY HeldIsNotWritten, MemoryAt, MemoryAtNext

LEMMA ComesBack ==
  ASSUME CacheInv, CacheInv', NEW a \in LineAddr, ~C_mWren, ~C_mWren',
         \A w \in Way : ~Holds(w, a),
         NEW v \in Way, Holds(v, a)', store'[a[2]][v] = mem[a]
  PROVE  memory'[a] = memory[a]
BY MemoryAt, MemoryAtNext

LEMMA SameMemory ==
  ASSUME \A a \in LineAddr : memory'[a] = memory[a]
  PROVE  memory' = memory
<1>1. memory = [a \in LineAddr |-> memory[a]] BY DEF memory
<1>2. memory' = [a \in LineAddr |-> memory'[a]] BY DEF memory
<1> QED BY <1>1, <1>2

LEMMA OutputLatched ==
  ASSUME TypeOK, NEW reset, Datapath(reset), NEW w \in Way
  PROVE  rdata'[w] = IF w \in ReadWays THEN store[curIndex][w] ELSE rdata[w]
BY DEF Datapath

LEMMA LookKeepsMemory ==
  ASSUME CacheInv, CacheInv', Present, Datapath(FALSE),
         NoRequest \/ FlushStart \/ FlushFinish \/ WriteStrobe \/ WriteDone \/ ReadStrobe
  PROVE  memory' = memory
<1>1. UNCHANGED <<tag, valid>>
  BY DEF directory, NoRequest, FlushStart, FlushFinish, WriteStrobe, WriteDone, ReadStrobe
<1>2. ~C_mWren'
  BY DEF DropStrobes, NoRequest, FlushStart, FlushFinish, WriteStrobe, WriteDone, ReadStrobe,
         CacheInv, MissInv
<1>3. store' = store
  <2>1. ~C_missRead /\ ~StoreHit
    BY DEF C_missRead, StoreHit, Request, Access, NoRequest, FlushStart, FlushFinish,
           WriteStrobe, WriteDone, ReadStrobe
  <2> QED BY <2>1, DatapathEffect DEF CacheInv
<1>4. ASSUME NEW i, NEW w PROVE Refilling(i, w)' <=> Refilling(i, w)
  <2>1. CASE NoRequest \/ FlushStart \/ FlushFinish
    BY <2>1 DEF NoRequest, FlushStart, FlushFinish, Refilling
  <2>2. CASE WriteStrobe \/ WriteDone \/ ReadStrobe
    <3>1. C_curState # IDLE /\ C_dataWay' = C_dataWay
      BY <2>2 DEF select, WriteStrobe, WriteDone, ReadStrobe
    <3>2. flush' = flush /\ addr' = addr
      BY <3>1, NotReadyOutsideIdle, RequestHeld DEF CacheInv
    <3>3. ~flush => C_curState' # IDLE BY <2>2 DEF WriteStrobe, WriteDone, ReadStrobe
    <3> QED BY <3>1, <3>2, <3>3 DEF Refilling
  <2> QED BY <2>1, <2>2
<1>5. ASSUME NEW a \in LineAddr PROVE memory'[a] = memory[a]
  <2>1. \A w \in Way : Holds(w, a)' <=> Holds(w, a) BY <1>1, <1>4 DEF Holds
  <2> QED BY <1>2, <1>3, <2>1, SameHolders
<1> QED BY <1>5, SameMemory

LEMMA ReadDoneKeepsMemory ==
  ASSUME CacheInv, CacheInv', Present, Datapath(FALSE), ReadDone
  PROVE  memory' = memory
<1> PICK i, v : i = addr.index /\ v = C_dataWay OBVIOUS
<1>1. /\ UNCHANGED <<tag, valid>> /\ C_missRead /\ ~C_mWren /\ ~C_mWren' /\ ~flush
      /\ DMemRData = mem[reqLine] /\ valid[i][v] /\ tag[i][v] = addr.tag
      /\ C_curState # IDLE /\ C_curState' = IDLE
  BY DEF ReadDone, directory, memPort, C_missRead, CacheInv, MissInv
<1>2. i \in Index /\ v \in Way /\ curIndex = i
  BY <1>1 DEF CacheInv, TypeOK, Address, curIndex
<1>3. /\ store'[i][v] = mem[reqLine]
      /\ \A j \in Index, w \in Way : (j # i \/ w # v) => store'[j][w] = store[j][w]
  BY <1>1, <1>2, DatapathEffect DEF CacheInv
<1>4. ASSUME NEW a \in LineAddr PROVE memory'[a] = memory[a]
  <2>1. a[2] \in Index /\ a = <<a[1], a[2]>> BY DEF LineAddr
  <2>2. \A w \in Way : (a[2] # i \/ w # v) => (Holds(w, a)' <=> Holds(w, a))
    BY <1>1 DEF Holds, Refilling
  <2>3. CASE a = reqLine
    <3>1. a[1] = addr.tag /\ a[2] = i BY <2>3 DEF reqLine
    <3>2. \A w \in Way : ~Holds(w, a)
      BY <1>1, <1>2, <3>1 DEF Holds, Refilling, CacheInv, UniqueTags
    <3>3. Holds(v, a)' BY <1>1, <1>2, <3>1 DEF Holds, Refilling
    <3> QED BY <1>1, <1>2, <1>3, <2>3, <3>1, <3>2, <3>3, ComesBack
  <2>4. CASE a # reqLine
    <3>1. a[2] # i \/ a[1] # addr.tag BY <2>1, <2>4 DEF reqLine
    <3>2. a[2] = i => ~Holds(v, a) /\ ~Holds(v, a)' BY <1>1, <3>1 DEF Holds
    <3>3. \A w \in Way : Holds(w, a)' <=> Holds(w, a) BY <2>2, <3>2
    <3>4. \A w \in Way : Holds(w, a) => store'[a[2]][w] = store[a[2]][w]
      BY <1>3, <2>1, <3>2
    <3> QED BY <1>1, <3>3, <3>4, SameHolders
  <2> QED BY <2>3, <2>4
<1> QED BY <1>4, SameMemory

LEMMA FlushLineKeepsMemory ==
  ASSUME CacheInv, CacheInv', Present, Datapath(FALSE), FlushLine
  PROVE  memory' = memory
<1> PICK s, v : s = flushSet /\ v = flushWay OBVIOUS
<1>1. /\ s \in Index /\ v \in Way /\ flush /\ C_curState = IDLE
      /\ \A j \in Index, w \in Way : (j # s \/ w # v) => SameEntry(j, w)
      /\ tag' = tag /\ ~valid'[s][v]
      /\ C_mWren' => valid[s][v] /\ C_mAddr' = <<tag[s][v], s>>
  BY FlushLineEffect DEF CacheInv
<1>2. flush'
  <2>1. ~validReady BY DEF FlushLine, validReady, Request
  <2> QED BY <1>1, <2>1, RequestHeld
<1>3. store' = store
  BY <1>1, DatapathEffect DEF CacheInv, C_missRead, StoreHit
<1>4. valid[s][v] /\ dirty[s][v] => C_mWren' /\ C_mAddr' = <<tag[s][v], s>> /\ C_data' = store[s][v]
  <2> SUFFICES ASSUME valid[s][v], dirty[s][v]
               PROVE  C_mWren' /\ C_mAddr' = <<tag[s][v], s>> /\ C_data' = store[s][v]
    OBVIOUS
  <2>1. C_validDirtyWay(v) BY DEF C_validDirtyWay
  <2>2. C_mWren' /\ C_mAddr' = <<tag[s][v], s>> /\ C_dataWay' = v
    BY <2>1 DEF FlushLine
  <2>3. ReadWays = Way BY <1>1, <2>1 DEF ReadWays, Request, C_validDirty
  <2>4. rdata'[v] = store[s][v]
    BY <1>1, <2>3, OutputLatched DEF CacheInv, curIndex
  <2> QED BY <2>2, <2>4 DEF C_data
<1>5. ~dirty[s][v] => ~C_mWren' BY DEF FlushLine, C_validDirtyWay
<1>6. ASSUME NEW a \in LineAddr PROVE memory'[a] = memory[a]
  <2>1. a[2] \in Index /\ a = <<a[1], a[2]>> BY DEF LineAddr
  <2>2. \A w \in Way : (a[2] # s \/ w # v) => (Holds(w, a)' <=> Holds(w, a))
    BY <1>1, <1>2, <2>1 DEF Holds, Refilling, SameEntry
  <2>3. a[2] = s => ~Holds(v, a)' BY <1>1 DEF Holds
  <2>4. CASE a[2] = s /\ Holds(v, a)
    <3>1. valid[s][v] /\ a = <<tag[s][v], s>> BY <2>1, <2>4 DEF Holds
    <3>2. CASE dirty[s][v] BY <1>1, <1>4, <2>4, <3>1, <3>2, StartsToMemory
    <3>3. CASE ~dirty[s][v]
      <4>1. \A w \in Way : Holds(w, a) => w = v
        BY <1>1, <2>1, <2>4 DEF Holds, CacheInv, UniqueTags
      <4>2. \A w \in Way : ~Holds(w, a)' BY <2>2, <2>3, <2>4, <4>1
      <4> QED BY <1>1, <1>5, <2>4, <3>3, <4>2, CleanHolderLost
    <3> QED BY <3>2, <3>3
  <2>5. CASE ~(a[2] = s /\ Holds(v, a))
    <3>1. \A w \in Way : Holds(w, a)' <=> Holds(w, a) BY <2>2, <2>3, <2>5
    <3>2. ~(C_mWren' /\ C_mAddr' = a) BY <1>1, <2>5 DEF Holds, Refilling
    <3> QED BY <1>3, <3>1, <3>2, SameHolders
  <2> QED BY <2>4, <2>5
<1> QED BY <1>6, SameMemory

LEMMA AllocateKeepsMemory ==
  ASSUME CacheInv, CacheInv', Present, Datapath(FALSE), Allocate, MissClean \/ MissDirty
  PROVE  memory' = memory
<1> PICK i, v : i = addr.index /\ v = Victim OBVIOUS
<1>1. /\ i \in Index /\ v \in Way /\ ~flush /\ Access /\ C_curState = IDLE /\ C_dataWay' = v
      /\ \A j \in Index, w \in Way : (j # i \/ w # v) => SameEntry(j, w)
  BY AllocateEffect DEF CacheInv
<1>2. UNCHANGED <<flush, addr>> BY NotReadyOnMiss, RequestHeld
<1>3. C_curState' # IDLE BY DEF MissClean, MissDirty
<1>4. store' = store
  BY <1>1, DatapathEffect DEF CacheInv, C_missRead, StoreHit, Allocate
<1>5. \A j, w : Refilling(j, w)' <=> j = i /\ w = v
  BY <1>1, <1>2, <1>3 DEF Refilling
<1>6. VictimDirty => /\ C_mWren' /\ C_mAddr' = <<tag[i][v], i>> /\ C_data' = store[i][v]
                     /\ valid[i][v]
  <2> SUFFICES ASSUME VictimDirty
               PROVE  /\ C_mWren' /\ C_mAddr' = <<tag[i][v], i>> /\ C_data' = store[i][v]
                      /\ valid[i][v]
    OBVIOUS
  <2>1. C_mWren' /\ C_mAddr' = <<tag[i][v], i>> BY DEF MissClean, MissDirty
  <2>2. ReadWays = {v} BY <1>1 DEF ReadWays, Request, Allocate
  <2>3. rdata'[v] = store[i][v] BY <1>1, <2>2, OutputLatched DEF CacheInv, curIndex
  <2>4. valid[i][v] BY <1>1 DEF VictimDirty, SetFull, InvalidWays
  <2> QED BY <1>1, <2>1, <2>3, <2>4 DEF C_data
<1>7. ~VictimDirty => ~C_mWren' BY DEF MissClean, MissDirty
<1>8. valid[i][v] /\ dirty[i][v] => VictimDirty BY VictimIsWay DEF VictimDirty, CacheInv
<1>9. ASSUME NEW a \in LineAddr PROVE memory'[a] = memory[a]
  <2>1. a[2] \in Index /\ a = <<a[1], a[2]>> BY DEF LineAddr
  <2>2. \A w \in Way : (a[2] # i \/ w # v) => (Holds(w, a)' <=> Holds(w, a))
    BY <1>1, <1>5, <2>1 DEF Holds, Refilling, SameEntry
  <2>3. a[2] = i => ~Holds(v, a)' BY <1>5 DEF Holds
  <2>4. CASE a[2] = i /\ Holds(v, a)
    <3>1. valid[i][v] /\ a = <<tag[i][v], i>> BY <2>1, <2>4 DEF Holds
    <3>2. CASE VictimDirty BY <1>1, <1>6, <2>4, <3>1, <3>2, StartsToMemory
    <3>3. CASE ~VictimDirty
      <4>1. \A w \in Way : Holds(w, a) => w = v
        BY <1>1, <2>1, <2>4 DEF Holds, CacheInv, UniqueTags
      <4>2. \A w \in Way : ~Holds(w, a)' BY <2>2, <2>3, <2>4, <4>1
      <4> QED BY <1>1, <1>7, <1>8, <2>4, <3>1, <3>3, <4>2, CleanHolderLost
    <3> QED BY <3>2, <3>3
  <2>5. CASE ~(a[2] = i /\ Holds(v, a))
    <3>1. \A w \in Way : Holds(w, a)' <=> Holds(w, a) BY <2>2, <2>3, <2>5
    <3>2. ~(C_mWren' /\ C_mAddr' = a) BY <1>1, <1>6, <1>7, <2>5 DEF Holds, Refilling
    <3> QED BY <1>4, <3>1, <3>2, SameHolders
  <2> QED BY <2>4, <2>5
<1> QED BY <1>9, SameMemory

LEMMA HitIsReady ==
  ASSUME Hit
  PROVE  validReady /\ ~flush /\ C_curState = IDLE /\ C_hit
BY DEF Hit, validReady

LEMMA ReadyIsHit ==
  ASSUME CacheInv, CacheStep, validReady, Access, ~flush
  PROVE  Hit
<1>1. C_curState = IDLE /\ C_hit BY DEF validReady, Request
<1> QED BY <1>1 DEF CacheStep, NoRequest, FlushStart, FlushLine, FlushFinish, MissClean,
        MissDirty, Allocate, WriteStrobe, WriteDone, ReadStrobe, ReadDone, Request

LEMMA HitMemory ==
  ASSUME CacheInv, CacheInv', Datapath(FALSE), Hit
  PROVE  memory' = IF wren = {} THEN memory
                   ELSE [memory EXCEPT ![reqLine][addr.offset] = Merge(@)]
<1> PICK i, v, r, o : i = addr.index /\ v = HitWay /\ r = reqLine /\ o = addr.offset
  OBVIOUS
<1>1. /\ UNCHANGED <<tag, valid>> /\ C_curState = IDLE /\ C_curState' = IDLE /\ ~flush
      /\ i \in Index /\ v \in Way /\ valid[i][v] /\ tag[i][v] = addr.tag
      /\ ~C_mWren'
  BY HitEffect DEF CacheInv, C_hitWay
<1>2. ~C_mWren BY <1>1 DEF CacheInv, WriteInv, AllInvalid
<1>3. r \in LineAddr /\ r[1] = addr.tag /\ r[2] = i
  BY DEF CacheInv, TypeOK, Address, LineAddr, reqLine
<1>4. ASSUME NEW a \in LineAddr, NEW w \in Way
      PROVE  (Holds(w, a)' <=> Holds(w, a)) /\ ~Refilling(a[2], w) /\ ~Refilling(a[2], w)'
  BY <1>1 DEF Holds, Refilling
<1>5. Holds(v, r) /\ Holds(v, r)' BY <1>1, <1>3, <1>4 DEF Holds
<1>6. curIndex = i /\ ~C_missRead BY <1>1 DEF curIndex, C_missRead
<1>7. ASSUME NEW a \in LineAddr, a # r \/ wren = {} PROVE memory'[a] = memory[a]
  <2>1. a[2] \in Index /\ a = <<a[1], a[2]>> BY DEF LineAddr
  <2>2. CASE wren = {}
    <3>1. store' = store BY <1>6, <2>2, DatapathEffect DEF CacheInv, StoreHit
    <3> QED BY <1>1, <1>4, <3>1, SameHolders
  <2>3. CASE a # r
    <3>1. a[2] # i \/ a[1] # addr.tag BY <1>3, <2>1, <2>3 DEF reqLine
    <3>2. \A w \in Way : Holds(w, a) => a[2] # i \/ w # v BY <1>1, <3>1 DEF Holds
    <3>3. \A j \in Index, w \in Way : (j # i \/ w # v) => store'[j][w] = store[j][w]
      BY <1>6, DatapathEffect DEF CacheInv
    <3>4. \A w \in Way : Holds(w, a) => store'[a[2]][w] = store[a[2]][w]
      BY <2>1, <3>2, <3>3
    <3> QED BY <1>1, <1>4, <3>4, SameHolders
  <2> QED BY <1>7, <2>2, <2>3
<1>8. CASE wren = {}
  <2>1. memory' = memory BY <1>7, <1>8, SameMemory
  <2> QED BY <1>8, <2>1
<1>9. CASE wren # {}
  <2>1. StoreHit BY <1>1, <1>9, HitIsReady DEF StoreHit
  <2>2. store' = [store EXCEPT ![i][v] =
                    [store[i][v] EXCEPT ![o] = Merge(store[i][v][o])]]
    BY <1>6, <2>1 DEF Datapath
  <2>3. store'[i][v] = [store[i][v] EXCEPT ![o] = Merge(store[i][v][o])]
    <3>1. store \in [Index -> [Way -> Line]] BY DEF CacheInv, TypeOK
    <3> QED BY <1>1, <2>2, <3>1, UpdateEntry
  <2>4. memory[r] = store[i][v] BY <1>1, <1>2, <1>3, <1>5, MemoryAt
  <2>5. memory'[r] = store'[i][v] BY <1>1, <1>3, <1>5, MemoryAtNext
  <2>6. memory'[r] = [memory[r] EXCEPT ![o] = Merge(memory[r][o])]
    BY <2>3, <2>4, <2>5
  <2>7. memory = [a \in LineAddr |-> memory[a]] BY DEF memory
  <2>8. memory' = [a \in LineAddr |-> memory'[a]] BY DEF memory
  <2> DEFINE line == [memory[r] EXCEPT ![o] = Merge(memory[r][o])]
  <2>9. memory' = [memory EXCEPT ![r] = line]
    <3> HIDE DEF line
    <3>1. memory'[r] = line BY <2>6 DEF line
    <3>2. \A a \in LineAddr : memory'[a] = IF a = r THEN line ELSE memory[a]
      BY <1>7, <3>1
    <3>3. [memory EXCEPT ![r] = line] = [a \in LineAddr |-> IF a = r THEN line ELSE memory[a]]
      BY <2>7
    <3> QED BY <2>8, <3>2, <3>3
  <2> QED BY <1>9, <2>9
<1> QED BY <1>8, <1>9

(* The pipeline never presents a fence together with an access. *)
FlushAlone == flush => ~Access

LEMMA FlushAloneStep ==
  ASSUME FlushAlone, [Next]_vars
  PROVE  FlushAlone'
<1>1. CASE Clock
  BY <1>1 DEF Clock, Present, PresentNothing, PresentLoad, PresentStore, PresentFence,
              request, FlushAlone, Access
<1>2. CASE Reset BY <1>2 DEF Reset, FlushAlone, Access
<1>3. CASE UNCHANGED vars BY <1>3 DEF vars, request, FlushAlone, Access
<1> QED BY <1>1, <1>2, <1>3 DEF Next

LEMMA StoresTakeEffect ==
  ASSUME CacheInv, CacheInv', CacheStep, Present
  PROVE  DM!Store
<1>1. Datapath(FALSE) BY DEF CacheStep
<1>2. \A word : DM!Merged(word) = Merge(word) BY DEF DM!Merged, Merge
<1>3. CASE Hit
  <2>1. validReady /\ ~flush BY <1>3, HitIsReady
  <2> QED BY <1>1, <1>2, <1>3, <2>1, HitMemory DEF DM!Store
<1>4. CASE LookOnly
  <2>1. ~(validReady /\ ~flush /\ wren # {})
    <3>1. CASE C_curState = IDLE
      BY <1>4, <3>1 DEF LookOnly, NoRequest, FlushStart, FlushFinish, WriteStrobe, WriteDone,
                        ReadStrobe, ReadDone, Request, Access
    <3>2. CASE C_curState # IDLE BY <3>2, NotReadyOutsideIdle DEF CacheInv
    <3> QED BY <3>1, <3>2
  <2>2. memory' = memory
    BY <1>1, <1>4, LookKeepsMemory, ReadDoneKeepsMemory DEF LookOnly
  <2> QED BY <2>1, <2>2 DEF DM!Store
<1>5. CASE FlushLine
  <2>1. flush BY <1>5 DEF FlushLine
  <2> QED BY <1>1, <1>5, <2>1, FlushLineKeepsMemory DEF DM!Store
<1>6. CASE Allocate /\ (MissClean \/ MissDirty)
  <2>1. ~validReady BY <1>6, NotReadyOnMiss
  <2> QED BY <1>1, <1>6, <2>1, AllocateKeepsMemory DEF DM!Store
<1> QED BY <1>3, <1>4, <1>5, <1>6, StepCases

LEMMA LoadsReturn ==
  ASSUME CacheInv, FlushAlone, Clock
  PROVE  DM!Load
<1>1. emLoad' = (validReady /\ rden) /\ CacheStep /\ Datapath(FALSE)
  BY DEF Clock, CacheStep
<1>2. CASE validReady /\ rden
  <2> PICK i, v, o : i = addr.index /\ v = HitWay /\ o = addr.offset OBVIOUS
  <2>1. Hit BY <1>1, <1>2, ReadyIsHit DEF FlushAlone, Access
  <2>2. /\ i \in Index /\ v \in Way /\ C_hitWay(v) /\ C_curState = IDLE /\ ~flush
        /\ C_dataWay' = v /\ C_offset' = o
    BY <2>1, HitEffect DEF CacheInv, Hit
  <2>3. ReadWays = {v} BY <1>2, <2>1, <2>2, HitIsReady DEF ReadWays, Request, Access
  <2>4. rdata'[v] = store[i][v]
    BY <1>1, <2>2, <2>3, OutputLatched DEF CacheInv, curIndex
  <2>5. dout' = store[i][v][o] BY <1>1, <1>2, <2>2, <2>4 DEF dout, C_dataOffset, C_data
  <2>6. reqLine \in LineAddr /\ reqLine[1] = addr.tag /\ reqLine[2] = i
    BY DEF CacheInv, TypeOK, Address, LineAddr, reqLine
  <2>7. Holds(v, reqLine) BY <2>2, <2>6 DEF Holds, Refilling, C_hitWay
  <2>8. memory[reqLine] = store[i][v] BY <2>2, <2>6, <2>7, HeldIsNotWritten, MemoryAt
  <2> QED BY <1>2, <2>5, <2>8 DEF DM!Load
<1>3. CASE ~(validReady /\ rden)
  <2>1. dout' = NoData BY <1>1, <1>3 DEF dout
  <2> QED BY <1>3, <2>1 DEF DM!Load
<1> QED BY <1>2, <1>3

LEMMA ClockOperates ==
  ASSUME CacheInv, CacheInv', FlushAlone, Clock
  PROVE  DM!Operate
<1>1. CacheStep /\ Present /\ Datapath(FALSE) /\ reset_i' = FALSE BY DEF Clock, CacheStep
<1>2. DM!Load BY LoadsReturn
<1>3. DM!Store BY <1>1, StoresTakeEffect
<1>4. DM!Fence BY DurableWhenDone DEF FenceDurable, DM!Fence
<1>5. DM!WriteBack
  <2>1. CASE ~C_mWren
    BY <1>1, <2>1 DEF Datapath, M!Clock, M!WritePort, DM!WriteBack
  <2>2. CASE C_mWren
    <3>1. C_mAddr \in LineAddr BY DEF CacheInv, TypeOK
    <3>2. mem' = [mem EXCEPT ![C_mAddr] = C_data]
      BY <1>1, <2>2 DEF Datapath, M!Clock, M!WritePort
    <3>3. memory[C_mAddr] = C_data BY <2>2, <3>1, MemoryAt
    <3> QED BY <3>1, <3>2, <3>3 DEF DM!WriteBack
  <2> QED BY <2>1, <2>2
<1>6. validReady \/ UNCHANGED DM!request
  BY <1>1, RequestHeld DEF DM!request, reqLine
<1> QED BY <1>1, <1>2, <1>3, <1>4, <1>5, <1>6 DEF DM!Operate

(* A line on its way to memory when the reset comes still gets there.      *)
LEMMA ResetKeepsOutput ==
  ASSUME CacheInv, Reset, C_mWren
  PROVE  C_data' = C_data
<1>1. ReadWays = {}
  <2>1. CASE C_curState # IDLE BY <2>1 DEF ReadWays
  <2>2. CASE C_curState = IDLE
    <3>1. AllInvalid BY <2>2 DEF CacheInv, WriteInv
    <3>2. addr.index \in Index /\ flushSet \in Index /\ 0 \in Way
      BY DEF CacheInv, TypeOK, Address, Way
    <3>3. ~C_validDirty /\ ~C_hit
      BY <3>1, <3>2 DEF AllInvalid, C_validDirty, C_validDirtyWay, C_hit, C_hitWay
    <3>4. ~VictimDirty
      BY <3>1, <3>2 DEF AllInvalid, VictimDirty, SetFull, InvalidWays
    <3> QED BY <3>3, <3>4 DEF ReadWays
  <2> QED BY <2>1, <2>2
<1>2. C_dataWay' = C_dataWay /\ C_dataWay \in Way /\ Datapath(TRUE)
  BY DEF Reset, select, CacheInv, TypeOK
<1>3. rdata'[C_dataWay] = rdata[C_dataWay] BY <1>1, <1>2, OutputLatched DEF CacheInv
<1> QED BY <1>2, <1>3 DEF C_data

LEMMA MemoryType ==
  ASSUME CacheInv, NEW a \in LineAddr
  PROVE  memory[a] \in Line
<1>1. a[2] \in Index BY DEF LineAddr
<1>2. C_data \in Line /\ mem[a] \in Line /\ \A w \in Way : store[a[2]][w] \in Line
  BY <1>1 DEF CacheInv, TypeOK, M!TypeOK, C_data
<1>3. CASE C_mWren /\ C_mAddr = a BY <1>2, <1>3, MemoryAt
<1>4. CASE ~(C_mWren /\ C_mAddr = a) /\ \E w \in Way : Holds(w, a)
  <2>1. PICK w \in Way : Holds(w, a) BY <1>4
  <2> QED BY <1>2, <1>4, <2>1, MemoryAt
<1>5. CASE ~(C_mWren /\ C_mAddr = a) /\ \A w \in Way : ~Holds(w, a)
  BY <1>2, <1>5, MemoryAt
<1> QED BY <1>3, <1>4, <1>5

LEMMA LineIsDLine == Line = DM!DLine
BY DEF Line, Word, DM!DLine, DM!DWord

LEMMA ResetFallsBack ==
  ASSUME CacheInv, CacheInv', Reset
  PROVE  DM!Reset
<1>1. Datapath(TRUE) /\ UNCHANGED <<C_mWren, C_mAddr>> BY DEF Reset, memPort
<1>2. \A i \in Index, w \in Way : ~valid'[i][w] BY DEF Reset
<1>3. ASSUME NEW a \in LineAddr
      PROVE  /\ memory'[a] = mem'[a] /\ mem'[a] \in {memory[a], mem[a]}
             /\ mem'[a] \in Line
  <2>1. a[2] \in Index BY DEF LineAddr
  <2>2. \A w \in Way : ~Holds(w, a)' BY <1>2, <2>1 DEF Holds
  <2>3. mem'[a] = IF C_mWren /\ a = C_mAddr THEN C_data ELSE mem[a]
    BY <1>1, DatapathEffect DEF CacheInv
  <2>4. mem[a] \in Line BY DEF CacheInv, TypeOK, M!TypeOK
  <2>5. CASE C_mWren /\ C_mAddr = a
    <3>1. memory[a] = C_data BY <2>5, MemoryAt
    <3>2. memory'[a] = C_data'
      <4>1. C_mWren' /\ C_mAddr' = a BY <1>1, <2>5
      <4> QED BY <4>1, MemoryAtNext
    <3> QED BY <2>3, <2>5, <3>1, <3>2, ResetKeepsOutput, MemoryType
  <2>6. CASE ~(C_mWren /\ C_mAddr = a)
    <3>1. memory'[a] = mem'[a]
      <4>1. ~(C_mWren' /\ C_mAddr' = a) BY <1>1, <2>6
      <4> QED BY <2>2, <4>1, MemoryAtNext
    <3> QED BY <2>3, <2>4, <2>6, <3>1
  <2> QED BY <2>5, <2>6
<1>4. memory' = [a \in LineAddr |-> memory'[a]] BY DEF memory
<1>5. mem' \in [LineAddr -> Line] BY DEF CacheInv, TypeOK, M!TypeOK
<1>6. memory' \in [LineAddr -> Line] BY <1>3, <1>4
<1>7. dout' = NoData /\ reset_i' = TRUE BY DEF Reset, dout
<1> QED BY <1>3, <1>5, <1>6, <1>7, LineIsDLine DEF DM!Reset

LEMMA InitIsMemory == Init => DM!Init
<1> SUFFICES ASSUME Init PROVE DM!Init OBVIOUS
<1>1. mem \in [LineAddr -> Line] BY DEF Init
<1>2. ASSUME NEW a \in LineAddr, NEW w \in Way PROVE ~Holds(w, a)
  BY DEF Init, Holds, LineAddr
<1>3. ~C_mWren BY DEF Init
<1>4. memory = [a \in LineAddr |-> mem[a]] BY <1>2, <1>3 DEF memory
<1>5. memory = mem BY <1>1, <1>4
<1>6. dout = NoData /\ reset_i = FALSE BY DEF Init, dout
<1> QED BY <1>1, <1>5, <1>6, LineIsDLine DEF DM!Init

LEMMA StutterIsStutter ==
  ASSUME UNCHANGED vars
  PROVE  UNCHANGED DM!dmVars
<1>1. UNCHANGED <<tag, valid, C_mWren, C_mAddr, C_dataWay, C_offset, C_curState,
                  store, rdata, mem, flush, rden, wren, addr, wdata, emLoad, reset_i,
                  flushDone>>
  BY DEF vars, directory, memPort, select, flushRegs, rams, request
<1>2. UNCHANGED <<reqLine, validReady>>
  BY <1>1 DEF reqLine, validReady, Request, Access, C_hit, C_hitWay
<1>3. UNCHANGED <<C_data, dout>> BY <1>1 DEF C_data, dout, C_dataOffset
<1>4. memory' = memory BY <1>1, <1>3 DEF memory, Holds, Refilling
<1> QED BY <1>1, <1>2, <1>3, <1>4 DEF DM!dmVars, DM!request

(* Whatever misses, evictions, fences and resets come, the cache is a      *)
(* memory: a load returns the last word stored, only whole current lines   *)
(* are written back, a fence waits for all of them, and a reset loses      *)
(* nothing but stores that were not written back (DCache.v as a whole).    *)
THEOREM CacheImplementsMemory == Spec => ImplementsMemory
<1>1. Init => FlushAlone BY DEF Init, FlushAlone
<1>2. FlushAlone /\ [Next]_vars => FlushAlone' BY FlushAloneStep
<1>3. ASSUME CacheInv, CacheInv', FlushAlone, [Next]_vars
      PROVE  [DM!Next]_(DM!dmVars)
  <2>1. CASE Clock BY <1>3, <2>1, ClockOperates DEF DM!Next
  <2>2. CASE Reset BY <1>3, <2>2, ResetFallsBack DEF DM!Next
  <2>3. CASE UNCHANGED vars BY <2>3, StutterIsStutter
  <2> QED BY <1>3, <2>1, <2>2, <2>3 DEF Next
<1> QED BY <1>1, <1>2, <1>3, InitIsMemory, CacheInvariant, PTL
        DEF Spec, ImplementsMemory, DM!Spec
=============================================================================
