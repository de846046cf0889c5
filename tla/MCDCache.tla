------------------------------ MODULE MCDCache ------------------------------
(***************************************************************************)
(* DCache for TLC.  The contents of the RAMs at power-on never reach an    *)
(* output before they are overwritten, so the initial states fix them;     *)
(* memory is arbitrary on the lines the program stores to, and so are the  *)
(* replacement bits, which no reset clears.                                *)
(***************************************************************************)
EXTENDS DCache

CONSTANT StoreIndex   \* the sets the program stores to

VARIABLE edge         \* changes at clock edges that change nothing else

MCInit ==
  /\ \E t \in Tag, i \in Index, o \in Offset :
       /\ tag = [j \in Index |-> [w \in Way |-> t]]
       /\ addr = [tag |-> t, index |-> 0, offset |-> o]
       /\ C_mAddr = <<t, 0>> /\ C_offset = o
  /\ dirty = [i \in Index |-> [w \in Way |-> FALSE]]
  /\ store = [i \in Index |-> [w \in Way |-> ZeroLine]]
  /\ rdata = [w \in Way |-> ZeroLine]
  /\ mem \in {m \in [LineAddr -> Line] :
                \A a \in LineAddr :
                  a[1] \notin StoreTag \/ a[2] \notin StoreIndex => m[a] = ZeroLine}
  /\ DMemRData = ZeroLine
  /\ flushSet = 0 /\ flushWay = 0 /\ edge = 0
  /\ Init

(* The part of the state that can still have an effect: an entry of an     *)
(* invalid way, the output of a line RAM that nothing reads, the walk's    *)
(* position outside a walk and the address of no request are overwritten   *)
(* before they are looked at.                                              *)
(* States that agree here have the same futures, so TLC need only keep one *)
(* of them.                                                                *)
Dead == "dead"
LiveEntry(i, w) ==
  IF ~valid[i][w] THEN Dead
  ELSE <<tag[i][w], dirty[i][w], IF Refilling(i, w) THEN Dead ELSE store[i][w]>>
LiveBits(i) ==
  <<IF \E w \in Way : valid[i][w] THEN lruTop[i] ELSE Dead,
    IF valid[i][0] \/ valid[i][1] THEN lru0[i] ELSE Dead,
    IF valid[i][2] \/ valid[i][3] THEN lru1[i] ELSE Dead>>
LiveState ==
  <<[i \in Index |-> <<LiveBits(i), [w \in Way |-> LiveEntry(i, w)]>>],
    C_curState, C_mRden, C_mWren,
    IF C_mRden \/ C_mWren THEN C_mAddr ELSE Dead,
    IF C_curState # IDLE \/ C_mWren \/ emLoad THEN C_dataWay ELSE Dead,
    IF C_mWren THEN C_data ELSE IF emLoad THEN C_dataOffset ELSE Dead,
    flushBusy, flushDone, IF flushBusy THEN <<flushSet, flushWay>> ELSE Dead,
    flush, rden, wren, wdata, IF Access THEN addr ELSE IF flush THEN addr.index ELSE Dead,
    mem, IF C_missRead THEN DMemRData ELSE Dead, emLoad>>

(* Fairness looks at two variables more.                                   *)
FairState == <<LiveState, reset_i, edge>>

MCNext ==
  /\ Next
  /\ wren' # {} => addr'.index \in StoreIndex
  /\ edge' = IF UNCHANGED vars THEN 1 - edge ELSE 0

MCSpec == MCInit /\ [][MCNext]_<<vars, edge>>

(* The clock runs, and in the end without resets.                          *)
MCFairSpec == MCSpec /\ []<><<~reset_i'>>_<<vars, edge>> /\ <>[]~reset_i
=============================================================================
