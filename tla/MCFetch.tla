------------------------------ MODULE MCFetch ------------------------------
(***************************************************************************)
(* Fetch for TLC.  Every halfword of memory has a value of its own, which  *)
(* is odd if it begins a 32-bit instruction: any halfword at the end of a  *)
(* line may, and with it the one two before it in the next line.           *)
(* The contents of the RAMs at power-on never reach decode before they are *)
(* overwritten, so the initial states fix them.                            *)
(***************************************************************************)
EXTENDS Fetch

NHALVES    == NTAGS * NSETS * HALVES
MCHalf     == 0..(2 * NHALVES)
MCWideHalf == {h \in MCHalf : h % 2 = 1}
MCZeroHalf == 2 * NHALVES
MCrvec     == [line |-> <<0, 0>>, offset |-> 0]

Number(l, o) == (l[1] * NSETS + l[2]) * HALVES + o

MayBeWide == {a \in Address : a.offset = HALVES - 1 \/ a.offset = a.line[1]}    \* bound

MCInit ==
  /\ \E wide \in SUBSET MayBeWide :
       mem = [l \in LineAddr |-> [o \in Offset |->
                2 * Number(l, o)
                  + IF [line |-> l, offset |-> o] \in wide THEN 1 ELSE 0]]
  /\ tag = [i \in Index |-> [w \in Way |-> 0]] /\ lru = [i \in Index |-> 0]
  /\ store = [i \in Index |-> [w \in Way |-> ZeroLine]]
  /\ C_data = [w \in Way |-> ZeroLine] /\ IMemData = ZeroLine
  /\ FD_instrPart = ZeroHalf /\ FD_instrHold = <<ZeroHalf, ZeroHalf>>
  /\ Init

(* The part of the state that can still have an effect. *)
Dead == "dead"
LiveState ==
  <<mem, [i \in Index |-> <<IF valid[i][0] /\ valid[i][1] THEN lru[i] ELSE Dead,
            [w \in Way |-> IF valid[i][w] THEN <<tag[i][w], store[i][w]>> ELSE Dead]>>],
    C_curState, IF C_curState = MISS THEN IMemData ELSE Dead,
    PC, F_isSplitInstr, out,
    IF FD_nop THEN Dead ELSE <<data_o, C_dataWay>>,
    FD_isSplitInstr, answer = Stay>>

MCSpec     == MCInit /\ [][Next]_vars
MCFairSpec == /\ MCSpec /\ WF_vars(Unstalled)
              /\ <>[][\E in \in Input : Clock(in)]_vars
=============================================================================
