----------------------------- MODULE DataMemory -----------------------------
(***************************************************************************)
(* What the data side of the memory system promises to the pipeline: a     *)
(* memory of words in which an accepted store changes exactly the bytes it *)
(* names and an accepted load returns the last word stored, plus a durable *)
(* copy ("backing", the SDRAM and BRAM that the instruction port reads)    *)
(* that trails behind it line by line and has caught up when a fence is    *)
(* accepted.  Caches are not visible: lines are copied to the backing      *)
(* memory at times of the system's own choosing, and a reset may lose the  *)
(* stores that were not copied yet, but never mixes two versions of one    *)
(* line.                                                                   *)
(***************************************************************************)
CONSTANTS LineAddr, Offset, Lane, Value, NoData

VARIABLES
  flush, rden, wren,     \* the request on the port: a fence, a load, or the
  line, offset, wdata,   \*   byte lanes wren of a word to store
  ready,                 \* the request is accepted at the next edge
  memory,                \* [LineAddr -> Line], what loads return
  backing,               \* [LineAddr -> Line], what is in SDRAM and BRAM
  dout,                  \* the word the memory stage sees for its load, or NoData
  reset_i                \* the last edge was a reset

request == <<flush, rden, wren, line, offset, wdata>>
dmVars  == <<request, ready, memory, backing, dout, reset_i>>

DWord == [Lane -> Value]
DLine == [Offset -> DWord]

Init == /\ memory \in [LineAddr -> DLine]
        /\ backing = memory
        /\ dout = NoData
        /\ reset_i = FALSE

(* The accepted request takes effect, and nothing else does. *)
Merged(word) == [l \in Lane |-> IF l \in wren THEN wdata[l] ELSE word[l]]

Load  == dout' = IF ready /\ rden THEN memory[line][offset] ELSE NoData
Store == memory' = IF ready /\ ~flush /\ wren # {}
                     THEN [memory EXCEPT ![line][offset] = Merged(@)]
                     ELSE memory
Fence == ready /\ flush => backing = memory

(* The contents of at most one line become durable. *)
WriteBack == \/ UNCHANGED backing
             \/ \E a \in LineAddr : backing' = [backing EXCEPT ![a] = memory[a]]

Operate == /\ Load /\ Store /\ Fence /\ WriteBack
           /\ ready \/ UNCHANGED request
           /\ reset_i' = FALSE

(* A reset of the SoC: per line, either the stores so far survive or the   *)
(* line falls back to its durable contents.                                *)
Reset == /\ memory' \in [LineAddr -> DLine]
         /\ backing' \in [LineAddr -> DLine]
         /\ \A a \in LineAddr : /\ memory'[a] \in {memory[a], backing[a]}
                                /\ backing'[a] \in {memory[a], backing[a]}
         /\ dout' = NoData
         /\ reset_i' = TRUE

Next == Operate \/ Reset

Spec == Init /\ [][Next]_dmVars
=============================================================================
