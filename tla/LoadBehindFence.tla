--------------------------- MODULE LoadBehindFence ---------------------------
(***************************************************************************)
(* The data cache with the one pair of requests the pipeline can put on    *)
(* the port together: a FENCE in the memory stage (DMemFlush_o) and, right *)
(* behind it, a load in the execute stage (DMemRStrb_o).  The hazard unit  *)
(* keeps a load back behind a store or an atomic only                      *)
(* (DecodeUnit.v:380-383), so both are held until the cache is ready, and  *)
(* the one validReady that ends the flush also moves the load on.          *)
(***************************************************************************)
EXTENDS MCDCache

PresentFenceAndLoad(a) ==
  /\ flush' = TRUE /\ rden' = TRUE /\ wren' = {}
  /\ addr' = a /\ wdata' = ZeroWord

FenceAndLoadClock ==
  /\ CacheStep
  /\ validReady /\ \E a \in Address : PresentFenceAndLoad(a)
  /\ emLoad' = (validReady /\ rden)
  /\ reset_i' = FALSE

OverlapSpec == MCInit /\ [][(Next \/ FenceAndLoadClock) /\ edge' = 0]_vars

(* "Reads data fom memory/IO" (Processor/README.md:39): when a load leaves *)
(* the execute stage, the word the memory stage gets is the one in memory. *)
LoadsReadMemory ==
  [][emLoad' => C_dataOffset' = memory[reqLine][addr.offset]]_vars
=============================================================================
