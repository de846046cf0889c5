------------------------------- MODULE Memory -------------------------------
(***************************************************************************)
(* The main memory of the SoC (src/src/Memory/Memory.v) as the data cache  *)
(* sees it: the simulated SDRAM and the block RAM behind one address       *)
(* decoder.  Both arrays are synchronous: a read strobe at one clock edge  *)
(* puts the line on the read bus after that edge, a write mask stores the  *)
(* line at that edge, and the port never makes the cache wait (SDRamBusy   *)
(* is tied to 0).                                                          *)
(*                                                                         *)
(* A line is one 256-bit row.  The two arrays hold disjoint line           *)
(* addresses and share the two strobes, and the read bus is selected by    *)
(* the address registered with the strobe, so together they are one        *)
(* function from line addresses to lines.                                  *)
(***************************************************************************)
CONSTANTS LineAddr,   \* the lines of memory that exist
          Line,       \* the contents of a line
          ZeroLine    \* 256'b0

VARIABLES mem,        \* SDRAM and BRAM
          DMemRData   \* SDRamRData / BRamRData, the registered read bus

TypeOK == /\ mem \in [LineAddr -> Line]
          /\ DMemRData \in Line

(* DMemValidReady_o with SDRamBusy = 0. *)
ValidReady == TRUE

(* The write ports: the arrays are written whatever reset_i is. *)
WritePort(wren, a, line) ==
  mem' = IF wren THEN [mem EXCEPT ![a] = line] ELSE mem

(* The read bus after a clock edge: a strobe reads the row as it was       *)
(* before the edge; without one the bus keeps its value, or is cleared by  *)
(* a reset.                                                                *)
ReadPort(reset, rden, a) ==
  DMemRData' = IF rden THEN mem[a] ELSE IF reset THEN ZeroLine ELSE DMemRData

(* One edge of clk_i on the data port. *)
Clock(reset, rden, wren, a, line) ==
  /\ WritePort(wren, a, line)
  /\ ReadPort(reset, rden, a)
=============================================================================
