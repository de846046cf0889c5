------------------------------ MODULE DataPort -------------------------------
(***************************************************************************)
(* The data port between the pipeline and what answers it: DataMem.v, the  *)
(* selects of IO.v, and the two stages that share the port.  Loads and the *)
(* reads of atomics are in execute, stores, the writes of atomics and      *)
(* fences in the memory stage; one address goes out and one flag comes     *)
(* back.  Read data comes one clock behind the flag, when the load is in   *)
(* the memory stage and the port may show another address.                 *)
(*                                                                         *)
(* Data is the name of its source and address.  The data cache and the     *)
(* flash reader answer after any number of clocks (DCache.tla,             *)
(* FlashReader.tla).                                                       *)
(***************************************************************************)
EXTENDS Naturals

CONSTANTS PortAddr,          \* addresses
          OtherAddr,         \* of instructions without an access
          PartOf(_),         \* what is at an address
          Mask               \* byte masks of stores

Parts == {"memory", "flash", "uartData", "uartCtrl", "device"}   \* device: timer, LEDs
ASSUME PartAssumption ==
  (\A a \in PortAddr : PartOf(a) \in Parts) /\ OtherAddr \subseteq PortAddr /\ {} \notin Mask

VARIABLES
  E, M,                      \* the accesses in the two stages
  prevAddr, prevRden, prevWren,
  isFlashR, isUARTR,
  cacheOut,                  \* the source of the cache's and the reader's
  flashOut, flashBusy,       \* data; rbusy_o
  behind, taken              \* history: what M came in behind; strobes of M so far

portVars == <<E, M, prevAddr, prevRden, prevWren, isFlashR, isUARTR, cacheOut, flashOut,
              flashBusy, behind, taken>>

(* An LR, or an SC that does not write, is a load with no load behind it.  *)
(* Any other instruction, or a bubble, has an address all the same.        *)
Others  == [kind : {"nop"}, addr : OtherAddr]
Moves   == [kind : {"load", "fence"}, addr : PortAddr]
           \cup [kind : {"store", "amo"}, addr : PortAddr, mask : Mask]
NoMask  == {}
Reads(x)  == x.kind \in {"load", "amo"}
Writes(x) == x.kind \in {"store", "amo"}

PortInit ==
  /\ E \in Others /\ M \in Others /\ behind = "other" /\ taken = 0
  /\ prevAddr \in PortAddr /\ prevRden = FALSE /\ prevWren = NoMask
  /\ isFlashR = FALSE /\ isUARTR = FALSE
  /\ cacheOut = <<"unknown">> /\ flashOut = <<"unknown">> /\ flashBusy = FALSE
-----------------------------------------------------------------------------
rden == Reads(E)
wren == IF Writes(M) THEN M.mask ELSE NoMask
flush == M.kind = "fence"
addr == IF rden THEN E.addr ELSE M.addr

isIO == PartOf(addr) # "memory"
toFlash == PartOf(addr) = "flash"
toUART  == PartOf(addr) \in {"uartData", "uartCtrl"}

RisingOnly == rden /\ rden # prevRden                            \* mutant of loadStrobe
loadStrobe == rden /\ (addr # prevAddr \/ rden # prevRden)
AddressOnly == wren # NoMask /\ addr # prevAddr                  \* mutant of storeStrobe
storeStrobe == wren # NoMask /\ (addr # prevAddr \/ wren # prevWren)

IO_wstrb == isIO /\ storeStrobe

(* A line that has just been read is still there for the write behind it.  *)
DCacheRden == rden /\ ~isIO
DCacheAsked == DCacheRden \/ (~isIO /\ wren # NoMask) \/ flush
DCacheValidReady(answer) ==
  \/ answer \/ ~DCacheAsked
  \/ wren # NoMask /\ ~flush /\ cacheOut = <<"memory", addr>>
readerReady == ~flashBusy /\ ~(toFlash /\ loadStrobe)
validReady(answer) ==
  IF ~isIO THEN DCacheValidReady(answer) ELSE toFlash => readerReady

IO_rData ==
  IF isFlashR THEN flashOut
  ELSE IF isUARTR /\ PartOf(addr) # "uartData" THEN <<"status">> ELSE <<"zero">>
rdata == IF isIO THEN IO_rData ELSE cacheOut

M_busy(answer) == ~validReady(answer) /\ M.kind # "load"
portHazard(i) == Reads(i) /\ Writes(E)

Repeats(x, y) == Writes(x) /\ Writes(y) /\ x.addr = y.addr /\ x.mask = y.mask

(* A bubble keeps the address.  other: the divider or the FPU holds the    *)
(* execute stage up, which then has no access.                             *)
Advance(answer, other) ==
  IF M_busy(answer)
  THEN UNCHANGED <<E, M, behind>> /\ taken' = taken + (IF IO_wstrb THEN 1 ELSE 0)
  ELSE /\ taken' = 0
       /\ behind' = IF M.kind = "fence" THEN "fence" ELSE IF Repeats(E, M) THEN "same" ELSE "other"
       /\ IF other \/ ~validReady(answer)
          THEN M' = [kind |-> "nop", addr |-> M.addr] /\ UNCHANGED E
          ELSE M' = E /\ E' \in Others \cup {i \in Moves : ~portHazard(i)}

PortClock(answer, other, ended) ==
  /\ answer => DCacheAsked
  /\ other => E \in Others
  /\ ended => flashBusy
  /\ Advance(answer, other)
  /\ prevAddr' = addr /\ prevRden' = rden /\ prevWren' = wren
  /\ IF isIO /\ loadStrobe THEN isFlashR' = toFlash /\ isUARTR' = toUART
     ELSE UNCHANGED <<isFlashR, isUARTR>>
  /\ cacheOut' = IF DCacheRden /\ ~flush /\ DCacheValidReady(answer) THEN <<"memory", addr>>
                 ELSE <<"unknown">>
  /\ IF toFlash /\ loadStrobe THEN flashBusy' = TRUE /\ flashOut' = <<"flash", addr>>
     ELSE flashBusy' = (flashBusy /\ ~ended) /\ UNCHANGED flashOut

PortReset ==
  /\ E' \in Others /\ M' \in [kind : {"nop"}, addr : {E.addr, M.addr}]
  /\ behind' = "other" /\ taken' = 0
  /\ prevAddr' \in PortAddr /\ prevRden' = FALSE /\ prevWren' = NoMask
  /\ isFlashR' = FALSE /\ isUARTR' = FALSE
  /\ cacheOut' = <<"unknown">> /\ flashOut' = <<"unknown">> /\ flashBusy' = FALSE

PortNext == PortReset \/ \E answer, other, ended \in BOOLEAN : PortClock(answer, other, ended)
PortSpec == PortInit /\ [][PortNext]_portVars
-----------------------------------------------------------------------------
(* The data register of the line, the timer and the LEDs read as zero      *)
(* (IO.v:58 has no case for the last two).                                 *)
Answer(a) ==
  CASE PartOf(a) \in {"memory", "flash"} -> <<PartOf(a), a>>
    [] PartOf(a) = "uartCtrl" -> <<"status">>
    [] OTHER -> <<"zero">>

(* Where the data goes astray: a load behind this one shows the port an    *)
(* address on the other side of the port, or of the other register of the  *)
(* line; and behind a FENCE it took the answer of the fence.               *)
Astray ==
  \/ /\ Reads(E)
     /\ \/ (PartOf(E.addr) = "memory") # (PartOf(M.addr) = "memory")
        \/ (PartOf(E.addr) = "uartData") # (PartOf(M.addr) = "uartData")
  \/ behind = "fence" /\ PartOf(M.addr) = "memory"

(* A load gets the data of its own address, though the port picks it by    *)
(* the address of the present access and by what the last strobe selected  *)
(* (DataMem.v:79, IO.v 44-58), except where Astray names it.               *)
LoadsOwnData == M.kind = "load" /\ ~Astray => rdata = Answer(M.addr)

(* A store to a device is strobed once, however long it stays, unless the  *)
(* access before it was one to the same bytes: then it is lost             *)
(* (DataMem.v:66).                                                         *)
StrobedOnce ==
  Writes(M) /\ PartOf(M.addr) # "memory" =>
    /\ addr = M.addr
    /\ taken + (IF IO_wstrb THEN 1 ELSE 0) = IF behind = "same" THEN 0 ELSE 1
=============================================================================
