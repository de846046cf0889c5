------------------------------ MODULE MCBench -------------------------------
(***************************************************************************)
(* Seven units for TLC, each by itself: the archived flash chip, with a    *)
(* memory of two pages of two bytes of one bit; the flash reader with the  *)
(* bench's chip; the archived serial port with characters of three bits;   *)
(* the divider, with words of three bits; the memory stage, with bytes of  *)
(* one bit; traps with the CSRs, for four instructions; and the data port. *)
(* A behaviour has one of them, the others rest.                           *)
(***************************************************************************)
EXTENDS FlashSim, FlashReader, SerialSim, Divider, LoadStore, Trap, DataPort, Bitwise

VARIABLE device

(* The archived controller never sends 0x81 (WRECR).                       *)
MCSent == Command \ {"WRECR"}
(* A value of its own for every byte around the accesses.                  *)
MCImage(a) == (a * 37 + 11) % 256
MCTwoTo == [i \in 0..(CommandBits + ADDRESS_BITS) |-> 2^i]
MCPow2 == [i \in 0..W |-> 2^i]
MCXor(a, b) == a ^^ b
MCOr(a, b)  == a | b
MCAnd(a, b) == a & b
MCOperand ==
  {[i \in 0..7 |-> IF i \in ones THEN 1 ELSE 0] : ones \in {{}, {0, 2, 5}, {1, 3, 6, 7}}}
MCPartOf(a) ==
  CASE a = 0 -> "memory" [] a \in {1, 2} -> "flash" [] a = 3 -> "uartData" [] a = 4 -> "uartCtrl"
MCTyped == {{0}, {1, 2}, {}}

FlashRests  == m_mem = [a \in Addr |-> ERASED] /\ m_pmem = [i \in 0..PAGE-1 |-> ERASED]
ReaderRests == addr_i = 0
SerialRests == m_skt /\ m_nbits = CHAR_BITS /\ m_nstop = 1 /\ m_nparity = 0 /\ m_tx_data = {}
DividerRests == rs1 = 0 /\ rs2 = 0
MemoryRests == DMem = [i \in 0..7 |-> 0]
TrapRests   == FD = Other
PortRests   == E.addr = 0 /\ M.addr = 0 /\ prevAddr = 0

BenchInit ==
  /\ device \in {"flashsim", "spiFlash", "uartsim", "divider", "memory", "traps", "port"}
  /\ Init          /\ (device = "flashsim" \/ FlashRests)
  /\ ReaderInit    /\ (device = "spiFlash" \/ ReaderRests)
  /\ SerialInit    /\ (device = "uartsim"  \/ SerialRests)
  /\ DividerInit   /\ (device = "divider"  \/ DividerRests)
  /\ LoadStoreInit /\ (device = "memory"   \/ MemoryRests)
  /\ TrapInit      /\ (device = "traps"    \/ TrapRests)
  /\ PortInit      /\ (device = "port"     \/ PortRests)
Rests(unit, v) == IF device = unit THEN TRUE ELSE UNCHANGED v
BenchNext ==
  /\ UNCHANGED device
  /\ Rests("flashsim", vars) /\ Rests("spiFlash", readerVars) /\ Rests("uartsim", serialVars)
  /\ Rests("divider", dividerVars) /\ Rests("memory", loadStoreVars) /\ Rests("traps", trapVars)
  /\ Rests("port", portVars)
  /\ CASE device = "flashsim" -> Next
       [] device = "spiFlash" -> ReaderNext
       [] device = "uartsim"  -> SerialNext
       [] device = "divider"  -> DividerNext
       [] device = "memory"   -> LoadStoreNext
       [] device = "traps"    -> TrapNext
       [] device = "port"     -> PortNext
(* The units at rest have nothing to tell states apart by, nor has what    *)
(* started the timer of the chip once it has run out.                      *)
Awake ==
  CASE device = "flashsim" ->
           <<device, csn, m_count, m_state, pins, storage, m_addr, wip, wel, dpd, m_write_count,
             IF m_write_count THEN timer ELSE "none", m_oreg, start, data>>
    [] device = "spiFlash" -> <<device, readerVars>>
    [] device = "uartsim"  -> <<device, serialVars>>
    [] device = "divider"  -> <<device, dividerVars>>
    [] device = "memory"   -> <<device, loadStoreVars>>
    [] device = "traps"    -> <<device, trapVars>>
    [] device = "port"     -> <<device, portVars>>
BenchSpec ==
  BenchInit /\ [][BenchNext]_<<vars, readerVars, serialVars, dividerVars, loadStoreVars, trapVars,
                               portVars, device>>
=============================================================================
