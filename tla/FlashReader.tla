---------------------------- MODULE FlashReader -----------------------------
(***************************************************************************)
(* A load from the serial flash, clock by clock: the strobe of DataMem.v,  *)
(* the select of IO.v, the dual-output reader spiFlash.v, and at the other *)
(* end of the wires the chip of the bench, tb/peripherals/spiflash.cpp,    *)
(* which tick() of tb/simMain.cpp calls after each edge of the clock.      *)
(*                                                                         *)
(* An access stays until it is answered: Pipeline.tla.  The chip's         *)
(* m_last_sck is 1 between ticks and is left out; so are its load and its  *)
(* modes no code here asks for.                                            *)
(***************************************************************************)
EXTENDS Naturals, Sequences

CONSTANTS ADDRESS_BITS,      \* 24 in the source
          Image(_),          \* the byte at an address of the chip
          FlashAddr,         \* addresses of accesses that IO.v takes for the flash
          DeviceAddr,        \* of its other devices, and of main memory: values
          MemoryAddr,        \* apart from those
          Junk,              \* bytes behind the end of m_mem
          TwoTo,             \* the powers of two
          MAXRESETS          \* bound on the resets

CommandBits == 8
WAIT  == 8
BYTES == 8

ASSUME AddressAssumption ==
  /\ ADDRESS_BITS \in Nat \ {0} /\ ADDRESS_BITS % 4 = 0
  /\ TwoTo \in [0..(CommandBits + ADDRESS_BITS) -> Nat] /\ TwoTo[0] = 1
  /\ \A i \in 0..(CommandBits + ADDRESS_BITS - 1) : TwoTo[i + 1] = 2 * TwoTo[i]
  /\ FlashAddr \subseteq 0..(TwoTo[ADDRESS_BITS] - 1)
  /\ FlashAddr \cap (DeviceAddr \cup MemoryAddr) = {}
  /\ Junk \subseteq 0..255 /\ \A a \in 0..(TwoTo[ADDRESS_BITS] - 1) : Image(a) \in 0..255

VARIABLES
  addr_i, rden_i,                            \* the access of the pipeline
  prev_addr, prev_rden, isFlash_r,
  spiCs_o, snd_count, snd_data, wait_count, rcv_count, rcv_byteCount, rcv_data,
  miso, mosi,                                \* the two lines as the bench drives them
  chip,                                      \* SPIFlash
  waited,                                    \* history: clocks the access has waited
  resets                                     \* and resets so far

access == <<addr_i, rden_i>>
reader == <<spiCs_o, snd_count, snd_data, wait_count, rcv_count, rcv_byteCount, rcv_data>>
readerVars == <<access, prev_addr, prev_rden, isFlash_r, reader, miso, mosi, chip, waited, resets>>

BitOf(v, i) == (v \div TwoTo[i]) % 2
Bits(v, width) == [i \in 1..width |-> BitOf(v, width - i)]     \* most significant first

ReaderInit ==
  /\ addr_i \in FlashAddr \cup DeviceAddr \cup MemoryAddr /\ rden_i = FALSE
  /\ prev_addr = 0 /\ prev_rden = FALSE /\ isFlash_r = FALSE
  /\ spiCs_o = 1 /\ snd_count = 0 /\ snd_data = Bits(0, CommandBits + ADDRESS_BITS)
  /\ wait_count = 0 /\ rcv_count = 0 /\ rcv_byteCount = 0
  /\ rcv_data = [i \in 0..(BYTES - 1) |-> 0] /\ miso = 0 /\ mosi = 0 /\ waited = 0 /\ resets = 0
  /\ chip = [state |-> "IDLE", mode |-> "READ", command |-> 0, address |-> 0,
             count |-> 0, data |-> 0, bit |-> 0]
-----------------------------------------------------------------------------
EveryClock == rden_i                                            \* mutant of rstrb
rstrb      == rden_i /\ (addr_i # prev_addr \/ rden_i # prev_rden)
isFlash    == addr_i \in FlashAddr
IO_rstrb   == addr_i \notin MemoryAddr /\ rstrb
flashRstrb == isFlash /\ IO_rstrb
SPI_valid  == spiCs_o = 1 /\ ~flashRstrb
validReady_o(other) == IF isFlash THEN SPI_valid ELSE other

sending   == snd_count # 0
waiting   == wait_count # 0
receiving == rcv_count # 0
MOSI_out  == IF snd_count' # 0 THEN snd_data'[1] ELSE 0         \* behind the edge

Shift(byte) == (byte * 4 + 2 * miso + mosi) % 256
(* rdata_o, least significant byte first.                                  *)
SPI_Data == [i \in 0..(BYTES - 1) |-> rcv_data[BYTES - 1 - i]]

Strobes(reset_i) ==
  /\ prev_addr' = IF reset_i THEN 0 ELSE addr_i
  /\ prev_rden' = (~reset_i /\ rden_i)
  /\ isFlash_r' = IF reset_i THEN FALSE ELSE IF IO_rstrb THEN isFlash ELSE isFlash_r

ReaderReset ==
  /\ spiCs_o' = 1 /\ snd_data' = Bits(0, CommandBits + ADDRESS_BITS)
  /\ snd_count' = 0 /\ wait_count' = 0 /\ rcv_count' = 0
  /\ UNCHANGED <<rcv_byteCount, rcv_data>>

ReaderStart ==
  /\ spiCs_o' = 0 /\ snd_count' = CommandBits + ADDRESS_BITS
  /\ snd_data' = Bits(59, CommandBits) \o Bits((addr_i \div 8) * 8, ADDRESS_BITS)     \* 8'h3B
  /\ UNCHANGED <<wait_count, rcv_count, rcv_byteCount, rcv_data>>

OneLess    == WAIT - 1                                          \* mutant of WaitCycles
WaitCycles == WAIT
ReaderGoesOn ==
  /\ snd_count' = IF sending THEN snd_count - 1 ELSE 0
  /\ snd_data' = IF sending THEN Append(Tail(snd_data), 1) ELSE snd_data
  /\ wait_count' = IF waiting THEN wait_count - 1 ELSE IF snd_count = 1 THEN WaitCycles ELSE 0
  /\ IF receiving
     THEN /\ rcv_byteCount' = (rcv_byteCount + 3) % 4
          /\ rcv_count' = IF rcv_byteCount = 0 THEN rcv_count - 1 ELSE rcv_count
          /\ rcv_data' = [rcv_data EXCEPT ![rcv_count - 1] = Shift(@)]
     ELSE /\ rcv_count' = IF wait_count = 1 THEN BYTES ELSE 0
          /\ rcv_byteCount' = IF wait_count = 1 THEN 3 ELSE rcv_byteCount
          /\ UNCHANGED rcv_data
  /\ spiCs_o' = IF sending \/ waiting \/ receiving THEN spiCs_o ELSE 1
-----------------------------------------------------------------------------
(* SPIFlash::operator() of a selected chip, at the falling edge of sck (the *)
(* rising one of the clock) and at its rising one.                         *)

PerByte(mode) == CASE mode = "READ" -> 8 [] mode = "DOR" -> 4

Fetched(c) ==
  IF c.count % PerByte(c.mode) # 0 THEN {c}
  ELSE {[c EXCEPT !.data = d, !.bit = 8, !.address = @ + 1] :
          d \in IF c.address < TwoTo[ADDRESS_BITS] THEN {Image(c.address)} ELSE Junk}
Sent1(c) == IF c.bit > 0 THEN BitOf(c.data, c.bit - 1) ELSE 0
Sent2(c) == IF c.bit > 1 THEN BitOf(c.data, c.bit - 2) ELSE 0

Mode(command) == IF command = 59 THEN "DOR" ELSE "READ"
RisingEdge(c, dat) ==
  LET d == IF c.state = "IDLE" THEN [c EXCEPT !.state = "CMD", !.command = 0, !.address = 0] ELSE c
      last == CASE d.state = "CMD"   -> d.count = CommandBits - 1
                [] d.state = "ADDR"  -> d.count = CommandBits + ADDRESS_BITS - 1
                [] d.state = "DUMMY" -> d.count = CommandBits + ADDRESS_BITS + 7
                [] d.state = "SEND"  -> FALSE
      next == [CMD |-> "ADDR", ADDR |-> "DUMMY", DUMMY |-> "SEND", SEND |-> "SEND"]
      command == IF d.state = "CMD" THEN (2 * d.command + dat) % 256 ELSE d.command
  IN [d EXCEPT !.state = IF last THEN next[@] ELSE @,
               !.command = command,
               !.mode = IF d.state = "CMD" /\ last THEN Mode(command) ELSE @,
               !.address = IF d.state = "ADDR" THEN 2 * @ + dat ELSE @,
               !.count = @ + 1]

(* One tick of the bench behind the rising edge: the chip at sck = 0, its  *)
(* answer on the lines, the chip at sck = 1, whose answer is dropped.      *)
ChipTick ==
  IF spiCs_o' = 1
  THEN /\ chip' = [chip EXCEPT !.state = "IDLE", !.count = 0]
       /\ miso' = MOSI_out /\ mosi' = 0
  ELSE IF chip.state # "SEND"
  THEN chip' = RisingEdge(chip, MOSI_out) /\ miso' = 0 /\ mosi' = 0
  ELSE \E c \in Fetched(chip) :
         /\ miso' = Sent1(c)
         /\ mosi' = IF c.mode = "DOR" THEN Sent2(c) ELSE 0
         /\ chip' = RisingEdge([c EXCEPT !.bit = IF c.mode = "DOR" THEN (@ - 2) ELSE (@ - 1)], MOSI_out)

ReaderClock(reset_i, other) ==
  /\ resets' = resets + (IF reset_i THEN 1 ELSE 0) /\ resets' <= MAXRESETS
  /\ Strobes(reset_i)
  /\ IF reset_i THEN ReaderReset ELSE IF flashRstrb THEN ReaderStart ELSE ReaderGoesOn
  /\ ChipTick
  /\ IF reset_i THEN rden_i' = FALSE /\ addr_i' = addr_i
     ELSE IF rden_i /\ ~validReady_o(other) THEN UNCHANGED access
     ELSE addr_i' \in FlashAddr \cup DeviceAddr \cup MemoryAddr /\ rden_i' \in BOOLEAN
  /\ waited' = IF ~reset_i /\ rden_i /\ isFlash /\ ~SPI_valid THEN waited + 1 ELSE 0

ReaderNext == \E reset_i, other \in BOOLEAN : ReaderClock(reset_i, other)
-----------------------------------------------------------------------------
(* The answer to a load from the flash is the eight bytes at the aligned   *)
(* address, the first one least significant, whatever was accessed before  *)
(* and whatever a reset has cut off.                                       *)
FlashAnswer ==
  rden_i /\ isFlash /\ SPI_valid =>
    isFlash_r /\ \A i \in 0..(BYTES - 1) : SPI_Data[i] = Image((addr_i \div 8) * 8 + i)

(* and it comes in time: command and address, the wait, four clocks for    *)
(* each byte, the strobe and the release of the chip.                      *)
FlashAnswered == waited <= CommandBits + ADDRESS_BITS + WAIT + 4 * BYTES + 2
=============================================================================
