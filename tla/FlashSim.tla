------------------------------ MODULE FlashSim ------------------------------
(***************************************************************************)
(* The archived model of a serial flash chip, archive/tb/flashsim.cpp, one *)
(* byte on the pins at a time: eight clocks of one line, four of two or    *)
(* two of four.  Bits after the last whole byte have no effect.  The three *)
(* bytes of an address arrive with the last of them.                       *)
(*                                                                         *)
(* Left out: the protection bits of the status register, the configuration *)
(* register and the identification bytes, which nothing else depends on,   *)
(* and the delays of simtick.  The length of a job (m_write_count) is any  *)
(* number of clocks.                                                       *)
(***************************************************************************)
EXTENDS Naturals, Sequences, FiniteSets

CONSTANTS Bit, MEMBYTES, PAGE, SECTOR,
          NDUMMY,            \* dummy clocks of a quad read
          Sent,              \* the commands its controller sends
          MAXBYTES           \* bound on the length of a transaction

Byte   == SUBSET Bit
Addr   == 0..(MEMBYTES - 1)
ERASED == Bit

ASSUME SizeAssumption ==
  /\ MEMBYTES \in Nat \ {0} /\ PAGE \in Nat \ {0} /\ SECTOR \in Nat \ {0} /\ MAXBYTES \in Nat
  /\ NDUMMY \in Nat /\ NDUMMY % 2 = 0

VARIABLES
  csn, m_count,              \* chip select, and bytes since it went low
  m_state, m_mode,
  m_mode_byte,               \* (m_mode_byte & 0xf0) == 0xa0
  m_mem, m_pmem, m_addr,
  wip, wel, dpd,             \* the flags of m_sreg
  m_write_count,             \* whether it is above 0
  m_oreg,                    \* the data byte on its way out, NoByte: any other
  start, data,               \* history: address and data of the transaction,
  timer                      \* and what started m_write_count last

NoByte    == {"no byte"}
NoAddress == MEMBYTES
status  == <<wip, wel, dpd, m_write_count, timer>>
storage == <<m_mem, m_pmem>>
pins    == <<m_mode, m_mode_byte>>
vars == <<csn, m_count, m_state, pins, storage, m_addr, status, m_oreg, start, data>>

ReadIdle == {"DUAL_READ_IDLE", "QUAD_READ_IDLE"}
Guarded  == {"WRSR", "PP", "QPP", "BULK_ERASE", "SECTOR_ERASE"}
Reading  == {"SLOW_READ", "FAST_READ", "DUAL_READ_CMD", "QUAD_READ_CMD", "DUAL_READ", "QUAD_READ"}
Answers  == {"RDSR", "RDCR", "RDID", "CLSR", "RELEASE"}
State    == ReadIdle \cup Guarded \cup Reading \cup Answers \cup {"IDLE", "INVALID"}
(* "NOP" is 0x50, 0x61 and 0x70, "RESET" 0x00, 0x31 and 0xff, "WRECR" 0x81. *)
Command  == Guarded \cup Answers \cup {"SLOW_READ", "FAST_READ", "DUAL_READ_CMD", "QUAD_READ_CMD",
             "WREN", "WRDI", "DEEP_POWER_DOWN", "NOP", "RESET", "WRECR"}
ASSUME SentAssumption == Sent \subseteq Command

(* FLASHSIM(): erased, or loaded with a program; m_pmem is not initialised. *)
Init ==
  /\ m_mem \in [Addr -> Byte] /\ m_pmem \in [0..PAGE-1 -> Byte]
  /\ csn = TRUE /\ m_count = 0 /\ m_state = "IDLE" /\ m_mode = "SPI" /\ m_mode_byte = FALSE
  /\ m_addr = 0 /\ m_oreg = NoByte
  /\ wip = FALSE /\ wel = FALSE /\ dpd = FALSE /\ m_write_count = FALSE
  /\ start = NoAddress /\ data = <<>> /\ timer = "none"
-----------------------------------------------------------------------------
StartTimer(what) == m_write_count' = TRUE /\ timer' = what

(* The timer runs out at some clock: m_sreg &= 0x0fc.                      *)
Expire ==
  /\ m_write_count /\ m_write_count' = FALSE
  /\ wip' = FALSE /\ wel' = FALSE /\ dpd' = FALSE
  /\ UNCHANGED <<csn, m_count, m_state, pins, storage, m_addr, m_oreg, start, data, timer>>

Select ==
  /\ csn /\ csn' = FALSE
  /\ UNCHANGED <<m_count, m_state, pins, storage, m_addr, status, m_oreg, start, data>>

Clocked == ~csn /\ m_count < MAXBYTES /\ m_count' = m_count + 1 /\ UNCHANGED csn
n == m_count + 1             \* bytes of the transaction with this one

WritableWhileBusy == wel /\ ~dpd                      \* mutant of Writable
Writable == wel /\ ~wip /\ ~dpd                       \* 2 == (m_sreg & 0x203)

SleepyWhileBusy == TRUE                               \* mutant of MaySleep
MaySleep == ~wip

NextState(c) ==
  CASE c \in Guarded                           -> IF Writable THEN c ELSE "INVALID"
    [] c = "DEEP_POWER_DOWN"                   -> IF MaySleep THEN "IDLE" ELSE "INVALID"
    [] c \in {"WREN", "WRDI", "NOP", "RESET"}  -> "IDLE"
    [] c = "WRECR"                             -> m_state
    [] OTHER                                   -> c

(* The first byte.  Asleep, the chip only listens to RELEASE.              *)
CommandByte(c) ==
  /\ Clocked /\ n = 1 /\ m_state \notin ReadIdle
  /\ IF dpd /\ c # "RELEASE" THEN UNCHANGED <<m_state, m_mode, status>>
     ELSE /\ m_state' = NextState(c)
          /\ m_mode' = CASE c = "DUAL_READ_CMD" -> "DSPI" [] c = "QUAD_READ_CMD" -> "QSPI"
                         [] c = "RESET" -> "SPI" [] OTHER -> m_mode
          /\ wel' = CASE c = "WREN" -> TRUE [] c = "WRDI" -> FALSE [] OTHER -> wel
          /\ dpd' = CASE c = "RELEASE" -> FALSE [] c = "DEEP_POWER_DOWN" -> MaySleep [] OTHER -> dpd
          /\ IF c = "RELEASE" /\ dpd THEN StartTimer("RES") ELSE UNCHANGED <<m_write_count, timer>>
          /\ UNCHANGED wip
  /\ m_oreg' = NoByte
  /\ UNCHANGED <<m_mode_byte, storage, m_addr, start, data>>

(* m_mem[m_addr++]: the address is not masked, so that behind the last     *)
(* byte the chip reads whatever is there.                                  *)
ReadAgain(a) ==                                       \* mutant of ReadAt
  m_oreg' \in {m_mem[a]} /\ m_addr' = a /\ data' = Append(data, m_oreg')
ReadAt(a) ==
  /\ m_oreg' \in IF a \in Addr THEN {m_mem[a]} ELSE Byte
  /\ m_addr' = a + 1
  /\ data' = Append(data, m_oreg')
ReadNothing == m_oreg' = NoByte /\ UNCHANGED <<m_addr, data>>

EmptyPage == [i \in 0..PAGE-1 |-> ERASED]

(* The last byte of an address.                                            *)
AddressByte(a) ==
  /\ Clocked
  /\ \/ /\ n = 4 /\ m_state \in {"SLOW_READ", "FAST_READ", "DUAL_READ_CMD", "QUAD_READ_CMD",
                                "PP", "QPP", "SECTOR_ERASE"}
        /\ UNCHANGED m_state
     \/ n = 3 /\ m_state = "DUAL_READ_IDLE" /\ m_state' = "DUAL_READ"
     \/ n = 3 /\ m_state = "QUAD_READ_IDLE" /\ m_state' = "QUAD_READ"
  /\ IF m_state = "SLOW_READ" THEN ReadAt(a) ELSE m_addr' = a /\ m_oreg' = NoByte /\ UNCHANGED data
  /\ m_pmem' = IF m_state \in {"PP", "QPP"} THEN EmptyPage ELSE m_pmem
  /\ m_mode' = IF m_state = "QPP" THEN "QSPI" ELSE m_mode
  /\ start' = a
  /\ UNCHANGED <<m_mode_byte, m_mem, status>>

(* The byte behind the address of a dual or quad read says whether the     *)
(* next transaction is a read again, without a command.                    *)
ModeByteAt == CASE m_state \in {"DUAL_READ_CMD", "QUAD_READ_CMD"} -> 5
                [] m_state \in {"DUAL_READ", "QUAD_READ"}         -> 4
                [] OTHER                                          -> 0
ModeByte(continue) ==
  /\ Clocked /\ n = ModeByteAt
  /\ IF m_state = "DUAL_READ_CMD" /\ wip
     THEN ReadNothing /\ UNCHANGED m_mode_byte
     ELSE /\ m_mode_byte' = continue
          /\ IF m_state \in {"DUAL_READ_CMD", "DUAL_READ"} \/ NDUMMY = 2
             THEN ReadAt(m_addr) ELSE ReadNothing
  /\ UNCHANGED <<m_state, m_mode, storage, status, start>>

(* The other bytes of a read.                                              *)
FirstData == CASE m_state \in {"SLOW_READ", "FAST_READ"} -> 5
               [] m_state = "DUAL_READ_CMD"              -> 6
               [] m_state = "QUAD_READ_CMD"              -> 5 + NDUMMY \div 2
               [] m_state = "DUAL_READ"                  -> 2
               [] m_state = "QUAD_READ"                  -> 3 + NDUMMY \div 2
ReadByte ==
  /\ Clocked /\ n > 1 /\ m_state \in Reading
  /\ n # ModeByteAt /\ (n = 4 => m_state \in {"DUAL_READ", "QUAD_READ"})
  /\ IF n >= FirstData /\ (~wip \/ m_state = "DUAL_READ") THEN ReadAt(m_addr) ELSE ReadNothing
  /\ UNCHANGED <<m_state, pins, storage, status, start>>

NextAddress(a) == a + 1                               \* mutant of NextInPage
NextInPage(a) == ((a \div PAGE) * PAGE) + ((a + 1) % PAGE)
ProgramByte(v) ==
  /\ Clocked /\ n >= 5 /\ m_state \in {"PP", "QPP"}
  /\ m_pmem' = [m_pmem EXCEPT ![m_addr % PAGE] = v]
  /\ m_addr' = NextInPage(m_addr)
  /\ data' = Append(data, v) /\ m_oreg' = NoByte
  /\ UNCHANGED <<m_state, pins, m_mem, status, start>>

(* WRSR: the first byte behind the command drops WEL; a fourth one stops   *)
(* the simulation, and so does a second one of CLSR.                       *)
StatusByte ==
  /\ Clocked /\ m_state = "WRSR" /\ n \in {2, 3}
  /\ wel' = IF n = 2 THEN FALSE ELSE wel
  /\ m_oreg' = NoByte
  /\ UNCHANGED <<m_state, pins, storage, m_addr, wip, dpd, m_write_count, timer, start, data>>

OtherByte ==
  /\ Clocked
  /\ \/ n > 1 /\ m_state \in (Answers \ {"CLSR"}) \cup {"IDLE", "INVALID", "BULK_ERASE"}
     \/ n \in {2, 3} /\ m_state \in {"PP", "QPP", "SECTOR_ERASE"}
     \/ n > 4 /\ m_state = "SECTOR_ERASE"
     \/ n < 3 /\ m_state \in ReadIdle
  /\ m_oreg' = NoByte
  /\ UNCHANGED <<m_state, pins, storage, m_addr, status, start, data>>
-----------------------------------------------------------------------------
(* Chip select goes high: what the transaction asked for is done.          *)

Page(a)   == {b \in Addr : b \div PAGE = a \div PAGE}
Sector(a) == {b \in Addr : b \div SECTOR = a \div SECTOR}

Overwritten(a) == [b \in Addr |-> IF b \in Page(a) THEN m_pmem[b % PAGE] ELSE m_mem[b]]   \* mutant
Programmed(a)  == [b \in Addr |-> IF b \in Page(a) THEN m_mem[b] \cap m_pmem[b % PAGE] ELSE m_mem[b]]

Commit(what) ==
  /\ m_state' = "IDLE" /\ wip' = TRUE /\ wel' = FALSE /\ UNCHANGED dpd
  /\ StartTimer(what)

(* Whether a dual or quad read goes on decides on mode and state.          *)
OneIdle == "QUAD_READ_IDLE"                           \* mutant of IdleOf
IdleOf == CASE m_state \in {"QUAD_READ_CMD", "QUAD_READ"} -> "QUAD_READ_IDLE"
            [] m_state \in {"DUAL_READ_CMD", "DUAL_READ"} -> "DUAL_READ_IDLE"

Deselect ==
  /\ ~csn /\ csn' = TRUE /\ m_count' = 0 /\ m_oreg' = NoByte
  /\ \/ /\ m_state \in {"PP", "QPP"} /\ Commit("PP")
        /\ m_mem' = Programmed(m_addr) /\ m_mode' = "SPI" /\ UNCHANGED m_addr
     \/ /\ m_state = "SECTOR_ERASE" /\ Commit("SE")
        /\ m_addr' = (m_addr \div SECTOR) * SECTOR
        /\ m_mem' = [b \in Addr |-> IF b \in Sector(m_addr) THEN ERASED ELSE m_mem[b]]
        /\ UNCHANGED m_mode
     \/ m_state = "WRSR" /\ Commit("W") /\ UNCHANGED <<m_mem, m_mode, m_addr>>
     \/ /\ m_state = "BULK_ERASE" /\ Commit("BE")
        /\ m_mem' = [b \in Addr |-> ERASED] /\ UNCHANGED <<m_mode, m_addr>>
     \/ /\ m_state = "RELEASE" /\ m_state' = "IDLE" /\ StartTimer("RES")
        /\ UNCHANGED <<m_mem, m_mode, m_addr, wip, wel, dpd>>
     \/ /\ m_state \in Reading \ {"SLOW_READ", "FAST_READ"}
        /\ IF m_mode_byte THEN m_state' = IdleOf /\ UNCHANGED m_mode
           ELSE m_mode' = "SPI" /\ UNCHANGED m_state
        /\ UNCHANGED <<m_mem, m_addr, status>>
     \/ /\ m_state = "CLSR" /\ m_state' = "IDLE" /\ dpd' = FALSE
        /\ UNCHANGED <<m_mem, m_mode, m_addr, wip, wel, m_write_count, timer>>
     \/ /\ m_state \in ReadIdle \cup (Answers \ {"RELEASE", "CLSR"})
                       \cup {"SLOW_READ", "FAST_READ", "IDLE", "INVALID"}
        /\ UNCHANGED <<m_state, m_mem, m_mode, m_addr, status>>
  /\ start' = NoAddress /\ data' = <<>>
  /\ UNCHANGED <<m_mode_byte, m_pmem>>

Next ==
  \/ Expire \/ Select \/ Deselect
  \/ \E c \in Sent : CommandByte(c)
  \/ \E a \in Addr : AddressByte(a)
  \/ \E continue \in BOOLEAN : ModeByte(continue)
  \/ ReadByte \/ StatusByte \/ OtherByte
  \/ \E v \in Byte : ProgramByte(v)

Spec == Init /\ [][Next]_vars
-----------------------------------------------------------------------------
FlashTypeOK ==
  /\ csn \in BOOLEAN /\ m_count \in 0..MAXBYTES
  /\ m_state \in State /\ m_mode \in {"SPI", "DSPI", "QSPI"} /\ m_mode_byte \in BOOLEAN
  /\ m_mem \in [Addr -> Byte] /\ m_pmem \in [0..PAGE-1 -> Byte] /\ m_addr \in Nat
  /\ wip \in BOOLEAN /\ wel \in BOOLEAN /\ dpd \in BOOLEAN /\ m_write_count \in BOOLEAN
  /\ m_oreg \in Byte \cup {NoByte} /\ start \in Addr \cup {NoAddress} /\ data \in Seq(Byte)
  /\ timer \in {"none", "RES", "PP", "SE", "W", "BE"}

(* The work is done at the rising chip select, so none is left behind it,  *)
(* nor any when the next command begins.                                   *)
WorkUnderSelect == m_state \in Guarded => ~csn /\ m_count > 0 /\ ~dpd /\ ~wip

(* A busy chip has its timer running, so that it does not stay busy, and   *)
(* neither flag of the status register outlives the wrong job: a chip that *)
(* sleeps is not busy, and only a RELEASE can have left a timer running.   *)
TimerForFlags ==
  /\ wip => m_write_count
  /\ dpd => ~wip /\ m_state = "IDLE"
  /\ m_write_count /\ ~wip => timer = "RES"

FlashInv == FlashTypeOK /\ WorkUnderSelect /\ TimerForFlags

(* What the code asserts before the address of a read without a command    *)
(* (flashsim.cpp 281-283, 293-295): the chip is awake, and still counts in *)
(* the mode of that read.  It holds for a controller that sends no 0x81,   *)
(* which leaves the state of the last read as it is but not the mode.      *)
ReadIdleAsserts ==
  m_state \in ReadIdle =>
    ~dpd /\ m_mode = IF m_state = "QUAD_READ_IDLE" THEN "QSPI" ELSE "DSPI"

(* Sleep ends with a RELEASE, or when the time of an earlier one is over:  *)
(* never with the end of a program or erase cycle.                         *)
SleepEndsByRelease ==
  [][dpd /\ ~dpd' => m_state' = "RELEASE" \/ (m_write_count /\ ~m_write_count' /\ timer = "RES")]_vars

(* The bytes of a read are those from its address on, none left out and     *)
(* none twice, even of a read that began while the chip was busy.          *)
ReadsContent ==
  m_state \in Reading /\ start # NoAddress =>
    \A i \in DOMAIN data : start + i - 1 \in Addr => data[i] = m_mem[start + i - 1]

(* A page program whose address was complete changes the page of that      *)
(* address only, and there clears in each byte the zeros of the last byte  *)
(* sent to it, the bytes behind the end of the page wrapping to its start. *)
SentTo(b) == {i \in DOMAIN data : (start + i - 1) % PAGE = b % PAGE}
PageProgrammed ==
  [][~csn /\ csn' /\ m_state \in {"PP", "QPP"} /\ start # NoAddress =>
       \A b \in Addr :
         IF b \div PAGE = start \div PAGE /\ SentTo(b) # {}
         THEN \E i \in SentTo(b) : (\A j \in SentTo(b) : j <= i) /\ m_mem'[b] = m_mem[b] \cap data[i]
         ELSE m_mem'[b] = m_mem[b]]_vars

(* The job a command has begun, for the flash every program relies on.     *)
JobOf == CASE m_state \in {"PP", "QPP"}  -> "program"
           [] m_state = "SECTOR_ERASE"   -> "erase sector"
           [] m_state = "BULK_ERASE"     -> "erase all"
           [] m_state = "WRSR"           -> "write status"
           [] OTHER                      -> "none"
Nor == INSTANCE NorFlash
         WITH content <- m_mem, enabled <- wel, busy <- wip, asleep <- dpd, job <- JobOf
ImplementsNor == Nor!NorSpec
=============================================================================
