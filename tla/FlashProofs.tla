----------------------------- MODULE FlashProofs -----------------------------
(***************************************************************************)
(* Proofs about the archived flash chip, for every size of memory, page    *)
(* and sector, and every number of dummy clocks; and, at the end, about    *)
(* the flash reader of the processor, when it answers and with what, for   *)
(* every width of the addresses and every image.                           *)
(***************************************************************************)
EXTENDS FlashSim, FlashReader, Integers, WellFoundedInduction, TLAPS

USE SizeAssumption, SentAssumption

-----------------------------------------------------------------------------
(* The invariant.                                                          *)

LEMMA PageArithmetic ==
  ASSUME NEW a \in Nat
  PROVE  a % PAGE \in 0..PAGE-1 /\ NextInPage(a) \in Nat /\ (a \div SECTOR) * SECTOR \in Nat
<1>1. a % PAGE \in 0..PAGE-1 /\ (a + 1) % PAGE \in 0..PAGE-1 OBVIOUS
<1>2. a \div PAGE \in Nat /\ a \div SECTOR \in Nat OBVIOUS
<1>3. \A p, q \in Nat : p * q \in Nat OBVIOUS
<1> QED BY <1>1, <1>2, <1>3 DEF NextInPage

(* Every byte ends in a state, whatever the controller sends.              *)
LEMMA NextStateIsState ==
  ASSUME FlashTypeOK, NEW c \in Sent
  PROVE  NextState(c) \in State
BY DEF NextState, State, Command, Guarded, Answers, Reading, ReadIdle, FlashTypeOK

(* Reading a byte, and reading none.                                       *)
LEMMA ReadType ==
  ASSUME FlashTypeOK, NEW a \in Nat, ReadAt(a) \/ ReadNothing
  PROVE  m_addr' \in Nat /\ m_oreg' \in Byte \cup {NoByte} /\ data' \in Seq(Byte)
<1>1. CASE ReadAt(a)
  <2>1. m_oreg' \in Byte BY <1>1 DEF ReadAt, FlashTypeOK
  <2> QED BY <1>1, <2>1 DEF ReadAt, FlashTypeOK
<1>2. CASE ReadNothing BY <1>2 DEF ReadNothing, FlashTypeOK
<1> QED BY <1>1, <1>2

LEMMA InitInv == Init => FlashInv
<1> SUFFICES ASSUME Init PROVE FlashInv OBVIOUS
<1>1. FlashTypeOK
  <2>1. m_count \in 0..MAXBYTES /\ m_addr \in Nat /\ start \in Addr \cup {NoAddress} BY DEF Init
  <2>2. data \in Seq(Byte) BY DEF Init
  <2>3. m_state \in State BY DEF Init, State
  <2> QED BY <2>1, <2>2, <2>3 DEF Init, FlashTypeOK
<1> QED BY <1>1 DEF Init, FlashInv, WorkUnderSelect, TimerForFlags, Guarded

LEMMA StepInv == FlashInv /\ [Next]_vars => FlashInv'
<1> SUFFICES ASSUME FlashInv, [Next]_vars PROVE FlashInv' OBVIOUS
<1> USE DEF FlashInv
<1>1. CASE Expire
  BY <1>1 DEF Expire, FlashTypeOK, WorkUnderSelect, TimerForFlags, pins, storage
<1>2. CASE Select
  <2>1. FlashTypeOK'
    <3>1. /\ UNCHANGED <<m_count, m_state, m_addr, m_oreg, start, data>>
          /\ UNCHANGED pins /\ UNCHANGED storage /\ UNCHANGED status /\ csn' = FALSE
      BY <1>2 DEF Select
    <3>2. /\ m_mode' = m_mode /\ m_mode_byte' = m_mode_byte /\ m_mem' = m_mem /\ m_pmem' = m_pmem
          /\ wip' = wip /\ wel' = wel /\ dpd' = dpd /\ m_write_count' = m_write_count /\ timer' = timer
      BY <3>1 DEF pins, storage, status
    <3> QED BY ZenonT(40), <3>1, <3>2 DEF FlashTypeOK
  <2>2. WorkUnderSelect' /\ TimerForFlags'
    BY <1>2 DEF Select, WorkUnderSelect, TimerForFlags, status
  <2> QED BY <2>1, <2>2
<1>3. CASE Deselect
  <2>1. FlashTypeOK'
    <3>1. csn' \in BOOLEAN /\ m_count' \in 0..MAXBYTES /\ m_oreg' \in Byte \cup {NoByte}
          /\ m_mode_byte' \in BOOLEAN /\ m_pmem' \in [0..PAGE-1 -> Byte]
          /\ start' \in Addr \cup {NoAddress} /\ data' \in Seq(Byte)
      BY <1>3 DEF Deselect, FlashTypeOK
    <3>2. m_mem' \in [Addr -> Byte]
      <4>1. Programmed(m_addr) \in [Addr -> Byte]
        <5>1. \A b \in Addr : b % PAGE \in 0..PAGE-1 BY DEF Addr
        <5> QED BY <5>1 DEF Programmed, FlashTypeOK, Byte
      <4> QED BY <1>3, <4>1 DEF Deselect, FlashTypeOK, ERASED, Byte
    <3>3. m_addr' \in Nat BY <1>3, PageArithmetic DEF Deselect, FlashTypeOK
    <3>4. m_state' \in State /\ m_mode' \in {"SPI", "DSPI", "QSPI"}
      BY <1>3 DEF Deselect, FlashTypeOK, State, Commit, IdleOf, Reading, ReadIdle
    <3>5. wip' \in BOOLEAN /\ wel' \in BOOLEAN /\ dpd' \in BOOLEAN /\ m_write_count' \in BOOLEAN
          /\ timer' \in {"none", "RES", "PP", "SE", "W", "BE"}
      BY <1>3 DEF Deselect, FlashTypeOK, Commit, StartTimer, status
    <3> QED BY <3>1, <3>2, <3>3, <3>4, <3>5 DEF FlashTypeOK
  <2>2. WorkUnderSelect'
    BY <1>3 DEF Deselect, WorkUnderSelect, Commit, IdleOf, Guarded, Reading, ReadIdle, Answers
  <2>3. TimerForFlags'
    BY <1>3 DEF Deselect, TimerForFlags, WorkUnderSelect, Commit, StartTimer, IdleOf, Guarded,
                Reading, ReadIdle, Answers, status
  <2> QED BY <2>1, <2>2, <2>3
<1>4. ASSUME NEW c \in Sent, CommandByte(c) PROVE FlashInv'
  <2>1. FlashTypeOK'
    <3>1. m_state' \in State BY <1>4, NextStateIsState DEF CommandByte, FlashTypeOK
    <3>2. wip' \in BOOLEAN /\ wel' \in BOOLEAN /\ dpd' \in BOOLEAN /\ m_write_count' \in BOOLEAN
          /\ timer' \in {"none", "RES", "PP", "SE", "W", "BE"}
      BY <1>4 DEF CommandByte, FlashTypeOK, StartTimer, status, MaySleep
    <3>3. m_mode' \in {"SPI", "DSPI", "QSPI"} BY <1>4 DEF CommandByte, FlashTypeOK
    <3>4. m_count' \in 0..MAXBYTES /\ csn' \in BOOLEAN BY <1>4 DEF CommandByte, Clocked, FlashTypeOK
    <3> QED BY <1>4, <3>1, <3>2, <3>3, <3>4 DEF CommandByte, FlashTypeOK, storage
  <2>2. csn' = csn /\ m_count = 0 /\ m_count' = 1 /\ m_state \notin Guarded
    <3>1. csn' = csn /\ m_count' = m_count + 1 /\ m_count + 1 = 1 BY <1>4 DEF CommandByte, Clocked, n
    <3>2. m_count = 0 BY <3>1 DEF FlashTypeOK
    <3> QED BY <3>1, <3>2 DEF WorkUnderSelect
  <2>3. CASE dpd /\ c # "RELEASE"
    BY <1>4, <2>1, <2>2, <2>3 DEF CommandByte, status, WorkUnderSelect, TimerForFlags, FlashTypeOK
  <2>4. CASE ~(dpd /\ c # "RELEASE")
    <3>1. /\ m_state' = NextState(c) /\ ~csn /\ wip' = wip
          /\ dpd' = CASE c = "RELEASE" -> FALSE [] c = "DEEP_POWER_DOWN" -> MaySleep [] OTHER -> dpd
          /\ IF c = "RELEASE" /\ dpd THEN StartTimer("RES") ELSE UNCHANGED <<m_write_count, timer>>
      BY <1>4, <2>4 DEF CommandByte, Clocked
    <3>2. dpd' => c = "DEEP_POWER_DOWN" /\ ~wip /\ m_state' = "IDLE"
      BY <2>4, <3>1 DEF MaySleep, NextState, Guarded
    <3>3. m_state' \in Guarded => c \in Guarded /\ ~wip /\ ~dpd
      BY <2>2, <3>1 DEF NextState, Writable, Guarded
    <3>4. c \in Guarded => c # "DEEP_POWER_DOWN" BY DEF Guarded
    <3>5. WorkUnderSelect' BY <2>2, <3>1, <3>2, <3>3, <3>4 DEF WorkUnderSelect
    <3>6. TimerForFlags' BY <2>2, <3>1, <3>2 DEF TimerForFlags, StartTimer
    <3> QED BY <2>1, <3>5, <3>6
  <2> QED BY <2>1, <2>3, <2>4
<1>5. ASSUME NEW a \in Addr, AddressByte(a) PROVE FlashInv'
  <2>1. FlashTypeOK'
    <3>1. a \in Nat BY DEF Addr
    <3>2. m_addr' \in Nat /\ m_oreg' \in Byte \cup {NoByte} /\ data' \in Seq(Byte)
      BY <1>5, <3>1, ReadType DEF AddressByte, FlashTypeOK
    <3>3. m_pmem' \in [0..PAGE-1 -> Byte] BY <1>5 DEF AddressByte, FlashTypeOK, EmptyPage, ERASED, Byte
    <3> QED BY <1>5, <3>2, <3>3 DEF AddressByte, Clocked, FlashTypeOK, State, Reading, status
  <2>2. WorkUnderSelect' /\ TimerForFlags'
    BY <1>5 DEF AddressByte, Clocked, WorkUnderSelect, TimerForFlags, Guarded, FlashTypeOK, status
  <2> QED BY <2>1, <2>2
<1>6. ASSUME NEW continue \in BOOLEAN, ModeByte(continue) PROVE FlashInv'
  <2>1. m_addr' \in Nat /\ m_oreg' \in Byte \cup {NoByte} /\ data' \in Seq(Byte)
    BY <1>6, ReadType DEF ModeByte, FlashTypeOK
  <2> QED BY <1>6, <2>1 DEF ModeByte, Clocked, FlashTypeOK, WorkUnderSelect, TimerForFlags, storage, status
<1>7. CASE ReadByte
  <2>1. m_addr' \in Nat /\ m_oreg' \in Byte \cup {NoByte} /\ data' \in Seq(Byte)
    BY <1>7, ReadType DEF ReadByte, FlashTypeOK
  <2> QED BY <1>7, <2>1 DEF ReadByte, Clocked, FlashTypeOK, WorkUnderSelect, TimerForFlags, pins, storage, status
<1>8. CASE StatusByte
  BY <1>8 DEF StatusByte, Clocked, FlashTypeOK, WorkUnderSelect, TimerForFlags, pins, storage
<1>9. CASE OtherByte
  BY <1>9 DEF OtherByte, Clocked, FlashTypeOK, WorkUnderSelect, TimerForFlags, pins, storage, status
<1>10. ASSUME NEW v \in Byte, ProgramByte(v) PROVE FlashInv'
  <2>1. m_addr' \in Nat /\ m_pmem' \in [0..PAGE-1 -> Byte]
    BY <1>10, PageArithmetic DEF ProgramByte, FlashTypeOK
  <2> QED BY <1>10, <2>1 DEF ProgramByte, Clocked, FlashTypeOK, WorkUnderSelect, TimerForFlags, pins, status
<1>11. CASE UNCHANGED vars
  BY <1>11 DEF vars, FlashTypeOK, WorkUnderSelect, TimerForFlags, pins, storage, status
<1> QED BY <1>1, <1>2, <1>3, <1>4, <1>5, <1>6, <1>7, <1>8, <1>9, <1>10, <1>11 DEF Next

(* The status register, the timer and the state machine of the chip fit    *)
(* together in every state (FlashInv): flashsim.cpp 158-248 and 303-451.   *)
THEOREM FlashInvariant == Spec => []FlashInv
BY InitInv, StepInv, PTL DEF Spec

(* Sleep ends with a RELEASE or with the timer that one has started.       *)
LEMMA SleepStep ==
  ASSUME FlashInv, [Next]_vars, dpd, ~dpd'
  PROVE  m_state' = "RELEASE" \/ (m_write_count /\ ~m_write_count' /\ timer = "RES")
<1> USE DEF FlashInv
<1>1. ~wip /\ m_state = "IDLE" /\ (m_write_count => timer = "RES") BY DEF TimerForFlags
<1>2. CASE Expire BY <1>1, <1>2 DEF Expire
<1>3. CASE Select BY <1>3 DEF Select, status
<1>4. CASE Deselect BY <1>1, <1>4 DEF Deselect, Reading, Answers, ReadIdle, status
<1>5. ASSUME NEW c \in Sent, CommandByte(c) PROVE m_state' = "RELEASE"
  <2>1. CASE c = "RELEASE"
    BY <1>5, <2>1 DEF CommandByte, NextState, Guarded
  <2>2. CASE c # "RELEASE" BY <1>5, <2>2 DEF CommandByte, status
  <2> QED BY <2>1, <2>2
<1>6. ASSUME NEW a \in Addr, AddressByte(a) PROVE FALSE BY <1>1, <1>6 DEF AddressByte
<1>7. ASSUME NEW continue \in BOOLEAN, ModeByte(continue) PROVE FALSE BY <1>7 DEF ModeByte, status
<1>8. CASE ReadByte BY <1>8 DEF ReadByte, status
<1>9. CASE StatusByte BY <1>9 DEF StatusByte
<1>10. CASE OtherByte BY <1>10 DEF OtherByte, status
<1>11. ASSUME NEW v \in Byte, ProgramByte(v) PROVE FALSE BY <1>11 DEF ProgramByte, status
<1>12. CASE UNCHANGED vars BY <1>12 DEF vars, status
<1> QED BY <1>2, <1>3, <1>4, <1>5, <1>6, <1>7, <1>8, <1>9, <1>10, <1>11, <1>12 DEF Next

(* The end of a program or erase cycle never wakes the chip, although the  *)
(* same line clears the flags of both (flashsim.cpp 158-164).              *)
THEOREM SleepGuarded == Spec => SleepEndsByRelease
<1>1. FlashInv /\ [Next]_vars =>
        [dpd /\ ~dpd' => m_state' = "RELEASE" \/ (m_write_count /\ ~m_write_count' /\ timer = "RES")]_vars
  BY SleepStep
<1> QED BY <1>1, FlashInvariant, PTL DEF Spec, SleepEndsByRelease
-----------------------------------------------------------------------------
(* The mode of a read without a command.                                   *)

QuadRead == {"QUAD_READ_CMD", "QUAD_READ"}
DualRead == {"DUAL_READ_CMD", "DUAL_READ"}

(* A dual or quad read counts in its mode from its first byte on; before   *)
(* it, only a chip that does not go on with the read can be in another one.*)
ReadMode ==
  /\ m_state \in QuadRead => m_mode = "QSPI" \/ (~m_mode_byte /\ m_count = 0)
  /\ m_state \in DualRead => m_mode = "DSPI" \/ (~m_mode_byte /\ m_count = 0)
  /\ m_state \in ReadIdle => m_mode = IF m_state = "QUAD_READ_IDLE" THEN "QSPI" ELSE "DSPI"
  /\ m_count \in Nat

LEMMA ReadModeStep ==
  ASSUME "WRECR" \notin Sent, FlashInv, ReadMode, [Next]_vars
  PROVE  ReadMode'
<1> USE DEF ReadMode, QuadRead, DualRead, ReadIdle
<1>1. CASE Expire BY <1>1 DEF Expire, pins
<1>2. CASE Select BY <1>2 DEF Select, pins
<1>3. CASE Deselect
  BY <1>3 DEF Deselect, Commit, IdleOf, Reading, Answers
<1>4. ASSUME NEW c \in Sent, CommandByte(c) PROVE ReadMode'
  <2>1. m_count' = 1 BY <1>4 DEF CommandByte, Clocked, n
  <2>2. CASE dpd /\ c # "RELEASE"
    BY <1>4, <2>1, <2>2 DEF CommandByte, FlashInv, TimerForFlags
  <2>3. CASE ~(dpd /\ c # "RELEASE")
    <3>1. m_state' = NextState(c)
          /\ m_mode' = CASE c = "DUAL_READ_CMD" -> "DSPI" [] c = "QUAD_READ_CMD" -> "QSPI"
                         [] c = "RESET" -> "SPI" [] OTHER -> m_mode
      BY <1>4, <2>3 DEF CommandByte
    <3>2. m_state' \in QuadRead \cup DualRead \cup ReadIdle => m_state' = c /\ c # "RESET"
      BY <3>1 DEF NextState, Guarded
    <3>3. c \notin {"QUAD_READ", "DUAL_READ", "QUAD_READ_IDLE", "DUAL_READ_IDLE"}
      BY DEF Command, Guarded, Answers
    <3> QED BY <2>1, <3>1, <3>2, <3>3
  <2> QED BY <2>2, <2>3
<1>5. ASSUME NEW a \in Addr, AddressByte(a) PROVE ReadMode'
  BY <1>5 DEF AddressByte, Clocked, n
<1>6. ASSUME NEW continue \in BOOLEAN, ModeByte(continue) PROVE ReadMode'
  <2>1. m_count > 0 /\ m_count' \in Nat BY <1>6 DEF ModeByte, ModeByteAt, Clocked, n
  <2> QED BY <1>6, <2>1 DEF ModeByte
<1>7. CASE ReadByte BY <1>7 DEF ReadByte, Clocked, n, pins
<1>8. CASE StatusByte BY <1>8 DEF StatusByte, Clocked, pins
<1>9. CASE OtherByte BY <1>9 DEF OtherByte, Clocked, n, pins, Answers
<1>10. ASSUME NEW v \in Byte, ProgramByte(v) PROVE ReadMode' BY <1>10 DEF ProgramByte, Clocked, pins
<1>11. CASE UNCHANGED vars BY <1>11 DEF vars, pins
<1> QED BY <1>1, <1>2, <1>3, <1>4, <1>5, <1>6, <1>7, <1>8, <1>9, <1>10, <1>11 DEF Next

(* The assertions at flashsim.cpp 281-283 and 293-295 hold for every       *)
(* controller that sends no 0x81.                                          *)
THEOREM ReadIdleAssertsHold ==
  ASSUME "WRECR" \notin Sent
  PROVE  Spec => []ReadIdleAsserts
<1>1. Init => ReadMode BY DEF Init, ReadMode, QuadRead, DualRead, ReadIdle
<1>2. FlashInv /\ ReadMode /\ [Next]_vars => ReadMode' BY ReadModeStep
<1>3. FlashInv /\ ReadMode => ReadIdleAsserts
  BY DEF FlashInv, TimerForFlags, ReadMode, ReadIdleAsserts, ReadIdle
<1> QED BY <1>1, <1>2, <1>3, FlashInvariant, PTL DEF Spec
-----------------------------------------------------------------------------
(* What a read sends.                                                      *)

(* No byte of a transaction is kept before its address is complete, and    *)
(* then as many as the address counter has moved.                          *)
Addressed == {"SLOW_READ", "FAST_READ", "DUAL_READ_CMD", "QUAD_READ_CMD"}
NothingYet ==
  /\ m_count = 0 => start = NoAddress /\ data = <<>>
  /\ m_state \in Addressed /\ m_count < 4 => data = <<>>
  /\ m_state \in ReadIdle => data = <<>>
  /\ m_state \in Reading /\ start # NoAddress => start + Len(data) = m_addr

ReadInv == NothingYet /\ ReadsContent

(* One more byte of a read that has its address.                           *)
LEMMA OneMore ==
  ASSUME FlashTypeOK, ReadInv, m_state \in Reading, m_state' = m_state, m_mem' = m_mem, start' = start,
         ReadAt(m_addr) \/ ReadNothing, m_count' \in Nat \ {0}, m_count' > 3 \/ m_state \notin Addressed
  PROVE  ReadInv'
<1> USE DEF ReadInv, NothingYet, ReadsContent, FlashTypeOK
<1>1. CASE ReadNothing BY <1>1 DEF ReadNothing, Reading, ReadIdle, Addressed
<1>2. CASE ReadAt(m_addr)
  <2>1. /\ data' = Append(data, m_oreg') /\ m_addr' = m_addr + 1 /\ m_oreg' \in Byte
        /\ m_addr \in Addr => m_oreg' = m_mem[m_addr]
    BY <1>2 DEF ReadAt
  <2>2. Len(data') = Len(data) + 1 /\ (\A i \in 1..Len(data) : data'[i] = data[i])
        /\ data'[Len(data) + 1] = m_oreg' /\ DOMAIN data' = 1..(Len(data) + 1) /\ Len(data) \in Nat
        /\ DOMAIN data = 1..Len(data)
    BY <2>1
  <2>3. NothingYet'
    <3>1. start # NoAddress => start + Len(data') = m_addr'
      <4>1. start # NoAddress => start \in Nat /\ start + Len(data) = m_addr BY DEF Addr
      <4> QED BY <2>1, <2>2, <4>1
    <3>2. m_state \notin ReadIdle BY DEF Reading, ReadIdle
    <3>3. ~(m_state \in Addressed /\ m_count' < 4) OBVIOUS
    <3> QED BY <3>1, <3>2, <3>3
  <2>4. ReadsContent'
    <3> SUFFICES ASSUME start # NoAddress, NEW i \in 1..(Len(data) + 1), start + i - 1 \in Addr
                 PROVE  data'[i] = m_mem[start + i - 1]
      BY <2>2
    <3>1. start \in Addr /\ start + Len(data) = m_addr OBVIOUS
    <3>2. CASE i \in 1..Len(data) BY <2>2, <3>2
    <3>3. CASE i = Len(data) + 1
      <4>1. start + i - 1 = m_addr BY <2>2, <3>1, <3>3 DEF Addr
      <4> QED BY <2>1, <2>2, <3>3, <4>1
    <3> QED BY <2>2, <3>2, <3>3
  <2> QED BY <2>3, <2>4
<1> QED BY <1>1, <1>2

LEMMA ReadStep ==
  ASSUME FlashTypeOK, ReadInv, [Next]_vars
  PROVE  ReadInv'
<1> USE DEF ReadInv, FlashTypeOK
<1>1. CASE Expire BY <1>1 DEF Expire, NothingYet, ReadsContent, storage
<1>2. CASE Select BY <1>2 DEF Select, NothingYet, ReadsContent, storage
<1>3. CASE Deselect BY <1>3 DEF Deselect, NothingYet, ReadsContent
<1>4. ASSUME NEW c \in Sent, CommandByte(c) PROVE ReadInv'
  <2>1. m_count' = m_count + 1 /\ m_count + 1 = 1 /\ start' = start /\ data' = data
    BY <1>4 DEF CommandByte, Clocked, n
  <2>2. m_count = 0 BY <2>1
  <2>3. m_count' = 1 /\ start' = NoAddress /\ data' = <<>> BY <2>1, <2>2 DEF NothingYet
  <2>4. NothingYet' BY <2>3 DEF NothingYet
  <2>5. ReadsContent' BY <2>3 DEF ReadsContent
  <2> QED BY <2>4, <2>5
<1>5. ASSUME NEW a \in Addr, AddressByte(a) PROVE ReadInv'
  <2>1. m_count' >= 3 /\ start' = a /\ m_mem' = m_mem /\ m_state' \notin ReadIdle /\ a \in Nat
    BY <1>5 DEF AddressByte, Clocked, n, storage, ReadIdle, Addr
  <2>2. m_state' \in Reading => data = <<>> /\ (m_state' \in Addressed => m_count' = 4)
    BY <1>5 DEF AddressByte, Clocked, n, NothingYet, Addressed, Reading, ReadIdle
  <2>3. CASE m_state = "SLOW_READ"
    <3>1. data' = <<m_mem[a]>> /\ m_addr' = a + 1 /\ m_state' = m_state /\ m_count' = 4
      BY <1>5, <2>2, <2>3 DEF AddressByte, ReadAt, Clocked, n, Reading, ReadIdle
    <3>2. Len(data') = 1 /\ DOMAIN data' = {1} /\ data'[1] = m_mem[a] BY <3>1
    <3>3. NothingYet' BY <2>1, <2>3, <3>1, <3>2 DEF NothingYet
    <3>4. ReadsContent' BY <2>1, <3>2 DEF ReadsContent
    <3> QED BY <3>3, <3>4
  <2>4. CASE m_state # "SLOW_READ"
    <3>1. data' = data /\ m_addr' = a BY <1>5, <2>4 DEF AddressByte
    <3>2. m_state' \in Addressed => m_state' \in Reading BY DEF Addressed, Reading
    <3>3. m_state' \in Reading => data' = <<>> /\ Len(data') = 0 /\ DOMAIN data' = {} BY <2>2, <3>1
    <3>4. NothingYet'
      <4>1. m_count' # 0 /\ m_state' \notin ReadIdle BY <2>1
      <4>2. m_state' \in Reading => start' + Len(data') = m_addr' BY <2>1, <3>1, <3>3
      <4>3. ~(m_state' \in Addressed /\ m_count' < 4) BY <2>2, <3>2
      <4> HIDE DEF FlashTypeOK, ReadInv
      <4> QED BY <4>1, <4>2, <4>3 DEF NothingYet
    <3> QED BY <3>3, <3>4 DEF ReadsContent
  <2> QED BY <2>3, <2>4
<1>6. ASSUME NEW continue \in BOOLEAN, ModeByte(continue) PROVE ReadInv'
  <2>1. m_count' \in Nat /\ m_count' = ModeByteAt /\ m_count' > 0
        /\ m_state' = m_state /\ m_mem' = m_mem /\ start' = start
    BY <1>6 DEF ModeByte, Clocked, n, storage
  <2>2. m_state \in Reading /\ m_count' > 3
    <3> HIDE DEF FlashTypeOK, ReadInv
    <3> QED BY <2>1 DEF ModeByteAt, Reading
  <2>3. ReadAt(m_addr) \/ ReadNothing BY <1>6 DEF ModeByte
  <2> QED BY <2>1, <2>2, <2>3, OneMore
<1>7. CASE ReadByte
  <2>1. m_state \in Reading /\ m_count' \in Nat /\ m_count' > 1 /\ m_state' = m_state /\ m_mem' = m_mem /\ start' = start
    BY <1>7 DEF ReadByte, Clocked, n, storage
  <2>2. m_state \in Addressed /\ m_count' < 4 => ReadNothing
    <3> SUFFICES ASSUME m_state \in Addressed, m_count' < 4 PROVE ReadNothing OBVIOUS
    <3>1. n \in Nat /\ n < 4 BY <1>7 DEF ReadByte, Clocked, n
    <3> HIDE DEF FlashTypeOK, ReadInv, n
    <3>2. FirstData \in Nat /\ FirstData >= 5
      <4>1. CASE m_state \in {"SLOW_READ", "FAST_READ"} BY <4>1 DEF FirstData
      <4>2. CASE m_state = "DUAL_READ_CMD" BY <4>2 DEF FirstData
      <4>3. CASE m_state = "QUAD_READ_CMD"
        <5>1. FirstData = 5 + NDUMMY \div 2 BY <4>3 DEF FirstData
        <5>2. NDUMMY \div 2 \in Nat OBVIOUS
        <5> QED BY <5>1, <5>2
      <4> QED BY <4>1, <4>2, <4>3 DEF Addressed
    <3>3. ~(n >= FirstData) BY <3>1, <3>2
    <3> QED BY <1>7, <3>3 DEF ReadByte
  <2>3. CASE m_count' > 3 \/ m_state \notin Addressed
    <3>1. ReadAt(m_addr) \/ ReadNothing BY <1>7 DEF ReadByte
    <3> QED BY <2>1, <2>3, <3>1, OneMore
  <2>4. CASE ~(m_count' > 3 \/ m_state \notin Addressed)
    <3>1. m_addr' = m_addr /\ data' = data /\ m_count' \in Nat /\ m_count' < 4 /\ m_count < 4
      BY <1>7, <2>2, <2>4 DEF ReadByte, Clocked, n, ReadNothing
    <3> QED BY <2>1, <2>4, <3>1 DEF NothingYet, ReadsContent
  <2> QED BY <2>3, <2>4
<1>8. CASE StatusByte
  BY <1>8 DEF StatusByte, Clocked, n, NothingYet, ReadsContent, storage, Reading, ReadIdle, Addressed
<1>9. CASE OtherByte
  BY <1>9 DEF OtherByte, Clocked, n, NothingYet, ReadsContent, storage, Reading, ReadIdle, Addressed, Answers
<1>10. ASSUME NEW v \in Byte, ProgramByte(v) PROVE ReadInv'
  BY <1>10 DEF ProgramByte, Clocked, n, NothingYet, ReadsContent, Reading, ReadIdle, Addressed
<1>11. CASE UNCHANGED vars BY <1>11 DEF vars, NothingYet, ReadsContent, storage
<1> QED BY <1>1, <1>2, <1>3, <1>4, <1>5, <1>6, <1>7, <1>8, <1>9, <1>10, <1>11 DEF Next

(* A read sends the bytes from its address on, in order, whichever of the  *)
(* six kinds of read it is (flashsim.cpp 502-588).                         *)
THEOREM ReadsAreExact == Spec => []ReadsContent
<1>1. Init => ReadInv
  BY DEF Init, ReadInv, NothingYet, ReadsContent, Reading, ReadIdle, Addressed
<1>2. FlashInv /\ ReadInv /\ [Next]_vars => ReadInv' BY ReadStep DEF FlashInv
<1>3. ReadInv => ReadsContent BY DEF ReadInv
<1> QED BY <1>1, <1>2, <1>3, FlashInvariant, PTL DEF Spec
-----------------------------------------------------------------------------
(* What a page program leaves.                                             *)

(* The quotient and the remainder are the only numbers that fit.           *)
LEMMA QuotientUnique ==
  ASSUME NEW a \in Nat, NEW b \in Nat \ {0}, NEW q \in Nat, NEW r \in Nat,
         r < b, b * q + r = a
  PROVE  a \div b = q /\ a % b = r
<1> DEFINE d == a \div b
           s == a % b
<1>1. d \in Nat /\ s \in 0..b-1 /\ a = b * d + s
  OBVIOUS
<1> HIDE DEF d, s
<1>2. \A e \in Nat : b * (1 + e) \in Nat /\ b * (1 + e) >= b
  <2>1. \A e \in Nat : b * e \in Nat /\ b * (1 + e) = b + b * e OBVIOUS
  <2> QED BY <2>1
<1>3. b * (q - d) = b * q - b * d /\ b * (d - q) = b * d - b * q /\ b * q \in Nat /\ b * d \in Nat
  BY <1>1
<1>4. ASSUME d < q PROVE FALSE
  <2>1. q - d - 1 \in Nat /\ 1 + (q - d - 1) = q - d BY <1>1, <1>4
  <2>2. b * (q - d) >= b BY <1>2, <2>1
  <2> QED BY <1>1, <1>3, <2>2
<1>5. ASSUME q < d PROVE FALSE
  <2>1. d - q - 1 \in Nat /\ 1 + (d - q - 1) = d - q BY <1>1, <1>5
  <2>2. b * (d - q) >= b BY <1>2, <2>1
  <2> QED BY <1>1, <1>3, <2>2
<1>6. d = q BY <1>1, <1>4, <1>5
<1> QED BY <1>1, <1>6 DEF d, s

(* The next place in a page is the one behind, or the first.               *)
LEMMA NextPlace ==
  ASSUME NEW a \in Nat
  PROVE  (a + 1) % PAGE = IF (a % PAGE) + 1 = PAGE THEN 0 ELSE (a % PAGE) + 1
<1> DEFINE q == a \div PAGE  r == a % PAGE
<1>1. q \in Nat /\ r \in 0..PAGE-1 /\ a = PAGE * q + r OBVIOUS
<1> HIDE DEF q, r
<1>2. PAGE * (q + 1) = PAGE * q + PAGE /\ PAGE * q \in Nat BY <1>1
<1>3. CASE r + 1 = PAGE
  <2>1. PAGE * (q + 1) + 0 = a + 1 /\ q + 1 \in Nat /\ a + 1 \in Nat BY <1>1, <1>2, <1>3
  <2>2. (a + 1) % PAGE = 0 BY <2>1, QuotientUnique
  <2> QED BY <1>3, <2>2 DEF r
<1>4. CASE r + 1 # PAGE
  <2>1. PAGE * q + (r + 1) = a + 1 /\ r + 1 \in Nat /\ r + 1 < PAGE /\ a + 1 \in Nat
    BY <1>1, <1>2, <1>4
  <2>2. (a + 1) % PAGE = r + 1 BY <1>1, <2>1, QuotientUnique
  <2> QED BY <1>4, <2>2 DEF r
<1> QED BY <1>3, <1>4

LEMMA StaysInPage ==
  ASSUME NEW a \in Nat
  PROVE  NextInPage(a) \div PAGE = a \div PAGE /\ NextInPage(a) % PAGE = (a + 1) % PAGE
<1> DEFINE q == a \div PAGE  r == (a + 1) % PAGE
<1>1. q \in Nat /\ r \in Nat /\ r < PAGE OBVIOUS
<1>2. NextInPage(a) = q * PAGE + r BY DEF NextInPage
<1> HIDE DEF q, r
<1>3. q * PAGE = PAGE * q /\ PAGE * q \in Nat BY <1>1
<1>4. NextInPage(a) \in Nat /\ PAGE * q + r = NextInPage(a) BY <1>1, <1>2, <1>3
<1>5. NextInPage(a) \div PAGE = q /\ NextInPage(a) % PAGE = r BY <1>1, <1>4, QuotientUnique
<1> QED BY <1>5 DEF q, r

(* Before the address there is no data; behind it the address counter is   *)
(* in the page of the address, as far on as there were bytes, and each     *)
(* place of the buffer has the last byte sent to it, or none.              *)
SentToPlace(p) == {i \in DOMAIN data : (start + i - 1) % PAGE = p}
Last(S, i)     == i \in S /\ \A j \in S : j <= i
Buffered ==
  \A p \in 0..PAGE-1 :
    /\ SentToPlace(p) = {} => m_pmem[p] = ERASED
    /\ SentToPlace(p) # {} => \E i \in DOMAIN data : Last(SentToPlace(p), i) /\ m_pmem[p] = data[i]
Programs == m_state \in {"PP", "QPP"}
ProgramInv ==
  /\ Programs /\ m_count < 4 => data = <<>>
  /\ Programs /\ start # NoAddress =>
       /\ m_addr \div PAGE = start \div PAGE
       /\ m_addr % PAGE = (start + Len(data)) % PAGE
       /\ Buffered

LEMMA ProgramAddress ==
  ASSUME FlashInv, ProgramInv, Programs, NEW a \in Addr, AddressByte(a)
  PROVE  ProgramInv'
<1>1. n = 4 /\ data' = <<>> /\ m_addr' = a /\ m_pmem' = EmptyPage /\ start' = a /\ m_count' = 4
  BY DEF AddressByte, Programs, Clocked, n, ProgramInv, FlashInv, FlashTypeOK
<1>2. a + Len(data') = a /\ DOMAIN data' = {} BY <1>1 DEF Addr
<1>3. Buffered' BY <1>1, <1>2 DEF Buffered, SentToPlace, EmptyPage
<1> QED BY <1>1, <1>2, <1>3 DEF ProgramInv

LEMMA ProgramOne ==
  ASSUME FlashInv, ProgramInv, NEW v \in Byte, ProgramByte(v)
  PROVE  ProgramInv'
<1> DEFINE k == Len(data) + 1  q == m_addr % PAGE
<1>1. /\ Programs /\ m_count' >= 5 /\ m_count' \in Nat /\ start' = start /\ m_state' = m_state
      /\ m_pmem' = [m_pmem EXCEPT ![q] = v] /\ m_addr' = NextInPage(m_addr) /\ data' = Append(data, v)
  BY DEF ProgramByte, Programs, Clocked, n, FlashInv, FlashTypeOK
<1>2. /\ data \in Seq(Byte) /\ m_addr \in Nat /\ start \in Addr \cup {NoAddress}
      /\ m_pmem \in [0..PAGE-1 -> Byte]
  BY DEF FlashInv, FlashTypeOK
<1>3. /\ Len(data) \in Nat /\ DOMAIN data = 1..Len(data) /\ Len(data') = k /\ DOMAIN data' = 1..k
      /\ (\A i \in 1..Len(data) : data'[i] = data[i]) /\ data'[k] = v
  BY <1>1, <1>2
<1>4. SUFFICES ASSUME start # NoAddress
               PROVE  /\ m_addr' \div PAGE = start \div PAGE
                      /\ m_addr' % PAGE = (start + Len(data')) % PAGE
                      /\ Buffered'
  BY <1>1 DEF ProgramInv, Programs
<1>5. /\ start \in Nat /\ m_addr \div PAGE = start \div PAGE
      /\ q = (start + Len(data)) % PAGE /\ Buffered /\ q \in 0..PAGE-1
  BY <1>1, <1>2, <1>4 DEF ProgramInv, Addr
<1>6. m_addr' \div PAGE = start \div PAGE /\ m_addr' % PAGE = (m_addr + 1) % PAGE
  BY <1>1, <1>2, <1>5, StaysInPage
<1>7. (start + k) % PAGE = (m_addr + 1) % PAGE
  <2>1. (m_addr + 1) % PAGE = IF q + 1 = PAGE THEN 0 ELSE q + 1 BY <1>2, NextPlace
  <2>2. start + Len(data) \in Nat /\ (start + Len(data)) + 1 = start + k
    <3>1. start \in Nat /\ Len(data) \in Nat BY <1>3, <1>5
    <3> QED BY <3>1
  <2>3. (start + k) % PAGE = IF q + 1 = PAGE THEN 0 ELSE q + 1 BY <1>5, <2>2, NextPlace
  <2> QED BY <2>1, <2>3
<1> HIDE DEF q
<1>8. ASSUME NEW p \in 0..PAGE-1
      PROVE  /\ SentToPlace(p)' = {} => m_pmem'[p] = ERASED
             /\ SentToPlace(p)' # {} =>
                  \E i \in 1..k : Last(SentToPlace(p)', i) /\ m_pmem'[p] = data'[i]
  <2>1. SentToPlace(p)' = SentToPlace(p) \cup IF q = p THEN {k} ELSE {}
    <3>1. SentToPlace(p)' = {i \in 1..k : (start + i - 1) % PAGE = p} BY <1>1, <1>3 DEF SentToPlace
    <3>2. SentToPlace(p) = {i \in 1..Len(data) : (start + i - 1) % PAGE = p} BY <1>3 DEF SentToPlace
    <3>3. start + k - 1 = start + Len(data) BY <1>3, <1>5
    <3>4. 1..k = 1..Len(data) \cup {k} /\ k \notin 1..Len(data) BY <1>3
    <3>5. (start + k - 1) % PAGE = q BY <1>5, <3>3
    <3> HIDE DEF k
    <3> QED BY <3>1, <3>2, <3>4, <3>5
  <2>2. SentToPlace(p) \subseteq 1..Len(data) BY <1>3 DEF SentToPlace
  <2>3. CASE q = p
    <3>1. m_pmem'[p] = data'[k] BY <1>1, <1>2, <1>3, <2>3
    <3>2. Last(SentToPlace(p)', k) BY <1>3, <2>1, <2>2, <2>3 DEF Last
    <3>3. k \in 1..k /\ SentToPlace(p)' # {} BY <1>3, <2>1, <2>3
    <3> QED BY <3>1, <3>2, <3>3
  <2>4. CASE q # p
    <3>1. m_pmem'[p] = m_pmem[p] /\ SentToPlace(p)' = SentToPlace(p) BY <1>1, <1>2, <2>1, <2>4
    <3>2. /\ SentToPlace(p) = {} => m_pmem[p] = ERASED
          /\ SentToPlace(p) # {} =>
               \E i \in 1..Len(data) : Last(SentToPlace(p), i) /\ m_pmem[p] = data[i]
      BY <1>3, <1>5, <1>8 DEF Buffered
    <3>3. \A i \in 1..Len(data) : i \in 1..k /\ data'[i] = data[i] BY <1>3
    <3> QED BY <3>1, <3>2, <3>3
  <2> QED BY <2>3, <2>4
<1>9. Buffered'
  <2>1. \A p \in 0..PAGE-1 :
          /\ SentToPlace(p)' = {} => m_pmem'[p] = ERASED
          /\ SentToPlace(p)' # {} =>
               \E i \in DOMAIN data' : Last(SentToPlace(p)', i) /\ m_pmem'[p] = data'[i]
    BY <1>3, <1>8
  <2> QED BY <2>1 DEF Buffered, SentToPlace, Last
<1> QED BY <1>3, <1>6, <1>7, <1>9

LEMMA ProgramInvStep ==
  ASSUME FlashInv, NothingYet, ProgramInv, [Next]_vars
  PROVE  ProgramInv'
<1>1. ASSUME ~Programs' PROVE ProgramInv' BY <1>1 DEF ProgramInv
<1>2. ASSUME UNCHANGED <<m_state, m_pmem, m_addr, start, data>>, m_count' \in Nat, m_count \in Nat,
             m_count' >= m_count
      PROVE  ProgramInv'
  BY <1>2 DEF ProgramInv, Programs, Buffered, SentToPlace, Last
<1>3. m_count \in Nat /\ (Programs => m_count > 0)
  BY DEF FlashInv, FlashTypeOK, WorkUnderSelect, Guarded, Programs
<1>4. CASE Expire BY <1>2, <1>3, <1>4 DEF Expire, storage
<1>5. CASE Select BY <1>2, <1>3, <1>5 DEF Select, storage
<1>6. CASE Deselect
  BY <1>1, <1>6 DEF Deselect, Programs, Commit, IdleOf, Reading, Answers, ReadIdle
<1>7. ASSUME NEW c \in Sent, CommandByte(c) PROVE ProgramInv'
  <2>1. m_count' = m_count + 1 /\ m_count + 1 = 1 /\ start' = start /\ data' = data
    BY <1>7 DEF CommandByte, Clocked, n
  <2>2. m_count = 0 BY <1>3, <2>1
  <2>3. start' = NoAddress /\ data' = <<>> BY <2>1, <2>2 DEF NothingYet
  <2> QED BY <2>3 DEF ProgramInv
<1>8. ASSUME NEW a \in Addr, AddressByte(a) PROVE ProgramInv'
  <2>1. CASE Programs BY <1>8, <2>1, ProgramAddress
  <2>2. CASE ~Programs BY <1>1, <1>8, <2>2 DEF AddressByte, Programs
  <2> QED BY <2>1, <2>2
<1>9. ASSUME NEW continue \in BOOLEAN, ModeByte(continue) PROVE ProgramInv'
  <2>1. m_count > 0 /\ m_state' = m_state /\ n = ModeByteAt BY <1>3, <1>9 DEF ModeByte, ModeByteAt, Clocked, n
  <2>2. ~Programs BY <1>3, <2>1 DEF ModeByteAt, Programs, n
  <2> QED BY <1>1, <2>1, <2>2 DEF Programs
<1>10. CASE ReadByte BY <1>1, <1>10 DEF ReadByte, Reading, Programs
<1>11. CASE StatusByte BY <1>1, <1>11 DEF StatusByte, Programs
<1>12. CASE OtherByte BY <1>2, <1>3, <1>12 DEF OtherByte, Clocked, storage
<1>13. ASSUME NEW v \in Byte, ProgramByte(v) PROVE ProgramInv' BY <1>13, ProgramOne
<1>14. CASE UNCHANGED vars BY <1>2, <1>3, <1>14 DEF vars, storage
<1> QED BY <1>4, <1>5, <1>6, <1>7, <1>8, <1>9, <1>10, <1>11, <1>12, <1>13, <1>14 DEF Next

LEMMA ProgramDone ==
  ASSUME FlashInv, ProgramInv, [Next]_vars, ~csn, csn', Programs, start # NoAddress, NEW b \in Addr
  PROVE  IF b \div PAGE = start \div PAGE /\ SentTo(b) # {}
         THEN \E i \in SentTo(b) : (\A j \in SentTo(b) : j <= i) /\ m_mem'[b] = m_mem[b] \cap data[i]
         ELSE m_mem'[b] = m_mem[b]
<1>1. Deselect
  BY DEF Next, vars, Expire, Select, CommandByte, AddressByte, ModeByte, ReadByte, StatusByte,
         OtherByte, ProgramByte, Clocked
<1>2. m_mem' = Programmed(m_addr)
  BY <1>1 DEF Deselect, Programs, Reading, Answers, ReadIdle
<1>3. b % PAGE \in 0..PAGE-1 /\ SentTo(b) = SentToPlace(b % PAGE)
  BY DEF Addr, SentTo, SentToPlace
<1>4. m_mem'[b] = IF b \div PAGE = start \div PAGE THEN m_mem[b] \cap m_pmem[b % PAGE] ELSE m_mem[b]
  BY <1>2 DEF Programmed, Page, ProgramInv
<1>5. /\ SentTo(b) = {} => m_pmem[b % PAGE] = ERASED
      /\ SentTo(b) # {} => \E i \in DOMAIN data : Last(SentTo(b), i) /\ m_pmem[b % PAGE] = data[i]
  BY <1>3 DEF ProgramInv, Buffered
<1>6. m_mem[b] \cap ERASED = m_mem[b] BY DEF FlashInv, FlashTypeOK, ERASED, Byte
<1> QED BY <1>4, <1>5, <1>6 DEF Last

(* A page program clears what was sent to it last, in its page and nowhere *)
(* else, for pages of every size (flashsim.cpp 303-358, 590-637).          *)
THEOREM ProgramsExactly == Spec => PageProgrammed
<1>1. Init => ReadInv /\ ProgramInv
  BY DEF Init, ReadInv, NothingYet, ReadsContent, Reading, ReadIdle, Addressed, ProgramInv, Programs
<1>2. FlashInv /\ ReadInv /\ ProgramInv /\ [Next]_vars => (ReadInv /\ ProgramInv)'
  BY ReadStep, ProgramInvStep DEF FlashInv, ReadInv
<1>3. FlashInv /\ ProgramInv /\ [Next]_vars =>
        [~csn /\ csn' /\ m_state \in {"PP", "QPP"} /\ start # NoAddress =>
           \A b \in Addr :
             IF b \div PAGE = start \div PAGE /\ SentTo(b) # {}
             THEN \E i \in SentTo(b) : (\A j \in SentTo(b) : j <= i) /\ m_mem'[b] = m_mem[b] \cap data[i]
             ELSE m_mem'[b] = m_mem[b]]_vars
  BY ProgramDone DEF Programs
<1> QED BY <1>1, <1>2, <1>3, FlashInvariant, PTL DEF Spec, PageProgrammed
-----------------------------------------------------------------------------
(* The chip is a flash.                                                    *)

LEMMA SamePages ==
  /\ Nor!Addr = Addr /\ Nor!Byte = Byte
  /\ \A a \in Addr : Nor!PageOf(a) = Page(a) /\ Nor!SectorOf(a) = Sector(a)
BY DEF Nor!Addr, Addr, Nor!Byte, Byte, Nor!PageOf, Page, Nor!SectorOf, Sector

(* A step that leaves memory, flags and job alone is none of the flash.    *)
LEMMA Stutter ==
  ASSUME m_mem' = m_mem, wel' = wel, wip' = wip, dpd' = dpd, JobOf' = JobOf
  PROVE  UNCHANGED Nor!norVars
BY DEF Nor!norVars

LEMMA NoJob == ASSUME m_state \notin Guarded PROVE JobOf = "none"
BY DEF JobOf, Guarded

LEMMA NoJobNext == ASSUME m_state' \notin Guarded PROVE JobOf' = "none"
BY DEF JobOf, Guarded

LEMMA SameJob == ASSUME m_state' = m_state PROVE JobOf' = JobOf
BY DEF JobOf

(* Programming clears bits, within the page of the address.                *)
LEMMA ProgramStep ==
  ASSUME FlashInv, m_state \in {"PP", "QPP"}, Commit("PP"), m_mem' = Programmed(m_addr)
  PROVE  Nor!Program
<1> USE DEF FlashInv
<1>1. JobOf = "program" BY DEF JobOf
<1>2. JobOf' = "none" BY DEF Commit, JobOf
<1>3. Nor!Finish BY <1>2 DEF Nor!Finish, Commit
<1>4. m_mem' = [b \in Addr |-> m_mem'[b]] BY DEF Programmed
<1>5. \A b \in Addr : m_mem'[b] \subseteq m_mem[b] BY DEF Programmed
<1>6. \A b \in Addr : m_mem'[b] # m_mem[b] => b \div PAGE = m_addr \div PAGE BY DEF Programmed, Page
<1>7. \A b, c \in Addr : m_mem'[b] # m_mem[b] /\ m_mem'[c] # m_mem[c] => c \in Nor!PageOf(b)
  BY <1>6, SamePages DEF Page
<1> QED BY <1>1, <1>3, <1>4, <1>5, <1>7, SamePages DEF Nor!Program

(* Erasing takes the whole sector, or nothing if the address is behind the *)
(* last one.                                                               *)
LEMMA EraseStep ==
  ASSUME FlashInv, m_state = "SECTOR_ERASE", Commit("SE"),
         m_mem' = [b \in Addr |-> IF b \in Sector(m_addr) THEN ERASED ELSE m_mem[b]]
  PROVE  Nor!EraseSector
<1> USE DEF FlashInv
<1>1. JobOf = "erase sector" BY DEF JobOf
<1>2. JobOf' = "none" BY DEF Commit, JobOf
<1>3. Nor!Finish BY <1>2 DEF Nor!Finish, Commit
<1>4. CASE Sector(m_addr) = {}
  <2>1. m_mem' = m_mem BY <1>4 DEF FlashTypeOK
  <2> QED BY <1>1, <1>3, <2>1 DEF Nor!EraseSector
<1>5. CASE Sector(m_addr) # {}
  <2>1. PICK a \in Addr : a \in Sector(m_addr) BY <1>5 DEF Sector
  <2>2. Sector(a) = Sector(m_addr) BY <2>1 DEF Sector
  <2>3. m_mem' = [b \in Nor!Addr |-> IF b \in Nor!SectorOf(a) THEN Bit ELSE m_mem[b]]
    BY <2>2, SamePages DEF ERASED
  <2> QED BY <1>1, <1>3, <2>3, SamePages DEF Nor!EraseSector
<1> QED BY <1>4, <1>5

LEMMA NorStep ==
  ASSUME FlashInv, FlashInv', [Next]_vars
  PROVE  [Nor!NorNext]_(Nor!norVars)
<1> USE DEF FlashInv
<1>1. CASE Expire
  <2>1. Nor!Complete BY <1>1, SameJob DEF Expire, Nor!Complete, storage
  <2> QED BY <2>1 DEF Nor!NorNext
<1>2. CASE Select BY <1>2, SameJob, Stutter DEF Select, storage, status
<1>3. CASE Deselect
  <2>1. CASE m_state \in {"PP", "QPP"}
    <3>1. Nor!Program BY <1>3, <2>1, ProgramStep DEF Deselect, Reading, ReadIdle, Answers
    <3> QED BY <3>1 DEF Nor!NorNext
  <2>2. CASE m_state = "SECTOR_ERASE"
    <3>1. Nor!EraseSector BY <1>3, <2>2, EraseStep DEF Deselect, Reading, ReadIdle, Answers
    <3> QED BY <3>1 DEF Nor!NorNext
  <2>3. CASE m_state = "WRSR"
    <3>1. JobOf = "write status" BY <2>3 DEF JobOf
    <3>2. m_mem' = m_mem /\ Commit("W") BY <1>3, <2>3 DEF Deselect, Reading, ReadIdle, Answers
    <3>3. JobOf' = "none" BY <3>2 DEF Commit, JobOf
    <3>4. Nor!WriteStatus BY <3>1, <3>2, <3>3 DEF Nor!WriteStatus, Nor!Finish, Commit
    <3> QED BY <3>4 DEF Nor!NorNext
  <2>4. CASE m_state = "BULK_ERASE"
    <3>1. JobOf = "erase all" BY <2>4 DEF JobOf
    <3>2. m_mem' = [b \in Addr |-> ERASED] /\ Commit("BE")
      BY <1>3, <2>4 DEF Deselect, Reading, ReadIdle, Answers
    <3>3. JobOf' = "none" BY <3>2 DEF Commit, JobOf
    <3>4. Nor!EraseAll BY <3>1, <3>2, <3>3, SamePages DEF Nor!EraseAll, Nor!Finish, Commit, ERASED
    <3> QED BY <3>4 DEF Nor!NorNext
  <2>5. CASE m_state \notin Guarded
    <3>1. m_mem' = m_mem /\ wel' = wel /\ wip' = wip /\ m_state' \notin Guarded
      BY <1>3, <2>5 DEF Deselect, Guarded, Reading, ReadIdle, Answers, IdleOf, status
    <3>2. dpd' = dpd
      BY <1>3, <2>5 DEF Deselect, Guarded, Reading, ReadIdle, Answers, status, TimerForFlags, FlashTypeOK
    <3> QED BY <2>5, <3>1, <3>2, NoJob, NoJobNext, Stutter
  <2> QED BY <2>1, <2>2, <2>3, <2>4, <2>5 DEF Guarded
<1>4. ASSUME NEW c \in Sent, CommandByte(c) PROVE [Nor!NorNext]_(Nor!norVars)
  <2>1. m_mem' = m_mem /\ m_state \notin Guarded /\ wip' = wip
    <3>1. m_mem' = m_mem BY <1>4 DEF CommandByte, storage
    <3>2. m_state \notin Guarded BY <1>4 DEF CommandByte, Clocked, n, WorkUnderSelect, FlashTypeOK
    <3>3. wip' = wip
      <4>1. CASE dpd /\ c # "RELEASE" BY <1>4, <4>1 DEF CommandByte, status
      <4>2. CASE ~(dpd /\ c # "RELEASE") BY <1>4, <4>2 DEF CommandByte
      <4> QED BY <4>1, <4>2
    <3> QED BY <3>1, <3>2, <3>3
  <2>2. JobOf = "none" BY <2>1, NoJob
  <2>3. CASE dpd /\ c # "RELEASE" BY <1>4, <2>1, <2>3, SameJob, Stutter DEF CommandByte, status
  <2>4. CASE ~(dpd /\ c # "RELEASE")
    <3>1. /\ m_state' = NextState(c)
          /\ wel' = CASE c = "WREN" -> TRUE [] c = "WRDI" -> FALSE [] OTHER -> wel
          /\ dpd' = CASE c = "RELEASE" -> FALSE [] c = "DEEP_POWER_DOWN" -> MaySleep [] OTHER -> dpd
      BY <1>4, <2>4 DEF CommandByte
    <3>2. CASE m_state' \in Guarded
      <4>1. m_state' = c /\ Writable /\ wel' = wel /\ dpd' = dpd
        BY <2>1, <3>1, <3>2 DEF NextState, Guarded
      <4>2. \E j \in Nor!Job : JobOf' = j
        BY <3>2 DEF JobOf, Guarded, Nor!Job
      <4>3. \E j \in Nor!Job : Nor!Begin(j)
        BY <2>1, <2>2, <4>1, <4>2 DEF Nor!Begin, Writable
      <4> QED BY <4>3 DEF Nor!NorNext
    <3>3. CASE m_state' \notin Guarded
      <4>1. JobOf' = "none" BY <3>3, NoJobNext
      <4>2. CASE c = "WREN"
        <5>1. Nor!WriteEnable BY <2>1, <2>2, <3>1, <4>1, <4>2 DEF Nor!WriteEnable
        <5> QED BY <5>1 DEF Nor!NorNext
      <4>3. CASE c = "WRDI"
        <5>1. Nor!WriteDisable BY <2>1, <2>2, <3>1, <4>1, <4>3 DEF Nor!WriteDisable
        <5> QED BY <5>1 DEF Nor!NorNext
      <4>4. CASE c = "RELEASE"
        <5>1. dpd' = FALSE /\ wel' = wel BY <3>1, <4>4
        <5>2. CASE dpd
          <6>1. Nor!Wake BY <2>1, <2>2, <4>1, <5>1, <5>2 DEF Nor!Wake
          <6> QED BY <6>1 DEF Nor!NorNext
        <5>3. CASE ~dpd BY <2>1, <2>2, <4>1, <5>1, <5>3, Stutter DEF FlashTypeOK
        <5> QED BY <5>2, <5>3
      <4>5. CASE c = "DEEP_POWER_DOWN"
        <5>1. wel' = wel /\ ~dpd BY <2>4, <3>1, <4>5
        <5>2. CASE MaySleep
          <6>1. dpd' = TRUE BY <3>1, <4>5, <5>2 DEF MaySleep
          <6>2. Nor!Sleep BY <2>1, <2>2, <4>1, <5>1, <5>2, <6>1 DEF Nor!Sleep, MaySleep
          <6> QED BY <6>2 DEF Nor!NorNext
        <5>3. CASE ~MaySleep
          <6>1. dpd' = FALSE BY <3>1, <4>5, <5>3 DEF MaySleep
          <6> QED BY <2>1, <2>2, <4>1, <5>1, <6>1, Stutter DEF FlashTypeOK
        <5> QED BY <5>2, <5>3
      <4>6. CASE c \notin {"WREN", "WRDI", "RELEASE", "DEEP_POWER_DOWN"}
        <5>1. wel' = wel /\ dpd' = dpd BY <3>1, <4>6
        <5> QED BY <2>1, <2>2, <4>1, <5>1, Stutter
      <4> QED BY <4>2, <4>3, <4>4, <4>5, <4>6
    <3> QED BY <3>2, <3>3
  <2> QED BY <2>3, <2>4
<1>5. ASSUME NEW a \in Addr, AddressByte(a) PROVE [Nor!NorNext]_(Nor!norVars)
  <2>1. m_mem' = m_mem /\ wel' = wel /\ wip' = wip /\ dpd' = dpd BY <1>5 DEF AddressByte, status
  <2>2. JobOf' = JobOf BY <1>5 DEF AddressByte, JobOf
  <2> QED BY <2>1, <2>2, Stutter
<1>6. ASSUME NEW continue \in BOOLEAN, ModeByte(continue) PROVE [Nor!NorNext]_(Nor!norVars)
  BY <1>6, SameJob, Stutter DEF ModeByte, storage, status
<1>7. CASE ReadByte BY <1>7, SameJob, Stutter DEF ReadByte, storage, status
<1>8. CASE StatusByte
  <2>1. m_mem' = m_mem /\ wip' = wip /\ dpd' = dpd /\ JobOf' = JobOf BY <1>8, SameJob DEF StatusByte, storage
  <2>2. CASE wel' = FALSE
    <3>1. Nor!WriteDisable BY <2>1, <2>2 DEF Nor!WriteDisable
    <3> QED BY <3>1 DEF Nor!NorNext
  <2>3. CASE wel' = wel BY <2>1, <2>3, Stutter
  <2> QED BY <1>8, <2>2, <2>3 DEF StatusByte
<1>9. CASE OtherByte BY <1>9, SameJob, Stutter DEF OtherByte, storage, status
<1>10. ASSUME NEW v \in Byte, ProgramByte(v) PROVE [Nor!NorNext]_(Nor!norVars)
  BY <1>10, SameJob, Stutter DEF ProgramByte, status
<1>11. CASE UNCHANGED vars BY <1>11, SameJob, Stutter DEF vars, storage, status
<1> QED BY <1>1, <1>2, <1>3, <1>4, <1>5, <1>6, <1>7, <1>8, <1>9, <1>10, <1>11 DEF Next

(* For every memory the chip model is a serial flash: a job needs the      *)
(* permission and uses it up, programming only clears bits of one page,    *)
(* and only an erasure sets bits (flashsim.cpp 166-248 with 303-451).      *)
THEOREM FlashImplemented == Spec => ImplementsNor
<1>1. Init => Nor!NorInit
  <2> SUFFICES ASSUME Init PROVE Nor!NorInit OBVIOUS
  <2>1. JobOf = "none" BY DEF Init, JobOf
  <2> QED BY <2>1, SamePages DEF Init, Nor!NorInit
<1>2. FlashInv /\ FlashInv' /\ [Next]_vars => [Nor!NorNext]_(Nor!norVars) BY NorStep
<1> QED BY <1>1, <1>2, FlashInvariant, PTL DEF Spec, Nor!NorSpec, ImplementsNor

-----------------------------------------------------------------------------
(* The reader: how long an access has waited, told from the counters.      *)

Length == CommandBits + ADDRESS_BITS

(* An access that the reader works on has been strobed and is held.        *)
HeldAccess == rden_i = TRUE /\ isFlash /\ prev_addr = addr_i /\ prev_rden = TRUE

(* The phases of the reader: at rest; command and address; the wait; the   *)
(* bytes, the current one with rcv_byteCount pairs of bits to come; and    *)
(* the clock in which the chip is released.                                *)
AtRest ==
  /\ spiCs_o = 1 /\ snd_count = 0 /\ wait_count = 0 /\ rcv_count = 0
  /\ waited # 0 => HeldAccess /\ waited = Length + WAIT + 4 * BYTES + 2
SendsRequest ==
  /\ spiCs_o = 0 /\ snd_count \in 1..Length /\ wait_count = 0 /\ rcv_count = 0
  /\ HeldAccess /\ waited = Length - snd_count + 1
WaitsForChip ==
  /\ spiCs_o = 0 /\ snd_count = 0 /\ wait_count \in 1..WAIT /\ rcv_count = 0
  /\ HeldAccess /\ waited = Length + 1 + WAIT - wait_count
TakesBytes ==
  /\ spiCs_o = 0 /\ snd_count = 0 /\ wait_count = 0 /\ rcv_count \in 1..BYTES
  /\ HeldAccess /\ waited = Length + WAIT + 4 * BYTES - 4 * rcv_count + 4 - rcv_byteCount
ReleasesChip ==
  /\ spiCs_o = 0 /\ snd_count = 0 /\ wait_count = 0 /\ rcv_count = 0
  /\ HeldAccess /\ waited = Length + WAIT + 4 * BYTES + 1

ReaderInv ==
  /\ rcv_byteCount \in 0..3 /\ rden_i \in BOOLEAN
  /\ AtRest \/ SendsRequest \/ WaitsForChip \/ TakesBytes \/ ReleasesChip

LEMMA LengthType == Length \in Nat /\ Length > 0 /\ CommandBits + ADDRESS_BITS = Length
BY AddressAssumption DEF Length, CommandBits

(* In any clock without a reset a held access with the chip selected stays *)
(* as it is and has waited one clock more.                                 *)
LEMMA StillHeld ==
  ASSUME NEW other \in BOOLEAN, ReaderClock(FALSE, other), HeldAccess, spiCs_o = 0
  PROVE  HeldAccess' /\ waited' = waited + 1 /\ ~flashRstrb
<1>1. ~SPI_valid BY DEF SPI_valid
<1>2. addr_i' = addr_i /\ rden_i' = rden_i
  BY <1>1 DEF ReaderClock, HeldAccess, validReady_o, access
<1>3. prev_addr' = addr_i /\ prev_rden' = TRUE BY DEF ReaderClock, Strobes, HeldAccess
<1>4. waited' = waited + 1 BY <1>1 DEF ReaderClock, HeldAccess
<1>5. ~flashRstrb BY DEF HeldAccess, flashRstrb, IO_rstrb, rstrb
<1> QED BY <1>2, <1>3, <1>4, <1>5 DEF HeldAccess, isFlash

LEMMA ReaderStep ==
  ASSUME ReaderInv, NEW reset_i \in BOOLEAN, NEW other \in BOOLEAN, ReaderClock(reset_i, other)
  PROVE  ReaderInv'
<1> USE LengthType
<1>0. rden_i' \in BOOLEAN BY DEF ReaderClock, access, ReaderInv
<1> USE <1>0
<1>1. CASE reset_i
  <2>1. waited' = 0 /\ ReaderReset BY <1>1 DEF ReaderClock
  <2> QED BY <2>1 DEF ReaderReset, ReaderInv, AtRest
<1>2. CASE ~reset_i /\ flashRstrb
  <2>1. ReaderStart /\ addr_i \in FlashAddr /\ rden_i = TRUE
    BY <1>2 DEF ReaderClock, flashRstrb, IO_rstrb, rstrb, isFlash, ReaderInv, HeldAccess
  <2>2. prev_addr' = addr_i /\ prev_rden' = TRUE /\ ~SPI_valid
    BY <1>2, <2>1 DEF ReaderClock, Strobes, SPI_valid
  <2>3. addr_i' = addr_i /\ rden_i' = rden_i
    BY <1>2, <2>1, <2>2 DEF ReaderClock, validReady_o, isFlash, access
  <2>4. AtRest /\ waited = 0
    <3>1. ~HeldAccess BY <1>2 DEF HeldAccess, flashRstrb, IO_rstrb, rstrb
    <3> QED BY <3>1 DEF ReaderInv, AtRest, SendsRequest, WaitsForChip, TakesBytes, ReleasesChip
  <2>5. waited' = 1 BY <1>2, <2>1, <2>2, <2>4 DEF ReaderClock, isFlash
  <2>6. HeldAccess' BY <2>1, <2>2, <2>3 DEF HeldAccess, isFlash
  <2>7. SendsRequest' BY <2>1, <2>4, <2>5, <2>6 DEF ReaderStart, AtRest, SendsRequest
  <2> QED BY <2>1, <2>7 DEF ReaderStart, ReaderInv
<1>3. CASE ~reset_i /\ ~flashRstrb
  <2>1. ReaderGoesOn BY <1>3 DEF ReaderClock
  <2>2. rcv_byteCount' \in 0..3 BY <2>1 DEF ReaderGoesOn, ReaderInv
  <2>3. CASE AtRest
    <3>1. waited' = 0
      <4>1. SPI_valid BY <1>3, <2>3 DEF SPI_valid, AtRest
      <4> QED BY <1>3, <4>1 DEF ReaderClock
    <3>2. AtRest'
      BY <2>1, <2>3, <3>1 DEF AtRest, ReaderGoesOn, sending, waiting, receiving
    <3> QED BY <2>2, <3>2 DEF ReaderInv
  <2>4. CASE ~AtRest
    <3>1. HeldAccess' /\ waited' = waited + 1 /\ spiCs_o = 0
      <4>1. HeldAccess /\ spiCs_o = 0
        BY <2>4 DEF ReaderInv, SendsRequest, WaitsForChip, TakesBytes, ReleasesChip
      <4> QED BY <1>3, <4>1, StillHeld
    <3> USE DEF WaitCycles
    <3>2. CASE SendsRequest
      <4>1. rcv_count' = 0 /\ spiCs_o' = 0 /\ snd_count' = snd_count - 1
            /\ wait_count' = IF snd_count = 1 THEN WAIT ELSE 0
        BY <2>1, <3>2 DEF SendsRequest, ReaderGoesOn, sending, waiting, receiving
      <4>2. CASE snd_count = 1
        BY <2>2, <3>1, <3>2, <4>1, <4>2 DEF SendsRequest, WaitsForChip, ReaderInv, WAIT
      <4>3. CASE snd_count # 1
        BY <2>2, <3>1, <3>2, <4>1, <4>3 DEF SendsRequest, ReaderInv
      <4> QED BY <4>2, <4>3
    <3>3. CASE WaitsForChip
      <4>1. /\ snd_count' = 0 /\ spiCs_o' = 0 /\ wait_count' = wait_count - 1
            /\ rcv_count' = (IF wait_count = 1 THEN BYTES ELSE 0)
            /\ wait_count = 1 => rcv_byteCount' = 3
        BY <2>1, <3>3 DEF WaitsForChip, ReaderGoesOn, sending, waiting, receiving, WAIT
      <4>2. CASE wait_count = 1
        BY <2>2, <3>1, <3>3, <4>1, <4>2 DEF WaitsForChip, TakesBytes, ReaderInv, WAIT, BYTES
      <4>3. CASE wait_count # 1
        BY <2>2, <3>1, <3>3, <4>1, <4>3 DEF WaitsForChip, ReaderInv, WAIT
      <4> QED BY <4>2, <4>3
    <3>4. CASE TakesBytes
      <4>1. /\ snd_count' = 0 /\ spiCs_o' = 0 /\ wait_count' = 0
            /\ rcv_byteCount' = (rcv_byteCount + 3) % 4
            /\ rcv_count' = IF rcv_byteCount = 0 THEN rcv_count - 1 ELSE rcv_count
        BY <2>1, <3>4 DEF TakesBytes, ReaderGoesOn, sending, waiting, receiving, BYTES
      <4>2. rcv_byteCount \in 0..3 BY DEF ReaderInv
      <4>3. CASE rcv_byteCount = 0
        <5>1. rcv_byteCount' = 3 BY <4>1, <4>3
        <5>2. CASE rcv_count = 1
          BY <2>2, <3>1, <3>4, <4>1, <4>3, <5>2 DEF TakesBytes, ReleasesChip, ReaderInv, WAIT, BYTES
        <5>3. CASE rcv_count # 1
          BY <2>2, <3>1, <3>4, <4>1, <4>3, <5>1, <5>3 DEF TakesBytes, ReaderInv, WAIT, BYTES
        <5> QED BY <5>2, <5>3
      <4>4. CASE rcv_byteCount # 0
        <5>1. rcv_byteCount' = rcv_byteCount - 1 BY <4>1, <4>2, <4>4
        <5> QED BY <2>2, <3>1, <3>4, <4>1, <4>2, <4>4, <5>1 DEF TakesBytes, ReaderInv, WAIT, BYTES
      <4> QED BY <4>3, <4>4
    <3>5. CASE ReleasesChip
      <4>1. snd_count' = 0 /\ spiCs_o' = 1 /\ wait_count' = 0 /\ rcv_count' = 0
        BY <2>1, <3>5 DEF ReleasesChip, ReaderGoesOn, sending, waiting, receiving
      <4> QED BY <2>2, <3>1, <3>5, <4>1 DEF ReleasesChip, AtRest, ReaderInv, WAIT, BYTES
    <3> QED BY <2>4, <3>2, <3>3, <3>4, <3>5 DEF ReaderInv
  <2> QED BY <2>3, <2>4
<1> QED BY <1>1, <1>2, <1>3

(* A load from the flash is answered in time, for every width of the       *)
(* addresses, whatever the chip sends and whatever resets and accesses to  *)
(* other devices come before it (spiFlash.v, IO.v, DataMem.v).             *)
THEOREM FlashAnswersInTime == ReaderInit /\ [][ReaderNext]_readerVars => []FlashAnswered
<1>1. ReaderInit => ReaderInv
  <2> SUFFICES ASSUME ReaderInit PROVE ReaderInv OBVIOUS
  <2>1. spiCs_o = 1 /\ snd_count = 0 /\ wait_count = 0 /\ rcv_count = 0 /\ waited = 0
    BY DEF ReaderInit
  <2>2. rcv_byteCount \in 0..3
    <3>1. rcv_byteCount = 0 BY DEF ReaderInit
    <3> QED BY <3>1
  <2>3. rden_i \in BOOLEAN BY DEF ReaderInit
  <2>4. AtRest BY <2>1 DEF AtRest
  <2> QED BY <2>2, <2>3, <2>4 DEF ReaderInv
<1>2. ReaderInv /\ [ReaderNext]_readerVars => ReaderInv'
  <2>1. CASE UNCHANGED readerVars
    BY <2>1 DEF readerVars, reader, access, ReaderInv, AtRest, SendsRequest, WaitsForChip, TakesBytes,
                ReleasesChip, HeldAccess, isFlash
  <2> QED BY <2>1, ReaderStep DEF ReaderNext
<1>3. ReaderInv => FlashAnswered
  BY LengthType DEF ReaderInv, AtRest, SendsRequest, WaitsForChip, TakesBytes, ReleasesChip, FlashAnswered,
                    WAIT, BYTES
<1> QED BY <1>1, <1>2, <1>3, PTL
-----------------------------------------------------------------------------
(* What the reader answers.                                                *)

(* Halving a quotient is dividing by twice as much.                        *)
LEMMA HalfQuotient ==
  ASSUME NEW v \in Nat, NEW p \in Nat \ {0}
  PROVE  /\ v \div p \in Nat /\ v \div (2 * p) \in Nat
         /\ 2 * (v \div (2 * p)) + ((v \div p) % 2) = v \div p
<1> DEFINE q == v \div p  r == v % p
<1>1. q \in Nat /\ r \in Nat /\ r < p /\ v = p * q + r OBVIOUS
<1> HIDE DEF q, r
<1>2. PICK h \in Nat, b \in 0..1 : q = 2 * h + b /\ b = q % 2
  <2>1. q \div 2 \in Nat /\ q % 2 \in 0..1 /\ q = 2 * (q \div 2) + (q % 2) BY <1>1
  <2> QED BY <2>1
<1>3. p * q = 2 * (p * h) + p * b /\ p * h \in Nat /\ p * b \in Nat /\ p * b <= p
  <2>1. CASE b = 0 BY <1>1, <1>2, <2>1
  <2>2. CASE b = 1 BY <1>1, <1>2, <2>2
  <2> QED BY <2>1, <2>2
<1>4. (2 * p) * h = 2 * (p * h) /\ 2 * p \in Nat \ {0} OBVIOUS
<1>5. (2 * p) * h + (p * b + r) = v /\ p * b + r \in Nat /\ p * b + r < 2 * p
  BY <1>1, <1>3, <1>4
<1>6. v \div (2 * p) = h BY <1>4, <1>5, QuotientUnique
<1> QED BY <1>1, <1>2, <1>6 DEF q

LEMMA PowersOfTwo ==
  /\ ADDRESS_BITS \in Nat /\ ADDRESS_BITS >= 4
  /\ \A i \in 0..Length : TwoTo[i] \in Nat
  /\ \A i \in 0..Length-1 : TwoTo[i + 1] = 2 * TwoTo[i]
  /\ TwoTo[0] = 1 /\ TwoTo[1] = 2 /\ TwoTo[2] = 4 /\ TwoTo[3] = 8 /\ TwoTo[4] = 16
  /\ TwoTo[5] = 32 /\ TwoTo[6] = 64 /\ TwoTo[7] = 128 /\ TwoTo[8] = 256
<1>1. ADDRESS_BITS \in Nat /\ ADDRESS_BITS >= 4 BY AddressAssumption
<1>2. \A i \in 0..Length : TwoTo[i] \in Nat BY AddressAssumption DEF Length
<1>3. ASSUME NEW i \in 0..Length-1 PROVE TwoTo[i + 1] = 2 * TwoTo[i]
  <2>1. i \in 0..(CommandBits + ADDRESS_BITS - 1) BY <1>1 DEF Length, CommandBits
  <2>2. \A j \in 0..(CommandBits + ADDRESS_BITS - 1) : TwoTo[j + 1] = 2 * TwoTo[j]
    BY Zenon, AddressAssumption
  <2> QED BY Zenon, <2>1, <2>2
<1>4. Length \in Nat /\ Length >= 12 BY <1>1 DEF Length, CommandBits
<1>5. TwoTo[0] = 1 BY AddressAssumption
<1>6. TwoTo[0 + 1] = 2 * TwoTo[0] /\ TwoTo[1 + 1] = 2 * TwoTo[1] /\ TwoTo[2 + 1] = 2 * TwoTo[2]
      /\ TwoTo[3 + 1] = 2 * TwoTo[3] /\ TwoTo[4 + 1] = 2 * TwoTo[4] /\ TwoTo[5 + 1] = 2 * TwoTo[5]
      /\ TwoTo[6 + 1] = 2 * TwoTo[6] /\ TwoTo[7 + 1] = 2 * TwoTo[7]
  BY <1>3, <1>4
<1> QED BY <1>1, <1>2, <1>3, <1>5, <1>6

(* Induction on numbers, for the library's rules take a predicate.         *)
LEMMA LeastNumber ==
  ASSUME NEW S \in SUBSET Nat, S # {}
  PROVE  \E m \in S : \A j \in S : m <= j
<1>1. \E x \in S : \A y \in S : ~(<<y, x>> \in OpToRel(<, Nat))
  BY NatLessThanWellFounded, WFMin
<1>2. \A x, y \in Nat : <<y, x>> \in OpToRel(<, Nat) <=> y < x
  BY DEF OpToRel
<1>3. \A x, y \in Nat : ~(y < x) => x <= y OBVIOUS
<1> QED BY <1>1, <1>2, <1>3

(* No power is zero: the table has no smallest number whose power is.      *)
LEMMA PowersPositive == \A i \in 0..Length : TwoTo[i] \in Nat \ {0}
<1> DEFINE S == {i \in 0..Length : TwoTo[i] = 0}
<1>1. S = {}
  <2> SUFFICES ASSUME S # {} PROVE FALSE OBVIOUS
  <2>1. Length \in Nat BY LengthType
  <2>2. S \in SUBSET Nat BY <2>1
  <2>3. PICK m \in S : \A j \in S : m <= j BY <2>2, LeastNumber
  <2>4. m # 0 BY <2>3, PowersOfTwo
  <2>5. m - 1 \in 0..Length-1 /\ (m - 1) + 1 = m /\ m - 1 \in 0..Length BY <2>1, <2>3, <2>4
  <2>6. TwoTo[m] = 2 * TwoTo[m - 1] /\ TwoTo[m - 1] \in Nat BY <2>5, PowersOfTwo
  <2>7. TwoTo[m] = 0 /\ m - 1 \notin S BY <2>3, <2>5
  <2> QED BY <2>5, <2>6, <2>7
<1> QED BY <1>1, PowersOfTwo

(* A bit more of a number, the highest first.                              *)
LEMMA OneBitMore ==
  ASSUME NEW v \in Nat, NEW i \in 0..Length-1
  PROVE  /\ BitOf(v, i) \in {0, 1} /\ v \div TwoTo[i] \in Nat /\ v \div TwoTo[i + 1] \in Nat
         /\ 2 * (v \div TwoTo[i + 1]) + BitOf(v, i) = v \div TwoTo[i]
<1>1. i \in 0..Length /\ TwoTo[i] \in Nat \ {0} /\ TwoTo[i + 1] = 2 * TwoTo[i]
  BY LengthType, PowersOfTwo, PowersPositive
<1> DEFINE p == TwoTo[i]
<1> HIDE DEF p
<1>2. /\ v \div p \in Nat /\ v \div (2 * p) \in Nat
      /\ 2 * (v \div (2 * p)) + ((v \div p) % 2) = v \div p
  BY <1>1, HalfQuotient DEF p
<1>3. BitOf(v, i) = (v \div p) % 2 /\ TwoTo[i + 1] = 2 * p /\ TwoTo[i] = p BY <1>1 DEF BitOf, p
<1>4. (v \div p) % 2 \in {0, 1} BY <1>2
<1> QED BY <1>2, <1>3, <1>4

(* The chip, edge by edge. *)
ChipState == {"IDLE", "CMD", "ADDR", "DUMMY", "SEND"}
Chip == [state : ChipState, mode : {"READ", "DOR"}, command : Nat, address : Nat,
         count : Nat, data : Nat, bit : Int]

Edge(c) == IF c.state = "IDLE" THEN [c EXCEPT !.state = "CMD", !.command = 0, !.address = 0] ELSE c

LEMMA EdgeFields ==
  ASSUME NEW c \in Chip
  PROVE  /\ Edge(c) \in Chip /\ Edge(c).state \in {"CMD", "ADDR", "DUMMY", "SEND"}
         /\ Edge(c).command \in Nat /\ Edge(c).address \in Nat /\ Edge(c).count \in Nat
         /\ Edge(c).count = c.count /\ Edge(c).data = c.data /\ Edge(c).bit = c.bit
         /\ Edge(c).mode = c.mode
         /\ c.state # "IDLE" => Edge(c) = c
         /\ c.state = "IDLE" => Edge(c).state = "CMD" /\ Edge(c).command = 0 /\ Edge(c).address = 0
BY DEF Chip, ChipState, Edge

LEMMA EdgeStep ==
  ASSUME NEW c \in Chip, NEW dat \in {0, 1}, NEW e, e = RisingEdge(c, dat), NEW d, d = Edge(c)
  PROVE  /\ e \in Chip /\ e.count = c.count + 1 /\ e.data = c.data /\ e.bit = c.bit
         /\ d.state = "CMD" =>
              /\ e.command = (2 * d.command + dat) % 256 /\ e.address = d.address
              /\ IF c.count = 7 THEN e.state = "ADDR" /\ e.mode = Mode(e.command) ELSE e.state = "CMD"
         /\ d.state = "ADDR" =>
              /\ e.address = 2 * c.address + dat /\ e.mode = c.mode
              /\ e.state = IF c.count = Length - 1 THEN "DUMMY" ELSE "ADDR"
         /\ d.state = "DUMMY" =>
              /\ e.address = c.address /\ e.mode = c.mode
              /\ e.state = IF c.count = Length + 7 THEN "SEND" ELSE "DUMMY"
         /\ d.state = "SEND" => e.address = c.address /\ e.mode = c.mode /\ e.state = "SEND"
<1> DEFINE last == CASE d.state = "CMD"   -> d.count = CommandBits - 1
                     [] d.state = "ADDR"  -> d.count = CommandBits + ADDRESS_BITS - 1
                     [] d.state = "DUMMY" -> d.count = CommandBits + ADDRESS_BITS + 7
                     [] d.state = "SEND"  -> FALSE
           next == [CMD |-> "ADDR", ADDR |-> "DUMMY", DUMMY |-> "SEND", SEND |-> "SEND"]
           command == IF d.state = "CMD" THEN (2 * d.command + dat) % 256 ELSE d.command
<1>1. /\ d \in Chip /\ d.state \in {"CMD", "ADDR", "DUMMY", "SEND"} /\ d.command \in Nat
      /\ d.address \in Nat /\ d.count \in Nat /\ d.count = c.count /\ d.data = c.data
      /\ d.bit = c.bit /\ d.mode = c.mode /\ (c.state # "IDLE" => d = c)
      /\ (c.state = "IDLE" => d.state = "CMD")
  BY EdgeFields
<1>2. /\ next[d.state] \in ChipState
      /\ next["CMD"] = "ADDR" /\ next["ADDR"] = "DUMMY" /\ next["DUMMY"] = "SEND"
  BY <1>1 DEF ChipState
<1>3. command \in Nat BY <1>1
<1>4. 2 * d.address + dat \in Nat /\ d.count + 1 \in Nat BY <1>1
<1>5. e = [d EXCEPT !.state = IF last THEN next[d.state] ELSE d.state,
                    !.command = command,
                    !.mode = IF d.state = "CMD" /\ last THEN Mode(command) ELSE d.mode,
                    !.address = IF d.state = "ADDR" THEN 2 * d.address + dat ELSE d.address,
                    !.count = d.count + 1]
  BY <1>1 DEF RisingEdge, Chip, Edge
<1>6. Mode(command) \in {"READ", "DOR"} /\ d.mode \in {"READ", "DOR"} BY <1>1 DEF Mode, Chip
<1>7. /\ d.state = "CMD" => (last <=> c.count = 7) /\ command = (2 * d.command + dat) % 256
      /\ d.state = "ADDR" => (last <=> c.count = Length - 1)
      /\ d.state = "DUMMY" => (last <=> c.count = Length + 7)
      /\ d.state = "SEND" => ~last
  <2>1. CASE d.state = "CMD" BY <1>1, <2>1 DEF CommandBits
  <2>2. CASE d.state = "ADDR" BY <1>1, <2>2, PowersOfTwo DEF Length, CommandBits
  <2>3. CASE d.state = "DUMMY" BY <1>1, <2>3, PowersOfTwo DEF Length, CommandBits
  <2>4. CASE d.state = "SEND" BY <2>4
  <2> QED BY <1>1, <2>1, <2>2, <2>3, <2>4
<1> HIDE DEF last, next, command
<1>8. /\ e.state = IF last THEN next[d.state] ELSE d.state
      /\ e.command = command /\ e.count = d.count + 1 /\ e.data = d.data /\ e.bit = d.bit
      /\ e.mode = IF d.state = "CMD" /\ last THEN Mode(command) ELSE d.mode
      /\ e.address = IF d.state = "ADDR" THEN 2 * d.address + dat ELSE d.address
  BY <1>1, <1>5 DEF Chip
<1>9. e \in Chip BY <1>1, <1>2, <1>3, <1>4, <1>5, <1>6 DEF Chip
<1> QED BY <1>1, <1>2, <1>7, <1>8, <1>9

LEMMA ChipIdle ==
  ASSUME NEW c \in Chip, NEW e, e = [c EXCEPT !.state = "IDLE", !.count = 0]
  PROVE  e \in Chip /\ e.state = "IDLE" /\ e.count = 0
BY DEF Chip, ChipState

WithByte(c, v) == [c EXCEPT !.data = v, !.bit = 8, !.address = c.address + 1]

LEMMA ChipFetched ==
  ASSUME NEW c \in Chip, NEW v \in Nat, NEW e, e = WithByte(c, v)
  PROVE  /\ e \in Chip /\ e.data = v /\ e.bit = 8 /\ e.address = c.address + 1
         /\ e.mode = c.mode /\ e.state = c.state /\ e.count = c.count
<1>1. c.address + 1 \in Nat BY DEF Chip
<1>2. e = [state |-> c.state, mode |-> c.mode, command |-> c.command, address |-> c.address + 1,
           count |-> c.count, data |-> v, bit |-> 8]
  BY DEF Chip, WithByte
<1>3. e.data = v /\ e.bit = 8 /\ e.address = c.address + 1
      /\ e.mode = c.mode /\ e.state = c.state /\ e.count = c.count
  BY <1>2
<1>4. e \in Chip BY <1>1, <1>2 DEF Chip
<1> QED BY <1>3, <1>4

(* A tick of the chip that is not selected, that listens, that sends.      *)
LEMMA TickListens ==
  ASSUME chip \in Chip, ChipTick, MOSI_out \in {0, 1}
  PROVE  /\ spiCs_o' = 1 => chip' \in Chip /\ chip'.state = "IDLE" /\ chip'.count = 0
         /\ spiCs_o' # 1 /\ chip.state # "SEND" => chip' = RisingEdge(chip, MOSI_out) /\ chip' \in Chip
<1>1. spiCs_o' = 1 => chip' \in Chip /\ chip'.state = "IDLE" /\ chip'.count = 0
  <2>1. spiCs_o' = 1 => chip' = [chip EXCEPT !.state = "IDLE", !.count = 0] BY DEF ChipTick
  <2> QED BY <2>1, ChipIdle
<1>2. spiCs_o' # 1 /\ chip.state # "SEND" => chip' = RisingEdge(chip, MOSI_out) BY DEF ChipTick
<1> DEFINE e == RisingEdge(chip, MOSI_out)  dat == MOSI_out  d == Edge(chip)
<1>3. e \in Chip
  <2> HIDE DEF dat
  <2>1. dat \in {0, 1} /\ e = RisingEdge(chip, dat) BY DEF dat
  <2> HIDE DEF e, d
  <2>2. d = Edge(chip) BY DEF d
  <2> QED BY <2>1, <2>2, EdgeStep
<1> QED BY <1>1, <1>2, <1>3

LEMMA TickSends ==
  ASSUME chip \in Chip, ChipTick, MOSI_out \in {0, 1}, spiCs_o' # 1, chip.state = "SEND", chip.mode = "DOR"
  PROVE  \E d \in Nat, b \in Int :
           /\ IF chip.count % 4 = 0
              THEN /\ chip.address < TwoTo[ADDRESS_BITS] => d = Image(chip.address)
                   /\ b = 8 /\ chip'.address = chip.address + 1
              ELSE d = chip.data /\ b = chip.bit /\ chip'.address = chip.address
           /\ miso' = IF b > 0 THEN BitOf(d, b - 1) ELSE 0
           /\ mosi' = IF b > 1 THEN BitOf(d, b - 2) ELSE 0
           /\ chip' \in Chip /\ chip'.state = "SEND" /\ chip'.mode = "DOR" /\ chip'.data = d
           /\ chip'.bit = b - 2 /\ chip'.count = chip.count + 1
<1>1. PICK c \in Fetched(chip) :
        /\ miso' = Sent1(c) /\ mosi' = IF c.mode = "DOR" THEN Sent2(c) ELSE 0
        /\ chip' = RisingEdge([c EXCEPT !.bit = IF c.mode = "DOR" THEN c.bit - 2 ELSE c.bit - 1], MOSI_out)
  BY DEF ChipTick
<1>2. PerByte(chip.mode) = 4 BY DEF PerByte
<1>3. /\ c \in Chip /\ c.mode = "DOR" /\ c.state = "SEND" /\ c.count = chip.count
      /\ c.data \in Nat /\ c.bit \in Int
      /\ IF chip.count % 4 = 0
         THEN /\ chip.address < TwoTo[ADDRESS_BITS] => c.data = Image(chip.address)
              /\ c.bit = 8 /\ c.address = chip.address + 1
         ELSE c.data = chip.data /\ c.bit = chip.bit /\ c.address = chip.address
  <2>1. CASE chip.count % 4 # 0
    <3>1. c = chip BY <1>2, <2>1 DEF Fetched
    <3> QED BY <2>1, <3>1 DEF Chip
  <2>2. CASE chip.count % 4 = 0
    <3>1. PICK v \in (IF chip.address < TwoTo[ADDRESS_BITS] THEN {Image(chip.address)} ELSE Junk) :
            c = [chip EXCEPT !.data = v, !.bit = 8, !.address = chip.address + 1]
      BY <1>2, <2>2 DEF Fetched
    <3>2. chip.address \in Nat BY DEF Chip
    <3>3. v \in Nat /\ (chip.address < TwoTo[ADDRESS_BITS] => v = Image(chip.address))
      <4>1. Junk \subseteq 0..255 /\ \A a \in 0..(TwoTo[ADDRESS_BITS] - 1) : Image(a) \in 0..255
        BY AddressAssumption
      <4>2. TwoTo[ADDRESS_BITS] \in Nat BY PowersOfTwo, LengthType DEF Length, CommandBits
      <4>3. chip.address < TwoTo[ADDRESS_BITS] => chip.address \in 0..(TwoTo[ADDRESS_BITS] - 1)
        BY <3>2, <4>2
      <4> QED BY <3>1, <4>1, <4>3
    <3>4. c = WithByte(chip, v) BY <3>1 DEF WithByte
    <3>5. v \in Nat BY <3>3
    <3>6. /\ c \in Chip /\ c.data = v /\ c.bit = 8 /\ c.address = chip.address + 1
          /\ c.mode = chip.mode /\ c.state = chip.state /\ c.count = chip.count
      BY SMTT(30), <3>4, <3>5, ChipFetched
    <3> QED BY <2>2, <3>3, <3>6
  <2> QED BY <2>1, <2>2
<1> DEFINE x == [c EXCEPT !.bit = c.bit - 2]  dat == MOSI_out
<1>4. /\ x \in Chip /\ x.state = "SEND" /\ x.mode = "DOR" /\ x.count = c.count /\ x.data = c.data
      /\ x.address = c.address /\ x.bit = c.bit - 2
  BY <1>3 DEF Chip
<1>5. chip' = RisingEdge(x, dat) /\ dat \in {0, 1} BY <1>1, <1>3
<1> HIDE DEF x, dat
<1>6. Edge(x) = x BY <1>4 DEF Edge
<1>7. /\ chip' \in Chip /\ chip'.count = x.count + 1 /\ chip'.data = x.data /\ chip'.bit = x.bit
      /\ chip'.address = x.address /\ chip'.mode = x.mode /\ chip'.state = "SEND"
  BY <1>4, <1>5, <1>6, EdgeStep
<1>8. miso' = (IF c.bit > 0 THEN BitOf(c.data, c.bit - 1) ELSE 0)
      /\ mosi' = (IF c.bit > 1 THEN BitOf(c.data, c.bit - 2) ELSE 0)
  BY <1>1, <1>3 DEF Sent1, Sent2
<1>9. c.data \in Nat /\ c.bit \in Int BY <1>3
<1> QED BY <1>3, <1>4, <1>7, <1>8, <1>9

ShiftedIn(B, t) ==
  /\ (4 * B + t) % 4 = t
  /\ (4 * B + t) % 16 = 4 * (B % 4) + t
  /\ (4 * B + t) % 64 = 4 * (B % 16) + t
  /\ (4 * B + t) % 256 = 4 * (B % 64) + t
LEMMA ShiftIn ==
  ASSUME NEW B \in Nat, NEW t \in 0..3
  PROVE  ShiftedIn(B, t)
BY SMTT(30) DEF ShiftedIn

(* Four pairs of bits, one after the other into the byte, are the byte.    *)
PairOnWires(D, p) == miso = BitOf(D, 7 - 2 * p) /\ mosi = BitOf(D, 6 - 2 * p)
ShiftGives(B, D, p) ==
  /\ Shift(B) \in 0..255
  /\ p = 0 => Shift(B) % 4 = D \div 64
  /\ p = 1 /\ B % 4 = D \div 64 => Shift(B) % 16 = D \div 16
  /\ p = 2 /\ B % 16 = D \div 16 => Shift(B) % 64 = D \div 4
  /\ p = 3 /\ B % 64 = D \div 4 => Shift(B) = D

LEMMA ShiftExact ==
  ASSUME NEW B \in 0..255, NEW D \in 0..255, NEW p \in 0..3, PairOnWires(D, p)
  PROVE  ShiftGives(B, D, p)
<1>0. miso = BitOf(D, 7 - 2 * p) /\ mosi = BitOf(D, 6 - 2 * p) BY DEF PairOnWires
<1>1. /\ D \div 64 = 2 * ((D \div 128) % 2) + ((D \div 64) % 2) /\ D \div 64 \in 0..3
      /\ D \div 16 = 4 * (D \div 64) + (2 * ((D \div 32) % 2) + ((D \div 16) % 2)) /\ D \div 16 \in 0..15
      /\ D \div 4 = 4 * (D \div 16) + (2 * ((D \div 8) % 2) + ((D \div 4) % 2)) /\ D \div 4 \in 0..63
      /\ D = 4 * (D \div 4) + (2 * ((D \div 2) % 2) + ((D \div 1) % 2))
  <2>1. D \div 64 = 2 * ((D \div 128) % 2) + ((D \div 64) % 2) /\ D \div 64 \in 0..3 BY SMTT(30)
  <2>2. D \div 16 = 4 * (D \div 64) + (2 * ((D \div 32) % 2) + ((D \div 16) % 2)) /\ D \div 16 \in 0..15
    BY SMTT(30)
  <2>3. D \div 4 = 4 * (D \div 16) + (2 * ((D \div 8) % 2) + ((D \div 4) % 2)) /\ D \div 4 \in 0..63
    BY SMTT(30)
  <2>4. D = 4 * (D \div 4) + (2 * ((D \div 2) % 2) + ((D \div 1) % 2)) BY SMTT(30)
  <2> QED BY <2>1, <2>2, <2>3, <2>4
<1>2. BitOf(D, 7) = (D \div 128) % 2 /\ BitOf(D, 6) = (D \div 64) % 2
      /\ BitOf(D, 5) = (D \div 32) % 2 /\ BitOf(D, 4) = (D \div 16) % 2
      /\ BitOf(D, 3) = (D \div 8) % 2 /\ BitOf(D, 2) = (D \div 4) % 2
      /\ BitOf(D, 1) = (D \div 2) % 2 /\ BitOf(D, 0) = (D \div 1) % 2
  BY PowersOfTwo DEF BitOf
<1>3. miso \in 0..1 /\ mosi \in 0..1 BY <1>0, <1>2
<1> DEFINE t == 2 * miso + mosi
           x == B * 4 + 2 * miso + mosi
<1>4. x = 4 * B + t /\ x \in 0..1023 /\ Shift(B) = x % 256 BY <1>3 DEF Shift
<1>5. x % 256 \in 0..255 /\ (x % 256) % 4 = x % 4 /\ (x % 256) % 16 = x % 16 /\ (x % 256) % 64 = x % 64
  BY SMTT(30), <1>4
<1>10. t \in 0..3 BY <1>3 DEF t
<1>11. B \in Nat /\ D \div 64 \in Nat /\ D \div 16 \in Nat /\ D \div 4 \in Nat BY <1>1
<1> HIDE DEF x, t
<1>12. /\ x % 4 = t /\ x % 16 = 4 * (B % 4) + t /\ x % 64 = 4 * (B % 16) + t
       /\ x % 256 = 4 * (B % 64) + t
  <2>1. ShiftedIn(B, t) BY <1>10, <1>11, ShiftIn
  <2> QED BY <1>4, <2>1 DEF ShiftedIn
<1>6. CASE p = 0
  <2>1. t = D \div 64 BY <1>0, <1>1, <1>2, <1>6 DEF t
  <2> QED BY <1>4, <1>5, <1>6, <1>12, <2>1 DEF ShiftGives
<1>7. CASE p = 1
  <2>1. t = 2 * ((D \div 32) % 2) + ((D \div 16) % 2) BY <1>0, <1>2, <1>7 DEF t
  <2>2. D \div 16 = 4 * (D \div 64) + t BY <1>1, <2>1
  <2>3. B % 4 = D \div 64 => x % 16 = D \div 16 BY <1>12, <2>2
  <2> QED BY <1>4, <1>5, <1>7, <2>3 DEF ShiftGives
<1>8. CASE p = 2
  <2>1. t = 2 * ((D \div 8) % 2) + ((D \div 4) % 2) BY <1>0, <1>2, <1>8 DEF t
  <2>2. D \div 4 = 4 * (D \div 16) + t BY <1>1, <2>1
  <2>3. B % 16 = D \div 16 => x % 64 = D \div 4 BY <1>12, <2>2
  <2> QED BY <1>4, <1>5, <1>8, <2>3 DEF ShiftGives
<1>9. CASE p = 3
  <2>1. t = 2 * ((D \div 2) % 2) + ((D \div 1) % 2) BY <1>0, <1>2, <1>9 DEF t
  <2>2. D = 4 * (D \div 4) + t BY <1>1, <2>1
  <2>3. B % 64 = D \div 4 => x % 256 = D BY <1>12, <2>2
  <2> QED BY <1>4, <1>5, <1>9, <2>3 DEF ShiftGives
<1> QED BY <1>6, <1>7, <1>8, <1>9

(* Where the bytes of an access start, and what asks the chip for them.    *)
StartOf(a) == (a \div 8) * 8
RequestBit(a, i) ==
  IF i <= CommandBits THEN BitOf(59, CommandBits - i) ELSE BitOf(StartOf(a), Length - i)

LEMMA StartFacts ==
  ASSUME NEW a \in FlashAddr
  PROVE  /\ StartOf(a) \in Nat
         /\ StartOf(a) \div TwoTo[ADDRESS_BITS] = 0 /\ StartOf(a) \div TwoTo[0] = StartOf(a)
         /\ \A i \in 0..7 : /\ StartOf(a) + i \in Nat /\ StartOf(a) + i < TwoTo[ADDRESS_BITS]
                            /\ Image(StartOf(a) + i) \in 0..255
<1> DEFINE b == ADDRESS_BITS - 3  m == TwoTo[b]  P == TwoTo[ADDRESS_BITS]
<1>1. b \in Nat /\ b + 1 = ADDRESS_BITS - 2 /\ (b + 1) + 1 = ADDRESS_BITS - 1
      /\ ((b + 1) + 1) + 1 = ADDRESS_BITS
  BY PowersOfTwo
<1>2. b \in 0..Length-1 /\ b + 1 \in 0..Length-1 /\ (b + 1) + 1 \in 0..Length-1 /\ b \in 0..Length
  BY <1>1, PowersOfTwo DEF Length, CommandBits
<1> HIDE DEF b
<1>3. m \in Nat /\ P = 8 * m
  <2>1. TwoTo[b] \in Nat /\ TwoTo[b + 1] = 2 * TwoTo[b] /\ TwoTo[(b + 1) + 1] = 2 * TwoTo[b + 1]
        /\ TwoTo[((b + 1) + 1) + 1] = 2 * TwoTo[(b + 1) + 1]
    BY <1>2, PowersOfTwo
  <2> QED BY <1>1, <2>1
<1>4. a \in Nat /\ a < P
  <2>1. a \in 0..(TwoTo[ADDRESS_BITS] - 1) BY AddressAssumption
  <2>2. P \in Nat BY <1>3
  <2> QED BY <2>1, <2>2
<1>5. \A v \in 0..(TwoTo[ADDRESS_BITS] - 1) : Image(v) \in 0..255 BY AddressAssumption
<1> HIDE DEF m, P
<1>6. StartOf(a) \in Nat /\ StartOf(a) + 7 < P BY <1>3, <1>4 DEF StartOf
<1>7. StartOf(a) \div P = 0
  <2>1. P \in Nat \ {0} /\ P * 0 + StartOf(a) = StartOf(a) BY <1>3, <1>6
  <2> QED BY <1>6, <2>1, QuotientUnique
<1>8. StartOf(a) \div 1 = StartOf(a) BY <1>6
<1>9. ASSUME NEW i \in 0..7
      PROVE  /\ StartOf(a) + i \in Nat /\ StartOf(a) + i < TwoTo[ADDRESS_BITS]
             /\ Image(StartOf(a) + i) \in 0..255
  <2>1. StartOf(a) + i \in Nat /\ StartOf(a) + i < P /\ P \in Nat BY <1>3, <1>6
  <2>2. StartOf(a) + i \in 0..(P - 1) BY <2>1
  <2> QED BY <1>5, <2>1, <2>2 DEF P
<1> QED BY <1>6, <1>7, <1>8, <1>9, PowersOfTwo DEF P

LEMMA BitsType ==
  ASSUME NEW v \in Nat, NEW w \in 0..Length
  PROVE  /\ Bits(v, w) \in Seq({0, 1}) /\ Len(Bits(v, w)) = w
         /\ \A i \in 1..w : Bits(v, w)[i] = BitOf(v, w - i)
<1>1. w \in Nat BY LengthType
<1>2. ASSUME NEW i \in 1..w PROVE BitOf(v, w - i) \in {0, 1}
  <2>1. w - i \in 0..Length-1 BY LengthType
  <2> QED BY <2>1, OneBitMore
<1>3. Bits(v, w) \in [1..w -> {0, 1}] BY <1>2 DEF Bits
<1>4. Bits(v, w) \in Seq({0, 1}) BY <1>1, <1>3
<1> QED BY <1>1, <1>3, <1>4 DEF Bits

LEMMA RequestBits ==
  ASSUME NEW a \in FlashAddr
  PROVE  LET s == Bits(59, CommandBits) \o Bits(StartOf(a), ADDRESS_BITS) IN
         /\ s \in Seq({0, 1}) /\ Len(s) = Length
         /\ \A i \in 1..Length : s[i] = RequestBit(a, i)
<1> DEFINE p == Bits(59, CommandBits)  q == Bits(StartOf(a), ADDRESS_BITS)  s == p \o q
<1>1. CommandBits = 8 /\ CommandBits \in 0..Length /\ ADDRESS_BITS \in 0..Length
      /\ ADDRESS_BITS \in Nat /\ Length = 8 + ADDRESS_BITS
  BY PowersOfTwo DEF Length, CommandBits
<1>2. /\ p \in Seq({0, 1}) /\ Len(p) = CommandBits
      /\ \A i \in 1..CommandBits : p[i] = BitOf(59, CommandBits - i)
  <2>1. \A v \in Nat : /\ Bits(v, CommandBits) \in Seq({0, 1}) /\ Len(Bits(v, CommandBits)) = CommandBits
                       /\ \A i \in 1..CommandBits : Bits(v, CommandBits)[i] = BitOf(v, CommandBits - i)
    BY <1>1, BitsType
  <2>2. 59 \in Nat OBVIOUS
  <2> QED BY Zenon, <2>1, <2>2
<1>3. /\ q \in Seq({0, 1}) /\ Len(q) = ADDRESS_BITS
      /\ \A i \in 1..ADDRESS_BITS : q[i] = BitOf(StartOf(a), ADDRESS_BITS - i)
  BY <1>1, StartFacts, BitsType
<1> HIDE DEF p, q
<1>4. /\ s \in Seq({0, 1}) /\ Len(s) = Length
      /\ \A i \in 1..Length : s[i] = IF i <= 8 THEN p[i] ELSE q[i - 8]
  <2>1. p \in Seq({0, 1}) /\ q \in Seq({0, 1}) BY <1>2, <1>3
  <2>2. s \in Seq({0, 1}) BY <2>1
  <2>3. Len(s) = Len(p) + Len(q) BY <2>1
  <2>4. \A i \in 1..(Len(p) + Len(q)) : s[i] = IF i <= Len(p) THEN p[i] ELSE q[i - Len(p)] BY <2>1
  <2>5. Len(p) = 8 /\ Len(p) + Len(q) = Length BY <1>1, <1>2, <1>3
  <2> HIDE DEF s
  <2> QED BY <2>2, <2>3, <2>4, <2>5
<1> HIDE DEF s
<1>5. ASSUME NEW i \in 1..Length PROVE s[i] = RequestBit(a, i)
  <2>1. CASE i <= 8 BY <1>1, <1>2, <1>4, <2>1 DEF RequestBit
  <2>2. CASE ~(i <= 8)
    <3>1. i - 8 \in 1..ADDRESS_BITS /\ ADDRESS_BITS - (i - 8) = Length - i BY <1>1, <2>2
    <3> QED BY <1>1, <1>3, <1>4, <2>2, <3>1 DEF RequestBit
  <2> QED BY <2>1, <2>2
<1>6. s = Bits(59, CommandBits) \o Bits(StartOf(a), ADDRESS_BITS) BY DEF s, p, q
<1> QED BY <1>4, <1>5, <1>6

(* The bytes from the address of an access on have been received, but for  *)
(* the first count of rcv_data.                                            *)
Received(a, count) == \A i \in count..7 : rcv_data[i] = Image(StartOf(a) + (7 - i))

(* What the chip knows in each phase: the bits of the request so far; all  *)
(* of it; and, of the byte it sends, the pairs of bits received.           *)
ChipListens ==
  /\ snd_data \in Seq({0, 1}) /\ Len(snd_data) = Length
  /\ \A i \in 1..snd_count : snd_data[i] = RequestBit(addr_i, Length - snd_count + i)
  /\ chip.count = Length - snd_count + 1
  /\ IF chip.count < 8
     THEN chip.state = "CMD" /\ chip.command = 59 \div TwoTo[8 - chip.count] /\ chip.address = 0
     ELSE /\ chip.mode = "DOR" /\ chip.address = StartOf(addr_i) \div TwoTo[Length - chip.count]
          /\ chip.state = IF chip.count < Length THEN "ADDR" ELSE "DUMMY"
ChipWaits ==
  /\ chip.mode = "DOR" /\ chip.address = StartOf(addr_i) /\ chip.count = Length + 9 - wait_count
  /\ chip.state = IF wait_count = 1 THEN "SEND" ELSE "DUMMY"
SentByte == 8 - rcv_count
SentPair == 3 - rcv_byteCount
ChipSends ==
  LET D == Image(StartOf(addr_i) + SentByte)
      B == rcv_data[rcv_count - 1]
  IN /\ chip.state = "SEND" /\ chip.mode = "DOR" /\ chip.data = D
     /\ chip.address = StartOf(addr_i) + SentByte + 1
     /\ chip.bit = 6 - 2 * SentPair /\ chip.count = Length + 9 + 4 * SentByte + SentPair
     /\ miso = BitOf(D, 7 - 2 * SentPair) /\ mosi = BitOf(D, 6 - 2 * SentPair)
     /\ SentPair = 1 => B % 4 = D \div 64
     /\ SentPair = 2 => B % 16 = D \div 16
     /\ SentPair = 3 => B % 64 = D \div 4

AnswerInv ==
  /\ chip \in Chip /\ rcv_data \in [0..7 -> 0..255]
  /\ spiCs_o = 0 => isFlash_r
  /\ AtRest => /\ chip.state = "IDLE" /\ chip.count = 0
               /\ prev_rden = TRUE /\ prev_addr \in FlashAddr => isFlash_r /\ Received(prev_addr, 0)
  /\ SendsRequest => ChipListens
  /\ WaitsForChip => ChipWaits
  /\ TakesBytes => ChipSends /\ Received(addr_i, rcv_count)
  /\ ReleasesChip => Received(addr_i, 0)

(* The access that the reader works on stays, and so does the select.      *)
LEMMA HeldSame ==
  ASSUME NEW other \in BOOLEAN, ReaderClock(FALSE, other), HeldAccess, spiCs_o = 0
  PROVE  addr_i' = addr_i /\ addr_i \in FlashAddr /\ isFlash_r' = isFlash_r /\ ReaderGoesOn /\ ChipTick
<1>1. HeldAccess' /\ ~flashRstrb BY StillHeld
<1>2. ~SPI_valid BY DEF SPI_valid
<1>3. addr_i' = addr_i BY <1>2 DEF ReaderClock, HeldAccess, validReady_o, access
<1>4. ~IO_rstrb BY DEF HeldAccess, IO_rstrb, rstrb
<1>5. isFlash_r' = isFlash_r BY <1>4 DEF ReaderClock, Strobes
<1> QED BY <1>1, <1>3, <1>5 DEF ReaderClock, HeldAccess, isFlash

(* The first bit of the request.                                           *)
LEMMA StartStep ==
  ASSUME chip \in Chip, chip.state = "IDLE", chip.count = 0, addr_i \in FlashAddr, addr_i' = addr_i,
         ReaderStart, ChipTick
  PROVE  chip' \in Chip /\ ChipListens'
<1>1. Length \in Nat /\ Length >= 12 BY PowersOfTwo DEF Length, CommandBits
<1>2. spiCs_o' = 0 /\ snd_count' = Length BY DEF ReaderStart, Length
<1>3. snd_data' = Bits(59, CommandBits) \o Bits(StartOf(addr_i), ADDRESS_BITS)
  BY DEF ReaderStart, StartOf
<1>4. /\ snd_data' \in Seq({0, 1}) /\ Len(snd_data') = Length
      /\ \A i \in 1..Length : snd_data'[i] = RequestBit(addr_i, i)
  BY <1>3, RequestBits
<1>5. RequestBit(addr_i, 1) = 0
  <2>1. RequestBit(addr_i, 1) = (59 \div TwoTo[7]) % 2 BY DEF RequestBit, CommandBits, BitOf
  <2> QED BY <2>1, PowersOfTwo
<1>6. MOSI_out = 0
  <2>1. 1 \in 1..Length BY <1>1
  <2> QED BY <1>1, <1>2, <1>4, <1>5, <2>1 DEF MOSI_out
<1>7. chip' = RisingEdge(chip, 0) /\ chip' \in Chip
  <2>1. MOSI_out \in {0, 1} BY <1>6
  <2> QED BY <1>2, <1>6, <2>1, TickListens
<1>8. chip'.count = 1 /\ chip'.state = "CMD" /\ chip'.command = 0 /\ chip'.address = 0
  <2> DEFINE d == Edge(chip)
  <2>1. d.state = "CMD" /\ d.command = 0 /\ d.address = 0 BY EdgeFields
  <2>2. d = Edge(chip) OBVIOUS
  <2> HIDE DEF d
  <2>3. 0 \in {0, 1} OBVIOUS
  <2>4. /\ chip'.count = chip.count + 1 /\ chip'.command = (2 * d.command + 0) % 256
        /\ chip'.address = d.address /\ chip'.state = "CMD"
    BY <1>7, <2>1, <2>2, <2>3, EdgeStep
  <2> QED BY <2>1, <2>4
<1>9. 59 \div TwoTo[8 - 1] = 0 BY PowersOfTwo
<1>10. \A i \in 1..Length : Length - Length + i = i BY <1>1
<1> QED BY <1>1, <1>2, <1>4, <1>7, <1>8, <1>9, <1>10 DEF ChipListens

(* One more bit of the request.                                            *)
LEMMA SendStep ==
  ASSUME chip \in Chip, SendsRequest, ChipListens, addr_i \in FlashAddr, addr_i' = addr_i,
         ReaderGoesOn, ChipTick
  PROVE  /\ chip' \in Chip
         /\ snd_count # 1 => ChipListens'
         /\ snd_count = 1 => ChipWaits'
<1> DEFINE k == chip.count  A == StartOf(addr_i)
<1>1. Length \in Nat /\ Length >= 12 /\ ADDRESS_BITS \in Nat /\ ADDRESS_BITS = Length - 8
  BY PowersOfTwo DEF Length, CommandBits
<1>2. /\ spiCs_o' = 0 /\ snd_count \in 1..Length /\ snd_count' = snd_count - 1
      /\ snd_data' = Append(Tail(snd_data), 1)
      /\ wait_count' = IF snd_count = 1 THEN 8 ELSE 0
  BY DEF SendsRequest, ReaderGoesOn, sending, waiting, receiving, WaitCycles, WAIT
<1>3. /\ snd_data' \in Seq({0, 1}) /\ Len(snd_data') = Length
      /\ \A i \in 1..Length-1 : snd_data'[i] = snd_data[i + 1]
  <2>1. snd_data \in Seq({0, 1}) /\ Len(snd_data) = Length BY DEF ChipListens
  <2> DEFINE t == Tail(snd_data)
  <2>2. snd_data # <<>> BY <1>1, <2>1
  <2>3. t \in Seq({0, 1}) /\ Len(t) = Length - 1 BY <1>1, <2>1, <2>2
  <2>4. \A i \in 1..Length-1 : t[i] = snd_data[i + 1] BY <1>1, <2>1, <2>2
  <2>5. snd_data' = Append(t, 1) BY <1>2
  <2> HIDE DEF t
  <2>6. snd_data' \in Seq({0, 1}) /\ Len(snd_data') = (Length - 1) + 1 BY <2>3, <2>5
  <2>7. \A i \in 1..Length-1 : snd_data'[i] = t[i] BY <2>3, <2>5
  <2> QED BY <1>1, <2>4, <2>6, <2>7
<1>4. /\ k = Length - snd_count + 1 /\ k \in 1..Length
      /\ \A i \in 1..snd_count : snd_data[i] = RequestBit(addr_i, Length - snd_count + i)
  BY <1>1, <1>2 DEF ChipListens
<1>5. \A i \in 1..snd_count' : snd_data'[i] = RequestBit(addr_i', Length - snd_count' + i)
  <2> SUFFICES ASSUME NEW i \in 1..(snd_count - 1)
               PROVE  snd_data'[i] = RequestBit(addr_i, Length - (snd_count - 1) + i)
    BY <1>2
  <2>1. i + 1 \in 1..snd_count /\ i \in 1..Length-1
        /\ Length - (snd_count - 1) + i = Length - snd_count + (i + 1)
    BY <1>1, <1>2
  <2> QED BY <1>3, <1>4, <2>1
<1>6. MOSI_out = IF snd_count = 1 THEN 0 ELSE RequestBit(addr_i, k + 1)
  <2>1. CASE snd_count = 1 BY <1>2, <2>1 DEF MOSI_out
  <2>2. CASE snd_count # 1
    <3>1. 1 \in 1..snd_count' /\ snd_count' # 0 /\ Length - snd_count' + 1 = k + 1
      BY <1>1, <1>2, <1>4, <2>2
    <3>2. snd_data'[1] = RequestBit(addr_i, k + 1) BY <1>5, <3>1
    <3> QED BY <2>2, <3>1, <3>2 DEF MOSI_out
  <2> QED BY <2>1, <2>2
<1>7. A \in Nat /\ A \div TwoTo[ADDRESS_BITS] = 0 /\ A \div TwoTo[0] = A BY StartFacts
<1>8. k # Length => RequestBit(addr_i, k + 1) \in {0, 1}
  <2> SUFFICES ASSUME k # Length PROVE RequestBit(addr_i, k + 1) \in {0, 1} OBVIOUS
  <2>1. CASE k + 1 <= 8
    <3>1. 8 - (k + 1) \in 0..Length-1 /\ 59 \in Nat BY <1>1, <1>4, <2>1
    <3> QED BY <2>1, <3>1, OneBitMore DEF RequestBit, CommandBits
  <2>2. CASE ~(k + 1 <= 8)
    <3>1. Length - (k + 1) \in 0..Length-1 BY <1>1, <1>4, <2>2
    <3> QED BY <1>7, <2>2, <3>1, OneBitMore DEF RequestBit, CommandBits
  <2> QED BY <2>1, <2>2
<1>9. MOSI_out \in {0, 1} BY <1>1, <1>2, <1>4, <1>6, <1>8
<1>10. chip.state # "SEND" /\ chip.state # "IDLE" BY DEF ChipListens
<1> DEFINE dat == MOSI_out  e == chip'
<1>11. e = RisingEdge(chip, dat) /\ e \in Chip BY <1>2, <1>9, <1>10, TickListens
<1>12. Edge(chip) = chip BY <1>10, EdgeFields
<1> HIDE DEF dat
<1>13. /\ e.count = k + 1
       /\ chip.state = "CMD" =>
            /\ e.command = (2 * chip.command + dat) % 256 /\ e.address = chip.address
            /\ IF k = 7 THEN e.state = "ADDR" /\ e.mode = Mode(e.command) ELSE e.state = "CMD"
       /\ chip.state = "ADDR" =>
            /\ e.address = 2 * chip.address + dat /\ e.mode = chip.mode
            /\ e.state = IF k = Length - 1 THEN "DUMMY" ELSE "ADDR"
       /\ chip.state = "DUMMY" =>
            /\ e.address = chip.address /\ e.mode = chip.mode
            /\ e.state = IF k = Length + 7 THEN "SEND" ELSE "DUMMY"
  BY <1>9, <1>11, <1>12, EdgeStep DEF dat
<1>14. k # Length => dat = RequestBit(addr_i, k + 1) BY <1>1, <1>2, <1>4, <1>6 DEF dat
<1>18. ASSUME snd_count # 1,
              IF k + 1 < 8
              THEN e.state = "CMD" /\ e.command = 59 \div TwoTo[8 - (k + 1)] /\ e.address = 0
              ELSE /\ e.mode = "DOR" /\ e.address = A \div TwoTo[Length - (k + 1)]
                   /\ e.state = IF k + 1 < Length THEN "ADDR" ELSE "DUMMY"
       PROVE  ChipListens'
  <2>1. e.count = k + 1 /\ k + 1 = Length - snd_count' + 1 BY <1>1, <1>2, <1>4, <1>13
  <2>2. A = StartOf(addr_i') OBVIOUS
  <2> HIDE DEF A, k, e
  <2>3. /\ e.count = Length - snd_count' + 1
        /\ IF e.count < 8
           THEN e.state = "CMD" /\ e.command = 59 \div TwoTo[8 - e.count] /\ e.address = 0
           ELSE /\ e.mode = "DOR" /\ e.address = A \div TwoTo[Length - e.count]
                /\ e.state = IF e.count < Length THEN "ADDR" ELSE "DUMMY"
    BY <1>18, <2>1
  <2> QED BY <1>3, <1>5, <2>2, <2>3 DEF ChipListens, e
<1>15. CASE k < 8
  <2>1. chip.state = "CMD" /\ chip.command = 59 \div TwoTo[8 - k] /\ chip.address = 0 /\ snd_count # 1
    BY <1>1, <1>4, <1>15 DEF ChipListens
  <2>2. dat = BitOf(59, 8 - (k + 1)) BY <1>1, <1>4, <1>14, <1>15 DEF RequestBit, CommandBits
  <2>3. /\ 2 * (59 \div TwoTo[8 - k]) + dat = 59 \div TwoTo[8 - (k + 1)]
        /\ 59 \div TwoTo[8 - (k + 1)] \in 0..255
    <3> DEFINE i == 8 - (k + 1)
    <3>1. i \in 0..Length-1 /\ i + 1 = 8 - k /\ 59 \in Nat /\ i \in 0..7 BY <1>1, <1>4, <1>15
    <3> HIDE DEF i
    <3>2. 2 * (59 \div TwoTo[i + 1]) + BitOf(59, i) = 59 \div TwoTo[i]
      BY <3>1, OneBitMore
    <3>3. 59 \div TwoTo[i] \in 0..255 BY <3>1, PowersOfTwo
    <3> QED BY <2>2, <3>1, <3>2, <3>3 DEF i
  <2>4. e.command = 59 \div TwoTo[8 - (k + 1)] /\ e.address = 0 BY <1>13, <2>1, <2>3
  <2>5. CASE k = 7
    <3>1. e.mode = "DOR" /\ e.state = "ADDR" BY <1>13, <2>1, <2>4, <2>5, PowersOfTwo DEF Mode
    <3>2. k + 1 = 8 /\ A \div TwoTo[Length - 8] = 0 BY <1>1, <1>7, <2>5
    <3> QED BY <1>1, <1>11, <1>18, <2>1, <2>4, <3>1, <3>2
  <2>6. CASE k # 7
    <3>1. e.state = "CMD" /\ k + 1 < 8 BY <1>4, <1>13, <1>15, <2>1, <2>6
    <3> QED BY <1>11, <1>18, <2>1, <2>4, <3>1
  <2> QED BY <2>5, <2>6
<1>16. CASE k >= 8 /\ k < Length
  <2>1. chip.state = "ADDR" /\ chip.mode = "DOR" /\ chip.address = A \div TwoTo[Length - k] /\ snd_count # 1
    BY <1>1, <1>4, <1>16 DEF ChipListens
  <2>2. dat = BitOf(A, Length - (k + 1)) BY <1>1, <1>4, <1>14, <1>16 DEF RequestBit, CommandBits
  <2>3. 2 * (A \div TwoTo[Length - k]) + dat = A \div TwoTo[Length - (k + 1)]
    <3> DEFINE i == Length - (k + 1)
    <3>1. i \in 0..Length-1 /\ i + 1 = Length - k BY <1>1, <1>4, <1>16
    <3> HIDE DEF i, A
    <3>2. 2 * (A \div TwoTo[i + 1]) + BitOf(A, i) = A \div TwoTo[i] BY <1>7, <3>1, OneBitMore
    <3> QED BY <2>2, <3>1, <3>2 DEF i
  <2>4. e.address = A \div TwoTo[Length - (k + 1)] /\ e.mode = "DOR" BY <1>13, <2>1, <2>3
  <2>5. e.state = IF k + 1 < Length THEN "ADDR" ELSE "DUMMY" BY <1>1, <1>4, <1>13, <1>16, <2>1
  <2>6. ~(k + 1 < 8) BY <1>4, <1>16
  <2> QED BY <1>11, <1>18, <2>1, <2>4, <2>5, <2>6
<1>17. CASE k = Length
  <2>1. chip.state = "DUMMY" /\ chip.mode = "DOR" /\ chip.address = A \div TwoTo[0] /\ snd_count = 1
    BY <1>1, <1>2, <1>4, <1>17 DEF ChipListens
  <2>2. e.state = "DUMMY" /\ e.mode = "DOR" /\ e.address = A BY <1>1, <1>7, <1>13, <1>17, <2>1
  <2>3. wait_count' = 8 /\ e.count = Length + 9 - wait_count' BY <1>1, <1>2, <1>13, <1>17, <2>1
  <2> QED BY <1>1, <1>11, <2>1, <2>2, <2>3 DEF ChipWaits
<1>19. k < 8 \/ (k >= 8 /\ k < Length) \/ k = Length BY <1>1, <1>4
<1> QED BY <1>15, <1>16, <1>17, <1>19

(* A clock of the wait; the last one brings the first pair of bits.        *)
LEMMA WaitStep ==
  ASSUME chip \in Chip, WaitsForChip, ChipWaits, addr_i \in FlashAddr, addr_i' = addr_i,
         ReaderGoesOn, ChipTick
  PROVE  /\ chip' \in Chip
         /\ wait_count # 1 => ChipWaits'
         /\ wait_count = 1 => ChipSends'
<1> DEFINE A == StartOf(addr_i)  w == wait_count
<1>1. Length \in Nat /\ Length % 4 = 0
  <2>1. ADDRESS_BITS \in Nat /\ ADDRESS_BITS % 4 = 0 BY AddressAssumption
  <2> QED BY <2>1 DEF Length, CommandBits
<1>2. /\ spiCs_o' = 0 /\ snd_count' = 0 /\ w \in 1..8 /\ wait_count' = w - 1
      /\ rcv_count' = (IF w = 1 THEN 8 ELSE 0) /\ (w = 1 => rcv_byteCount' = 3)
  BY DEF WaitsForChip, ReaderGoesOn, sending, waiting, receiving, WAIT, BYTES
<1>3. MOSI_out = 0 BY <1>2 DEF MOSI_out
<1>4. /\ chip.mode = "DOR" /\ chip.address = A /\ chip.count = Length + 9 - w
      /\ chip.state = IF w = 1 THEN "SEND" ELSE "DUMMY"
  BY DEF ChipWaits
<1>5. CASE w # 1
  <2> DEFINE e == chip'
  <2>1. chip' = RisingEdge(chip, 0) /\ chip' \in Chip BY <1>2, <1>3, <1>4, <1>5, TickListens
  <2>2. Edge(chip) = chip BY <1>4, <1>5, EdgeFields
  <2>3. 0 \in {0, 1} OBVIOUS
  <2>4. /\ e.count = chip.count + 1 /\ e.address = A /\ e.mode = "DOR"
        /\ e.state = IF chip.count = Length + 7 THEN "SEND" ELSE "DUMMY"
    BY <1>4, <1>5, <2>1, <2>2, <2>3, EdgeStep
  <2>5. /\ e.count = Length + 9 - wait_count'
        /\ e.state = IF wait_count' = 1 THEN "SEND" ELSE "DUMMY"
    BY <1>1, <1>2, <1>4, <2>4
  <2> QED BY <1>5, <2>1, <2>4, <2>5 DEF ChipWaits
<1>6. CASE w = 1
  <2> DEFINE D == Image(A)
  <2>1. MOSI_out \in {0, 1} /\ spiCs_o' # 1 BY <1>2, <1>3
  <2>2. PICK d \in Nat, b \in Int :
           /\ IF chip.count % 4 = 0
              THEN /\ chip.address < TwoTo[ADDRESS_BITS] => d = Image(chip.address)
                   /\ b = 8 /\ chip'.address = chip.address + 1
              ELSE d = chip.data /\ b = chip.bit /\ chip'.address = chip.address
           /\ miso' = IF b > 0 THEN BitOf(d, b - 1) ELSE 0
           /\ mosi' = IF b > 1 THEN BitOf(d, b - 2) ELSE 0
           /\ chip' \in Chip /\ chip'.state = "SEND" /\ chip'.mode = "DOR" /\ chip'.data = d
           /\ chip'.bit = b - 2 /\ chip'.count = chip.count + 1
    BY <1>4, <1>6, <2>1, TickSends
  <2>3. A \in Nat /\ A < TwoTo[ADDRESS_BITS]
    <3>1. 0 \in 0..7 /\ A \in Nat /\ A + 0 = A BY StartFacts
    <3>2. A + 0 < TwoTo[ADDRESS_BITS] BY <3>1, StartFacts
    <3> QED BY <3>1, <3>2
  <2>4. chip.count = Length + 8 /\ (Length + 8) % 4 = 0 BY <1>1, <1>4, <1>6
  <2>5. d = D /\ b = 8 /\ chip'.address = A + 1 BY <1>4, <2>2, <2>3, <2>4
  <2>6. miso' = BitOf(D, 7) /\ mosi' = BitOf(D, 6) /\ chip'.bit = 6 BY <2>2, <2>5
  <2>7. SentByte' = 0 /\ SentPair' = 0 BY <1>2, <1>6 DEF SentByte, SentPair
  <2>8. chip'.count = Length + 9 BY <1>1, <2>2, <2>4
  <2> DEFINE S == Image(StartOf(addr_i) + SentByte)
  <2>9. S' = D /\ StartOf(addr_i') + SentByte' + 1 = A + 1 /\ Length + 9 + 4 * SentByte' + SentPair' = Length + 9
        /\ 6 - 2 * SentPair' = 6 /\ 7 - 2 * SentPair' = 7
    BY <1>1, <2>3, <2>7
  <2> HIDE DEF D, A
  <2> QED BY <1>6, <2>2, <2>5, <2>6, <2>7, <2>8, <2>9 DEF ChipSends
<1> QED BY <1>5, <1>6

(* A pair of bits into the byte; the last one completes it and the chip    *)
(* goes on to the next byte.                                               *)
LEMMA TakeStep ==
  ASSUME chip \in Chip, rcv_data \in [0..7 -> 0..255], rcv_byteCount \in 0..3,
         TakesBytes, ChipSends, Received(addr_i, rcv_count), addr_i \in FlashAddr, addr_i' = addr_i,
         ReaderGoesOn, ChipTick
  PROVE  /\ chip' \in Chip /\ rcv_data' \in [0..7 -> 0..255]
         /\ rcv_count' # 0 => ChipSends' /\ Received(addr_i, rcv_count)'
         /\ rcv_count' = 0 => Received(addr_i, 0)'
<1> DEFINE A == StartOf(addr_i)  c == rcv_count  j == 8 - c  p == 3 - rcv_byteCount
           D == Image(A + j)  B == rcv_data[c - 1]  N == Shift(B)
<1>1. Length \in Nat /\ Length % 4 = 0
  <2>1. ADDRESS_BITS \in Nat /\ ADDRESS_BITS % 4 = 0 BY AddressAssumption
  <2> QED BY <2>1 DEF Length, CommandBits
<1>2. /\ spiCs_o' = 0 /\ snd_count' = 0 /\ c \in 1..8 /\ p \in 0..3 /\ j \in 0..7 /\ c = 8 - j
      /\ rcv_byteCount = 3 - p /\ rcv_byteCount' = (rcv_byteCount + 3) % 4
      /\ rcv_count' = (IF rcv_byteCount = 0 THEN c - 1 ELSE c)
      /\ rcv_data' = [rcv_data EXCEPT ![c - 1] = N]
  BY DEF TakesBytes, ReaderGoesOn, sending, waiting, receiving, BYTES
<1>3. /\ A \in Nat /\ D \in 0..255
      /\ \A i \in 0..7 : A + i \in Nat /\ A + i < TwoTo[ADDRESS_BITS] /\ Image(A + i) \in 0..255
  BY <1>2, StartFacts
<1>4. /\ chip.state = "SEND" /\ chip.mode = "DOR" /\ chip.data = D /\ chip.address = A + j + 1
      /\ chip.bit = 6 - 2 * p /\ chip.count = Length + 9 + 4 * j + p
      /\ miso = BitOf(D, 7 - 2 * p) /\ mosi = BitOf(D, 6 - 2 * p)
      /\ p = 1 => B % 4 = D \div 64
      /\ p = 2 => B % 16 = D \div 16
      /\ p = 3 => B % 64 = D \div 4
  BY DEF ChipSends, SentByte, SentPair
<1>5. B \in 0..255 /\ c - 1 \in 0..7 BY <1>2
<1> HIDE DEF A, j, p, D, B
<1>6. /\ N \in 0..255
      /\ p = 0 => N % 4 = D \div 64
      /\ p = 1 => N % 16 = D \div 16
      /\ p = 2 => N % 64 = D \div 4
      /\ p = 3 => N = D
  <2>1. D \in 0..255 /\ B \in 0..255 /\ p \in 0..3 /\ miso = BitOf(D, 7 - 2 * p) /\ mosi = BitOf(D, 6 - 2 * p)
    BY <1>2, <1>3, <1>4, <1>5
  <2>2. PairOnWires(D, p) BY <2>1 DEF PairOnWires
  <2>3. ShiftGives(B, D, p) BY <2>1, <2>2, ShiftExact
  <2> QED BY <1>2, <1>4, <2>3 DEF ShiftGives
<1> HIDE DEF N
<1>7. /\ rcv_data' \in [0..7 -> 0..255] /\ rcv_data'[c - 1] = N
      /\ \A i \in c..7 : rcv_data'[i] = rcv_data[i]
  BY <1>2, <1>5, <1>6
<1>8. \A i \in c..7 : rcv_data'[i] = Image(A + (7 - i)) BY <1>7 DEF Received, A
<1>9. MOSI_out = 0 BY <1>2 DEF MOSI_out
<1>10. MOSI_out \in {0, 1} /\ spiCs_o' # 1 BY <1>2, <1>9
<1>11. PICK d \in Nat, b \in Int :
         /\ IF chip.count % 4 = 0
            THEN /\ chip.address < TwoTo[ADDRESS_BITS] => d = Image(chip.address)
                 /\ b = 8 /\ chip'.address = chip.address + 1
            ELSE d = chip.data /\ b = chip.bit /\ chip'.address = chip.address
         /\ miso' = IF b > 0 THEN BitOf(d, b - 1) ELSE 0
         /\ mosi' = IF b > 1 THEN BitOf(d, b - 2) ELSE 0
         /\ chip' \in Chip /\ chip'.state = "SEND" /\ chip'.mode = "DOR" /\ chip'.data = d
         /\ chip'.bit = b - 2 /\ chip'.count = chip.count + 1
  BY <1>4, <1>10, TickSends
<1>12. CASE p # 3
  <2>1. rcv_byteCount' = rcv_byteCount - 1 /\ rcv_count' = c BY <1>2, <1>12
  <2>2. SentByte' = j /\ SentPair' = p + 1 BY <1>2, <2>1 DEF SentByte, SentPair, j
  <2>3. chip.count % 4 # 0
    <3>1. chip.count = Length + 4 * j + (9 + p) BY <1>1, <1>2, <1>4
    <3>2. (Length + 4 * j + (9 + p)) % 4 = (9 + p) % 4 BY <1>1, <1>2
    <3>3. (9 + p) % 4 # 0 BY <1>2, <1>12
    <3> QED BY <3>1, <3>2, <3>3
  <2>4. d = D /\ b = 6 - 2 * p /\ chip'.address = A + j + 1 BY <1>4, <1>11, <2>3
  <2>5. miso' = BitOf(D, b - 1) /\ mosi' = BitOf(D, b - 2) BY <1>2, <1>11, <1>12, <2>4
  <2>6. 7 - 2 * (p + 1) = b - 1 /\ 6 - 2 * (p + 1) = b - 2 BY <1>2, <2>4
  <2>7. chip'.count = Length + 9 + 4 * j + (p + 1) BY <1>1, <1>2, <1>4, <1>11
  <2>8. /\ p + 1 = 1 => N % 4 = D \div 64
        /\ p + 1 = 2 => N % 16 = D \div 16
        /\ p + 1 = 3 => N % 64 = D \div 4
    BY <1>2, <1>6
  <2>9. rcv_data'[rcv_count' - 1] = N /\ StartOf(addr_i') = A /\ Image(A + j) = D
    BY <1>7, <2>1 DEF A, D
  <2>10. ChipSends'
    <3>1. /\ chip'.state = "SEND" /\ chip'.mode = "DOR" /\ chip'.data = D
          /\ chip'.address = A + j + 1 /\ chip'.bit = 6 - 2 * (p + 1)
          /\ chip'.count = Length + 9 + 4 * j + (p + 1)
          /\ miso' = BitOf(D, 7 - 2 * (p + 1)) /\ mosi' = BitOf(D, 6 - 2 * (p + 1))
      BY <1>11, <2>4, <2>5, <2>6, <2>7
    <3> QED BY <2>2, <2>8, <2>9, <3>1 DEF ChipSends
  <2>11. rcv_count' # 0 /\ Received(addr_i, rcv_count)' BY <1>2, <1>8, <2>1 DEF Received, A
  <2> QED BY <1>7, <1>11, <2>10, <2>11
<1>13. CASE p = 3
  <2>1. rcv_byteCount' = 3 /\ rcv_count' = c - 1 BY <1>2, <1>13
  <2>2. \A i \in (c - 1)..7 : rcv_data'[i] = Image(A + (7 - i))
    <3> SUFFICES ASSUME NEW i \in (c - 1)..7 PROVE rcv_data'[i] = Image(A + (7 - i)) OBVIOUS
    <3>1. CASE i = c - 1
      <4>1. 7 - i = j BY <1>2, <3>1
      <4> QED BY <1>6, <1>7, <1>13, <3>1, <4>1 DEF D
    <3>2. CASE i # c - 1
      <4>1. i \in c..7 BY <1>2, <3>2
      <4> QED BY <1>8, <4>1
    <3> QED BY <3>1, <3>2
  <2>3. CASE c = 1
    <3>1. rcv_count' = 0 BY <2>1, <2>3
    <3> QED BY <1>7, <1>11, <2>2, <2>3, <3>1 DEF Received, A
  <2>4. CASE c # 1
    <3>1. j + 1 \in 0..7 /\ A + (j + 1) = A + j + 1 BY <1>2, <1>3, <2>4
    <3>2. SentByte' = j + 1 /\ SentPair' = 0 BY <1>2, <2>1 DEF SentByte, SentPair
    <3>3. chip.count % 4 = 0 /\ chip.count + 1 = Length + 9 + 4 * (j + 1) + 0
      <4>1. chip.count = Length + 4 * j + 12 /\ (Length + 4 * j + 12) % 4 = 0 BY <1>1, <1>2, <1>4, <1>13
      <4> QED BY <1>1, <1>2, <4>1
    <3> DEFINE E == Image(A + (j + 1))
    <3>4. chip.address < TwoTo[ADDRESS_BITS] /\ Image(chip.address) = E BY <1>3, <1>4, <3>1
    <3>5. d = E /\ b = 8 /\ chip'.address = A + (j + 1) + 1 BY <1>4, <1>11, <3>1, <3>3, <3>4
    <3>6. miso' = BitOf(E, 7) /\ mosi' = BitOf(E, 6) /\ chip'.bit = 6 BY <1>11, <3>5
    <3>7. StartOf(addr_i') = A BY DEF A
    <3>8. 7 - 2 * 0 = 7 /\ 6 - 2 * 0 = 6 OBVIOUS
    <3>9. ChipSends'
      <4>1. /\ chip'.state = "SEND" /\ chip'.mode = "DOR" /\ chip'.data = E
            /\ chip'.address = A + (j + 1) + 1 /\ chip'.bit = 6 - 2 * 0
            /\ chip'.count = Length + 9 + 4 * (j + 1) + 0
            /\ miso' = BitOf(E, 7 - 2 * 0) /\ mosi' = BitOf(E, 6 - 2 * 0)
        BY <1>11, <3>3, <3>5, <3>6, <3>8
      <4> QED BY <3>2, <3>7, <4>1 DEF ChipSends
    <3>10. rcv_count' # 0 /\ Received(addr_i, rcv_count)' BY <1>2, <2>1, <2>2, <2>4 DEF Received, A
    <3> QED BY <1>7, <1>11, <3>9, <3>10
  <2> QED BY <2>3, <2>4
<1> QED BY <1>12, <1>13

(* The counters tell the phases apart.                                     *)
PhaseCounters ==
  /\ AtRest => spiCs_o = 1
  /\ SendsRequest => spiCs_o = 0 /\ snd_count # 0
  /\ WaitsForChip => spiCs_o = 0 /\ snd_count = 0 /\ wait_count # 0
  /\ TakesBytes => spiCs_o = 0 /\ snd_count = 0 /\ wait_count = 0 /\ rcv_count # 0
  /\ ReleasesChip => spiCs_o = 0 /\ snd_count = 0 /\ wait_count = 0 /\ rcv_count = 0

LEMMA PhasesApart == PhaseCounters /\ PhaseCounters'
<1>1. PhaseCounters
  BY LengthType DEF PhaseCounters, AtRest, SendsRequest, WaitsForChip, TakesBytes, ReleasesChip, WAIT, BYTES
<1>2. PhaseCounters'
  BY LengthType DEF PhaseCounters, AtRest, SendsRequest, WaitsForChip, TakesBytes, ReleasesChip, WAIT, BYTES
<1> QED BY <1>1, <1>2

(* A clock behind which the chip is not selected.                          *)
LEMMA UnselectedStep ==
  ASSUME chip \in Chip, ChipTick, spiCs_o' = 1, snd_count' = 0
  PROVE  chip' \in Chip /\ chip'.state = "IDLE" /\ chip'.count = 0
<1>1. MOSI_out = 0 BY DEF MOSI_out
<1>2. MOSI_out \in {0, 1} BY <1>1
<1> QED BY <1>2, TickListens

LEMMA AnswerStep ==
  ASSUME ReaderInv, AnswerInv, NEW reset_i \in BOOLEAN, NEW other \in BOOLEAN,
         ReaderClock(reset_i, other)
  PROVE  AnswerInv'
<1>1. chip \in Chip /\ rcv_data \in [0..7 -> 0..255] /\ ChipTick BY DEF AnswerInv, ReaderClock
<1>2. PhaseCounters' BY PhasesApart
<1>3. CASE reset_i
  <2>1. ReaderReset /\ prev_rden' = FALSE BY <1>3 DEF ReaderClock, Strobes
  <2>2. spiCs_o' = 1 /\ snd_count' = 0 /\ rcv_data' = rcv_data BY <2>1 DEF ReaderReset
  <2>3. chip' \in Chip /\ chip'.state = "IDLE" /\ chip'.count = 0 BY <1>1, <2>2, UnselectedStep
  <2> QED BY <1>1, <1>2, <2>1, <2>2, <2>3 DEF AnswerInv, PhaseCounters
<1>4. CASE ~reset_i /\ flashRstrb
  <2>1. ReaderStart /\ addr_i \in FlashAddr /\ rden_i /\ IO_rstrb
    BY <1>4 DEF ReaderClock, flashRstrb, IO_rstrb, rstrb, isFlash
  <2>2. addr_i' = addr_i BY <1>4, <2>1 DEF ReaderClock, validReady_o, SPI_valid, isFlash, access
  <2>3. AtRest
    <3>1. ~HeldAccess BY <1>4 DEF HeldAccess, flashRstrb, IO_rstrb, rstrb
    <3> QED BY <3>1 DEF ReaderInv, SendsRequest, WaitsForChip, TakesBytes, ReleasesChip
  <2>4. chip' \in Chip /\ ChipListens'
    <3>1. chip.state = "IDLE" /\ chip.count = 0 BY <2>3 DEF AnswerInv
    <3> QED BY <1>1, <2>1, <2>2, <3>1, StartStep
  <2>5. isFlash_r' BY Zenon, <1>4, <2>1 DEF ReaderClock, Strobes, isFlash
  <2>6. spiCs_o' = 0 /\ snd_count' # 0 /\ rcv_data' = rcv_data
    <3>1. snd_count' = Length BY <2>1 DEF ReaderStart, Length
    <3> QED BY <2>1, <3>1, LengthType DEF ReaderStart
  <2> QED BY <1>1, <1>2, <2>4, <2>5, <2>6 DEF AnswerInv, PhaseCounters
<1>5. CASE ~reset_i /\ ~flashRstrb /\ AtRest
  <2>1. ReaderGoesOn BY <1>5 DEF ReaderClock
  <2>2. spiCs_o' = 1 /\ snd_count' = 0 /\ rcv_data' = rcv_data
    BY <1>5, <2>1 DEF ReaderGoesOn, AtRest, sending, waiting, receiving
  <2>3. chip' \in Chip /\ chip'.state = "IDLE" /\ chip'.count = 0 BY <1>1, <2>2, UnselectedStep
  <2>4. prev_rden' = rden_i /\ prev_addr' = addr_i
    BY <1>5 DEF ReaderClock, Strobes, ReaderInv
  <2>5. ASSUME prev_rden' = TRUE, prev_addr' \in FlashAddr
        PROVE  isFlash_r' /\ Received(prev_addr, 0)'
    <3>0. rden_i = TRUE /\ addr_i \in FlashAddr BY <2>4, <2>5
    <3>1. addr_i \notin MemoryAddr BY <3>0, AddressAssumption
    <3>2. ~rstrb /\ ~IO_rstrb BY <1>5, <3>0, <3>1 DEF flashRstrb, IO_rstrb, isFlash
    <3>3. prev_addr = addr_i /\ prev_rden = TRUE BY <3>0, <3>2 DEF rstrb
    <3>4. isFlash_r /\ Received(addr_i, 0) BY <1>5, <3>0, <3>3 DEF AnswerInv
    <3>5. isFlash_r' BY Zenon, <1>5, <3>2, <3>4 DEF ReaderClock, Strobes
    <3>6. Received(prev_addr, 0)' BY <2>2, <2>4, <3>4 DEF Received
    <3> QED BY <3>5, <3>6
  <2>6. AtRest' => /\ chip'.state = "IDLE" /\ chip'.count = 0
                   /\ prev_rden' = TRUE /\ prev_addr' \in FlashAddr => isFlash_r' /\ Received(prev_addr, 0)'
    BY Zenon, <2>3, <2>5
  <2> QED BY <1>1, <1>2, <2>2, <2>3, <2>6 DEF AnswerInv, PhaseCounters
<1>6. CASE ~reset_i /\ ~AtRest
  <2>1. HeldAccess /\ spiCs_o = 0
    BY <1>6 DEF ReaderInv, SendsRequest, WaitsForChip, TakesBytes, ReleasesChip
  <2>2. ReaderClock(FALSE, other) BY <1>6
  <2>3. /\ addr_i' = addr_i /\ addr_i \in FlashAddr /\ isFlash_r' = isFlash_r /\ ReaderGoesOn
        /\ prev_addr' = addr_i /\ prev_rden' = TRUE
    <3>1. prev_addr' = addr_i /\ prev_rden' = TRUE BY <2>1, <2>2 DEF ReaderClock, Strobes, HeldAccess
    <3> QED BY <2>1, <2>2, <3>1, HeldSame
  <2>4. isFlash_r' BY Zenon, <2>1, <2>3 DEF AnswerInv
  <2>5. CASE SendsRequest
    <3>1. rcv_data' = rcv_data /\ spiCs_o' = 0 /\ snd_count' = snd_count - 1 /\ snd_count \in 1..Length
          /\ wait_count' = IF snd_count = 1 THEN 8 ELSE 0
      BY <2>3, <2>5 DEF SendsRequest, ReaderGoesOn, sending, waiting, receiving, WaitCycles, WAIT
    <3>2. chip' \in Chip /\ (snd_count # 1 => ChipListens') /\ (snd_count = 1 => ChipWaits')
      BY <1>1, <2>3, <2>5, SendStep DEF AnswerInv
    <3>3. CASE snd_count = 1
      <4>1. snd_count' = 0 /\ wait_count' # 0 BY <3>1, <3>3
      <4> QED BY <1>1, <1>2, <2>4, <3>1, <3>2, <3>3, <4>1 DEF AnswerInv, PhaseCounters
    <3>4. CASE snd_count # 1
      <4>1. snd_count' # 0 BY <3>1, <3>4, LengthType
      <4> QED BY <1>1, <1>2, <2>4, <3>1, <3>2, <3>4, <4>1 DEF AnswerInv, PhaseCounters
    <3> QED BY <3>3, <3>4
  <2>6. CASE WaitsForChip
    <3>1. rcv_data' = rcv_data /\ spiCs_o' = 0 /\ snd_count' = 0 /\ wait_count' = wait_count - 1
          /\ wait_count \in 1..8 /\ rcv_count' = IF wait_count = 1 THEN 8 ELSE 0
      BY <2>3, <2>6 DEF WaitsForChip, ReaderGoesOn, sending, waiting, receiving, WAIT, BYTES
    <3>2. chip' \in Chip /\ (wait_count # 1 => ChipWaits') /\ (wait_count = 1 => ChipSends')
      BY <1>1, <2>3, <2>6, WaitStep DEF AnswerInv
    <3>3. CASE wait_count = 1
      <4>1. wait_count' = 0 /\ rcv_count' = 8 /\ Received(addr_i, rcv_count)' BY <3>1, <3>3 DEF Received
      <4> QED BY <1>1, <1>2, <2>4, <3>1, <3>2, <3>3, <4>1 DEF AnswerInv, PhaseCounters
    <3>4. CASE wait_count # 1
      <4>1. wait_count' # 0 BY <3>1, <3>4
      <4> QED BY <1>1, <1>2, <2>4, <3>1, <3>2, <3>4, <4>1 DEF AnswerInv, PhaseCounters
    <3> QED BY <3>3, <3>4
  <2>7. CASE TakesBytes
    <3>1. spiCs_o' = 0 /\ snd_count' = 0 /\ wait_count' = 0
      BY <2>3, <2>7 DEF TakesBytes, ReaderGoesOn, sending, waiting, receiving, BYTES
    <3>2. /\ chip' \in Chip /\ rcv_data' \in [0..7 -> 0..255]
          /\ rcv_count' # 0 => ChipSends' /\ Received(addr_i, rcv_count)'
          /\ rcv_count' = 0 => Received(addr_i, 0)'
      BY <1>1, <2>3, <2>7, TakeStep DEF AnswerInv, ReaderInv
    <3> QED BY <1>1, <1>2, <2>4, <3>1, <3>2 DEF AnswerInv, PhaseCounters
  <2>8. CASE ReleasesChip
    <3>1. spiCs_o' = 1 /\ snd_count' = 0 /\ rcv_data' = rcv_data
      BY <2>3, <2>8 DEF ReleasesChip, ReaderGoesOn, sending, waiting, receiving
    <3>2. chip' \in Chip /\ chip'.state = "IDLE" /\ chip'.count = 0 BY <1>1, <3>1, UnselectedStep
    <3>3. Received(addr_i, 0) BY <2>8 DEF AnswerInv
    <3>4. Received(prev_addr, 0)' BY <2>3, <3>1, <3>3 DEF Received
    <3> QED BY <1>1, <1>2, <2>4, <3>1, <3>2, <3>4 DEF AnswerInv, PhaseCounters
  <2> QED BY <1>6, <2>5, <2>6, <2>7, <2>8 DEF ReaderInv
<1> QED BY <1>3, <1>4, <1>5, <1>6

(* A load from the flash answers with the eight bytes at the aligned       *)
(* address, the first one least significant, for every image and every     *)
(* width of the addresses, whatever was accessed before and wherever a     *)
(* reset has cut an access off (spiFlash.v, IO.v, DataMem.v, and the chip  *)
(* of tb/peripherals/spiflash.cpp at the other end of the wires).          *)
THEOREM FlashAnswersRight == ReaderInit /\ [][ReaderNext]_readerVars => []FlashAnswer
<1>1. ReaderInit => ReaderInv /\ AnswerInv
  <2> SUFFICES ASSUME ReaderInit PROVE ReaderInv /\ AnswerInv OBVIOUS
  <2>1. /\ spiCs_o = 1 /\ snd_count = 0 /\ wait_count = 0 /\ rcv_count = 0 /\ waited = 0
        /\ rden_i = FALSE /\ prev_rden = FALSE
    BY DEF ReaderInit
  <2>2. rcv_byteCount \in 0..3
    <3>1. rcv_byteCount = 0 BY DEF ReaderInit
    <3> QED BY <3>1
  <2>3. AtRest BY <2>1 DEF AtRest
  <2>4. ReaderInv BY <2>1, <2>2, <2>3 DEF ReaderInv
  <2>5. chip \in Chip /\ chip.state = "IDLE" /\ chip.count = 0 BY DEF ReaderInit, Chip, ChipState
  <2>6. rcv_data \in [0..7 -> 0..255] BY DEF ReaderInit, BYTES
  <2>7. AnswerInv BY <2>1, <2>5, <2>6, PhasesApart DEF AnswerInv, PhaseCounters
  <2> QED BY <2>4, <2>7
<1>2. ReaderInv /\ AnswerInv /\ [ReaderNext]_readerVars => (ReaderInv /\ AnswerInv)'
  <2> SUFFICES ASSUME ReaderInv, AnswerInv, [ReaderNext]_readerVars PROVE ReaderInv' /\ AnswerInv'
    OBVIOUS
  <2>1. CASE UNCHANGED readerVars
    <3> USE <2>1 DEF readerVars, reader, access
    <3>1. AtRest' = AtRest /\ SendsRequest' = SendsRequest /\ WaitsForChip' = WaitsForChip
          /\ TakesBytes' = TakesBytes /\ ReleasesChip' = ReleasesChip
      BY DEF AtRest, SendsRequest, WaitsForChip, TakesBytes, ReleasesChip, HeldAccess, isFlash
    <3>2. ReaderInv' BY <3>1 DEF ReaderInv
    <3>3. ChipListens' = ChipListens /\ ChipWaits' = ChipWaits /\ ChipSends' = ChipSends
      BY DEF ChipListens, ChipWaits, ChipSends, SentByte, SentPair
    <3>4. AnswerInv' BY <3>1, <3>3 DEF AnswerInv, Received
    <3> QED BY <3>2, <3>4
  <2>2. CASE ReaderNext
    <3>1. PICK reset_i \in BOOLEAN, other \in BOOLEAN : ReaderClock(reset_i, other)
      BY <2>2 DEF ReaderNext
    <3> QED BY <3>1, ReaderStep, AnswerStep
  <2> QED BY <2>1, <2>2
<1>3. ReaderInv /\ AnswerInv => FlashAnswer
  <2> SUFFICES ASSUME ReaderInv, AnswerInv, rden_i, isFlash, SPI_valid
               PROVE  isFlash_r /\ \A i \in 0..(BYTES - 1) : SPI_Data[i] = Image((addr_i \div 8) * 8 + i)
    BY DEF FlashAnswer
  <2>1. AtRest /\ ~flashRstrb
    BY PhasesApart DEF SPI_valid, ReaderInv, PhaseCounters
  <2>2. addr_i \in FlashAddr /\ addr_i \notin MemoryAddr BY AddressAssumption DEF isFlash
  <2>3. ~rstrb BY <2>1, <2>2 DEF flashRstrb, IO_rstrb, isFlash
  <2>4. rden_i = TRUE BY DEF ReaderInv
  <2>5. prev_addr = addr_i /\ prev_rden = TRUE BY <2>3, <2>4 DEF rstrb
  <2>6. isFlash_r /\ Received(addr_i, 0) BY <2>1, <2>2, <2>5 DEF AnswerInv
  <2>7. ASSUME NEW i \in 0..(BYTES - 1) PROVE SPI_Data[i] = Image((addr_i \div 8) * 8 + i)
    <3>1. 7 - i \in 0..7 /\ 7 - (7 - i) = i /\ SPI_Data[i] = rcv_data[7 - i] BY DEF BYTES, SPI_Data
    <3> QED BY <2>6, <3>1 DEF Received, StartOf
  <2> QED BY Zenon, <2>6, <2>7
<1> QED BY <1>1, <1>2, <1>3, PTL
=============================================================================
