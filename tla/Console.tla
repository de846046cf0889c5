------------------------------ MODULE Console -------------------------------
(***************************************************************************)
(* The firmware's console: a program in S mode, the BIOS behind its calls, *)
(* the serial line they write to, and the bench that runs all of it until  *)
(* the processor halts.  The program is the shipped kernel, two processes  *)
(* that hand the processor to each other, or one that makes any calls.     *)
(*                                                                         *)
(* The processor works at the grain of the firmware's functions, except    *)
(* where it meets the line: each access to a device register is a step.  A *)
(* step takes any number of clocks.  A message of the kernel is one        *)
(* character, and the delay between two switches is part of a step.        *)
(*                                                                         *)
(* Registers are followed where the frames can go wrong: s11, which lies   *)
(* below the doubles in the frame of the BIOS, and ft0 and fs0, the first  *)
(* doubles of the two frames.  A double is a pair of words.  Left out: the *)
(* answers of the calls, which no caller here reads, the trap handler of   *)
(* the kernel, which nothing reaches, and allocPages, which nothing calls. *)
(***************************************************************************)
EXTENDS Uart, Sequences

CONSTANTS PROCS_MAX,
          Calls        \* what the program of any calls asks for: [eid, fid, chars]

ASSUME CallsAssumption ==
  PROCS_MAX \in Nat /\ \A c \in Calls : DOMAIN c = {"eid", "fid", "chars"} /\ c.chars \in Seq(Char)

VARIABLES
  program, misaligned,       \* who is running; stacks that are 4 modulo 8
  pc, mepc, todo, call,      \* todo: the characters a call has still to write
  regs, frame,               \* registers, and the frame of the BIOS
  procs, turn,               \* process table, and whose turn it is
  phase, clocksAfterHalt, exited,                               \* the bench
  underway, kept             \* history: characters on their way; registers at the last
                             \* call or switch of each process

cpuVars  == <<pc, mepc, todo, call, regs, frame, procs, turn, kept>>
vars == <<uartVars, program, misaligned, cpuVars, phase, clocksAfterHalt, exited, underway>>

Process == {"A", "B"}
Stacks  == Process \cup {"BIOS"}
Hello == 1
Booted == 2
StartingA == 3
CharA == 4
StartingB == 5
CharB == 6
Panic == 7
ASSUME MessageAssumption == Panic \in Char

(* The pieces of the kernel that print, what they print and where they go. *)
Prints == [hello  |-> Hello,     booted |-> Booted, startA |-> StartingA, loopA |-> CharA,
           startB |-> StartingB, loopB  |-> CharB,  panic  |-> Panic]
Then   == [hello  |-> "booted",  booted |-> "createA", startA |-> "loopA", loopA |-> "switch",
           startB |-> "loopB",   loopB  |-> "switch",  panic  |-> "panicked"]
Supervisor == DOMAIN Prints \cup {"boot", "createA", "createB", "switch", "calls", "panicked"}

None == "none"
Own(p) == [s11 |-> <<p, "s11">>, ft0lo |-> <<p, "ft0lo">>, ft0hi |-> <<p, "ft0hi">>,
           fs0lo |-> <<p, "fs0lo">>, fs0hi |-> <<p, "fs0hi">>]
Zero   == <<None, "0">>
UNUSED == [state |-> "UNUSED", frame |-> <<>>]
NoCall == [eid |-> None, fid |-> 0, chars |-> <<>>]
Free(p) == p.state = "UNUSED"

ConsoleInit ==
  /\ UartInit
  /\ program \in {"kernel", "calls"} /\ misaligned \in [Stacks -> BOOLEAN]
  /\ pc = "start" /\ mepc = None /\ todo = <<>> /\ call = NoCall
  /\ regs = Own("A") /\ frame = <<>> /\ turn = "A"
  /\ procs \in [1..PROCS_MAX -> {UNUSED, [UNUSED EXCEPT !.state = "RUNNABLE"]}]   \* not cleared yet
  /\ program = "calls" => /\ ~misaligned["A"] /\ ~misaligned["B"]      \* unused there
                           /\ \A i \in 1..PROCS_MAX : procs[i] = UNUSED
  /\ phase = 0 /\ clocksAfterHalt = 0 /\ exited = FALSE
  /\ underway = <<>> /\ kept = [p \in Process |-> [by |-> "nothing", regs |-> Own(p)]]
-----------------------------------------------------------------------------
(* The memory a frame lies in.  fsd to an address that is 4 modulo 8       *)
(* writes the low word of the register to both words of the aligned        *)
(* double, fld there reads that double (MemoryUnit.v 125-131).             *)
Fsd(f, slot, lo, hi, off) ==
  IF off THEN [f EXCEPT ![slot - 1] = lo, ![slot] = lo] ELSE [f EXCEPT ![slot] = lo, ![slot + 1] = hi]
LowOf(f, slot, off)  == IF off THEN f[slot - 1] ELSE f[slot]
HighOf(f, slot, off) == IF off THEN f[slot] ELSE f[slot + 1]

(* m_trap: s11 in word 29, ft0 from word 30 on, fs0 from word 46 on.       *)
SaveFrame ==
  LET off   == misaligned["BIOS"]
      first == [[word \in (29..31) \cup (45..47) |-> None] EXCEPT ![29] = regs.s11]
  IN Fsd(Fsd(first, 30, regs.ft0lo, regs.ft0hi, off), 46, regs.fs0lo, regs.fs0hi, off)
RestoreSwapped(f) ==                     \* mutant of RestoreFrame
  LET off == misaligned["BIOS"] IN
  [s11 |-> f[29], ft0lo |-> LowOf(f, 30, off), ft0hi |-> HighOf(f, 30, off),
                  fs0lo |-> LowOf(f, 30, off), fs0hi |-> HighOf(f, 46, off)]
RestoreFrame(f) ==
  LET off == misaligned["BIOS"] IN
  [s11 |-> f[29], ft0lo |-> LowOf(f, 30, off), ft0hi |-> HighOf(f, 30, off),
                  fs0lo |-> LowOf(f, 46, off), fs0hi |-> HighOf(f, 46, off)]

Ecall(c, back) ==
  /\ frame' = SaveFrame /\ call' = c /\ mepc' = back /\ pc' = "handler"
  /\ kept' = [kept EXCEPT ![turn] = [by |-> "call", regs |-> regs]]
  /\ UNCHANGED <<todo, regs, procs, turn>>

PutChar(c) == [eid |-> "DBCN", fid |-> 2, chars |-> <<c>>]

(* sbi_handler, with sbi_console_putchar, dbcn, srst and sbi_shutdown.     *)
Writes(c) == \/ c.eid = "PUTCHAR"
             \/ c.eid = "DBCN" /\ c.fid \in {0, 2}
Stops(c)  == \/ c.eid = "SHUTDOWN"
             \/ c.eid = "SRST" /\ c.fid = 0
Handler ==
  /\ pc = "handler"
  /\ todo' = IF Writes(call) THEN call.chars ELSE <<>>
  /\ pc' = IF Stops(call) THEN "ebreak" ELSE IF todo' # <<>> THEN "poll" ELSE "mret"
  /\ UNCHANGED <<mepc, call, regs, frame, procs, turn, kept>>

(* _putchar: the register is read until the line is free, then written.    *)
AnyTime  == TRUE                         \* mutant of LineFree
LineFree == ~r_busy
Poll ==
  /\ pc = "poll" /\ pc' = IF LineFree THEN "store" ELSE "poll"
  /\ UNCHANGED <<mepc, todo, call, regs, frame, procs, turn, kept>>
Store ==
  /\ pc = "store"
  /\ todo' = Tail(todo) /\ pc' = IF todo' # <<>> THEN "poll" ELSE "mret"
  /\ UNCHANGED <<mepc, call, regs, frame, procs, turn, kept>>

Mret ==
  /\ pc = "mret" /\ pc' = mepc /\ regs' = RestoreFrame(frame)
  /\ frame' = <<>> /\ call' = NoCall
  /\ UNCHANGED <<mepc, todo, procs, turn, kept>>

(* EBREAK raises HALT, for one clock if the instruction behind it is not   *)
(* there yet (ControlUnit.v 29-33), for ever if it is.                     *)
HALT == pc \in {"halted", "pulse"}
Ebreak ==
  /\ pc \in {"ebreak", "panicked"} /\ pc' \in {"halted", "pulse"}
  /\ mepc' = IF pc = "panicked" THEN "spin" ELSE mepc
  /\ UNCHANGED <<todo, call, regs, frame, procs, turn, kept>>
AfterPulse ==
  /\ pc = "pulse" /\ pc' = IF mepc = "spin" THEN "spin" ELSE "mret"
  /\ UNCHANGED <<mepc, todo, call, regs, frame, procs, turn, kept>>
-----------------------------------------------------------------------------
(* _start and the start of the program.                                    *)
Start ==
  /\ pc = "start" /\ pc' = IF program = "kernel" THEN "boot" ELSE "calls"
  /\ UNCHANGED <<mepc, todo, call, regs, frame, procs, turn, kept>>

NotCleared(table) == table               \* mutant of Cleared
Cleared(table)  == [i \in DOMAIN table |-> UNUSED]
KernelMain ==
  /\ pc = "boot" /\ pc' = "hello" /\ procs' = Cleared(procs)
  /\ UNCHANGED <<mepc, todo, call, regs, frame, turn, kept>>

FirstFree == CHOOSE i \in DOMAIN procs : Free(procs[i]) /\ \A j \in 1..(i - 1) : ~Free(procs[j])
NewFrame(entry) == [word \in {0} \cup 12..15 |-> IF word = 0 THEN entry ELSE Zero]
CreateProcess ==
  /\ pc \in {"createA", "createB"}
  /\ IF \E i \in DOMAIN procs : Free(procs[i])
     THEN /\ procs' = [procs EXCEPT ![FirstFree] =
                         [state |-> "RUNNABLE",
                          frame |-> NewFrame(IF pc = "createA" THEN "startA" ELSE "startB")]]
          /\ pc' = IF pc = "createA" THEN "createB" ELSE "startA"
     ELSE pc' = "panic" /\ UNCHANGED procs
  /\ UNCHANGED <<mepc, todo, call, regs, frame, turn, kept>>

(* The ra that switch_context saves, in word 0: where its caller goes on.  *)
EntryOfB(p)  == IF p = "A" THEN "loopA" ELSE "startB"        \* mutant of ReturnsTo
ReturnsTo(p) == IF p = "A" THEN "loopA" ELSE "loopB"

(* switch_context: ra in word 0, s11 in word 12, fs0 from word 14 on.  The *)
(* process with the first turn is the first one created; it goes on where  *)
(* kernel_main called it, on the stack of the boot.                        *)
Slot  == [A |-> 1, B |-> 2]
Itself(p) == p                           \* mutant of Other
Other(p) == IF p = "A" THEN "B" ELSE "A"
SwitchContext ==
  LET next == Other(turn)
      new  == procs[Slot[next]].frame
      off  == misaligned[next]
  IN
  /\ pc = "switch"
  /\ procs' = [procs EXCEPT ![Slot[turn]].frame =
                 Fsd([NewFrame(ReturnsTo(turn)) EXCEPT ![12] = regs.s11],
                     14, regs.fs0lo, regs.fs0hi, misaligned[turn])]
  /\ turn' = next /\ pc' = new[0]
  /\ regs' = IF new[0] \in {"startA", "startB"} THEN Own(next)
             ELSE [regs EXCEPT !.s11 = new[12], !.fs0lo = LowOf(new, 14, off), !.fs0hi = HighOf(new, 14, off)]
  /\ kept' = [kept EXCEPT ![turn] = [by |-> "switch", regs |-> regs]]
  /\ UNCHANGED <<mepc, todo, call, frame>>

SupervisorStep ==
  \/ pc \in DOMAIN Prints /\ Ecall(PutChar(Prints[pc]), Then[pc])
  \/ pc = "calls" /\ \E c \in Calls : Ecall(c, "calls")
  \/ KernelMain \/ CreateProcess \/ SwitchContext
MachineStep == Start \/ Handler \/ Poll \/ Store \/ Mret \/ Ebreak \/ AfterPulse
-----------------------------------------------------------------------------
(* reset() of the bench: a clock, one with RESET, and one more; the        *)
(* receiver is called behind the clocks that come then.  done() counts the *)
(* clocks with HALT, and the second one ends it.                           *)
CountedEdge == IF HALT' /\ ~HALT THEN clocksAfterHalt + 1 ELSE clocksAfterHalt    \* mutant
Counted == IF HALT' THEN clocksAfterHalt + 1 ELSE clocksAfterHalt

Remaining == IF prints' # prints /\ underway # <<>> THEN Tail(underway) ELSE underway
Bench ==
  /\ phase' = IF phase < 3 THEN phase + 1 ELSE 3
  /\ Transmitter(phase = 1, pc = "store" /\ pc' # "store", IF pc = "store" THEN Head(todo) ELSE 0)
  /\ IF phase < 3 THEN UNCHANGED <<receiver, rxVars, clocksAfterHalt, exited>>
     ELSE /\ Receiver(o_uart_tx')
          /\ clocksAfterHalt' = Counted /\ exited' = (Counted > 1)
  /\ underway' = IF pc = "store" /\ pc' # "store" THEN Append(Remaining, Head(todo)) ELSE Remaining
  /\ UNCHANGED <<program, misaligned>>

(* A clock in which the processor gets on, and one in which it does not.   *)
BusyClock == ~exited /\ phase = 3 /\ (SupervisorStep \/ MachineStep) /\ Bench
IdleClock == ~exited /\ pc # "pulse" /\ UNCHANGED cpuVars /\ Bench
Done      == exited /\ UNCHANGED vars

Next == BusyClock \/ IdleClock \/ Done

(* The clock goes on, and no instruction takes for ever.                   *)
Spec == ConsoleInit /\ [][Next]_vars /\ WF_vars(IdleClock \/ BusyClock) /\ WF_vars(BusyClock)
-----------------------------------------------------------------------------
ConsoleTypeOK ==
  /\ r_busy \in BOOLEAN /\ state \in 0..IDLE /\ lcl_data \in Char /\ baud_counter \in Nat
  /\ printed \in Char /\ clocksAfterHalt \in 0..2 /\ todo \in Seq(Char) /\ underway \in Seq(Char)
  /\ turn \in Process /\ DOMAIN procs = 1..PROCS_MAX

(* The bench's own receiver has printed a character before the line takes  *)
(* the next one: the transmitter stays busy until behind the middle of the *)
(* stop bit.                                                               *)
OneUnderWay == receiver = "uart.cpp" => Len(underway) <= 1
(* That, on registers of their types (txuart.v, tb/peripherals/uart.cpp).   *)
ConsoleInv == ConsoleTypeOK /\ OneUnderWay

(* A call gives a process its registers back, and so does a switch, as far *)
(* as the stacks are aligned to doubles; nothing in the source aligns      *)
(* them.  Where they are not, the high words of the doubles are lost, and  *)
(* the frame of the BIOS loses s11 as well.                                *)
AtHome == pc \in Supervisor /\ kept[turn].by # "nothing"
RegistersSurvive ==
  AtHome =>
    LET old == kept[turn].regs  byCall == kept[turn].by = "call" IN
    /\ regs.fs0lo = old.fs0lo
    /\ ~(byCall /\ misaligned["BIOS"]) => regs.s11 = old.s11
    /\ byCall => regs.ft0lo = old.ft0lo
    /\ ~misaligned[IF byCall THEN "BIOS" ELSE turn] => regs.fs0hi = old.fs0hi
    /\ byCall /\ ~misaligned["BIOS"] => regs = old

(* The kernel's messages come in order and from A's first one on the two   *)
(* take turns; it never panics.  Each process starts once: when it has     *)
(* been heard from its loop, its start is never heard again, though a      *)
(* start of B would be in order behind any A.                              *)
Follow == [c \in 0..Panic |-> IF c < CharA THEN {c + 1} ELSE IF c = CharA THEN {StartingB, CharB}
                             ELSE IF c = StartingB THEN {CharB} ELSE IF c = CharB THEN {CharA} ELSE {}]
StartsOnce(start, loop) == [](printed = loop => [](printed # start))
TakeTurns ==
  /\ [][program = "kernel" /\ prints' # prints => printed' \in Follow[printed]]_vars
  /\ program = "kernel" => StartsOnce(StartingA, CharA) /\ StartsOnce(StartingB, CharB)

(* and both are heard from again and again.                                *)
BothGoOn == program = "kernel" => []<>(printed = CharA) /\ []<>(printed = CharB)

(* A HALT that lasts ends the simulation.                                  *)
HaltEnds == pc = "halted" ~> exited

(* To the programs the line is a terminal that loses nothing and mixes up  *)
(* nothing, until the end.                                                 *)
Term == INSTANCE Terminal WITH Character <- Char, CAPACITY <- 2,
          pending <- underway, shown <- printed, times <- prints, open <- ~exited
ImplementsTerminal == Term!TerminalSpec
=============================================================================
