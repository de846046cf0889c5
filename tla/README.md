# Kache-Risc-V: a TLA+ model of the processor, its devices and its firmware

Kache-Risc-V is a 32-bit RISC-V processor in Verilog (`src/src`) with its memory
system, a few devices, firmware that runs on it (`src/firmware`), and programs
that simulate it (`src/tb`, `src/archive/tb`). This project models the parts in
which several things happen at once or whose answers are hard to get right,
states what they promise to a program, model-checks the promises with TLC on
small instances and proves the most important ones with TLAPS for every
instance.

In the models of hardware one step is one rising edge of the clock: all registers of the
modelled part change together, from the registers and wires before the edge.
"Wires" are operators without primes, registers and RAMs are variables, and the
names are those of the source wherever TLA+ allows it (without the `_i`/`_o`
suffixes where they only mark a direction). In the models of programs a step is
what lies between two points where somebody else can get in: one access to a
device register in the BIOS, one byte on the pins of the flash chip, one call of
`rawtick` of the serial port, one field of a format string.

## 1. The system

| Part | Source | State it keeps | What it does |
| --- | --- | --- | --- |
| Fetch unit | `Processor/Pipeline/FetchUnit.v` | PC, held halves of an instruction, the instruction handed to decode | looks instructions of 2 or 4 bytes up, joins those that straddle two cache lines, follows predictions and corrections |
| Instruction cache | `Memory/ICache.v` | two ways of lines, tags, valid and LRU bits | hit, cancel, refill |
| Decode unit | `DecodeUnit.v`, `Decompressor.v` | decoded instruction, branch history, return address stack, privilege | decodes, predicts, detects hazards, takes traps |
| Execute unit | `ExecuteUnit.v`, `FPU/` | result registers, divider and FPU state | forwards operands, computes, corrects the PC, starts loads |
| Memory unit | `MemoryUnit.v` | result register, reservation, instret | stores, atomics, fences, CSR writes |
| Write-back, registers | `WriteBackUnit.v`, `RegisterFile.v` | the register files | writes results back |
| Control unit | `ControlUnit.v` | none | turns five conditions into stalls and flushes |
| CSRs | `CSR_RegFile.v` | the CSRs | reads, writes, trap entry |
| Data port | `Memory/DataMem.v` | the last access, the registered address | splits accesses between cache and devices |
| Data cache | `Memory/DCache.v`, `DCacheMem.v` | four ways of lines, tags, valid, dirty and replacement bits, the flush walk | hit, write-back, refill, flush |
| Main memory | `Memory/Memory.v` | SDRAM and block RAM, read buses | one data port, one instruction port |
| Devices | `IO.v` | timer and its copies, LEDs | selects a device by address |
| Flash reader | `Extern/spiFlash.v` | select, shift registers, three counters | answers a load with eight bytes of the serial flash |
| Serial line | `Extern/txuart.v`, `tb/peripherals/uart.cpp` | shift register, baud counter; the receiver's counters | one character at a time from a store to the console |
| BIOS and SBI | `firmware/OS/BIOS` | the frame of a trap on the stack | saves the registers, dispatches a call, polls the line, returns |
| Kernel | `firmware/OS/kernel.c`, `kernel.S` | process table, contexts | two processes that hand the processor to each other |
| Formatter | `firmware/OS/libs/printf.c` | position in the format, flags, width, precision, buffer | `printf` and its kin |
| Simulation bench | `tb/simMain.cpp`, `tb/testbench.h`, `tb/peripherals/spiflash.cpp` | the clock, the HALT count, the flash chip | resets and clocks the design, ends at HALT |
| Archived flash chip | `archive/tb/flashsim.cpp` | contents, page buffer, status register, state and mode | a serial NOR flash that can be programmed |
| Archived serial port | `archive/tb/uartsim.cpp` | sockets, both shift registers | connects the line to a TCP client |

How they interact: fetch talks to the instruction cache in the same cycle
(address out; valid, data and "compressed" back), the cache talks to memory by a
strobe and a registered answer. Execute and memory stage share one data port
(`Processor.v:32` picks the address by the read strobe): loads and the reads of
atomics leave from execute, stores, the writes of atomics and FENCE from the
memory stage. The port answers both with one wire, `validReady`. The control
unit sees every stage's "busy" and stalls and flushes the others. There is no
coherence between the two caches except that a FENCE writes the data cache back
to memory.

The BIOS and the kernel share the registers and the stack: an `ecall` goes to
`m_trap`, which pushes every register below the caller's stack pointer, and
`sbi_handler` answers from the saved ones. Everything they print goes character
by character through a status register that shows `r_busy` of the transmitter;
the bench samples the line after each clock. The benches' devices are called once
a clock with the wires as they are then, and answer with the wires of the next.

What is hard here: five stages that stall and flush one another for nine
different reasons; predictions made and taken back in different stages; data
that is forwarded from registers which move at each edge; cache directories that
change several cycles before the lines they describe; fences that walk a cache
while resets, loads and stores come; one acknowledgement shared by two stages;
traps taken in decode while older instructions are still undecided. Two
state machines on a wire that count its clocks each on its own; a transaction
that its master may end at any bit; one timer for three kinds of waiting; a
connection that can end in one half of a call and be used in the other; frames
that lie wherever the stack pointer is; one short buffer for digits, zeros, sign
and prefix of a number.

What makes each part correct:

* data cache: it is a memory (a load returns the last store), a fence makes
  every store durable, every request is accepted in the end;
* fetch unit and instruction cache: decode sees the program's instructions, each
  whole and once, from the address it asked for, and is never starved;
* pipeline: the program executes in order, each instruction once, with the
  operands its predecessors left, and nothing else executes; it never locks up;
* flash reader: a load gets the bytes at its address, within a fixed number of
  clocks, whatever was going on before;
* serial line, BIOS and bench: what a program writes appears, once, in order;
* BIOS and kernel: a call and a switch give a process its registers back, the
  processes take turns for ever, HALT ends the simulation;
* formatter: the text the C standard asks for, and the contract of `snprintf`;
* archived flash chip: it behaves like a NOR flash, reads are exact, and the
  conditions the code asserts hold;
* archived serial port: frames as set up, characters in order, no descriptor
  leaked or used after it is closed;
* divider: the quotients and remainders of the instruction set, division by zero
  and overflow included, however often a stalled stage starts it again;
* memory stage: an access changes and returns the bytes it names; an SC succeeds
  only on the word its LR has read;
* traps and CSRs: they act in the order of the program although they act in three
  different stages;
* data port: a load gets the data of its own address, a device sees a store once.

## 2. Modules

| Module | Models | Role |
| --- | --- | --- |
| `Memory` | `Memory.v` | the two arrays behind one port; used twice, as data and as instruction port |
| `DataMemory` | - | abstract: a memory of words with a durable copy that trails behind |
| `DCache` | `DCache.v`, `DCacheMem.v` | the data cache with the request the pipeline holds on its port |
| `MCDCache` | - | `DCache` for TLC |
| `DCacheProofs` | - | theorems about `DCache` |
| `LoadBehindFence` | `DecodeUnit.v:380-383` with `DCache.v` | the data cache given the one pair of requests that `DCache` leaves out |
| `ICache` | `ICache.v` | the instruction cache, as state and operators |
| `InstructionStream` | - | abstract: what fetch promises to decode |
| `Fetch` | `FetchUnit.v` | the fetch unit on its cache |
| `MCFetch` | - | `Fetch` for TLC |
| `FetchProofs` | - | theorems about `Fetch` |
| `Instructions` | `DecodeUnit.v:122-214` | instruction classes and register fields |
| `InOrder` | - | abstract: one instruction after another |
| `Pipeline` | `ControlUnit.v` and the moving parts of the five stages | the pipeline |
| `MCPipeline` | - | `Pipeline` for TLC |
| `PipelineProofs` | - | theorems about `Pipeline` |
| `Printf` | `printf.c` | the formatter |
| `PrintedText` | - | abstract: the text of the C standard and the contract of `snprintf` |
| `PrintfProofs` | - | theorems about `Printf`: the contract, and the text of a conversion |
| `MCPrintf` | - | the calls for TLC |
| `Uart` | `txuart.v`, both receivers of the benches | the serial line |
| `Console` | `firmware/OS`, `ControlUnit.v:29-33`, `simMain.cpp` | program, BIOS, line and bench together |
| `Terminal` | - | abstract: a terminal that loses nothing |
| `MCConsole` | - | `Console` for TLC |
| `FlashReader` | `DataMem.v`, `IO.v`, `spiFlash.v`, `spiflash.cpp` | a load from the serial flash |
| `FlashSim` | `archive/tb/flashsim.cpp` | the archived flash chip |
| `NorFlash` | - | abstract: a serial NOR flash |
| `FlashProofs` | - | theorems about `FlashSim` and `FlashReader` |
| `SerialSim` | `archive/tb/uartsim.cpp` | the archived serial port |
| `SerialProofs` | - | theorems about `SerialSim`, `Uart` and `Console` |
| `Divider` | `ExecuteUnit.v:186-231` | the divider and the instruction it works for |
| `LoadStore` | `MemoryUnit.v` | loads, stores, atomics, LR and SC on a double of memory |
| `Trap` | `CSR_RegFile.v`, `DecodeUnit.v:298-383` | traps, returns and CSR accesses |
| `TrapProofs` | - | theorems about `Trap` |
| `DataPort` | `DataMem.v`, `IO.v:34-59` | the port that two stages, the cache and the devices share |
| `StageProofs` | - | theorems about `Divider`, `DataPort` and `LoadStore` |
| `MCBench` | - | seven units for TLC, each by itself: the devices of the benches and units of the processor |

### Data cache

`DCache` has one action per branch of the state machine (`NoRequest`,
`FlushStart`, `FlushLine`, `FlushFinish`, `Hit`, `MissClean`, `MissDirty`,
`WriteStrobe`, `WriteDone`, `ReadStrobe`, `ReadDone`); each is conjoined with
`Datapath`, the line RAMs and memory, which see every edge. `Clock` adds the
pipeline's side of the port: a new request (or none) when `validReady` is up,
the same request otherwise. `Reset` is an edge with `reset_i`: the directory and
the state machine are cleared, while strobes, dirty bits, replacement bits and
RAMs are not, exactly as in `DCache.v:196-212`. A reset may come in any cycle.

`DataMemory` promises: an accepted store changes exactly the bytes it names, an
accepted load gets the word stored last, nothing else changes; a line of memory
only ever receives the current contents of that line, and has received them all
when a fence is accepted; a reset may lose stores that were not yet written back,
line by line, but nothing else. The request port is part of its state, so a step
of the cache is held to the request that was on the port, and `reset_i` (history)
keeps a lost store from passing for a reset. The refinement mapping is `memory`
(a line is the copy on its way to memory if there is one, else the cached copy,
else memory), `ready` (`validReady`) and `dout`.

Left out: the instruction port's view of memory while a line is dirty (there is
no coherence to check), and addresses outside memory.

### Fetch

`Fetch` has one action `Clock(in)`; `in` is what the rest of the processor shows
fetch in one cycle: a stall, a prediction for the instruction in decode, a
correction from execute, with arbitrary targets. `InstructionStream` promises:
in a cycle in which decode is told to stay nothing changes; otherwise decode
either gets the next instruction, whole and with its length, or the program goes
on at the address of the jump and decode gets nothing. The mapping hides the
second lookup of an instruction that straddles two lines: `pc` is the address of
its first half until both are there. A correction counts as taken when fetch is
not stalled; that fetch may be stalled in just that cycle is the subject of run
`PipelineCsr`.

### Pipeline

`Pipeline` has one action `Clock(in)` composed of the stages. An instruction is
its class (`Instructions`), its register fields, and whether the program goes on
elsewhere behind it. The program is chosen while it is fetched, so all programs
over the classes of `ProgKind` are covered; once fetch has left the program's
path it finds instructions of `JunkKind`. Computed values are chosen freely when
the execute or memory stage produces them, so any data dependency is covered.
Positions in the program, the last instruction executed with what it read, and
the parity of the number executed (without it, executing an instruction twice
with the same operands would look like a stutter) are history variables: no
decision looks at them. Predictions and the caches'
answers are inputs, arbitrary in every cycle, which covers every state of the
predictor's tables and of the return address stack.

`InOrder` is a machine that executes the program one instruction at a time. The
mapping `regs` lets the results of the memory and write-back stages count as
written. `PipelineInv` has the two facts a reader of the code would ask for, that a
squash clears nothing held up and that the port has one access at a time, and the
three they rest on (`OnPath`, `NothingOwed`, `DivisionHeld`), so that it is
inductive; the run checks all of it.

Left out: addresses, immediates and the CSRs' contents (modules `LoadStore`, `DataPort` and
`Trap` have those), interrupts (not connected in this design), what UNIMP does on the program's path (see
Observations), and a reset in the middle of a run (the initial state is the one
after power-on; a reset of one cycle leaves the bubbles of the later stages to
drain).

### Divider

`Divider` is the divider of the execute stage with the instruction in front of it:
`Idle` is the branch without `EE_divBusy`, `Step` the one with it; an instruction
stays while `aluBusy` or something else (`other`) holds it. A stage that is held up in
the clock of `EE_divFinished` divides again, and a reset clears the instruction but
not the divider, which goes on for nobody. Words are numbers of `W` bits, 32 in the
code; `Specified` is the instruction set's table.

### Memory stage

`LoadStore` is what `MemoryUnit.v` computes for one access: which bytes of the
double a load extracts and extends, where a store's operand and mask go, the nine
atomic operations, and the reservation of LR. Which clocks an access waits is
`Pipeline`'s subject; here it enters and leaves. `loaded` (history) is the word the
last LR has read, given up where the code cannot know better (see Observations).
A byte has `BASE` values, 256 in the code; XOR, OR and AND of two bytes are constants, of
which only the type is assumed.
Left out: accesses that are not aligned, which the code neither splits nor traps.

### Traps and CSRs

A trap or a return changes CSRs and privilege from decode; a CSR access reads in
execute and writes in the memory stage, one or two clocks later. `TrapClock(stall)`
moves the three stages under any stalls; `csrHazard` and `dataHazard` are the
comparisons that keep the order. `inOrder` (history) is what one instruction after
the other would leave; `overtaken` marks the programs in which an access without a
source register, which the comparisons ignore, stands too close (see Observations).
A word is the set of its ones; a register number only matters as x0 or not. Left out:
the cycle counter, `fcsr`, `mstatush` and `medelegh`, which no trap sets, and squashed
instructions (`PipelineTraps`).

### Data port

`DataPort` has the accesses in execute (loads, reads of atomics) and in the memory stage
(stores, writes of atomics, fences), the address they share, the strobes
`DataMem.v` makes of changes, and the selects `IO.v` keeps for the answer. The names of
its registers that `FlashReader` has too are written differently (`prevAddr` is
`prev_addr`, `loadStrobe` is `rstrb`, `storeStrobe` is `wstrb`, `toFlash` is `isFlash`,
`readerReady` is `SPI_valid`). Data is the name of where it comes from. The cache
answers when it likes, except that a line just read is still there for the write behind it;
the flash reader likewise. `Astray` names the neighbours between which a load loses its
data, `behind = "same"` the store that is lost.

### Formatter

`Printf` walks the format as `_vsnprintf` does, one action per part of a
conversion (`Percent`, `ReadFlag`, `ReadWidth`, `ReadPrecision`,
`ReadPrecisionValue`, `ReadLength`) and one per group of specifiers; `Emit` is
the output function of the entry point, of which only the one for a buffer looks
at `maxlen`. `NtoaFormat`, `Hash`, `OutRev`, `Ftoa` and `Etoa` are the functions
of those names, on the reversed digits the source works on. The lengths of the
scratch buffers, the default precision, the largest number, the table of powers
and the widths of the integer types are constants. A double is an exact
fraction: what binary rounding adds to the result is left out, the carries and
ties of the decimal rounding are not. `Exponent` is the code's estimate of the logarithm
from the binary exponent and the mantissa (`Estimate`, its constants to five digits), cut
off toward zero, and the one correction after it (`printf.c:489-501`); it is not always the exponent of
the number. The power of ten it compares with and divides by, for which the code sums a series
with an error of up to 2e-8, is exact: for an argument that near to a power of ten the code
may print another mantissa (`%.9e` of 0.01 gives `0.999999982e-02`, `%e` of 1e9
`10.000000e+08`), and no argument of `MCPrintf` is.

`PrintedText` says what comes out: integers, strings and characters as the
standard has them, floats by reading the printed text back and comparing it with
the argument (nearest at the printed precision, sign, exponent, places or significant
digits, width), and for
every prefix of every call what is in the buffer (`OutputContract`). Each
departure of the code from the standard is an operator with a name, and a
property excludes just those calls. A call carries the directive it means in
`call.want`; `WantAssumption` says how its format spells that directive (flags in any order
and number, then width, precision, length and letter), so that reading the format is checked too.

### Console

`Console` puts four parties on one clock: the program in S mode, the BIOS, the
serial line, and the bench. The firmware's functions are single steps except
`_putchar`, which reads the status register and stores the character in separate
clocks with any number of clocks between (`IdleClock`). `program` chooses between the shipped kernel and
a program that makes any calls; `misaligned` chooses, for each stack, whether it
is 4 modulo 8, which nothing in the firmware rules out. A double is two words,
because `fsd` to such an address stores the low word twice. `receiver` chooses
the bench's receiver (`uart.cpp`) or the archived one (`uartsim.cpp`). Bits are taken
from a character by division and put together with a table of powers (`Pow2`), a
constant that an assumption makes the powers of two. The HALT
of an EBREAK lasts for ever or for one clock, and `done()` of the bench counts
the clocks with HALT.

`Terminal` has no clock: characters are taken, shown in order, and the end may
come at any time, with up to two characters on their way. `underway` (history)
is the mapping's queue.

Left out: what the calls answer (no caller reads it), the kernel's trap handler
(nothing these programs do reaches it), `allocPages` (nothing calls it), and parity, breaks and flow
control of the transmitter, which `IO.v` ties off.

### Flash reader

`FlashReader` is a load from address to answer: the strobe that `DataMem.v`
makes of a change of the access, the select of `IO.v`, every register of
`spiFlash.v`, and the chip of the bench on the other end of the wires, called as
`tick()` calls it, at both levels of the clock. Any accesses of flash, another
device and memory, and resets in any clock, precede a load. Bytes behind the end
of the image are arbitrary. Bits of a number are taken with a table of powers (`TwoTo`), a
constant that an assumption makes the powers of two. Left out: loading the image and the chip's modes that
the reader does not ask for.

### Archived flash chip

`FlashSim` has an action for each kind of byte of a transaction (command, last
byte of an address, mode byte, data read, data programmed, status, the rest) and
one each for chip select and the end of the timer. Chip select can rise behind any
byte. `m_count` stands for the bit counter, `m_oreg` for the byte on its way out.
What the controller sends is a constant, because the code stops the simulation
at unknown bytes: `Command` has those it knows. `NorFlash` is what such a chip
promises its user; `Finish` lets the whole effect of a job appear when chip select
rises, which is when this code makes it.

Left out: protection bits, the configuration register and the identification
(nothing else depends on them), the output delays of `simtick`.

### Archived serial port

`SerialTick` is a call of `rawtick`: `check_for_new_connections`, the receiver
with its write to the client, and the transmitter with its poll and read. System
calls may fail where they can; the client comes, types, leaves; `kill` may come at
any time. A register of bits is the set of its ones. The device on the other side
sends back what it hears, so that a character passes both halves. Left out: the
failures of `setup_listener`, which end the program.

## 3. Runs

Each run finishes within about three minutes with two workers.

| Run | Question | Instance |
| --- | --- | --- |
| `DCacheEvict` | Do hits, evictions, write-backs, refills, fences and resets in one set keep the cache a memory, with unique tags and clean lines equal to memory, and is every request accepted in the end? | one set, 5 lines for 4 ways, one of them written, 2 values |
| `DCacheFlush` | Does a fence leave nothing behind, whatever stores, fences and resets come before and after, and do stores change exactly their bytes? | 2 sets, a line each, of 2 words of 2 bytes; stores to one set |
| `LoadBehindFence` | Does a load behind a FENCE read memory? It does not. | 1 line, 2 values |
| `Fetch` | Does decode see the program as `InstructionStream` promises, is it never starved, and does the inductive invariant of the proofs hold? | 3 lines of 3 halfwords for 2 ways, 32 programs |
| `PipelineData` | Do forwarding, stalls and restarted divisions give each instruction the right operands, and is instret exact? | 2 registers, 2 values, five classes |
| `PipelineControl` | Do mispredictions, squashes and cache misses leave exactly the program's instructions, can anything stop the pipeline for good, and does the port see one access at a time? | 2 registers, eight classes, five off the path |
| `PipelineCsr` | Does a correction always reach fetch? It does not. | CSR writes, branches, privileged instructions off the path |
| `PipelineFma` | Are the operands of a fused multiply-add current? Not its third. | loads and fused operations |
| `PipelineTraps` | Do only instructions of the program take traps? No. | privileged instructions off the path |
| `Printf` | Is the text of a conversion that of the standard, is a float the nearest at its precision, and does every entry point keep the contract of its buffer? | about three thousand calls, buffers of 8 and 9 |
| `Console` | Does what programs write appear once and in order, do calls and switches keep the registers, do both processes go on for ever, does HALT end it? | characters of 3 bits, 4 clocks a baud, 2 processes, nine calls |
| `Bench` | Is the archived flash a NOR flash with exact reads; does a load from the flash get its bytes in time; does the archived port keep frames, order and descriptors; does the divider divide, the memory stage move the right bytes, do traps and CSRs keep the order, does the data port give each access its own answer? | see below |

### Bounds, and why they are enough

* `NSETS` 1 or 2 (256 and 512 in the code): sets interact only through the flush
  walk, and two sets make it wrap, go on in another set, and be cut short between
  sets. Five lines for four ways, or three for two, force every replacement.
* `StoreTag` and `StoreIndex` bound which lines are written in a run; the others
  only compete for the ways.
* `MCInit` (both caches) fixes the power-on contents of RAMs whose valid bits are
  0: they are overwritten before anything reads them. The proofs start from
  arbitrary contents.
* `VIEW LiveState` (and `FairState`, which keeps besides it what fairness looks
  at) identifies states that differ only in parts nothing will
  read: entries of invalid ways, outputs of RAMs nobody takes, history variables.
  For the pipeline, positions are compared relative to `next`.
* `Seq = 4`: at most the four instructions in the stages are told apart; in
  `InstretExact` at most two are uncounted. `DIVSTEPS = 2` (32 in the code): a
  division that is started, under way, and ending are all there.
* The halfwords that may begin a 32-bit instruction (`MayBeWide`) are six of
  nine. Lines have at least 3 halfwords (assumption `SizeAssumption`): with 2, an
  instruction in two lines can directly follow another, and the unit would hand
  decode the wrong halves. The code has 16.
* `ProgKind` and `JunkKind`: each run names the classes it mixes. `PipelineData`
  has every way of computing, loading and storing but the atomics;
  `PipelineControl` everything that moves the PC or waits. CSR writes are not
  mixed with privileged instructions and mispredictions, nor fused operations
  with loads, because those mixtures are the divergences of section 5. EBREAK is
  only fetched by mistake: an executed one halts the processor on purpose.
* `Printf`: a conversion is over before the next one begins, so one conversion
  per call has every combination of flags with widths, precisions and lengths on
  both sides of the buffer sizes; compound calls mix text, `*`, `%%` and `%p` and
  cut the output at every kind of place. Every state but that of a call that has
  returned must have a successor, so the search for deadlocks shows that every call
  returns.
* `Console`: the transmitter counts bits and clocks of a bit, and three bits and
  four clocks have a first, a middle and a last of each; the receivers sample in
  the middle. Characters carry no other meaning, and eight of them tell the
  kernel's messages apart. Two processes are what the kernel creates.
* `Bench`: a behaviour has one of seven units, and `VIEW Awake` looks at that one only, not at
  what started a timer that has run out, which nothing reads. The flash chip has two pages of
  two bytes of one bit (pages wrap, sectors are not everything, a bit is set or
  not), transactions of up to `MAXBYTES = 7` bytes, which is a quad read up to its
  first byte of data after its dummies and a program that wraps. The reader has addresses of 8 bits, loads of
  the first, second and last eight bytes, and one reset, which may come in any
  clock; `waited` bounds the answer, so no fairness is needed. The serial port has 3 bits, 3 clocks, every setup,
  and two clients with one character each, which is what reuse of a descriptor
  and leftovers of a client need. The divider has words of 3 bits and all operands (4
  bits give the same, in longer time; the proof is for every width). The memory stage
  has bytes of two values (`BASE = 2`), every content of the double, three operands, and
  every access, in any order: a sign, a carry and a comparison need no more. Traps have four
  instructions, one in front of the other (`MAXINSTRUCTIONS = 3` decoded behind the
  first; three stages hold three), with four CSRs: the status under both its names, one a
  trap sets, and the delegation, whose bits 8 and 11 the one source word sets. Words
  and CSRs are arbitrary in the proof. The data port has one address of memory, two of
  the flash and the two of the line, and two masks.

### Fairness

* `DCacheEvict`, `MCFairSpec`: clock edges without a reset come again and again
  (also those that change nothing, hence `edge`) and resets stop. The
  requests are whatever the pipeline wants; memory answers at once
  (`Memory.v:62-73`, the busy flag is tied to 0).
* `Fetch`, `MCFairSpec`: weak fairness of a clock edge without a stall, and resets
  stop. The pipeline lets fetch go on again and again; that is what `Progress` in
  run `PipelineControl` shows of it.
* `Pipeline!FairSpec`: a cycle in which neither cache holds anything up comes
  again and again (`answered`, a history variable, changes in those). Both caches
  answer every request in the end (`RequestAccepted`, `FetchGoesOn`) and keep the
  answer while they are asked.
* `Console!Spec`: the bench's clock goes on, and no instruction takes for ever
  (weak fairness of `BusyClock`; `Progress`). Nothing is assumed of the line: that
  polling ends is a consequence. `Terminal` promises in turn that what was
  written is shown, while the simulation lasts.

## 4. Proofs

`DCacheProofs` (for every number of sets, every set of tags, line shape and value
set):

* `CacheInvariant`, `Spec => []CacheInv`. The properties one wants, `UniqueTags`,
  `CleanLinesMatchMemory` and `FenceDurable`, are not inductive: the directory is
  updated when a miss is noticed, several edges before the line arrives, and a
  reset can leave a write strobe behind. `CacheInv` adds what ties them together:
  `MissInv` (during a miss its request is still on the port, its way is allocated
  and clean, and the address and data of the refill are those of the request),
  `WriteInv` (a line being written back is in no way; in IDLE this only happens
  behind a reset, when all ways are invalid) and `FlushInv` (the walk leaves only
  invalid ways behind it).
* `TypeCorrect`, `TagsUnique`, `CleanLinesDurable` follow; `FenceIsDurable` needs
  besides that with all ways invalid and no write pending `memory` is `mem`.
* `CacheImplementsMemory`, `Spec => ImplementsMemory`: the refinement of
  `DataMemory`. Four lemmas say in which ways a line can keep its contents while it
  moves: its holder stays, it loses a clean holder, it starts on its way to memory,
  it comes back. With them each action of the state machine changes nothing, stores into one
  line, or makes a line durable; a reset leaves each line as it was or as memory has
  it. A fence is never on the port together with an access (`FlushAlone`), as `Present` has it; what
  happens if it is, `LoadBehindFence` shows.

`PipelineProofs` (for every set of registers and values, length of a division and
number of positions, all inputs in every cycle, and all programs but four named mixtures):

* Hypotheses: `NoHalt`, the program has no EBREAK, which halts the processor;
  `CorrectionsKept` and `ThirdOperandsReady` leave out the mixtures of classes with which
  the runs `PipelineCsr` and `PipelineFma` find the code wrong, and no more (CSR writes
  together with branches or returns and with privileged instructions off the path; fused operations together
  with results that are not ready in execute); `AllImplemented`, needed by the refinement only, the
  program has no UNIMP, whose effect on the program's path is left out (section 2). They restrict the constants
  `ProgKind` and `JunkKind` only, and both passing runs of the pipeline satisfy them.
* `PipelineInvariant`, `Spec => []PipelineInv`. `ClearedOnlyWhenDone` holds because what a
  squashed slot follows is a jump, which nothing holds up in execute. That is a fact of where the stages
  are on the program (`OnPath`): execute has the next instruction of it, decode the one behind or
  something a correction is about to squash, fetch the one behind that. A correction must not be
  lost for it, so no hazard between decode and the memory stage may clear execute in that
  cycle, and operands must be current for the correction to be right: `NothingOwed` (no
  instruction in execute waits for a result that is not there) and `DivisionHeld` (the
  divider works on the operands of the instruction in execute).
* `OperandsAreCurrent`: the action property that TLC refutes on fused operations with late
  results holds for the programs of the hypotheses; there is no counterexample of another kind.
* `CorrectionsReachFetch`, `Spec => LostToCsrHazardOnly`, needs no hypothesis: in every program, with
  whatever else stalls in that clock, a mispredicted branch or return that leaves execute is followed by a bubble,
  and fetch squashes and goes to the corrected address unless there is a CSR hazard, in which
  case it stays where it is and the correction is lost, always. `PipelineCsr` shows that this happens.
  It follows from the wires of the control unit alone (no other term of `F_stall` can be up then),
  while that a CSR hazard never meets a correction in the programs without that mixture
  (`CorrectionTaken`, a lemma of the invariant) does not.
* `PipelineInOrder`, `Spec => ImplementsInOrder`: a cycle in which an instruction leaves
  execute is a step of `InOrder`, any other is a stutter.
* `InstretIsExact`: inductive together with the invariant, by where the uncounted
  instructions are.

`FetchProofs` (for every size of the cache, line length of at least 3 halfwords,
and program):

* `FetchInvariant`, `Spec => []FetchInv`. Decode holding the right instruction
  depends on the cache holding the right lines (`LinesMatchMemory`), which depends
  on a refill being filed under the address it was read from
  (`RefillMatchesAddress`) although the lookup can be cancelled; joining halves
  depends on the cache still putting out the first half (`FirstHalfKept`) and on
  no joined instruction being followed at once by another (`HalvesApart`).
* `StreamImplemented`, `Spec => ImplementsStream`: the refinement of
  `InstructionStream`, from the invariant and a case distinction over a cycle
  (held up, correction, first half, prediction, instruction found).

`FlashProofs` (for every size of memory, page and sector, number of dummy clocks
and length of a transaction):

* `FlashInvariant`, `Spec => []FlashInv`. One timer serves programming, erasing
  and waking, and its end clears all flags; `TimerForFlags` (a busy chip has its
  timer running, a sleeping one is idle and not busy, and only a RELEASE runs a
  timer without busy) needs `WorkUnderSelect` (a job is only pending under chip
  select, behind its command byte, on a chip that is awake and idle), because it
  is chip select that starts the timer.
* `SleepGuarded`: sleep ends with a RELEASE or with the time of one, from that
  invariant.
* `ReadIdleAssertsHold`: the two assertions of the code before a read without a
  command, for a controller that never sends 0x81 (`ASSUME "WRECR" \notin Sent`; see section
  5). They need that the mode is right while a read goes on, not only behind it.
* `ReadsAreExact`: needs that the address register is ahead of the address of the
  transaction by the bytes put out so far.
* `ProgramsExactly`, `Spec => PageProgrammed`: the page buffer holds, for each place of the
  page, the byte that was sent to it last in this transaction (`ProgramInv`), however often
  the transaction has wrapped; a place nothing was sent to is still erased.
* `FlashImplemented`, `Spec => ImplementsNor`: the refinement of `NorFlash`,
  from the invariant and a case distinction over the actions; chip select that
  rises before the address of a program or an erasure maps to one at any address.

* `FlashAnswersInTime`, for the reader, every width of addresses and any bytes of the
  chip: after `ReaderInit`, steps of `ReaderNext` keep `FlashAnswered`. The reader is in one of five
  phases (`AtRest`, `SendsRequest`, `WaitsForChip`, `TakesBytes`, `ReleasesChip`), each of which
  says how long the access has waited from the counters of that phase, and that the
  access has been strobed and held since; a reset puts the reader to rest.
* `FlashAnswersRight`: the same behaviours keep `FlashAnswer`. Each phase says besides which
  bits of command and address the chip has, and which bits of the content the reader has: what
  is on its way is a number of which the chip holds the upper part and the reader the lower
  (`OneBitMore`: `2 * (v \div 2^(i+1))` and bit i make up `v \div 2^i`), and bytes that are
  complete are those of the image. A chip whose transaction a reset has cut off starts anew
  because select rises for at least one level of the clock (`UnselectedStep`). Numbers that have no
  bound need induction, which is possible without an operator parameter by the smallest
  counterexample (`LeastNumber`, from `WFMin`).

`SerialProofs`, for every number of clients, width of a character and length of a baud:

* `DescriptorsStaySound`, `SerialSpec => []DescriptorsSound`, by following the
  descriptors through the three parts of a call (accepted, after the write, after the read).
* `FramesAsSpecified`, `SerialSpec => []FrameAsSpecified`. Nothing in the code says which bit of a
  frame is on the line; `FrameInv` does: `BitOut` bits are out, the register is the encoded
  character shifted by as many, and as many clocks have passed as `BitOut` bauds and the
  part of the next that the counter has taken. What the encoding puts where is a lemma
  of its own (`EncodedBits`), with the parity computed over more bits than are sent (`ParityRight`).
* `EchoesInOrder`, `SerialSpec => []EchoInOrder`. As long as somebody drives the line, the two halves are
  in one of five positions (`EchoInv`): at rest, a start bit not yet seen (`EMissed`), a character
  under way (`EHears`), one sent and not yet complete (`EStops`), and this with the next
  one on the line (`EOverlaps`), which the receiver takes up late, from the
  count of clocks since the line fell. `Samples` is the arithmetic of it: a bit is sampled half a baud behind its
  beginning, and the last one before the receiver could mistake the next start bit for it.

and for the console, for every number of bits, at least three clocks per baud, any
length of the initial setup, any calls with characters of the line, and both receivers:

* `ConsoleInvariant`, `Spec => []ConsoleInv`. That a receiver has shown one character before the
  next is taken holds by the clock counts of two counters that nothing connects. The
  invariant (`LineInv`) is a list of phases: in each, where the
  transmitter is, how far the receiver's counter is from it, and what the character is
  in terms of the bits heard and the bits still to be sent (`Heard`, `ToHear`). The bench's
  receiver samples half a baud behind the beginning of each state and is at rest before
  the transmitter is; the archived one skips the start bit and keeps the character for
  a baud behind the stop bit, when the next may be on the line already (`AOverlap`), or
  even misses the clock of the falling edge and takes it from its count (`AMissed`). `TransmitterInv`
  and `SettingUp` relate the registers of the transmitter, from power-on.
* `LineIsTerminal`, the safety part of `ImplementsTerminal` (`Term!TerminalInit` and
  `[][Term!TerminalNext]`): from the same invariant, the character shown is the oldest on
  its way; a character is only given to the line when the BIOS has seen it free.
* `RegistersComeBack`, `Spec => []RegistersSurvive`: what the frame of a call and the
  contexts of the process table hold is what the program had (`kept`), up to the words that a
  misaligned store of a double loses; a context of a process that has not run is that of
  `createProcess`.
* `ProcessesTakeTurns`, `Spec => TakeTurns` if the process table has two entries
  (`PROCS_MAX >= 2`; 8 in the code; with fewer than two the kernel panics). Besides the invariant it needs the order of the
  characters through the line (`Ordered`: each on its way may follow the one before it) and a table
  of what has been said last at each place of the kernel (`Said`). That each process starts once
  does not follow from that order, in which a start of B may stand behind every A; it rests on
  `StartsNoMore` (a switch goes to B's entry only while B has not run, and else to the `ra` it saved)
  and on `Once`: while B has still to start nothing of its loop is on the line, and its start is never
  behind that. `GoneA` and `GoneB` are what stays true for ever afterwards.

`StageProofs`, the divider (for every width; `Pow2` is any table with `Pow2[0] = 1` and
`Pow2[i+1] = 2 * Pow2[i]`, because the provers do not know exponentiation):

* `DividerInvariant`, `DividerSpec => []DividerInv`: with the mask at bit k, divisor is
  `b * 2^k`, `dividend + quotient * b` is the magnitude of the dividend, what is left is
  less than two of the divisor, and the quotient has no bit below k+1, so that OR-ing
  the mask is adding it. Lemmas keep the products apart from the steps, which the solver cannot multiply.
* `DivisionExactAlways`: at the end what is left is less than b, which makes it `%` and
  the quotient `\div` of the magnitudes; the signs follow by cases.

`TrapProofs` (for every set of CSRs, source words and PCs): `CsrsInOrderAlways` and
`ReadsInOrderAlways` from one invariant: the CSRs with the writes of the memory and
the execute stage behind them are those of the program in its order, and an access in
execute never has a pending write in front of it that it would not see. By cases over what is in
decode and execute.

`StageProofs`, the data port (for every set of addresses and masks, and anything at an address):

* `LoadsOwnDataAlways`: what the last strobe selected is what the last read asked for, though
  a repeated read makes no strobe (`PrevSelected`); a load is in the memory stage for just the
  clock behind its answer (`LoadJustRead`).
* `StrobedOnceAlways`: execute does not read while the memory stage writes, and only a
  waiting load keeps the flash busy (`OneAtATime`), so that no store to a device waits.

and for the memory stage, for bytes of any even number of values, any operands and any XOR, OR, AND:

* `MemoryInvariant` and `ScFindsLoadedAlways`: what the last LR has read is the reserved
  word, or forgotten; an access that neither starts at the reserved address nor reaches the
  reserved word leaves it alone (`ReservedKept`).
* `AccessExactAlways`: by cases over size and address for masks, lanes and sign; the compared words
  need that four digits in base `BASE` are one number and no other (`ValueDigits`, `ValueIsOneToOne`).

`PrintfProofs` (for every size of the scratch buffers, every width of the integer types up to
64 bits, any formats, widths, precisions and arguments):

* `FormatterInvariant`, `Spec /\ []CallerContract => []FormatterInv`. `CallerContract` is what C leaves
  to the program: there is an argument for each `*` and each conversion (`va_arg` without one is undefined), and a
  buffer given to `sprintf` has room for the text and its terminator. Every call of
  `MCPrintf` keeps it: TLC with `CallerContract` and `FormatterInv` as further invariants of
  `Printf.cfg` finds no violation. The invariant says that byte i of the buffer is
  character i of the text below the limit, and untouched otherwise
  (`Filling`; with the terminator, `Ended`), which `EmitKeeps` shows of any text put out.
* `OutputContractAlways`: the contract follows; the terminator is in the caller's buffer
  because `snprintf` is told no more than its size (`TerminatorPlace`).

What is put out must be text, which is half of the proof: `DigitsType`, `RoundedType`,
`FixedType`, `EtoaType` ... say that each function of `printf.c` returns characters
for every number, width and precision: digits are below the base, a count that wraps fills no more than the buffer, the
exponent is in range. Recursive functions are known to be functions by `ChainExists`, and
`AllUpTo` is induction over a set, so that neither needs an operator parameter.

* `DigitsAreNumeral`: the digits that the loop of `_ntoa_long` leaves in its buffer, read backwards, are
  the standard's numeral, which is built from the other end (`LastDigit`, `MoreDigits`).
* `TextAsSpecifiedAlways`, `Spec => []TextAsSpecified`, under `WantAssumption`: one directive, its
  argument, width and precision that fit `_atoi`'s unsigned int. It has three parts.
  What `_ntoa_format` and `_out_rev` put out, reversed buffer and all, is sign, prefix, zeros and digits
  in their field (`IntegerText`, by `UnmarkedText` and, for `#`, `MarkedText`), and that is `StdInteger` where
  no departure applies (`IntegerAsStandard`). `_atoi` reads back the number a numeral spells
  (`NumberRead`). And the inductive invariant `DirectiveInv`: until the conversion, what has been
  read of the format and what is left of it spell the directive together, with
  `flags`, `width` and `precision` what the part already read says; from the conversion on,
  the text is the one promised. TLC, too, has checked `DirectiveInv` over the calls of `MCPrintf`.

Preparing this proof showed that the property excluded too little: `-` with a precision prints nothing
at all for 0 (section 5), which no value of the run had reached. `LosesPrecision` names the case now, and
`MCPrintf` has the precision 1 that shows it.

The assumptions are those named in the modules: sizes are positive, the special
values are not members of the sets they are distinguished from. They are
evaluated by TLC in every run of the module. Of the abstract specifications that the
proofs reach, `DataMemory`, `InstructionStream`, `InOrder` and `NorFlash` have no fairness, so that
their theorems state the whole refinement; that of `Terminal` leaves its fairness to TLC.

Only model-checked:

* liveness, for which the provers have no rules: `RequestAccepted`, `FetchGoesOn`, `Progress`,
  `BothGoOn`, `HaltEnds`, and the fairness of `ImplementsTerminal`;
* the text of a float (`FloatAsSpecified`): it reads the printed characters back as a fraction and compares
  it with the argument, which is nonlinear arithmetic over products of powers of ten, out of the
  provers' reach; over the calls of `MCPrintf` it is checked. That each function returns
  characters for every fraction is proved (`FixedType`, `EtoaType`).

## 5. Divergences between code and documentation

Each of the four is shown by a run that ends in a counterexample.

* `PipelineCsr` (`ControlUnit.v:26`): a CSR write in the memory stage and a
  privileged instruction in decode stall fetch and clear execute even if execute
  holds a mispredicted branch; its correction is lost.
* `PipelineFma` (`DecodeUnit.v:377`): rs3 of a fused multiply-add is not checked
  against a load in execute.
* `PipelineTraps` (`DecodeUnit.v:352`): squashed or wrongly fetched privileged
  instructions set the trap CSRs and the privilege level.
* `LoadBehindFence` (`DecodeUnit.v:380`): a load behind a FENCE takes the fence's
  acknowledgement for its own.

### Observations

Seen while reading and modelling; no run is spent on them. Those marked (model)
are outcomes the models have, or cases their properties have to name.

Processor and memory:

* The replacement bits of the data cache are inverted: a hit makes them point at
  the way just used (`DCache.v:291-318`), a miss replaces the way they point at
  (361-409). Correct, but the most recently used line goes first. (model)
* The row index of the SDRAM is one bit wider than the array (`Memory.v:109`).
* UNIMP sets the trap CSRs but does not redirect the PC (`DecodeUnit.v:364`).
* Nothing invalidates the instruction cache; FENCE.I has no effect at all
  (`MemoryUnit.v:108`).
* The instruction cache files a refill under the address of the cycle in which
  it arrives (`ICache.v:148-174`). That is right only because memory answers in
  the very next cycle; with a memory that takes longer, as the commented-out DDR3
  state machine in `Memory.v` would, a correction during the wait would file the
  line under the wrong tag.
* The data port picks read data and ready flag by the address of the present
  access (`DataMem.v:79-80`). A load of memory directly followed by one of a device gets
  the device's data, and the other way round; a load of the line's status directly
  followed by one of its data register gets zero (`IO.v:168` looks at the present
  address too). Behind a FENCE, a load of a device answers for the fence, which leaves
  before the walk has ended. (model)
* Of two equal stores to a device in a row the second makes no strobe and is lost
  (`DataMem.v:66`); equal loads are harmless. A load of the timer returns 0: `IO.v:58` has no
  case for it. (model)
* A FENCE.TSO has an address with bit 31 set, so that it takes the answer of a device and
  does not wait for the walk.
* SC writes 1 to its register when it succeeds and 0 when it fails, the inverse of the
  instruction set (`MemoryUnit.v:216`). The reservation has no initial value and is for the
  exact address: at power-on address 0 counts as reserved, a byte or half written elsewhere in the word does not
  break it (`Unseen`), and an SC to another address leaves it. (model)
* The comparisons that keep CSR accesses, traps and returns in order ignore an access without
  a source register (`ControlUnit.v:26`, `DecodeUnit.v:383`). It writes all the same:
  `csrr` writes back what it read. A `csrr` of `mepc` right before an ECALL undoes the `mepc` of the
  trap; a `csrw` of x0 is not seen by a read right behind it. (model: `overtaken`)
* Any access to `sstatus`, reads included, clears the machine-mode fields MPP, MPIE and MIE
  (`CSR_RegFile.v:98, 189`); a return restores the privilege but not the enable bits
  (`DecodeUnit.v:340-345`); a trap saves the PC behind the instruction. (model)
* Reads of `fflags`, `frm` and `fcsr` return bits of the data being written
  (`CSR_RegFile.v:110-112`); the low bits of a write to them, and of their reset, are
  overridden by the flags (198).
* The copies of the timer are refreshed only when it is accessed (`IO.v:73`).

Firmware and bench:

* EBREAK halts for one cycle only if the instruction behind it misses or
  straddles lines: `F_busy` clears execute (`ControlUnit.v:33`), and HALT with
  it. `done()` counts such pulses together over the whole simulation, and the BIOS
  goes on behind a shutdown that lasted one clock. (model)
* A character still on the line when the processor halts is never shown. (model)
* `fsd` to an address that is 4 modulo 8 stores the low word to both words of the
  aligned double (`MemoryUnit.v:125-131`). Nothing aligns the stacks: `kernel.ld`
  aligns to 4, and entries of the process table have 8204 bytes, so that stacks
  alternate. On such a stack a call loses s11 and the high words of all doubles
  (`bios.S:36`), a switch the high words. `RegistersSurvive` has to except them.
  (model)
* DBCN's write of one byte falls through to the answer "not supported" (the
  character is written); the machine-mode handler does not look at the cause of a
  trap; the counters of `updateStats` count stalled cycles again
  (`simMain.cpp:80-89`); `m_trace` of the bench is not initialised
  (`testbench.h:26-39`); `allocPages` wraps at 32 bits.

Formatter (each is an operator of `PrintedText` or `Printf`):

* A tie is not carried over: a half above a last row of nines, like that of
  `printf("%.1f", 0.95)`, rolls over only above the half (`printf.c:380`), and with no places a tie goes by the whole
  part, against the comment at 392.
* `%#4x` of a four-digit number replaces its first digits by the prefix; `-` turns
  the zeros of a precision off, so that `%-.1d` prints nothing for 0; `%hhd` prints unsigned, as char is unsigned here;
  `%#.3o` doubles the zero; a zero-padded nan or inf is not filled.
* The exponent is one too high for a number just below a negative power of ten, whose
  estimate is two too high and corrected once (`printf.c:489-501`): 0.0099 prints `0.990000e-02`, and `%.3g` of
  0.0999 prints `0.100` (`NearTen`). A mantissa that rounds to ten stays
  so: `%.1e` of 9.99 prints `10.0e+00`.
* `%g` takes no trailing zeros away, chooses its form by the value alone (`%.2g` of
  123 prints `123`), has one place too many in the exponent form without a precision, and does
  not take the precision 0 for 1 (`DigitsAsSpecified`).
* `%e` of 0 prints the exponent -308; a lone `%` at the end of a format reads past
  the terminator; enough digits of precision index past the table of powers.

Devices of the benches:

* Chip select that rises before the address of a program or an erasure is complete
  does the job at an old address (`flashsim.cpp:166-222`), which may lie behind
  the end of the array. (model)
* A dual read that is cut off, or answered while busy, decides about the next
  transaction by the mode byte of an earlier one (224); command 0x81 leaves the
  state of the last read as it is, and the assertion at 283 can fail. (model)
* WREN is accepted by a busy chip and lost when it is done; a RELEASE restarts the
  timer of a busy chip; SLOW_READ's first byte and DUAL_READ do not look at the
  busy flag; a quad read with a command starts its data one byte later than one without;
  reads run past the end of the array; `write_in_progress` (`flashsim.h:114`)
  uses `|` for `&`. (model, but for the last)
* The bench's chip reads one byte past the eight it is asked for
  (`spiflash.cpp`), also at the end of the image. (model)
* The archived serial port shifts zeros on and on once its client is gone for good
  (after `kill`, or a failure of the standard streams): the line to the device falls for ever
  (`uartsim.cpp:281-288`). Before the first character it shifts a register that was
  never set. Its parity is wrong for six data bits, because it is computed over
  the bits of eight; with fewer than eight bits the received byte has parity and
  stop bits in it; `setup` compares with a value that was never set (135). (model,
  but for the last)

## 6. Not modelled

* Arithmetic: ALU, multiplier, FPU and decompressor are combinational or datapaths whose
  interest is in wide values; TLC cannot enumerate those. The divider is modelled;
  the handshake of the FPU is planned.
* What the timer counts (its interrupt is not connected), what the LEDs show, the cycle counter and
  `fcsr`, and the tables of the branch predictor and the return address stack, which
  only decide how often a prediction is right: `Pipeline` lets every prediction happen.
* Vendor primitives, display, LED dimmer, DDR3 wrapper, top-level wiring, and the
  receiver `rxuart.v`, which nothing instantiates.
* The test programs: input of the system, without state of their own.
* Of the benches, reports, tracing, statistics, and the loading of images.

## 7. Plan

Done: `Memory`, `DCache`, its abstract specification, runs and proofs
including the refinement; `Pipeline` with `InOrder`, and proofs including the
refinement; `ICache`, `Fetch`, `InstructionStream`, runs and
proofs including the refinement; `Printf` with `PrintedText`, and the proofs of the contract and of the text; `Uart` and
`Console` with `Terminal`, and proofs including the safety part of the refinement; `FlashReader` and
the proofs of its time and its answer; `FlashSim` with `NorFlash`, and proofs
including the refinement; `SerialSim`, `Divider`, `LoadStore`, `Trap` and `DataPort`, and their
proofs.

Next: the FPU's handshake (FDIV and FSQRT hold the execute stage as the divider does); the
branch predictor's tables; `DCache` behind `DataPort` instead of an arbitrary answer; `fcsr` with the FPU's flags.

