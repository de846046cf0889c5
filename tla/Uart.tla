-------------------------------- MODULE Uart --------------------------------
(***************************************************************************)
(* The serial line, clock by clock: the transmitter src/Extern/txuart.v as *)
(* IO.v sets it up (eight bits, no parity, one stop bit, no flow control)  *)
(* and the receiver that the bench calls behind each clock, either its own *)
(* tb/peripherals/uart.cpp or the archived one, archive/tb/uartsim.cpp.    *)
(***************************************************************************)
EXTENDS Integers

CONSTANTS DATA_BITS,         \* 8 in the source
          BAUDS,             \* clocks per baud, 13 in the source
          RESET_CLOCKS,      \* 16 bauds of the initial setup
          Pow2               \* the table of powers of two

ASSUME LineAssumption ==
  /\ DATA_BITS \in Nat \ {0} /\ BAUDS \in Nat /\ BAUDS > 2 /\ RESET_CLOCKS \in Nat \ {0}
  /\ Pow2 \in [0..DATA_BITS -> Nat \ {0}] /\ Pow2[0] = 1
  /\ \A i \in 0..DATA_BITS-1 : Pow2[i+1] = 2 * Pow2[i]

Char == 0..(Pow2[DATA_BITS] - 1)
STOP == DATA_BITS            \* states behind those of the bits
IDLE == DATA_BITS + 1
LowBit(c) == c % 2

VARIABLES
  \* txuart.v; cts holds q_cts_n, qq_cts_n and the complement of ck_cts
  state, r_busy, lcl_data, baud_counter, zero_baud_counter, last_state, cts, o_uart_tx,
  receiver,                  \* which one the bench has
  rx,                        \* its registers
  printed, prints            \* the last character printed, and the parity of how many

txVars == <<state, r_busy, lcl_data, baud_counter, zero_baud_counter, last_state, cts, o_uart_tx>>
rxVars == <<rx, printed, prints>>
uartVars == <<txVars, receiver, rxVars>>

UartInit ==
  /\ state = IDLE /\ r_busy = TRUE /\ lcl_data = Pow2[DATA_BITS] - 1
  /\ baud_counter = 5 /\ zero_baud_counter = FALSE /\ last_state = FALSE
  /\ cts \in [1..3 -> 0..1] /\ o_uart_tx = 1
  /\ receiver \in {"uart.cpp", "uartsim.cpp"}
  /\ rx = [busy |-> FALSE, last |-> 1, baud |-> 0, bit |-> 0, data |-> 0, change |-> 0]
  /\ printed = 0 /\ prints = 0
-----------------------------------------------------------------------------
Accepts(i_wr) == i_wr /\ ~r_busy

TransmitterReset ==
  /\ state' = IDLE /\ r_busy' = TRUE /\ cts' = [i \in 1..3 |-> 1] /\ o_uart_tx' = 1
  /\ baud_counter' = RESET_CLOCKS /\ zero_baud_counter' = FALSE /\ last_state' = FALSE

LastClock == baud_counter = 1
Shifted == IF zero_baud_counter THEN lcl_data \div 2 ELSE lcl_data
TransmitterClock(i_wr, i_data) ==
  /\ cts' = [i \in 1..3 |-> IF i = 1 THEN 0 ELSE cts[i - 1]]
  /\ last_state' = (state = STOP)
  /\ o_uart_tx' = IF Accepts(i_wr) THEN 0
                  ELSE IF ~zero_baud_counter THEN o_uart_tx
                  ELSE IF state < STOP THEN LowBit(lcl_data) ELSE 1
  /\ IF ~zero_baud_counter
     THEN /\ r_busy' = TRUE /\ UNCHANGED state
          /\ baud_counter' = baud_counter - 1 /\ zero_baud_counter' = LastClock
     ELSE IF state = IDLE
     THEN /\ state' = IF Accepts(i_wr) THEN 0 ELSE IDLE
          /\ r_busy' = IF Accepts(i_wr) THEN TRUE ELSE cts[3] = 1
          /\ baud_counter' = IF Accepts(i_wr) THEN BAUDS - 1 ELSE 0
          /\ zero_baud_counter' = ~Accepts(i_wr)
     ELSE /\ state' = IF state = STOP THEN IDLE ELSE state + 1
          /\ r_busy' = TRUE
          /\ baud_counter' = IF last_state THEN BAUDS - 2 ELSE BAUDS - 1    \* one is left to idle
          /\ zero_baud_counter' = FALSE

(* lcl_data follows the data lines while idle; what is there between two   *)
(* writes is never sent, and is left out.                                  *)
Transmitter(i_reset, i_wr, i_data) ==
  /\ IF i_reset THEN TransmitterReset ELSE TransmitterClock(i_wr, i_data)
  /\ lcl_data' = IF Accepts(i_wr) THEN i_data ELSE IF r_busy THEN Shifted ELSE lcl_data
-----------------------------------------------------------------------------
Shows(c) == printed' = c /\ prints' = 1 - prints
ShowsNothing  == UNCHANGED <<printed, prints>>

(* UARTSIM::operator() of the bench: half a baud behind the falling edge   *)
(* the start bit, then one sample a baud; the stop bit ends the character. *)
WholeBaud == BAUDS           \* mutant of HalfBaud
HalfBaud == BAUDS \div 2
BenchReceiver(rxd) ==
  IF ~rx.busy
  THEN /\ rx' = IF rxd = 0 /\ rx.last = 1
                THEN [rx EXCEPT !.busy = TRUE, !.baud = HalfBaud, !.bit = 0, !.data = 0, !.last = rxd]
                ELSE [rx EXCEPT !.last = rxd]
       /\ ShowsNothing
  ELSE IF rx.baud # 0
  THEN rx' = [rx EXCEPT !.baud = @ - 1, !.last = rxd] /\ ShowsNothing
  ELSE /\ rx' = [rx EXCEPT !.baud = BAUDS - 1, !.bit = @ + 1, !.last = rxd,
                           !.busy = rx.bit # DATA_BITS + 1,
                           !.data = IF rx.bit \in 1..DATA_BITS THEN @ + rxd * Pow2[rx.bit - 1] ELSE @]
       /\ IF rx.bit = DATA_BITS + 1 THEN Shows(rx.data) ELSE ShowsNothing

(* rawtick() of the archived one, its receiving half: the first sample one *)
(* and a half bauds behind the falling edge, and the character a baud      *)
(* behind the stop bit, when the next one may have begun already;          *)
(* m_rx_changectr is how long ago that was, up to a bound behind which     *)
(* nothing reads it.                                                       *)
FallenNow(i_tx) == 0         \* mutant of FallenFor
FallenFor(i_tx) == IF i_tx = 0 /\ rx.last = 1 THEN 0
                   ELSE IF rx.change < 2 * BAUDS THEN rx.change + 1 ELSE rx.change
ArchivedReceiver(i_tx) ==
  LET r == [rx EXCEPT !.change = FallenFor(i_tx), !.last = i_tx] IN
  IF ~rx.busy
  THEN /\ rx' = IF i_tx = 0
                THEN [r EXCEPT !.busy = TRUE, !.bit = 0, !.data = 0,
                               !.baud = BAUDS + (BAUDS \div 2) - 1 - r.change]
                ELSE r
       /\ ShowsNothing
  ELSE IF rx.baud > 0
  THEN rx' = [r EXCEPT !.baud = @ - 1] /\ ShowsNothing
  ELSE IF rx.bit > DATA_BITS
  THEN rx' = [r EXCEPT !.baud = BAUDS - 1, !.busy = FALSE] /\ Shows(rx.data % Pow2[DATA_BITS])
  ELSE /\ rx' = [r EXCEPT !.baud = BAUDS - 1, !.bit = @ + 1, !.data = @ + i_tx * Pow2[rx.bit]]
       /\ ShowsNothing

Receiver(line) ==
  /\ \/ receiver = "uart.cpp" /\ BenchReceiver(line)
     \/ receiver = "uartsim.cpp" /\ ArchivedReceiver(line)
  /\ UNCHANGED receiver
=============================================================================
