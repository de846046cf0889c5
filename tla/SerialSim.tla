----------------------------- MODULE SerialSim ------------------------------
(***************************************************************************)
(* The archived serial port of a simulation, archive/tb/uartsim.cpp: one   *)
(* call per clock decodes the line from the device for a client on a TCP   *)
(* port (or the standard output) and encodes the client's characters for   *)
(* the line to it.  The device here sends back what it hears.              *)
(*                                                                         *)
(* A register of bits is the set of the positions of its ones.  Left out:  *)
(* the failures of setup_listener, which end the program.                  *)
(***************************************************************************)
EXTENDS Naturals, Sequences, FiniteSets

CONSTANTS CHAR_BITS,         \* 8 in the source
          WORD,              \* 32 in the source
          CLOCKS,            \* m_baud_counts
          Typed,             \* characters the clients send
          CLIENTS, TYPED     \* bounds: connections, and characters on each

ASSUME SerialAssumption ==
  /\ CHAR_BITS \in Nat \ {0} /\ CLOCKS \in Nat /\ CLOCKS > 2 /\ CLIENTS \in Nat /\ TYPED \in Nat
  /\ WORD \in Nat /\ WORD > CHAR_BITS + 4 /\ Typed \subseteq SUBSET (0..CHAR_BITS-1)

VARIABLES
  m_skt,                                     \* whether it is open: network
  m_conrd, m_conwr,                          \* file descriptors
  m_nbits, m_nstop, m_nparity, m_fixdp, m_evenp,
  m_rx_state, m_rx_baudcounter, m_rx_busy, m_rx_changectr, m_rx_data, m_last_tx,
  m_tx_state, m_tx_baudcounter, m_tx_busy, m_tx_data,     \* busy: the ones, counted
  wire,                                      \* the line, there and back
  peer, inbox, connections,                  \* the client, what it has sent, how many so far
  opened,                                    \* descriptors the system has open
  heard, levels                               \* history: characters read and not yet
                                             \* written; the line since the last read

rxHalf == <<m_rx_state, m_rx_baudcounter, m_rx_busy, m_rx_changectr, m_rx_data, m_last_tx>>
txHalf == <<m_tx_state, m_tx_baudcounter, m_tx_busy, m_tx_data>>
setup  == <<m_nbits, m_nstop, m_nparity, m_fixdp, m_evenp>>
serialVars == <<m_skt, m_conrd, m_conwr, setup, rxHalf, txHalf, wire, peer, inbox, connections,
                opened, heard, levels>>

NoFile == 0                                  \* -1 in the source
Std    == CLIENTS + 1                        \* standard input and output
Ones(from) == from..(WORD - 1)
Right(bits, by) == {i - by : i \in {j \in bits : j >= by}}
CharMask == 0..(CHAR_BITS - 1)
N == m_nbits + m_nparity + m_nstop           \* bits behind the start bit

(* Up to eight bits, one or two of the stop bits, parity none, fixed, even *)
(* or odd; what m_tx_data holds before the first character is not set.  So *)
(* are m_last_tx and m_rx_changectr, but the line is high at first, and    *)
(* then falls.                                                             *)
SerialInit ==
  /\ m_skt \in BOOLEAN
  /\ m_conrd = (IF m_skt THEN NoFile ELSE Std) /\ m_conwr = m_conrd
  /\ m_nbits \in {b \in 1..CHAR_BITS : b + 3 >= CHAR_BITS} /\ m_nstop \in 1..2 /\ m_nparity \in 0..1
  /\ m_fixdp \in BOOLEAN /\ m_evenp \in BOOLEAN /\ (m_nparity = 0 => ~m_fixdp /\ ~m_evenp)
  /\ m_rx_state = "RXIDLE" /\ m_rx_baudcounter = 0 /\ m_rx_busy = 0 /\ m_rx_data = {}
  /\ m_rx_changectr = 0 /\ m_last_tx = 1
  /\ m_tx_state = "TXIDLE" /\ m_tx_baudcounter = 0 /\ m_tx_busy = 0 /\ m_tx_data \in {{}, Ones(0)}
  /\ wire = 1 /\ peer = (IF m_skt THEN "none" ELSE "connected") /\ inbox = <<>>
  /\ connections = 0 /\ opened = (IF m_skt THEN {} ELSE {Std})
  /\ heard = <<>> /\ levels = <<>>
-----------------------------------------------------------------------------
(* The descriptors: a call can close them in its first half, and then look *)
(* at them in its second; files is what the calls before have left.        *)
Files == [rd |-> m_conrd, wr |-> m_conwr, opened |-> opened]
Closed(f) == [rd |-> NoFile, wr |-> NoFile, opened |-> f.opened \ {f.rd}]
Leaked(f) == [rd |-> NoFile, wr |-> NoFile, opened |-> f.opened]           \* mutant of Dropped
Dropped(f) == Closed(f)

(* check_for_new_connections: at most one client at a time.                *)
Accepts1 == m_skt /\ m_conrd = NoFile /\ m_conwr = NoFile /\ peer = "waiting"
AfterAccept ==
  IF Accepts1 THEN [rd |-> connections, wr |-> connections, opened |-> opened \cup {connections}]
  ELSE Files

(* The first half: what comes from the device.  A write can fail when the  *)
(* client has gone, or at any time on the standard output.                 *)
LeaveCount(i_tx) == m_rx_changectr + 1                                     \* mutant of Changed
Changed(i_tx) == IF i_tx = 0 /\ m_last_tx = 1 THEN 0 ELSE m_rx_changectr + 1

Completes == m_rx_state = "RXDATA" /\ m_rx_baudcounter = 0 /\ m_rx_busy >= N
Buf == Right(m_rx_data, WORD - N) \cap CharMask
WriteFails(f) == Completes /\ f.wr # NoFile /\ (f.wr = Std \/ peer = "closed")
AfterWrite(f, fails) == IF ~fails THEN f ELSE IF m_skt THEN Dropped(f) ELSE [f EXCEPT !.rd = NoFile, !.wr = NoFile]

Receive(i_tx) ==
  /\ m_last_tx' = i_tx
  /\ IF m_rx_state = "RXIDLE"
     THEN IF i_tx = 0
          THEN /\ m_rx_state' = "RXDATA" /\ m_rx_busy' = 0 /\ m_rx_data' = {}
               /\ m_rx_baudcounter' = CLOCKS + (CLOCKS \div 2) - 1 - Changed(i_tx)
          ELSE UNCHANGED <<m_rx_state, m_rx_busy, m_rx_data, m_rx_baudcounter>>
     ELSE IF m_rx_baudcounter > 0
     THEN m_rx_baudcounter' = m_rx_baudcounter - 1 /\ UNCHANGED <<m_rx_state, m_rx_busy, m_rx_data>>
     ELSE /\ m_rx_baudcounter' = CLOCKS - 1
          /\ IF Completes THEN m_rx_state' = "RXIDLE" /\ UNCHANGED <<m_rx_busy, m_rx_data>>
             ELSE /\ m_rx_busy' = m_rx_busy + 1 /\ UNCHANGED m_rx_state
                  /\ m_rx_data' = Right(m_rx_data, 1) \cup (IF i_tx = 1 THEN {WORD - 1} ELSE {})
  (* bound: how long ago the line has fallen, as far as anything reads it *)
  /\ m_rx_changectr' = IF Changed(i_tx) < 2 * CLOCKS THEN Changed(i_tx) ELSE 2 * CLOCKS

(* The second half: what goes to the device.                               *)
ParityOf(d) == IF m_fixdp THEN m_evenp
               ELSE (Cardinality(Right(d, 1) \cap CharMask) % 2 = 1) # m_evenp
Encoded(c) ==
  LET d == Ones(m_nbits + m_nparity + 1) \cup {i + 1 : i \in c} IN
  IF m_nparity = 1 /\ ParityOf(d) THEN d \cup {m_nbits + m_nparity} ELSE d
NoStartBit == m_nbits + m_nparity + m_nstop                                \* mutant of TxBits
TxBits == m_nbits + m_nparity + m_nstop + 1

Polls(f) == m_tx_state = "TXIDLE" /\ (m_skt \/ f.rd # NoFile)
Level(bits) == IF 0 \in bits THEN 1 ELSE 0

(* A character is there.                                                   *)
TakeCharacter(f) ==
  /\ Polls(f) /\ f.rd # NoFile /\ inbox # <<>>
  /\ m_tx_data' = Encoded(Head(inbox)) /\ m_tx_busy' = TxBits
  /\ m_tx_state' = "TXDATA" /\ m_tx_baudcounter' = CLOCKS - 1
  /\ wire' = 0 /\ levels' = <<0>> /\ inbox' = Tail(inbox)
  /\ m_conrd' = f.rd /\ m_conwr' = f.wr /\ opened' = f.opened

(* Nothing is there; the client has gone, or reading fails.                *)
ReadNone(f) ==
  /\ Polls(f) /\ (f.rd = NoFile \/ inbox = <<>>)
  /\ \E g \in {f} \cup (IF f.rd = Std THEN {[f EXCEPT !.rd = NoFile]} ELSE {}) :
       LET end == IF m_skt /\ f.rd # NoFile /\ peer = "closed" THEN Closed(f) ELSE g
       IN m_conrd' = end.rd /\ m_conwr' = end.wr /\ opened' = end.opened
  /\ wire' = 1 /\ levels' = <<>>
  /\ UNCHANGED <<txHalf, inbox>>

(* The bits of a character, and those of none at all: without a client the *)
(* register is shifted on and on.                                          *)
ShiftOut(f) ==
  /\ ~Polls(f)
  /\ IF m_tx_baudcounter = 0
     THEN /\ m_tx_data' = Right(m_tx_data, 1)
          /\ m_tx_busy' = IF m_tx_busy = 0 THEN 0 ELSE m_tx_busy - 1
          /\ m_tx_state' = IF m_tx_busy' = 0 THEN "TXIDLE" ELSE m_tx_state
          /\ m_tx_baudcounter' = IF m_tx_busy' = 0 THEN 0 ELSE CLOCKS - 1
     ELSE m_tx_baudcounter' = m_tx_baudcounter - 1 /\ UNCHANGED <<m_tx_data, m_tx_busy, m_tx_state>>
  /\ wire' = Level(m_tx_data') /\ levels' = IF m_tx_state = "TXIDLE" THEN <<>> ELSE Append(levels, wire')
  /\ m_conrd' = f.rd /\ m_conwr' = f.wr /\ opened' = f.opened
  /\ UNCHANGED inbox

(* rawtick(), called with the line as the call before has left it.         *)
SerialTick ==
  /\ Receive(wire)
  /\ \E fails \in BOOLEAN :
       /\ fails => WriteFails(AfterAccept)
       /\ LET f == AfterWrite(AfterAccept, fails)
          IN TakeCharacter(f) \/ ReadNone(f) \/ ShiftOut(f)
  /\ peer' = IF m_skt /\ m_conrd' = NoFile /\ (m_conrd # NoFile \/ Accepts1) THEN "none"
             ELSE IF Accepts1 THEN "connected" ELSE peer
  /\ heard' = LET kept == IF Completes /\ heard # <<>> THEN Tail(heard) ELSE heard
              IN IF inbox' # inbox THEN Append(kept, Head(inbox)) ELSE kept
  /\ UNCHANGED <<m_skt, setup, connections>>
-----------------------------------------------------------------------------
(* The client, and kill().                                                 *)
ClientArrives ==
  /\ m_skt /\ peer = "none" /\ connections < CLIENTS
  /\ peer' = "waiting" /\ connections' = connections + 1 /\ inbox' = <<>>
  /\ UNCHANGED <<m_skt, m_conrd, m_conwr, setup, rxHalf, txHalf, wire, opened, heard, levels>>
ClientTypes ==
  /\ peer \in {"waiting", "connected"} /\ Len(inbox) < TYPED
  /\ \E c \in Typed : inbox' = Append(inbox, c)
  /\ UNCHANGED <<m_skt, m_conrd, m_conwr, setup, rxHalf, txHalf, wire, peer, connections, opened, heard, levels>>
ClientLeaves ==
  /\ m_skt /\ peer = "connected" /\ peer' = "closed"
  /\ UNCHANGED <<m_skt, m_conrd, m_conwr, setup, rxHalf, txHalf, wire, inbox, connections, opened, heard, levels>>
Kill ==
  /\ m_skt \/ m_conrd # NoFile \/ m_conwr # NoFile
  /\ opened' = opened \ ({m_conrd, m_conwr} \ {Std})
  /\ m_skt' = FALSE /\ m_conrd' = NoFile /\ m_conwr' = NoFile /\ peer' = "none"
  /\ UNCHANGED <<setup, rxHalf, txHalf, wire, inbox, connections, heard, levels>>

SerialNext == SerialTick \/ ClientArrives \/ ClientTypes \/ ClientLeaves \/ Kill
SerialSpec == SerialInit /\ [][SerialNext]_serialVars
-----------------------------------------------------------------------------
(* No descriptor is used after it is closed, and none is left open that    *)
(* nobody will close: whichever of read, write and client ends it.         *)
DescriptorsSound ==
  /\ {m_conrd, m_conwr} \subseteq opened \cup {NoFile}
  /\ opened \subseteq {m_conrd, m_conwr, Std}
  /\ m_skt => m_conrd = m_conwr

(* What a character looks like on the line: start bit, data, parity, stop  *)
(* bits, each for as many clocks as there are in a baud.  Parity is wrong  *)
(* with two data bits less than a character has, and with data behind the  *)
(* bits of the setup: the source computes it over more bits than it sends. *)
Fits(c) == c \subseteq 0..(m_nbits - 1)
Expected(c, i) ==                            \* bit i behind the start bit
  IF i < m_nbits THEN i \in c
  ELSE IF i < m_nbits + m_nparity
  THEN IF m_fixdp THEN m_evenp ELSE (Cardinality(c) % 2 = 1) # m_evenp
  ELSE TRUE
ParityBroken == m_nparity = 1 /\ ~m_fixdp /\ m_nbits = CHAR_BITS - 2
FrameAsSpecified ==
  LET c == heard[Len(heard)] IN
  /\ m_tx_state = "TXIDLE" => Len(levels) \in {0, (N + 1) * CLOCKS + 1}
  /\ m_tx_state = "TXDATA" /\ heard # <<>> /\ Fits(c) /\ ~ParityBroken =>
       \A k \in DOMAIN levels :
         LET i == (k - 1) \div CLOCKS IN       \* the bit of this clock
         levels[k] = IF i > 0 /\ Expected(c, i - 1) THEN 1 ELSE 0

(* The characters come back as they were typed, in their order, none left  *)
(* out and none made up, across any number of clients, up to the bits that *)
(* were sent; as long as there is somebody to send, or was until now.      *)
Driven == m_skt \/ m_conrd # NoFile
LowBits(c) == c \cap 0..(m_nbits - 1)
EchoInOrder ==
  /\ Driven /\ Completes => heard # <<>> /\ LowBits(Buf) = LowBits(heard[1])
  /\ Len(heard) <= 2
=============================================================================
