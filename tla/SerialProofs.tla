---------------------------- MODULE SerialProofs -----------------------------
(***************************************************************************)
(* Proofs about the two serial ports.  The archived one: its descriptors,  *)
(* for any number of clients and characters, the frames it sends, and that *)
(* what comes back is what was typed, for any setup and baud.  The         *)
(* console's: the line, for any number of bits and clocks per baud and     *)
(* both receivers, the frames that hold registers, and the turns of the    *)
(* kernel's processes.                                                     *)
(***************************************************************************)
EXTENDS SerialSim, Console, SequenceTheorems, FiniteSetTheorems, TLAPS

USE SerialAssumption

LEMMA FileNumbers == NoFile \in 0..Std /\ Std \in 0..Std /\ NoFile # Std
BY DEF NoFile, Std

(* What a call or kill() finds: with a socket one descriptor for both      *)
(* directions, and never that of the standard input or output; without one *)
(* none but that.                                                          *)
FileInv ==
  /\ DescriptorsSound
  /\ connections \in 0..CLIENTS
  /\ m_skt \in BOOLEAN /\ m_conrd \in 0..Std /\ m_conwr \in 0..Std
  /\ m_skt => m_conrd # Std /\ (peer = "waiting" => connections > 0)
  /\ ~m_skt => {m_conrd, m_conwr} \subseteq {NoFile, Std}
  /\ NoFile \notin opened

(* The same of the records that a call passes on.                          *)
Sound(f) ==
  /\ f.rd \in 0..Std /\ f.wr \in 0..Std
  /\ {f.rd, f.wr} \subseteq f.opened \cup {NoFile}
  /\ f.opened \subseteq {f.rd, f.wr, Std}
  /\ m_skt => f.rd = f.wr /\ f.rd # Std
  /\ ~m_skt => {f.rd, f.wr} \subseteq {NoFile, Std}
  /\ NoFile \notin f.opened

LEMMA AcceptSound == ASSUME FileInv PROVE Sound(AfterAccept)
BY DEF FileInv, DescriptorsSound, AfterAccept, Accepts1, Files, Sound, NoFile, Std

(* Whether the write fails on the network or on the standard output.       *)
LEMMA WriteSound ==
  ASSUME NEW f, Sound(f), NEW fails \in BOOLEAN, fails => WriteFails(f), f = AfterAccept
  PROVE  Sound(AfterWrite(f, fails))
<1>1. CASE ~fails BY <1>1 DEF AfterWrite
<1>2. CASE fails /\ m_skt
  <2>1. AfterWrite(f, fails) = [rd |-> NoFile, wr |-> NoFile, opened |-> f.opened \ {f.rd}]
    BY <1>2 DEF AfterWrite, Dropped, Closed
  <2>2. Sound([rd |-> NoFile, wr |-> NoFile, opened |-> f.opened \ {f.rd}])
    BY <1>2, FileNumbers DEF Sound
  <2> QED BY <2>1, <2>2
<1>3. CASE fails /\ ~m_skt
  <2>1. AfterWrite(f, fails) = [f EXCEPT !.rd = NoFile, !.wr = NoFile] BY <1>3 DEF AfterWrite
  <2>2. f = [rd |-> f.rd, wr |-> f.wr, opened |-> f.opened] BY DEF AfterAccept, Files
  <2>3. AfterWrite(f, fails) = [rd |-> NoFile, wr |-> NoFile, opened |-> f.opened] BY <2>1, <2>2
  <2>4. Sound([rd |-> NoFile, wr |-> NoFile, opened |-> f.opened])
    BY <1>3, FileNumbers DEF Sound
  <2> QED BY <2>3, <2>4
<1> QED BY <1>1, <1>2, <1>3

(* The second half, whichever of its three branches it takes.              *)
LEMMA TakeSound ==
  ASSUME FileInv, NEW f, Sound(f), TakeCharacter(f) \/ ReadNone(f) \/ ShiftOut(f)
  PROVE  Sound([rd |-> m_conrd', wr |-> m_conwr', opened |-> opened'])
<1>1. CASE TakeCharacter(f) BY <1>1 DEF TakeCharacter, Sound
<1>2. CASE ShiftOut(f) BY <1>2 DEF ShiftOut, Sound
<1>3. CASE ReadNone(f)
  <2>1. PICK g \in {f} \cup (IF f.rd = Std THEN {[f EXCEPT !.rd = NoFile]} ELSE {}) :
          LET end == IF m_skt /\ f.rd # NoFile /\ peer = "closed" THEN Closed(f) ELSE g
          IN m_conrd' = end.rd /\ m_conwr' = end.wr /\ opened' = end.opened
    BY <1>3 DEF ReadNone
  <2>2. CASE m_skt /\ f.rd # NoFile /\ peer = "closed"
    BY <2>1, <2>2, FileNumbers DEF Closed, Sound
  <2>3. CASE ~(m_skt /\ f.rd # NoFile /\ peer = "closed")
    <3>1. m_conrd' = g.rd /\ m_conwr' = g.wr /\ opened' = g.opened BY <2>1, <2>3
    <3>2. CASE g = f BY <3>1, <3>2 DEF Sound
    <3>3. CASE f.rd = Std /\ g = [f EXCEPT !.rd = NoFile]
      BY <3>1, <3>3, FileNumbers DEF Sound
    <3> QED BY <2>1, <3>2, <3>3
  <2> QED BY <2>2, <2>3
<1> QED BY <1>1, <1>2, <1>3

LEMMA FileStep ==
  ASSUME FileInv, [SerialNext]_serialVars
  PROVE  FileInv'
<1>1. CASE SerialTick
  <2>1. PICK fails \in BOOLEAN :
          /\ fails => WriteFails(AfterAccept)
          /\ LET f == AfterWrite(AfterAccept, fails) IN TakeCharacter(f) \/ ReadNone(f) \/ ShiftOut(f)
    BY <1>1 DEF SerialTick
  <2>2. Sound(AfterWrite(AfterAccept, fails)) BY <2>1, AcceptSound, WriteSound
  <2>3. Sound([rd |-> m_conrd', wr |-> m_conwr', opened |-> opened']) BY <2>1, <2>2, TakeSound
  <2>4. m_skt' = m_skt /\ connections' = connections /\ (peer' = "waiting" => peer = "waiting")
    BY <1>1 DEF SerialTick
  <2> QED BY <2>3, <2>4 DEF FileInv, DescriptorsSound, Sound
<1>2. CASE ClientArrives
  BY <1>2 DEF ClientArrives, FileInv, DescriptorsSound
<1>3. CASE ClientTypes BY <1>3 DEF ClientTypes, FileInv, DescriptorsSound
<1>4. CASE ClientLeaves BY <1>4 DEF ClientLeaves, FileInv, DescriptorsSound
<1>5. CASE Kill BY <1>5, FileNumbers DEF Kill, FileInv, DescriptorsSound
<1>6. CASE UNCHANGED serialVars BY <1>6 DEF serialVars, FileInv, DescriptorsSound
<1> QED BY <1>1, <1>2, <1>3, <1>4, <1>5, <1>6 DEF SerialNext

(* No descriptor is closed twice or used after it was closed, and none is  *)
(* forgotten, whatever fails in whichever half of a call (uartsim.cpp      *)
(* 115-129, 149-207 and 226-280).                                          *)
THEOREM DescriptorsStaySound == SerialSpec => []DescriptorsSound
<1>1. SerialInit => FileInv BY DEF SerialInit, FileInv, DescriptorsSound, NoFile, Std
<1>2. FileInv /\ [SerialNext]_serialVars => FileInv' BY FileStep
<1>3. FileInv => DescriptorsSound BY DEF FileInv
<1> QED BY <1>1, <1>2, <1>3, PTL DEF SerialSpec

-----------------------------------------------------------------------------
(* What the archived port puts on the line, from its registers.            *)

SetUpRight ==
  /\ m_nbits \in 1..CHAR_BITS /\ m_nbits + 3 >= CHAR_BITS /\ m_nstop \in 1..2 /\ m_nparity \in 0..1
  /\ m_fixdp \in BOOLEAN /\ m_evenp \in BOOLEAN

LEMMA SetUpFacts ==
  ASSUME SetUpRight
  PROVE  /\ N \in Nat /\ m_nbits < N /\ N + 1 <= WORD - 1 /\ N = m_nbits + m_nparity + m_nstop
         /\ CLOCKS \in Nat /\ CLOCKS > 2 /\ WORD \in Nat /\ CHAR_BITS \in Nat
         /\ \A c \in Typed : c \subseteq 0..CHAR_BITS-1
<1>1. CHAR_BITS \in Nat /\ CLOCKS \in Nat /\ CLOCKS > 2 /\ WORD \in Nat /\ WORD > CHAR_BITS + 4 BY SerialAssumption
<1> QED BY <1>1, SerialAssumption DEF SetUpRight, N

LEMMA RightBits ==
  ASSUME NEW bits \in SUBSET Nat, NEW by \in Nat
  PROVE  /\ Right(bits, by) \in SUBSET Nat
         /\ \A i \in Nat : i \in Right(bits, by) <=> i + by \in bits
<1>1. \A j \in Nat : j >= by => j - by \in Nat /\ (j - by) + by = j OBVIOUS
<1>2. \A i \in Nat : i + by \in Nat /\ i + by >= by /\ (i + by) - by = i OBVIOUS
<1> DEFINE Kept == {j \in bits : j >= by}
<1>3. Right(bits, by) = {i - by : i \in Kept} BY DEF Right
<1>4. \A i : i \in Right(bits, by) <=> \E j \in Kept : i = j - by BY <1>3
<1>5. \A j \in Kept : j \in Nat /\ j \in bits /\ j >= by OBVIOUS
<1>6. ASSUME NEW i \in Right(bits, by) PROVE i \in Nat /\ i + by \in bits
  <2>1. PICK j \in Kept : i = j - by BY <1>4
  <2> QED BY <2>1, <1>1, <1>5
<1>7. ASSUME NEW i \in Nat, i + by \in bits PROVE i \in Right(bits, by)
  <2>1. i + by \in Kept BY <1>2, <1>7
  <2>2. i = (i + by) - by BY <1>2
  <2> QED BY <2>1, <2>2, <1>4
<1> QED BY <1>6, <1>7

(* The bits that are in the encoding, parity apart: the start bit is not,  *)
(* data bits are where the character has them, the stop bits and one more  *)
(* are.                                                                    *)
EncodedData(c) == Ones(m_nbits + m_nparity + 1) \cup {i + 1 : i \in c}

LEMMA DataBits ==
  ASSUME SetUpRight, NEW c \in Typed
  PROVE  /\ EncodedData(c) \in SUBSET Nat /\ 0 \notin EncodedData(c)
         /\ \A i \in 0..m_nbits-1 : i + 1 \in EncodedData(c) <=> i \in c
         /\ \A i \in m_nbits + m_nparity + 1..N + 1 : i \in EncodedData(c)
         /\ Fits(c) /\ m_nparity = 1 => m_nbits + m_nparity \notin EncodedData(c)
<1> USE SetUpFacts
<1>1. c \subseteq Nat OBVIOUS
<1>2. \A i \in c : i \in Nat /\ i + 1 \in Nat /\ i + 1 # 0 BY <1>1
<1>3. m_nbits \in Nat /\ m_nparity \in Nat /\ m_nbits >= 1 BY DEF SetUpRight
<1>4. \A i : i \in Ones(m_nbits + m_nparity + 1) <=> i \in Nat /\ i > m_nbits + m_nparity /\ i <= WORD - 1
  BY <1>3 DEF Ones
<1>5. EncodedData(c) \in SUBSET Nat /\ 0 \notin EncodedData(c) BY <1>2, <1>3, <1>4 DEF EncodedData
<1>6. ASSUME NEW i \in Nat, i <= m_nbits + m_nparity
      PROVE  i \in EncodedData(c) <=> \E j \in c : i = j + 1
  BY <1>3, <1>4, <1>6 DEF EncodedData
<1>7. ASSUME NEW i \in 0..m_nbits-1 PROVE i + 1 \in EncodedData(c) <=> i \in c
  <2>1. i \in Nat /\ i + 1 \in Nat /\ i + 1 <= m_nbits + m_nparity BY <1>3
  <2>2. \A j \in c : i + 1 = j + 1 => i = j BY <1>2, <2>1
  <2> QED BY <1>6, <2>1, <2>2
<1>8. \A i \in m_nbits + m_nparity + 1..N + 1 : i \in EncodedData(c)
  <2>1. \A i \in m_nbits + m_nparity + 1..N + 1 : i \in Nat /\ i > m_nbits + m_nparity /\ i <= WORD - 1 BY <1>3
  <2> QED BY <1>4, <2>1 DEF EncodedData
<1>9. ASSUME Fits(c), m_nparity = 1 PROVE m_nbits + m_nparity \notin EncodedData(c)
  <2>1. \A j \in c : m_nbits + m_nparity # j + 1 BY <1>2, <1>3, <1>9 DEF Fits
  <2> QED BY <1>3, <1>6, <2>1
<1> QED BY <1>5, <1>7, <1>8, <1>9

(* The source takes the parity over CHAR_BITS bits: the character and the  *)
(* stop bits among them, none or two of these.                             *)
LEMMA ParityRight ==
  ASSUME SetUpRight, NEW c \in Typed, Fits(c), ~ParityBroken, m_nparity = 1
  PROVE  ParityOf(EncodedData(c)) = IF m_fixdp THEN m_evenp ELSE (Cardinality(c) % 2 = 1) # m_evenp
<1> USE SetUpFacts
<1> DEFINE X == Right(EncodedData(c), 1) \cap CharMask
<1>1. CASE m_fixdp BY <1>1 DEF ParityOf
<1>2. CASE ~m_fixdp
  <2>1. m_nbits \in Nat /\ m_nbits <= CHAR_BITS /\ m_nbits + 3 >= CHAR_BITS /\ m_nbits # CHAR_BITS - 2
    BY <1>2 DEF SetUpRight, ParityBroken
  <2>2. c \subseteq 0..m_nbits-1 BY DEF Fits
  <2>3. IsFiniteSet(c) /\ Cardinality(c) \in Nat
    <3>1. IsFiniteSet(0..m_nbits-1) BY <2>1, FS_Interval
    <3> QED BY <2>2, <3>1, FS_Subset, FS_CardinalityType
  <2>4. \A i \in Nat : i \in X <=> i <= CHAR_BITS - 1 /\ i + 1 \in EncodedData(c)
    BY DataBits, RightBits DEF CharMask
  <2>5. X \in SUBSET Nat BY DEF CharMask
  <2>6. ASSUME NEW i \in Nat PROVE i \in X <=> i \in c \/ (i > m_nbits /\ i <= CHAR_BITS - 1)
    <3>1. CASE i < m_nbits BY <2>1, <2>2, <2>4, <3>1, DataBits
    <3>2. CASE i = m_nbits BY <2>1, <2>2, <2>4, <3>2, DataBits
    <3>3. CASE i > m_nbits
      <4>1. i <= CHAR_BITS - 1 => i + 1 \in EncodedData(c)
        BY <2>1, <3>3 DEF EncodedData, Ones
      <4> QED BY <2>1, <2>2, <2>4, <3>3, <4>1
    <3> QED BY <2>1, <3>1, <3>2, <3>3
  <2>7. Cardinality(X) = Cardinality(c) \/ Cardinality(X) = Cardinality(c) + 2
    <3>1. CASE m_nbits + 3 # CHAR_BITS
      <4>1. \A i \in Nat : ~(i > m_nbits /\ i <= CHAR_BITS - 1) BY <2>1, <3>1
      <4>2. \A i \in Nat : i \in X <=> i \in c BY <2>6, <4>1
      <4>3. c \subseteq Nat BY <2>1, <2>2
      <4> HIDE DEF X
      <4>4. X = c BY Zenon, <2>5, <4>2, <4>3
      <4> QED BY <4>4
    <3>2. CASE m_nbits + 3 = CHAR_BITS
      <4> DEFINE a == CHAR_BITS - 2  b == CHAR_BITS - 1
      <4>1. a \in Nat /\ b \in Nat /\ a \notin c /\ b \notin c /\ a # b BY <2>1, <2>2, <3>2
      <4>2. X = (c \cup {a}) \cup {b}
        <5>1. \A i \in Nat : i > m_nbits /\ i <= CHAR_BITS - 1 <=> i = a \/ i = b BY <2>1, <3>2
        <5>2. \A i \in Nat : i \in X <=> i \in c \/ i = a \/ i = b BY <2>6, <5>1
        <5> HIDE DEF a, b, X
        <5>3. c \subseteq Nat BY <2>1, <2>2
        <5> QED BY Zenon, <2>5, <4>1, <5>2, <5>3
      <4> HIDE DEF a, b, X
      <4>3. IsFiniteSet(c \cup {a}) /\ Cardinality(c \cup {a}) = Cardinality(c) + 1
        BY <2>3, <4>1, FS_AddElement
      <4>4. b \notin c \cup {a} BY <4>1
      <4>5. Cardinality((c \cup {a}) \cup {b}) = (Cardinality(c) + 1) + 1 BY <4>3, <4>4, FS_AddElement
      <4> QED BY <2>3, <4>2, <4>5
    <3> QED BY <3>1, <3>2
  <2> HIDE DEF X
  <2>8. Cardinality(X) % 2 = Cardinality(c) % 2 BY <2>3, <2>7
  <2>9. ParityOf(EncodedData(c)) = ((Cardinality(X) % 2 = 1) # m_evenp) BY <1>2 DEF ParityOf, X
  <2> QED BY Zenon, <1>2, <2>8, <2>9
<1> QED BY <1>1, <1>2

LEMMA EncodedBits ==
  ASSUME SetUpRight, NEW c \in Typed
  PROVE  /\ Encoded(c) \in SUBSET Nat /\ 0 \notin Encoded(c) /\ N + 1 \in Encoded(c)
         /\ \A i \in 0..m_nbits-1 : i + 1 \in Encoded(c) <=> i \in c
         /\ Fits(c) /\ ~ParityBroken => \A i \in 1..N : i \in Encoded(c) <=> Expected(c, i - 1)
<1> USE SetUpFacts
<1> DEFINE d == EncodedData(c)  q == m_nbits + m_nparity
<1>1. /\ m_nbits \in Nat /\ m_nbits >= 1 /\ m_nparity \in 0..1 /\ q \in Nat /\ q >= 1 /\ q < N
      /\ m_nstop \in 1..2
  BY DEF SetUpRight
<1>2. Encoded(c) = IF m_nparity = 1 /\ ParityOf(d) THEN d \cup {q} ELSE d BY DEF Encoded, EncodedData
<1>3. /\ d \in SUBSET Nat /\ 0 \notin d /\ \A i \in 0..m_nbits-1 : i + 1 \in d <=> i \in c
      /\ \A i \in q + 1..N + 1 : i \in d
      /\ Fits(c) /\ m_nparity = 1 => q \notin d
  BY DataBits
<1> HIDE DEF d
<1>4. \A i \in Nat : i # q \/ m_nparity # 1 => (i \in Encoded(c) <=> i \in d) BY <1>2
<1>5. Encoded(c) \in SUBSET Nat /\ 0 \notin Encoded(c) /\ N + 1 \in Encoded(c) BY <1>1, <1>2, <1>3
<1>6. ASSUME NEW i \in 0..m_nbits-1 PROVE i + 1 \in Encoded(c) <=> i \in c
  <2>1. i + 1 \in Nat /\ (i + 1 # q \/ m_nparity # 1) BY <1>1
  <2> QED BY <1>3, <1>4, <2>1
<1>7. ASSUME Fits(c), ~ParityBroken, NEW i \in 1..N PROVE i \in Encoded(c) <=> Expected(c, i - 1)
  <2>1. CASE i <= m_nbits
    <3>1. i - 1 \in 0..m_nbits-1 /\ (i - 1) + 1 = i /\ i - 1 < m_nbits BY <1>1, <2>1
    <3> QED BY <1>6, <3>1 DEF Expected
  <2>2. CASE i > m_nbits /\ i <= q
    <3>1. m_nparity = 1 /\ i = q /\ ~(i - 1 < m_nbits) /\ i - 1 < m_nbits + m_nparity BY <1>1, <2>2
    <3>2. ParityOf(d) = IF m_fixdp THEN m_evenp ELSE (Cardinality(c) % 2 = 1) # m_evenp
      BY Zenon, <1>7, <3>1, ParityRight DEF d
    <3>3. q \notin d BY <1>3, <1>7, <3>1
    <3>4. q \in Encoded(c) <=> ParityOf(d) BY <1>2, <3>1, <3>3
    <3>5. Expected(c, i - 1) = IF m_fixdp THEN m_evenp ELSE (Cardinality(c) % 2 = 1) # m_evenp
      BY Zenon, <3>1 DEF Expected
    <3> QED BY Zenon, <3>1, <3>2, <3>4, <3>5
  <2>3. CASE i > q
    <3>1. i \in q + 1..N + 1 /\ i # q /\ i \in Nat /\ ~(i - 1 < m_nbits) /\ ~(i - 1 < m_nbits + m_nparity)
      BY <1>1, <2>3
    <3>2. i \in Encoded(c) BY <1>3, <1>4, <3>1
    <3> QED BY <3>1, <3>2 DEF Expected
  <2> QED BY <1>1, <2>1, <2>2, <2>3
<1> QED BY <1>5, <1>6, <1>7

(* What the registers say of the line: how many bits of the frame are out  *)
(* and how much of the next, whose levels they were, and what is to come.  *)
BitOut == N + 1 - m_tx_busy               \* the bit on the line
LevelOf(c, i) == IF i \in Encoded(c) THEN 1 ELSE 0
Carries(c) ==
  /\ \A i \in Nat : i \in m_tx_data <=> i + BitOut \in Encoded(c)
  /\ \A k \in DOMAIN levels :
       (k - 1) \div CLOCKS \in 0..BitOut /\ levels[k] = LevelOf(c, (k - 1) \div CLOCKS)
OnLine ==
  /\ m_tx_busy \in 1..N + 1 /\ m_tx_baudcounter \in 0..CLOCKS-1
  /\ Len(levels) = BitOut * CLOCKS + (CLOCKS - m_tx_baudcounter)
  /\ wire = levels[Len(levels)]
  /\ \A c \in Typed : heard # <<>> /\ c = heard[Len(heard)] => Carries(c)
FrameInv ==
  /\ SetUpRight /\ m_tx_state \in {"TXIDLE", "TXDATA"} /\ m_tx_data \in SUBSET Nat
  /\ inbox \in Seq(Typed) /\ heard \in Seq(Typed) /\ levels \in Seq({0, 1}) /\ wire \in {0, 1}
  /\ m_tx_state = "TXIDLE" => Len(levels) \in {0, (N + 1) * CLOCKS + 1}
  /\ m_tx_state = "TXDATA" => OnLine

(* A call, as the second half sees it: it takes a character, finds none,   *)
(* or goes on with the one it has.                                         *)
Kept == IF Completes /\ heard # <<>> THEN Tail(heard) ELSE heard
PortTakes ==
  /\ m_tx_state = "TXIDLE" /\ inbox # <<>> /\ inbox' = Tail(inbox)
  /\ m_tx_data' = Encoded(Head(inbox)) /\ m_tx_busy' = N + 1 /\ m_tx_state' = "TXDATA"
  /\ m_tx_baudcounter' = CLOCKS - 1 /\ wire' = 0 /\ levels' = <<0>>
  /\ heard' = Append(Kept, Head(inbox)) /\ Driven'
PortIdles ==
  /\ m_tx_state = "TXIDLE" /\ m_tx_state' = "TXIDLE" /\ inbox' = inbox /\ heard' = Kept
  /\ levels' = <<>> /\ wire' \in {0, 1} /\ m_tx_data' \in SUBSET Nat
  /\ Driven' => wire' = 1
PortShifts ==
  /\ m_tx_state = "TXDATA" /\ inbox' = inbox /\ heard' = Kept
  /\ IF m_tx_baudcounter = 0
     THEN /\ m_tx_data' = Right(m_tx_data, 1)
          /\ m_tx_busy' = m_tx_busy - 1
          /\ m_tx_state' = IF m_tx_busy = 1 THEN "TXIDLE" ELSE "TXDATA"
          /\ m_tx_busy # 1 => m_tx_baudcounter' = CLOCKS - 1
     ELSE m_tx_baudcounter' = m_tx_baudcounter - 1 /\ UNCHANGED <<m_tx_data, m_tx_busy, m_tx_state>>
  /\ wire' = Level(m_tx_data') /\ levels' = Append(levels, wire')

LEMMA SameSetUp ==
  ASSUME UNCHANGED setup
  PROVE  /\ SetUpRight' = SetUpRight /\ N' = N
         /\ \A c : Encoded(c)' = Encoded(c)
BY DEF setup, SetUpRight, N, Encoded, ParityOf

LEMMA KeptFacts ==
  ASSUME heard \in Seq(Typed)
  PROVE  /\ Kept \in Seq(Typed) /\ Len(Kept) <= Len(heard)
         /\ Kept # <<>> => heard # <<>> /\ Kept[Len(Kept)] = heard[Len(heard)]
         /\ ~Completes => Kept = heard
         /\ Completes /\ heard # <<>> =>
              Len(Kept) = Len(heard) - 1 /\ \A i \in 1..Len(heard)-1 : Kept[i] = heard[i + 1]
<1>1. CASE Completes /\ heard # <<>>
  <2> DEFINE t == Tail(heard)  n == Len(heard)
  <2>1. t \in Seq(Typed) /\ Len(t) = n - 1 /\ \A i \in 1..n-1 : t[i] = heard[i + 1] BY <1>1, HeadTailProperties
  <2>2. Kept = t /\ n \in Nat /\ n # 0 BY <1>1 DEF Kept
  <2> HIDE DEF t
  <2>3. t # <<>> => Len(t) \in 1..n-1 /\ Len(t) + 1 = n BY <2>1, <2>2
  <2> QED BY <1>1, <2>1, <2>2, <2>3
<1>2. CASE ~(Completes /\ heard # <<>>) BY <1>2 DEF Kept
<1> QED BY <1>1, <1>2

LEMMA TickCases ==
  ASSUME FrameInv, SerialTick
  PROVE  /\ Receive(wire) /\ UNCHANGED setup /\ m_skt' = m_skt
         /\ PortTakes \/ PortIdles \/ PortShifts
         /\ Driven' => Driven
<1> USE SetUpFacts
<1>1. PICK fails \in BOOLEAN :
        /\ fails => WriteFails(AfterAccept)
        /\ LET f == AfterWrite(AfterAccept, fails) IN TakeCharacter(f) \/ ReadNone(f) \/ ShiftOut(f)
  BY DEF SerialTick
<1> DEFINE f == AfterWrite(AfterAccept, fails)
<1>2. /\ Receive(wire) /\ UNCHANGED setup /\ m_skt' = m_skt
      /\ heard' = IF inbox' # inbox THEN Append(Kept, Head(inbox)) ELSE Kept
  BY DEF SerialTick, Kept
<1>3. ~m_skt /\ f.rd # NoFile => m_conrd # NoFile
  BY DEF AfterWrite, AfterAccept, Accepts1, Files, Dropped, Closed
<1>7. f = [rd |-> f.rd, wr |-> f.wr, opened |-> f.opened]
  BY DEF AfterWrite, AfterAccept, Files, Dropped, Closed
<1> HIDE DEF f
<1>4. CASE TakeCharacter(f)
  <2>1. /\ m_tx_state = "TXIDLE" /\ inbox # <<>> /\ inbox' = Tail(inbox)
        /\ m_tx_data' = Encoded(Head(inbox)) /\ m_tx_busy' = N + 1 /\ m_tx_state' = "TXDATA"
        /\ m_tx_baudcounter' = CLOCKS - 1 /\ wire' = 0 /\ levels' = <<0>>
        /\ f.rd # NoFile /\ m_conrd' = f.rd
    BY <1>4 DEF TakeCharacter, Polls, TxBits, N
  <2>2. inbox' # inbox
    <3>1. inbox \in Seq(Typed) BY DEF FrameInv
    <3> DEFINE t == Tail(inbox)
    <3>2. Len(t) = Len(inbox) - 1 /\ Len(inbox) \in Nat BY <2>1, <3>1, HeadTailProperties
    <3>3. inbox' = t BY <2>1
    <3> HIDE DEF t
    <3> QED BY <3>2, <3>3
  <2>3. heard' = Append(Kept, Head(inbox)) BY <1>2, <2>2
  <2>4. Driven' /\ Driven BY <1>2, <1>3, <2>1 DEF Driven
  <2> QED BY <1>2, <2>1, <2>3, <2>4 DEF PortTakes
<1>5. CASE ReadNone(f)
  <2>1. /\ m_tx_state = "TXIDLE" /\ m_tx_state' = "TXIDLE" /\ inbox' = inbox /\ m_tx_data' = m_tx_data
        /\ levels' = <<>> /\ wire' = 1
    BY <1>5 DEF ReadNone, Polls, txHalf
  <2>2. heard' = Kept BY <1>2, <2>1
  <2>3. m_conrd' # NoFile => f.rd # NoFile
    <3>1. PICK g \in {f} \cup (IF f.rd = Std THEN {[f EXCEPT !.rd = NoFile]} ELSE {}) :
            m_conrd' = (IF m_skt /\ f.rd # NoFile /\ peer = "closed" THEN Closed(f) ELSE g).rd
      BY <1>5 DEF ReadNone
    <3>2. g = f \/ g = [f EXCEPT !.rd = NoFile] OBVIOUS
    <3>3. [f EXCEPT !.rd = NoFile].rd = NoFile BY <1>7
    <3>4. Closed(f).rd = NoFile BY DEF Closed
    <3> QED BY <3>1, <3>2, <3>3, <3>4
  <2>4. Driven' => Driven BY <1>2, <1>3, <2>3 DEF Driven
  <2> QED BY <1>2, <2>1, <2>2, <2>4 DEF PortIdles, FrameInv
<1>6. CASE ShiftOut(f)
  <2>1. /\ inbox' = inbox /\ m_conrd' = f.rd /\ ~Polls(f) /\ wire' = Level(m_tx_data')
        /\ levels' = IF m_tx_state = "TXIDLE" THEN <<>> ELSE Append(levels, wire')
    BY <1>6 DEF ShiftOut
  <2>2. heard' = Kept BY <1>2, <2>1
  <2>3. Driven' => Driven BY <1>2, <1>3, <2>1 DEF Driven
  <2>4. CASE m_tx_state = "TXIDLE"
    <3>1. ~Driven' BY <1>2, <2>1, <2>4 DEF Driven, Polls
    <3>2. m_tx_state' = "TXIDLE" BY <1>6, <2>4 DEF ShiftOut
    <3>3. m_tx_data' \in SUBSET Nat
      <4>1. m_tx_data' = Right(m_tx_data, 1) \/ m_tx_data' = m_tx_data BY <1>6 DEF ShiftOut
      <4>2. m_tx_data \in SUBSET Nat /\ 1 \in Nat BY DEF FrameInv
      <4>3. Right(m_tx_data, 1) \in SUBSET Nat BY <4>2, RightBits
      <4> QED BY <4>1, <4>2, <4>3
    <3>4. wire' \in {0, 1} BY <2>1 DEF Level
    <3> QED BY <1>2, <2>1, <2>2, <2>3, <2>4, <3>1, <3>2, <3>3, <3>4 DEF PortIdles
  <2>5. CASE m_tx_state = "TXDATA"
    <3>1. m_tx_busy \in 1..N + 1 BY <2>5 DEF FrameInv, OnLine
    <3>2. IF m_tx_baudcounter = 0
          THEN /\ m_tx_data' = Right(m_tx_data, 1)
               /\ m_tx_busy' = m_tx_busy - 1
               /\ m_tx_state' = IF m_tx_busy = 1 THEN "TXIDLE" ELSE "TXDATA"
               /\ m_tx_busy # 1 => m_tx_baudcounter' = CLOCKS - 1
          ELSE m_tx_baudcounter' = m_tx_baudcounter - 1 /\ UNCHANGED <<m_tx_data, m_tx_busy, m_tx_state>>
      BY <1>6, <2>5, <3>1 DEF ShiftOut, FrameInv
    <3> QED BY <1>2, <2>1, <2>2, <2>3, <2>5, <3>2 DEF PortShifts
  <2> QED BY <2>4, <2>5 DEF FrameInv
<1> QED BY <1>1, <1>4, <1>5, <1>6 DEF f

LEMMA DivisionUnique ==
  ASSUME NEW q \in Nat, NEW r \in 0..CLOCKS-1
  PROVE  (q * CLOCKS + r) \div CLOCKS = q
<1> DEFINE a == q * CLOCKS + r  d == a \div CLOCKS  s == a % CLOCKS
<1>1. CLOCKS \in Nat /\ CLOCKS > 0 /\ a \in Nat BY SerialAssumption
<1>2. d \in Nat /\ s \in 0..CLOCKS-1 /\ a = CLOCKS * d + s BY <1>1
<1>3. a = CLOCKS * q + r /\ CLOCKS * q \in Nat BY <1>1
<1> HIDE DEF a, d, s
<1>4. \A e \in Nat : CLOCKS * (1 + e) \in Nat /\ CLOCKS * (1 + e) >= CLOCKS
  <2>1. \A e \in Nat : CLOCKS * e \in Nat /\ CLOCKS * (1 + e) = CLOCKS + CLOCKS * e BY <1>1
  <2> QED BY <1>1, <2>1
<1>5. CLOCKS * (q - d) = CLOCKS * q - CLOCKS * d /\ CLOCKS * (d - q) = CLOCKS * d - CLOCKS * q
      /\ CLOCKS * d \in Nat
  BY <1>1, <1>2
<1>6. ASSUME d < q PROVE FALSE
  <2>1. q - d - 1 \in Nat /\ 1 + (q - d - 1) = q - d BY <1>2, <1>6
  <2>2. CLOCKS * (q - d) >= CLOCKS BY <1>4, <2>1
  <2> QED BY <1>1, <1>2, <1>3, <1>5, <2>2
<1>7. ASSUME q < d PROVE FALSE
  <2>1. d - q - 1 \in Nat /\ 1 + (d - q - 1) = d - q BY <1>2, <1>7
  <2>2. CLOCKS * (d - q) >= CLOCKS BY <1>4, <2>1
  <2> QED BY <1>1, <1>2, <1>3, <1>5, <2>2
<1> QED BY <1>2, <1>6, <1>7 DEF a, d

LEMMA Products ==
  ASSUME NEW n \in Nat
  PROVE  n * CLOCKS \in Nat /\ (n + 1) * CLOCKS = n * CLOCKS + CLOCKS /\ 0 * CLOCKS = 0 /\ 1 * CLOCKS = CLOCKS
BY SerialAssumption

(* A clock of a frame: how much of it is on the line now.                  *)
LEMMA ShiftCounts ==
  ASSUME FrameInv, PortShifts, UNCHANGED setup
  PROVE  /\ levels' \in Seq({0, 1}) /\ wire' \in {0, 1} /\ m_tx_data' \in SUBSET Nat
         /\ Len(levels') = Len(levels) + 1 /\ levels'[Len(levels')] = wire'
         /\ \A k \in DOMAIN levels : levels'[k] = levels[k]
         /\ DOMAIN levels' = DOMAIN levels \cup {Len(levels) + 1}
         /\ m_tx_state' \in {"TXIDLE", "TXDATA"}
         /\ m_tx_state' = "TXIDLE" =>
              Len(levels) = (N + 1) * CLOCKS /\ m_tx_busy = 1 /\ m_tx_baudcounter = 0
         /\ m_tx_state' = "TXDATA" =>
              /\ m_tx_busy' \in 1..N + 1 /\ m_tx_baudcounter' \in 0..CLOCKS-1
              /\ Len(levels') = (N + 1 - m_tx_busy') * CLOCKS + (CLOCKS - m_tx_baudcounter')
              /\ IF m_tx_baudcounter = 0
                 THEN m_tx_busy' = m_tx_busy - 1 /\ m_tx_data' = Right(m_tx_data, 1)
                 ELSE m_tx_busy' = m_tx_busy /\ m_tx_data' = m_tx_data
<1>1. /\ N \in Nat /\ CLOCKS \in Nat /\ CLOCKS > 2 /\ m_tx_busy \in 1..N + 1 /\ m_tx_baudcounter \in 0..CLOCKS-1
      /\ Len(levels) = BitOut * CLOCKS + (CLOCKS - m_tx_baudcounter) /\ levels \in Seq({0, 1})
      /\ m_tx_data \in SUBSET Nat
  BY SetUpFacts DEF FrameInv, OnLine, PortShifts
<1>2. wire' \in {0, 1} /\ levels' = Append(levels, wire') BY DEF PortShifts, Level
<1>3. /\ levels' \in Seq({0, 1}) /\ Len(levels') = Len(levels) + 1 /\ levels'[Len(levels')] = wire'
      /\ \A k \in 1..Len(levels) : levels'[k] = levels[k]
  BY <1>1, <1>2, AppendProperties
<1>4. DOMAIN levels = 1..Len(levels) /\ DOMAIN levels' = 1..Len(levels') /\ Len(levels) \in Nat
  BY <1>1, <1>3
<1>5. DOMAIN levels' = DOMAIN levels \cup {Len(levels) + 1} BY <1>3, <1>4
<1>6. m_tx_data' \in SUBSET Nat
  <2>1. m_tx_data' = Right(m_tx_data, 1) \/ m_tx_data' = m_tx_data BY DEF PortShifts
  <2> QED BY <1>1, <2>1, RightBits
<1>7. CASE m_tx_baudcounter = 0
  <2>1. /\ m_tx_data' = Right(m_tx_data, 1) /\ m_tx_busy' = m_tx_busy - 1
        /\ m_tx_state' = IF m_tx_busy = 1 THEN "TXIDLE" ELSE "TXDATA"
        /\ m_tx_busy # 1 => m_tx_baudcounter' = CLOCKS - 1
    BY <1>7 DEF PortShifts
  <2>2. CASE m_tx_busy = 1
    <3>1. Len(levels) = N * CLOCKS + CLOCKS BY <1>1, <1>7, <2>2 DEF BitOut
    <3>2. (N + 1) * CLOCKS = N * CLOCKS + CLOCKS BY <1>1, Products
    <3> QED BY <1>2, <1>3, <1>4, <1>5, <1>6, <1>7, <2>1, <2>2, <3>1, <3>2
  <2>3. CASE m_tx_busy # 1
    <3> DEFINE p == BitOut
    <3>1. p \in Nat /\ N + 1 - m_tx_busy' = p + 1 /\ m_tx_busy' \in 1..N + 1 BY <1>1, <2>1, <2>3 DEF BitOut
    <3>2. (p + 1) * CLOCKS = p * CLOCKS + CLOCKS /\ p * CLOCKS \in Nat BY <3>1, Products
    <3>3. Len(levels) = p * CLOCKS + CLOCKS BY <1>1, <1>7
    <3> HIDE DEF p
    <3>4. Len(levels') = (p + 1) * CLOCKS + (CLOCKS - m_tx_baudcounter')
      BY <1>1, <1>3, <2>1, <2>3, <3>2, <3>3
    <3>5. m_tx_baudcounter' \in 0..CLOCKS-1 BY <1>1, <2>1, <2>3
    <3> QED BY <1>2, <1>3, <1>4, <1>5, <1>6, <1>7, <2>1, <2>3, <3>1, <3>4, <3>5
  <2> QED BY <2>2, <2>3
<1>8. CASE m_tx_baudcounter # 0
  <2>1. m_tx_baudcounter' = m_tx_baudcounter - 1 /\ m_tx_data' = m_tx_data /\ m_tx_busy' = m_tx_busy
        /\ m_tx_state' = "TXDATA"
    BY <1>8 DEF PortShifts
  <2> DEFINE P == BitOut * CLOCKS
  <2>2. BitOut \in Nat BY <1>1 DEF BitOut
  <2>3. P \in Nat BY <2>2, Products
  <2>4. P = (N + 1 - m_tx_busy') * CLOCKS BY <2>1 DEF BitOut
  <2> HIDE DEF P
  <2>5. Len(levels') = P + (CLOCKS - m_tx_baudcounter') BY <1>1, <1>3, <1>8, <2>1, <2>3 DEF P
  <2>6. m_tx_baudcounter' \in 0..CLOCKS-1 BY <1>1, <1>8, <2>1
  <2> QED BY <1>1, <1>2, <1>3, <1>4, <1>5, <1>6, <1>8, <2>1, <2>4, <2>5, <2>6
<1> QED BY <1>7, <1>8

(* and whose level it is.                                                  *)
LEMMA ShiftCarries ==
  ASSUME FrameInv, PortShifts, UNCHANGED setup, NEW c \in Typed, Carries(c)
  PROVE  /\ m_tx_state' = "TXDATA" => Carries(c)'
         /\ m_tx_state' = "TXIDLE" => wire' = 1
<1> DEFINE E == Encoded(c)
<1>1. /\ N \in Nat /\ CLOCKS \in Nat /\ CLOCKS > 2 /\ m_tx_busy \in 1..N + 1 /\ m_tx_baudcounter \in 0..CLOCKS-1
      /\ m_tx_data \in SUBSET Nat /\ SetUpRight
  BY SetUpFacts DEF FrameInv, OnLine, PortShifts
<1>2. BitOut \in Nat /\ \A i \in Nat : i \in m_tx_data <=> i + BitOut \in E BY <1>1 DEF BitOut, Carries
<1>3. \A i \in Nat : i \in Right(m_tx_data, 1) <=> i + 1 \in m_tx_data BY <1>1, RightBits
<1>4. wire' = IF 0 \in m_tx_data' THEN 1 ELSE 0 BY DEF PortShifts, Level
<1>5. N' = N /\ Encoded(c)' = E BY SameSetUp
<1>6. N + 1 \in E BY <1>1, EncodedBits
<1> HIDE DEF E
<1>7. ASSUME m_tx_state' = "TXIDLE" PROVE wire' = 1
  <2>1. m_tx_data' = Right(m_tx_data, 1) /\ BitOut = N BY <1>1, <1>7, ShiftCounts DEF PortShifts, BitOut
  <2>2. 0 \in Nat /\ 1 \in Nat /\ 0 + 1 = 1 OBVIOUS
  <2>3. 0 \in m_tx_data' <=> 1 \in m_tx_data BY <1>3, <2>1, <2>2
  <2>4. 1 \in m_tx_data <=> 1 + N \in E BY <1>2, <2>1, <2>2
  <2>5. 1 + N = N + 1 BY <1>1
  <2> QED BY <1>4, <1>6, <2>3, <2>4, <2>5
<1>8. ASSUME m_tx_state' = "TXDATA" PROVE Carries(c)'
  <2>1. /\ m_tx_busy' \in 1..N + 1 /\ m_tx_baudcounter' \in 0..CLOCKS-1
        /\ Len(levels') = (N + 1 - m_tx_busy') * CLOCKS + (CLOCKS - m_tx_baudcounter')
        /\ IF m_tx_baudcounter = 0
           THEN m_tx_busy' = m_tx_busy - 1 /\ m_tx_data' = Right(m_tx_data, 1)
           ELSE m_tx_busy' = m_tx_busy /\ m_tx_data' = m_tx_data
    BY <1>8, ShiftCounts
  <2> DEFINE p == BitOut'
  <2>2. p = N + 1 - m_tx_busy' /\ p \in Nat /\ BitOut <= p
    <3>1. p = N + 1 - m_tx_busy' BY <1>5 DEF BitOut
    <3>2. m_tx_busy' \in 1..N + 1 /\ m_tx_busy' <= m_tx_busy
      <4>1. m_tx_busy' = m_tx_busy - 1 \/ m_tx_busy' = m_tx_busy BY <2>1
      <4> QED BY <1>1, <2>1, <4>1
    <3> HIDE DEF p
    <3>3. BitOut = N + 1 - m_tx_busy BY DEF BitOut
    <3>4. N \in Nat /\ m_tx_busy \in 1..N + 1 BY <1>1
    <3> DEFINE u == m_tx_busy'
    <3>5. p = N + 1 - u /\ u \in 1..N + 1 /\ u <= m_tx_busy BY <3>1, <3>2
    <3> HIDE DEF u
    <3>6. p \in Nat /\ BitOut <= p BY <3>3, <3>4, <3>5
    <3> QED BY <3>1, <3>6
  <2>3. \A i \in Nat : i \in m_tx_data' <=> i + p \in E
    <3>1. CASE m_tx_baudcounter = 0
      <4>1. p = BitOut + 1 BY <1>1, <2>1, <2>2, <3>1 DEF BitOut
      <4>2. \A i \in Nat : i + 1 \in Nat /\ (i + 1) + BitOut = i + p BY <1>2, <4>1
      <4>3. \A i \in Nat : i \in m_tx_data' <=> i + 1 \in m_tx_data BY <1>3, <2>1, <3>1
      <4> QED BY <1>2, <4>2, <4>3
    <3>2. CASE m_tx_baudcounter # 0
      <4>1. p = BitOut BY <2>1, <2>2, <3>2 DEF BitOut
      <4> QED BY <1>2, <2>1, <3>2, <4>1
    <3> QED BY <3>1, <3>2
  <2> DEFINE L == Len(levels')
  <2>4. (L - 1) \div CLOCKS = p
    <3> DEFINE r == (CLOCKS - 1) - m_tx_baudcounter'
    <3>1. r \in 0..CLOCKS-1
      <4> DEFINE u == m_tx_baudcounter'
      <4>1. CLOCKS \in Nat /\ u \in 0..CLOCKS-1 BY <1>1, <2>1
      <4> HIDE DEF u
      <4>2. (CLOCKS - 1) - u \in 0..CLOCKS-1 BY <4>1
      <4> QED BY <4>2 DEF u
    <3>2. p * CLOCKS \in Nat BY <2>2, Products
    <3>3. L = p * CLOCKS + (CLOCKS - m_tx_baudcounter') BY <2>1, <2>2
    <3> HIDE DEF p, L
    <3>4. L - 1 = p * CLOCKS + r BY SMTT(30), <1>1, <2>1, <3>1, <3>2, <3>3
    <3> HIDE DEF r
    <3> QED BY <2>2, <3>1, <3>4, DivisionUnique
  <2> HIDE DEF p
  <2>5. wire' = LevelOf(c, p)
    <3>1. 0 \in m_tx_data' <=> p \in E
      <4>1. 0 \in Nat /\ 0 + p = p BY <2>2
      <4> QED BY <2>3, <4>1
    <3>2. LevelOf(c, p) = IF p \in E THEN 1 ELSE 0 BY DEF LevelOf, E
    <3> QED BY <1>4, <3>1, <3>2
  <2>6. \A k \in DOMAIN levels :
          (k - 1) \div CLOCKS \in 0..p /\ levels'[k] = LevelOf(c, (k - 1) \div CLOCKS)
    <3>1. \A k \in DOMAIN levels :
            (k - 1) \div CLOCKS \in 0..BitOut /\ levels[k] = LevelOf(c, (k - 1) \div CLOCKS)
      BY DEF Carries
    <3>2. \A x \in 0..BitOut : x \in 0..p BY <1>2, <2>2
    <3> QED BY <3>1, <3>2, ShiftCounts
  <2>8. \A k \in DOMAIN levels' :
          (k - 1) \div CLOCKS \in 0..p /\ levels'[k] = LevelOf(c, (k - 1) \div CLOCKS)
    <3> SUFFICES ASSUME NEW k \in DOMAIN levels'
                 PROVE  (k - 1) \div CLOCKS \in 0..p /\ levels'[k] = LevelOf(c, (k - 1) \div CLOCKS)
      OBVIOUS
    <3>1. k \in DOMAIN levels \/ k = L
      <4>1. L = Len(levels) + 1 /\ DOMAIN levels' = DOMAIN levels \cup {Len(levels) + 1} BY ShiftCounts
      <4> QED BY <4>1
    <3>2. CASE k \in DOMAIN levels BY <2>6, <3>2
    <3>3. CASE k = L
      <4>1. levels'[L] = wire' /\ p \in 0..p BY <2>2, ShiftCounts
      <4> HIDE DEF L
      <4> QED BY <2>4, <2>5, <3>3, <4>1
    <3> QED BY <3>1, <3>2, <3>3
  <2>9. DOMAIN levels' = (DOMAIN levels)' /\ p = BitOut' BY DEF p
  <2>10. \A k \in DOMAIN levels' : levels'[k] = IF (k - 1) \div CLOCKS \in E THEN 1 ELSE 0
    BY <2>8 DEF LevelOf, E
  <2> QED BY <1>5, <2>3, <2>8, <2>9, <2>10 DEF Carries, LevelOf
<1> QED BY <1>7, <1>8

LEMMA FrameStep ==
  ASSUME FrameInv, [SerialNext]_serialVars
  PROVE  FrameInv'
<1> USE SetUpFacts
<1>0. /\ SetUpRight /\ m_tx_data \in SUBSET Nat /\ heard \in Seq(Typed) /\ inbox \in Seq(Typed)
      /\ N \in Nat /\ CLOCKS \in Nat /\ CLOCKS > 2
  BY DEF FrameInv
<1>1. CASE SerialTick
  <2>1. UNCHANGED setup /\ (PortTakes \/ PortIdles \/ PortShifts) BY <1>1, TickCases
  <2>2. SetUpRight' /\ N' = N /\ \A c : Encoded(c)' = Encoded(c) BY <1>0, <2>1, SameSetUp
  <2>3. /\ Kept \in Seq(Typed)
        /\ Kept # <<>> => heard # <<>> /\ Kept[Len(Kept)] = heard[Len(heard)]
    BY <1>0, KeptFacts
  <2>4. CASE PortTakes
    <3>1. PICK h \in Typed : h = Head(inbox) /\ inbox' \in Seq(Typed)
      BY <1>0, <2>4, HeadTailProperties DEF PortTakes
    <3>2. heard' \in Seq(Typed) /\ Len(heard') = Len(Kept) + 1 /\ heard'[Len(heard')] = h
      BY <2>3, <2>4, <3>1, AppendProperties DEF PortTakes
    <3>3. levels' = <<0>> /\ wire' = 0 /\ m_tx_busy' = N + 1 /\ m_tx_baudcounter' = CLOCKS - 1
          /\ m_tx_data' = Encoded(h) /\ m_tx_state' = "TXDATA"
      BY <2>4, <3>1 DEF PortTakes
    <3>4. Len(levels') = 1 /\ DOMAIN levels' = {1} /\ levels'[1] = 0 /\ levels' \in Seq({0, 1})
      BY <3>3
    <3>5. BitOut' = 0 BY <1>0, <2>2, <3>3 DEF BitOut
    <3>6. Encoded(h) \in SUBSET Nat /\ 0 \notin Encoded(h) BY <1>0, EncodedBits
    <3>7. Carries(h)'
      <4>1. \A i \in Nat : i \in m_tx_data' <=> i + 0 \in Encoded(h) BY <3>3
      <4>2. (1 - 1) \div CLOCKS = 0
        <5>1. 0 \in Nat /\ 0 \in 0..CLOCKS-1 /\ 0 * CLOCKS + 0 = 0 /\ 1 - 1 = 0 BY <1>0
        <5> QED BY <5>1, DivisionUnique
      <4>3. \A k \in DOMAIN levels' : (k - 1) \div CLOCKS = 0 /\ levels'[k] = 0 BY <3>4, <4>2
      <4> QED BY <2>2, <3>5, <3>6, <4>1, <4>3 DEF Carries, LevelOf
    <3>8. OnLine'
      <4>1. m_tx_busy' \in 1..N + 1 /\ m_tx_baudcounter' \in 0..CLOCKS-1 BY <1>0, <3>3
      <4>2. Len(levels') = BitOut' * CLOCKS + (CLOCKS - m_tx_baudcounter') BY <1>0, <3>3, <3>4, <3>5
      <4>3. \A c \in Typed : c = heard'[Len(heard')] => Carries(c)' BY <3>2, <3>7
      <4> QED BY <2>2, <3>3, <3>4, <4>1, <4>2, <4>3 DEF OnLine
    <3>9. m_tx_data' \in SUBSET Nat BY <3>3, <3>6
    <3> QED BY <2>2, <3>1, <3>2, <3>3, <3>4, <3>8, <3>9 DEF FrameInv
  <2>5. CASE PortIdles
    <3>1. Len(levels') = 0 /\ levels' \in Seq({0, 1}) BY <2>5 DEF PortIdles
    <3> QED BY <1>0, <2>2, <2>3, <2>5, <3>1 DEF PortIdles, FrameInv
  <2>6. CASE PortShifts
    <3>1. /\ levels' \in Seq({0, 1}) /\ wire' \in {0, 1} /\ m_tx_data' \in SUBSET Nat
          /\ Len(levels') = Len(levels) + 1 /\ levels'[Len(levels')] = wire'
          /\ m_tx_state' \in {"TXIDLE", "TXDATA"}
          /\ m_tx_state' = "TXIDLE" => Len(levels) = (N + 1) * CLOCKS
          /\ m_tx_state' = "TXDATA" =>
               /\ m_tx_busy' \in 1..N + 1 /\ m_tx_baudcounter' \in 0..CLOCKS-1
               /\ Len(levels') = (N + 1 - m_tx_busy') * CLOCKS + (CLOCKS - m_tx_baudcounter')
      BY <2>1, <2>6, ShiftCounts
    <3>2. inbox' = inbox /\ heard' = Kept BY <2>6 DEF PortShifts
    <3>3. ASSUME m_tx_state' = "TXDATA", NEW c \in Typed, heard' # <<>>, c = heard'[Len(heard')]
          PROVE  Carries(c)'
      <4>1. heard # <<>> /\ c = heard[Len(heard)] BY <2>3, <3>2, <3>3
      <4>2. Carries(c) BY <2>6, <4>1 DEF FrameInv, OnLine, PortShifts
      <4> QED BY <2>1, <2>6, <3>3, <4>2, ShiftCarries
    <3>4. m_tx_state' = "TXDATA" => OnLine'
      <4>1. BitOut' = N + 1 - m_tx_busy' BY <2>2 DEF BitOut
      <4> QED BY <2>2, <3>1, <3>3, <4>1 DEF OnLine
    <3> QED BY <1>0, <2>2, <2>3, <3>1, <3>2, <3>4 DEF FrameInv
  <2> QED BY <2>1, <2>4, <2>5, <2>6
<1>2. ASSUME UNCHANGED <<setup, txHalf, wire, heard, levels>>, inbox' \in Seq(Typed)
      PROVE  FrameInv'
  <2>1. SetUpRight' /\ N' = N /\ \A c : Encoded(c)' = Encoded(c) BY <1>0, <1>2, SameSetUp
  <2>2. UNCHANGED <<m_tx_state, m_tx_baudcounter, m_tx_busy, m_tx_data, wire, heard, levels>>
    BY <1>2 DEF txHalf
  <2>3. BitOut' = BitOut BY <2>1, <2>2 DEF BitOut
  <2>4. \A c : Carries(c)' = Carries(c) BY <2>1, <2>2, <2>3 DEF Carries, LevelOf
  <2>5. OnLine' = OnLine BY <2>1, <2>2, <2>3, <2>4 DEF OnLine
  <2> QED BY <1>2, <2>1, <2>2, <2>5 DEF FrameInv
<1>3. CASE ClientArrives
  <2>1. <<>> \in Seq(Typed) OBVIOUS
  <2> QED BY <1>2, <1>3, <2>1 DEF ClientArrives
<1>4. CASE ClientTypes
  <2>1. PICK c \in Typed : inbox' = Append(inbox, c) BY <1>4 DEF ClientTypes
  <2>2. inbox' \in Seq(Typed) BY <1>0, <2>1
  <2> QED BY <1>2, <1>4, <2>2 DEF ClientTypes
<1>5. CASE ClientLeaves BY <1>0, <1>2, <1>5 DEF ClientLeaves
<1>6. CASE Kill BY <1>0, <1>2, <1>6 DEF Kill
<1>7. CASE UNCHANGED serialVars BY <1>0, <1>2, <1>7 DEF serialVars
<1> QED BY <1>1, <1>3, <1>4, <1>5, <1>6, <1>7 DEF SerialNext

LEMMA FrameStarts == SerialInit => FrameInv
<1> SUFFICES ASSUME SerialInit PROVE FrameInv OBVIOUS
<1>1. /\ m_nbits \in 1..CHAR_BITS /\ m_nbits + 3 >= CHAR_BITS /\ m_nstop \in 1..2 /\ m_nparity \in 0..1
      /\ m_fixdp \in BOOLEAN /\ m_evenp \in BOOLEAN /\ m_tx_state = "TXIDLE" /\ wire = 1
      /\ inbox = <<>> /\ heard = <<>> /\ levels = <<>> /\ m_tx_data \in {{}, Ones(0)}
  BY DEF SerialInit
<1>2. m_tx_data \in SUBSET Nat BY <1>1, SerialAssumption DEF Ones
<1>3. Len(levels) = 0 /\ inbox \in Seq(Typed) /\ heard \in Seq(Typed) /\ levels \in Seq({0, 1}) BY <1>1
<1> QED BY <1>1, <1>2, <1>3 DEF FrameInv, SetUpRight

(* What the archived port sends is a frame as the setup asks for, for any  *)
(* number of bits and clocks per baud: start bit, data, parity and stop    *)
(* bits, each for as long as a baud, and nothing is cut short or drawn out *)
(* (uartsim.cpp 233-292).  Parity is out where the property has it out.    *)
THEOREM FramesAsSpecified == SerialSpec => []FrameAsSpecified
<1>1. FrameInv /\ [SerialNext]_serialVars => FrameInv' BY FrameStep
<1>2. FrameInv => FrameAsSpecified
  <2> SUFFICES ASSUME FrameInv PROVE FrameAsSpecified OBVIOUS
  <2>1. m_tx_state = "TXIDLE" => Len(levels) \in {0, (N + 1) * CLOCKS + 1} BY DEF FrameInv
  <2>2. ASSUME m_tx_state = "TXDATA", heard # <<>>, Fits(heard[Len(heard)]), ~ParityBroken,
               NEW k \in DOMAIN levels
        PROVE  levels[k] = IF (k - 1) \div CLOCKS > 0 /\ Expected(heard[Len(heard)], (k - 1) \div CLOCKS - 1)
                           THEN 1 ELSE 0
    <3>1. /\ N \in Nat /\ SetUpRight /\ OnLine /\ BitOut \in 0..N /\ heard \in Seq(Typed)
      <4>1. N \in Nat /\ SetUpRight /\ OnLine /\ m_tx_busy \in 1..N + 1 BY <2>2, SetUpFacts DEF FrameInv, OnLine
      <4> QED BY <4>1 DEF BitOut, FrameInv
    <3> DEFINE l == heard[Len(heard)]  i == (k - 1) \div CLOCKS
    <3>2. l \in Typed
      <4>1. Len(heard) \in 1..Len(heard) BY <2>2, <3>1
      <4> QED BY <3>1, <4>1
    <3>3. PICK c \in Typed : c = l BY <3>2
    <3>4. Carries(c) BY <2>2, <3>1, <3>3 DEF OnLine
    <3>5. i \in 0..BitOut /\ levels[k] = LevelOf(c, i) BY <2>2, <3>4 DEF Carries
    <3>6. 0 \notin Encoded(c) /\ \A j \in 1..N : j \in Encoded(c) <=> Expected(c, j - 1)
      <4>1. Fits(c) /\ ~ParityBroken BY <2>2, <3>3
      <4> QED BY <3>1, <4>1, EncodedBits
    <3> HIDE DEF i, l
    <3>7. i = 0 \/ i \in 1..N BY <3>1, <3>5
    <3>8. levels[k] = IF i > 0 /\ Expected(c, i - 1) THEN 1 ELSE 0
      <4>1. CASE i = 0 BY <3>5, <3>6, <4>1 DEF LevelOf
      <4>2. CASE i \in 1..N
        <5>1. i > 0 /\ (i \in Encoded(c) <=> Expected(c, i - 1)) BY <3>1, <3>6, <4>2
        <5> QED BY Zenon, <3>5, <5>1 DEF LevelOf
      <4> QED BY <3>7, <4>1, <4>2
    <3> QED BY <3>3, <3>8 DEF i, l
  <2> QED BY Zenon, <2>1, <2>2 DEF FrameAsSpecified
<1> QED BY <1>1, <1>2, FrameStarts, PTL DEF SerialSpec

-----------------------------------------------------------------------------
(* What the archived port hears of it.  The register of the first half has *)
(* the bits of the character behind its start bit, the last one on top.    *)
Half == CLOCKS \div 2
HeardBits(c) ==
  /\ m_rx_data \in SUBSET Nat
  /\ \A i \in Nat : i \in m_rx_data <=>
       i <= WORD - 1 /\ i >= WORD - m_rx_busy /\ (i + m_rx_busy) - (WORD - 1) \in Encoded(c)
RightlyHeard == \A c \in Typed : c = heard[1] => HeardBits(c)
(* Since when the line has been low, for a receiver that has not started.  *)
Fell == IF Len(levels) = 1 THEN m_last_tx = 1 ELSE m_last_tx = 0 /\ m_rx_changectr = Len(levels) - 2

(* Where both halves are: nothing is under way; a start bit that is not    *)
(* seen yet; a character; one that is sent but for which the receiver      *)
(* waits half a baud more; and this with the next one on the line already. *)
EQuiet == Len(heard) = 0 /\ m_tx_state = "TXIDLE" /\ m_rx_state = "RXIDLE" /\ wire = 1
EMissed ==
  /\ Len(heard) = 1 /\ m_tx_state = "TXDATA" /\ m_rx_state = "RXIDLE"
  /\ Len(levels) <= Half + 1 /\ Fell
EHears ==
  /\ Len(heard) = 1 /\ m_tx_state = "TXDATA" /\ m_rx_state = "RXDATA"
  /\ m_rx_busy \in 0..N /\ m_rx_baudcounter \in Nat
  /\ Len(levels) + m_rx_baudcounter = (m_rx_busy + 1) * CLOCKS + (Half + 1) /\ RightlyHeard
EStops ==
  /\ Len(heard) = 1 /\ m_tx_state = "TXIDLE" /\ m_rx_state = "RXDATA"
  /\ m_rx_busy = N /\ m_rx_baudcounter \in 0..Half /\ wire = 1 /\ RightlyHeard
EOverlaps ==
  /\ Len(heard) = 2 /\ m_tx_state = "TXDATA" /\ m_rx_state = "RXDATA"
  /\ m_rx_busy = N /\ m_rx_baudcounter \in 0..Half
  /\ Len(levels) + m_rx_baudcounter <= Half /\ Fell /\ RightlyHeard
EchoInv ==
  /\ Len(heard) <= 2
  /\ Driven => EQuiet \/ EMissed \/ EHears \/ EStops \/ EOverlaps

LEMMA HalfFacts ==
  Half \in Nat /\ Half >= 1 /\ Half + 1 < CLOCKS /\ CLOCKS \in Nat /\ CLOCKS > 2 /\ WORD \in Nat
BY SerialAssumption DEF Half

(* The level that a call finds on the line.                                *)
LEMMA LevelFound ==
  ASSUME FrameInv, m_tx_state = "TXDATA", heard # <<>>, NEW c \in Typed, c = heard[Len(heard)]
  PROVE  /\ Len(levels) \in Nat /\ Len(levels) >= 1 /\ Len(levels) <= (N + 1) * CLOCKS
         /\ wire = LevelOf(c, (Len(levels) - 1) \div CLOCKS)
         /\ Len(levels) <= CLOCKS => wire = 0
<1> DEFINE L == Len(levels)
<1>1. OnLine /\ Carries(c) /\ levels \in Seq({0, 1}) /\ SetUpRight BY DEF FrameInv, OnLine
<1>2. N \in Nat /\ CLOCKS \in Nat /\ CLOCKS > 2 BY <1>1, SetUpFacts
<1>3. L \in Nat /\ L >= 1 /\ L <= (N + 1) * CLOCKS
  <2> DEFINE p == BitOut  q == m_tx_busy - 1
  <2>1. m_tx_busy \in 1..N + 1 /\ m_tx_baudcounter \in 0..CLOCKS-1
        /\ L = p * CLOCKS + (CLOCKS - m_tx_baudcounter)
    BY <1>1 DEF OnLine
  <2>2. p \in Nat /\ q \in Nat /\ (p + q) + 1 = N + 1 BY <1>2, <2>1 DEF BitOut
  <2> HIDE DEF p, q
  <2>3. ((p + q) + 1) * CLOCKS = p * CLOCKS + q * CLOCKS + CLOCKS /\ p * CLOCKS \in Nat /\ q * CLOCKS \in Nat
    BY <1>2, <2>2
  <2> QED BY <1>2, <2>1, <2>2, <2>3
<1>4. L \in DOMAIN levels BY <1>1, <1>3
<1>5. wire = LevelOf(c, (L - 1) \div CLOCKS) BY <1>1, <1>4 DEF OnLine, Carries
<1>6. ASSUME L <= CLOCKS PROVE wire = 0
  <2> DEFINE r == L - 1
  <2>1. r \in 0..CLOCKS-1 /\ 0 \in Nat /\ 0 * CLOCKS + r = r BY <1>2, <1>3, <1>6
  <2> HIDE DEF r
  <2>2. r \div CLOCKS = 0 BY <2>1, DivisionUnique
  <2>3. 0 \notin Encoded(c) BY <1>1, EncodedBits
  <2> QED BY <1>5, <2>2, <2>3 DEF LevelOf, r
<1> QED BY <1>3, <1>5, <1>6

(* The first half of a call, in each of its cases.                         *)
LEMMA HearsNothing ==
  ASSUME m_rx_state = "RXIDLE", wire = 1, Receive(wire)
  PROVE  m_rx_state' = "RXIDLE" /\ m_last_tx' = 1 /\ ~Completes
BY DEF Receive, Completes

LEMMA HearsFall ==
  ASSUME Receive(wire), wire = 0, Fell, Len(levels) \in Nat, Len(levels) >= 1, Len(levels) <= CLOCKS
  PROVE  Changed(0) = Len(levels) - 1 /\ m_last_tx' = 0 /\ m_rx_changectr' = Len(levels) - 1
<1>1. Changed(0) = Len(levels) - 1
  <2>1. CASE Len(levels) = 1 BY <2>1 DEF Fell, Changed
  <2>2. CASE Len(levels) # 1
    <3>1. m_last_tx = 0 /\ m_rx_changectr = Len(levels) - 2 BY <2>2 DEF Fell
    <3> QED BY <3>1 DEF Changed
  <2> QED BY <2>1, <2>2
<1>2. m_last_tx' = wire BY DEF Receive
<1>3. m_rx_changectr' = IF Changed(0) < 2 * CLOCKS THEN Changed(0) ELSE 2 * CLOCKS BY DEF Receive
<1> QED BY <1>1, <1>2, <1>3, HalfFacts

LEMMA HearsStart ==
  ASSUME m_rx_state = "RXIDLE", wire = 0, Receive(wire)
  PROVE  /\ m_rx_state' = "RXDATA" /\ m_rx_busy' = 0 /\ m_rx_data' = {} /\ ~Completes
         /\ m_rx_baudcounter' = CLOCKS + Half - 1 - Changed(0)
BY DEF Receive, Completes, Half

LEMMA HearsOn ==
  ASSUME m_rx_state = "RXDATA", Receive(wire), m_rx_baudcounter \in Nat, m_rx_baudcounter # 0
  PROVE  /\ m_rx_state' = "RXDATA" /\ m_rx_busy' = m_rx_busy /\ m_rx_data' = m_rx_data /\ ~Completes
         /\ m_rx_baudcounter' = m_rx_baudcounter - 1 /\ m_last_tx' = wire
<1>1. m_rx_baudcounter > 0 /\ m_rx_state # "RXIDLE" OBVIOUS
<1> QED BY <1>1 DEF Receive, Completes

LEMMA HearsBit ==
  ASSUME m_rx_state = "RXDATA", Receive(wire), m_rx_baudcounter = 0, ~(m_rx_busy >= N)
  PROVE  /\ m_rx_state' = "RXDATA" /\ m_rx_busy' = m_rx_busy + 1 /\ m_rx_baudcounter' = CLOCKS - 1
         /\ m_rx_data' = Right(m_rx_data, 1) \cup (IF wire = 1 THEN {WORD - 1} ELSE {})
         /\ ~Completes
BY DEF Receive, Completes

LEMMA HearsEnd ==
  ASSUME m_rx_state = "RXDATA", Receive(wire), m_rx_baudcounter = 0, m_rx_busy = N, N \in Nat
  PROVE  m_rx_state' = "RXIDLE" /\ Completes /\ m_last_tx' = wire
BY DEF Receive, Completes

(* One bit more.                                                           *)
LEMMA BitHeard ==
  ASSUME SetUpRight, NEW c \in Typed, HeardBits(c), m_rx_busy \in Nat, m_rx_busy < N,
         wire = LevelOf(c, m_rx_busy + 1), m_rx_busy' = m_rx_busy + 1, Encoded(c)' = Encoded(c),
         m_rx_data' = Right(m_rx_data, 1) \cup (IF wire = 1 THEN {WORD - 1} ELSE {})
  PROVE  HeardBits(c)'
<1> DEFINE E == Encoded(c)  b == m_rx_busy  D == m_rx_data'
<1>1. N \in Nat /\ WORD \in Nat /\ N + 1 <= WORD - 1 /\ b \in Nat BY SetUpFacts
<1>2. \A i \in Nat : i \in m_rx_data <=> i <= WORD - 1 /\ i >= WORD - b /\ (i + b) - (WORD - 1) \in E
  BY DEF HeardBits
<1>3. /\ Right(m_rx_data, 1) \in SUBSET Nat
      /\ \A i \in Nat : i \in Right(m_rx_data, 1) <=> i + 1 \in m_rx_data
  BY RightBits DEF HeardBits
<1>4. D \in SUBSET Nat BY <1>1, <1>3
<1>5. \A i \in Nat : i \in D <=> i + 1 \in m_rx_data \/ (i = WORD - 1 /\ b + 1 \in E)
  <2>1. wire = 1 <=> b + 1 \in E BY DEF LevelOf
  <2> QED BY <1>1, <1>3, <2>1
<1> HIDE DEF D, E
<1>6. ASSUME NEW i \in Nat
      PROVE  i \in D <=> i <= WORD - 1 /\ i >= WORD - (b + 1) /\ (i + (b + 1)) - (WORD - 1) \in E
  <2>1. i + 1 \in Nat /\ ((i + 1) + b) - (WORD - 1) = (i + (b + 1)) - (WORD - 1) BY <1>1
  <2>2. i + 1 \in m_rx_data <=> i + 1 <= WORD - 1 /\ i + 1 >= WORD - b /\ (i + (b + 1)) - (WORD - 1) \in E
    BY <1>2, <2>1
  <2>3. CASE i = WORD - 1
    <3>1. (i + (b + 1)) - (WORD - 1) = b + 1 /\ ~(i + 1 <= WORD - 1) /\ i >= WORD - (b + 1) BY <1>1, <2>3
    <3> QED BY <1>5, <2>2, <2>3, <3>1
  <2>4. CASE i # WORD - 1
    <3>1. (i + 1 <= WORD - 1 <=> i <= WORD - 1) /\ (i + 1 >= WORD - b <=> i >= WORD - (b + 1)) BY <1>1, <2>4
    <3> QED BY <1>5, <2>2, <2>4, <3>1
  <2> QED BY <2>3, <2>4
<1>7. m_rx_busy' = b + 1 /\ D = m_rx_data' BY DEF D
<1> QED BY <1>4, <1>6, <1>7 DEF HeardBits, E

(* What a call leaves as it was, for the characters that are under way.    *)
LEMMA HeardFacts ==
  ASSUME FrameInv, SerialTick
  PROVE  /\ Receive(wire) /\ UNCHANGED setup /\ N' = N /\ N \in Nat /\ Half' = Half
         /\ PortTakes \/ PortIdles \/ PortShifts
         /\ heard \in Seq(Typed) /\ Len(heard) \in Nat /\ Kept \in Seq(Typed)
         /\ ~Completes => Kept = heard
         /\ Completes /\ heard # <<>> => Len(Kept) = Len(heard) - 1
         /\ PortTakes => Len(heard') = Len(Kept) + 1 /\ (Len(Kept) >= 1 => heard'[1] = Kept[1])
         /\ PortTakes => Len(levels') = 1
         /\ Len(Kept) <= Len(heard)
<1>1. /\ Receive(wire) /\ UNCHANGED setup /\ (PortTakes \/ PortIdles \/ PortShifts) BY TickCases
<1>2. N' = N /\ N \in Nat BY <1>1, SameSetUp, SetUpFacts DEF FrameInv
<1>3. heard \in Seq(Typed) /\ inbox \in Seq(Typed) /\ Len(heard) \in Nat BY DEF FrameInv
<1>4. ASSUME PortTakes
      PROVE  /\ Len(heard') = Len(Kept) + 1 /\ (Len(Kept) >= 1 => heard'[1] = Kept[1])
             /\ Len(levels') = 1
  <2>1. PICK h \in Typed : h = Head(inbox) BY <1>3, <1>4, HeadTailProperties DEF PortTakes
  <2>2. heard' = Append(Kept, h) /\ Kept \in Seq(Typed) /\ levels' = <<0>>
    BY <1>3, <1>4, <2>1, KeptFacts DEF PortTakes
  <2>3. /\ Len(Append(Kept, h)) = Len(Kept) + 1
        /\ \A i \in 1..Len(Kept) : Append(Kept, h)[i] = Kept[i]
    BY <2>2, AppendProperties
  <2>4. Len(Kept) >= 1 => 1 \in 1..Len(Kept) BY <2>2
  <2> QED BY <2>2, <2>3, <2>4
<1> QED BY <1>1, <1>2, <1>3, <1>4, KeptFacts DEF Half

LEMMA StaysRight ==
  ASSUME RightlyHeard, UNCHANGED setup, m_rx_data' = m_rx_data, m_rx_busy' = m_rx_busy, heard'[1] = heard[1]
  PROVE  RightlyHeard'
<1>1. \A c : Encoded(c)' = Encoded(c) BY SameSetUp
<1>2. \A c : HeardBits(c)' = HeardBits(c) BY <1>1 DEF HeardBits
<1> QED BY <1>2 DEF RightlyHeard

LEMMA EchoQuiet ==
  ASSUME FrameInv, SerialTick, EQuiet
  PROVE  EQuiet' \/ EMissed' \/ ~Driven'
<1>1. m_rx_state' = "RXIDLE" /\ m_last_tx' = 1 /\ ~Completes BY HeardFacts, HearsNothing DEF EQuiet
<1>2. Len(heard) = 0 /\ Kept = heard /\ Half' = Half /\ Half \in Nat BY <1>1, HeardFacts, HalfFacts DEF EQuiet
<1>3. CASE PortTakes
  <2>1. Len(heard') = 1 /\ Len(levels') = 1 /\ m_tx_state' = "TXDATA"
    BY <1>2, <1>3, HeardFacts DEF PortTakes
  <2>2. Fell' BY <1>1, <2>1 DEF Fell
  <2> QED BY <1>1, <1>2, <2>1, <2>2 DEF EMissed
<1>4. CASE PortIdles BY <1>1, <1>2, <1>4 DEF PortIdles, EQuiet
<1>5. ~PortShifts BY DEF PortShifts, EQuiet
<1> QED BY <1>3, <1>4, <1>5, HeardFacts

(* The shifting half, while the receiver does whatever it does.            *)
LEMMA StillSends ==
  ASSUME FrameInv, SerialTick, m_tx_state = "TXDATA"
  PROVE  /\ heard' = Kept /\ Len(levels') = Len(levels) + 1
         /\ m_tx_state' \in {"TXIDLE", "TXDATA"}
         /\ m_tx_state' = "TXIDLE" => Len(levels) = (N + 1) * CLOCKS
         /\ Len(levels) < CLOCKS => m_tx_state' = "TXDATA"
<1>1. UNCHANGED setup /\ PortShifts /\ N \in Nat BY HeardFacts DEF PortTakes, PortIdles
<1>2. /\ heard' = Kept /\ Len(levels') = Len(levels) + 1 /\ m_tx_state' \in {"TXIDLE", "TXDATA"}
      /\ m_tx_state' = "TXIDLE" => Len(levels) = (N + 1) * CLOCKS
  BY <1>1, ShiftCounts DEF PortShifts
<1>3. (N + 1) * CLOCKS = N * CLOCKS + CLOCKS /\ N * CLOCKS \in Nat BY <1>1, Products
<1>4. CLOCKS \in Nat /\ Len(levels) \in Nat BY SerialAssumption DEF FrameInv
<1> QED BY <1>2, <1>3, <1>4

LEMMA EchoMissed ==
  ASSUME FrameInv, SerialTick, EMissed
  PROVE  EHears'
<1> DEFINE L == Len(levels)  M == Len(levels')  u == m_rx_baudcounter'
<1>1. PICK c \in Typed : c = heard[1] /\ heard # <<>> /\ c = heard[Len(heard)]
  <2>1. heard \in Seq(Typed) /\ Len(heard) = 1 BY HeardFacts DEF EMissed
  <2>2. 1 \in 1..Len(heard) BY <2>1
  <2> QED BY <2>1, <2>2
<1>2. L \in Nat /\ L >= 1 /\ L <= Half + 1 /\ Half \in Nat /\ Half + 1 < CLOCKS /\ CLOCKS \in Nat
  BY <1>1, LevelFound, HalfFacts DEF EMissed
<1>3. wire = 0 BY <1>1, <1>2, LevelFound DEF EMissed
<1>4. Changed(0) = L - 1 BY <1>2, <1>3, HeardFacts, HearsFall DEF EMissed
<1>5. /\ m_rx_state' = "RXDATA" /\ m_rx_busy' = 0 /\ m_rx_data' = {} /\ ~Completes
      /\ u = CLOCKS + Half - 1 - (L - 1)
  BY <1>3, <1>4, HeardFacts, HearsStart DEF EMissed
<1>6. m_tx_state' = "TXDATA" /\ M = L + 1 /\ heard' = heard
  BY <1>2, <1>5, StillSends, HeardFacts DEF EMissed
<1>7. N' = N /\ N \in Nat /\ Half' = Half BY HeardFacts
<1>8. RightlyHeard'
  <2>1. ASSUME NEW i \in Nat PROVE ~(i <= WORD - 1 /\ i >= WORD - 0) BY HalfFacts
  <2> QED BY <1>5, <2>1 DEF RightlyHeard, HeardBits
<1>9. u \in Nat /\ M + u = (0 + 1) * CLOCKS + (Half + 1)
  <2>1. M = L + 1 /\ u = CLOCKS + Half - 1 - (L - 1) BY <1>5, <1>6
  <2> HIDE DEF L, M, u
  <2> QED BY <1>2, <2>1
<1>10. Len(heard') = 1 /\ 0 \in 0..N BY <1>6, <1>7 DEF EMissed
<1> QED BY <1>5, <1>6, <1>7, <1>8, <1>9, <1>10 DEF EHears

(* How far it is to the end of the frame, when a bit is sampled half a     *)
(* baud behind its beginning.                                              *)
LEMMA Samples ==
  ASSUME NEW n \in Nat, NEW b \in 0..n, NEW l \in Nat, NEW u \in Nat,
         l + u = (b + 1) * CLOCKS + (Half + 1), l <= (n + 1) * CLOCKS
  PROVE  /\ u = 0 => b # n /\ (l - 1) \div CLOCKS = b + 1 /\ l # (n + 1) * CLOCKS
         /\ l = (n + 1) * CLOCKS => b = n /\ u = Half + 1
         /\ (b + 2) * CLOCKS = (b + 1) * CLOCKS + CLOCKS
<1>1. Half \in Nat /\ Half >= 1 /\ Half + 1 < CLOCKS /\ CLOCKS \in Nat BY HalfFacts
<1>2. b \in Nat /\ b <= n OBVIOUS
<1> DEFINE B == (b + 1) * CLOCKS  T == (n + 1) * CLOCKS
<1>3. B \in Nat /\ T \in Nat /\ (b + 2) * CLOCKS = B + CLOCKS
  <2>1. b + 1 \in Nat /\ n + 1 \in Nat /\ (b + 1) + 1 = b + 2 BY <1>2
  <2>2. (b + 1) * CLOCKS \in Nat /\ (n + 1) * CLOCKS \in Nat
        /\ ((b + 1) + 1) * CLOCKS = (b + 1) * CLOCKS + CLOCKS
    BY <2>1, Products
  <2> QED BY <2>1, <2>2
<1>4. b # n => T >= B + CLOCKS
  <2> SUFFICES ASSUME b # n PROVE T >= B + CLOCKS OBVIOUS
  <2> DEFINE d == (n - b) - 1
  <2>1. d \in Nat /\ (b + 2) + d = n + 1 BY <1>2
  <2> HIDE DEF d
  <2>2. ((b + 2) + d) * CLOCKS = (b + 2) * CLOCKS + d * CLOCKS /\ d * CLOCKS \in Nat BY <1>1, <1>2, <2>1
  <2> HIDE DEF B
  <2>3. T = (B + CLOCKS) + d * CLOCKS BY <1>3, <2>1, <2>2
  <2> HIDE DEF T
  <2> QED BY <1>1, <1>3, <2>2, <2>3
<1>5. B = T \/ b # n OBVIOUS
<1>6. l + u = B + (Half + 1) /\ l <= T OBVIOUS
<1>7. \A r \in 0..CLOCKS-1 : (B + r) \div CLOCKS = b + 1
  <2>1. b + 1 \in Nat BY <1>2
  <2> QED BY <2>1, DivisionUnique
<1> HIDE DEF B, T
<1>8. ASSUME u = 0 PROVE b # n /\ (l - 1) \div CLOCKS = b + 1 /\ l # T
  <2>1. b # n
    <3>1. CASE b = n
      <4>1. B = T BY <1>5, <3>1
      <4> QED BY <1>1, <1>3, <1>6, <1>8, <4>1
    <3> QED BY <3>1
  <2>2. l - 1 = B + Half /\ Half \in 0..CLOCKS-1 /\ l # T BY <1>1, <1>3, <1>4, <1>6, <1>8, <2>1
  <2> QED BY <1>7, <2>1, <2>2
<1>9. ASSUME l = T PROVE b = n /\ u = Half + 1 BY <1>1, <1>3, <1>4, <1>5, <1>6, <1>9
<1> QED BY <1>3, <1>8, <1>9 DEF B, T

LEMMA EchoHears ==
  ASSUME FrameInv, SerialTick, EHears
  PROVE  EHears' \/ EStops'
<1> DEFINE L == Len(levels)  M == Len(levels')  b == m_rx_busy  u == m_rx_baudcounter
<1>1. PICK c \in Typed : c = heard[1] /\ heard # <<>> /\ c = heard[Len(heard)]
  <2>1. heard \in Seq(Typed) /\ Len(heard) = 1 BY HeardFacts DEF EHears
  <2>2. 1 \in 1..Len(heard) BY <2>1
  <2> QED BY <2>1, <2>2
<1>2. /\ N \in Nat /\ N' = N /\ Half' = Half /\ Half \in Nat /\ CLOCKS \in Nat /\ CLOCKS > 2 /\ UNCHANGED setup
      /\ Receive(wire) /\ PortShifts
  BY HeardFacts, HalfFacts DEF EHears, PortTakes, PortIdles
<1>3. b \in 0..N /\ u \in Nat /\ L \in Nat /\ L + u = (b + 1) * CLOCKS + (Half + 1) /\ L <= (N + 1) * CLOCKS
      /\ wire = LevelOf(c, (L - 1) \div CLOCKS)
  BY <1>1, LevelFound DEF EHears
<1> HIDE DEF L, b, u
<1>4. /\ u = 0 => b # N /\ (L - 1) \div CLOCKS = b + 1 /\ L # (N + 1) * CLOCKS
      /\ L = (N + 1) * CLOCKS => b = N /\ u = Half + 1
      /\ (b + 2) * CLOCKS = (b + 1) * CLOCKS + CLOCKS
  BY <1>2, <1>3, Samples
<1>5. M = L + 1 /\ m_tx_state' \in {"TXIDLE", "TXDATA"} /\ heard' = Kept
      /\ (m_tx_state' = "TXIDLE" => L = (N + 1) * CLOCKS)
  BY StillSends DEF EHears, L
<1>6. Carries(c) BY <1>1 DEF FrameInv, OnLine, EHears
<1>7. m_tx_state' = "TXIDLE" => wire' = 1 BY <1>2, <1>6, ShiftCarries
<1>8. CASE u # 0
  <2>1. /\ m_rx_state' = "RXDATA" /\ m_rx_busy' = b /\ m_rx_data' = m_rx_data /\ ~Completes
        /\ m_rx_baudcounter' = u - 1
    BY <1>2, <1>3, <1>8, HearsOn DEF EHears, b, u
  <2>2. heard' = heard /\ Len(heard') = 1 BY <1>5, <2>1, HeardFacts DEF EHears
  <2>3. RightlyHeard' BY <1>2, <2>1, <2>2, StaysRight DEF EHears, b
  <2>4. CASE m_tx_state' = "TXDATA"
    <3> DEFINE v == m_rx_baudcounter'
    <3>1. v = u - 1 BY <2>1
    <3>2. (b + 1) * CLOCKS \in Nat
      <4>1. b + 1 \in Nat BY <1>2, <1>3
      <4> QED BY <4>1, Products
    <3> HIDE DEF v, M
    <3>3. v \in Nat /\ M + v = (b + 1) * CLOCKS + (Half + 1) BY <1>2, <1>3, <1>5, <1>8, <3>1, <3>2
    <3> QED BY <1>2, <1>3, <2>1, <2>2, <2>3, <2>4, <3>3 DEF EHears, v, M
  <2>5. CASE m_tx_state' = "TXIDLE"
    <3>1. b = N /\ u = Half + 1 /\ wire' = 1 BY <1>4, <1>5, <1>7, <2>5
    <3>2. m_rx_baudcounter' = Half /\ Half \in 0..Half BY <1>2, <2>1, <3>1
    <3> QED BY <1>2, <2>1, <2>2, <2>3, <2>5, <3>1, <3>2 DEF EStops
  <2> QED BY <1>5, <2>4, <2>5
<1>9. CASE u = 0
  <2>1. b # N /\ ~(b >= N) /\ b < N /\ b \in Nat /\ wire = LevelOf(c, b + 1) /\ m_tx_state' = "TXDATA"
    BY <1>2, <1>3, <1>4, <1>5, <1>9
  <2>2. /\ m_rx_state' = "RXDATA" /\ m_rx_busy' = b + 1 /\ m_rx_baudcounter' = CLOCKS - 1
        /\ m_rx_data' = Right(m_rx_data, 1) \cup (IF wire = 1 THEN {WORD - 1} ELSE {})
        /\ ~Completes
    BY <1>2, <1>9, <2>1, HearsBit DEF EHears, b, u
  <2>3. heard' = heard /\ Len(heard') = 1 BY <1>5, <2>2, HeardFacts DEF EHears
  <2>4. RightlyHeard'
    <3>1. HeardBits(c) BY <1>1 DEF EHears, RightlyHeard
    <3>2. Encoded(c)' = Encoded(c) /\ SetUpRight BY <1>2, SameSetUp DEF FrameInv
    <3>3. HeardBits(c)' BY <2>1, <2>2, <3>1, <3>2, BitHeard DEF b
    <3> QED BY <1>1, <2>3, <3>3 DEF RightlyHeard
  <2>5. M + (CLOCKS - 1) = ((b + 1) + 1) * CLOCKS + (Half + 1)
    <3>1. (b + 1) + 1 = b + 2 BY <2>1
    <3>2. (b + 1) * CLOCKS \in Nat
      <4>1. b + 1 \in Nat BY <2>1
      <4> QED BY <4>1, Products
    <3> HIDE DEF M
    <3>3. M + (CLOCKS - 1) = (b + 2) * CLOCKS + (Half + 1) BY <1>2, <1>3, <1>4, <1>5, <1>9, <3>2
    <3> QED BY <3>1, <3>3
  <2>6. b + 1 \in 0..N /\ CLOCKS - 1 \in Nat BY <1>2, <2>1
  <2> QED BY <1>2, <2>1, <2>2, <2>3, <2>4, <2>5, <2>6 DEF EHears
<1> QED BY <1>8, <1>9

LEMMA EchoStops ==
  ASSUME FrameInv, SerialTick, EStops
  PROVE  EQuiet' \/ EMissed' \/ EStops' \/ EOverlaps' \/ ~Driven'
<1> DEFINE u == m_rx_baudcounter
<1>1. /\ N \in Nat /\ N' = N /\ Half' = Half /\ Half \in Nat /\ Half >= 1 /\ UNCHANGED setup
      /\ Receive(wire) /\ (PortTakes \/ PortIdles) /\ wire = 1 /\ u \in 0..Half /\ Len(heard) = 1
  BY HeardFacts, HalfFacts DEF EStops, PortShifts
<1>2. CASE u # 0
  <2>1. /\ m_rx_state' = "RXDATA" /\ m_rx_busy' = N /\ m_rx_data' = m_rx_data /\ ~Completes
        /\ m_rx_baudcounter' = u - 1 /\ m_last_tx' = 1
    <3>1. u \in Nat BY <1>1
    <3> QED BY <1>1, <1>2, <3>1, HearsOn DEF EStops
  <2>2. Kept = heard BY <2>1, HeardFacts
  <2>3. u - 1 \in 0..Half /\ 1 + (u - 1) <= Half BY <1>1, <1>2
  <2>4. CASE PortTakes
    <3>1. Len(heard') = 2 /\ heard'[1] = heard[1] /\ Len(levels') = 1 /\ m_tx_state' = "TXDATA"
      <4>1. Len(heard') = Len(heard) + 1 /\ (Len(heard) >= 1 => heard'[1] = heard[1]) /\ Len(levels') = 1
        BY Zenon, <2>2, <2>4, HeardFacts
      <4> QED BY <1>1, <2>4, <4>1 DEF PortTakes
    <3>2. RightlyHeard' BY <1>1, <2>1, <3>1, StaysRight DEF EStops
    <3>3. Fell' BY <2>1, <3>1 DEF Fell
    <3> QED BY <1>1, <2>1, <2>3, <3>1, <3>2, <3>3 DEF EOverlaps
  <2>5. CASE PortIdles
    <3>1. heard' = heard /\ Len(heard') = 1 /\ m_tx_state' = "TXIDLE" /\ (Driven' => wire' = 1)
      BY <1>1, <2>2, <2>5 DEF PortIdles
    <3>2. RightlyHeard' BY <1>1, <2>1, <3>1, StaysRight DEF EStops
    <3> QED BY <1>1, <2>1, <2>3, <3>1, <3>2 DEF EStops
  <2> QED BY <1>1, <2>4, <2>5
<1>3. CASE u = 0
  <2>1. m_rx_state' = "RXIDLE" /\ Completes /\ m_last_tx' = 1 BY <1>1, <1>3, HearsEnd DEF EStops
  <2>2. Len(Kept) = 0
    <3>1. heard # <<>> BY <1>1
    <3> QED BY <1>1, <2>1, <3>1, HeardFacts
  <2>3. CASE PortTakes
    <3>1. Len(heard') = 1 /\ Len(levels') = 1 /\ m_tx_state' = "TXDATA"
      BY <2>2, <2>3, HeardFacts DEF PortTakes
    <3>2. Fell' BY <2>1, <3>1 DEF Fell
    <3> QED BY <1>1, <2>1, <3>1, <3>2 DEF EMissed
  <2>4. CASE PortIdles BY <2>1, <2>2, <2>4 DEF PortIdles, EQuiet
  <2> QED BY <1>1, <2>3, <2>4
<1> QED BY <1>1, <1>2, <1>3

LEMMA EchoOverlaps ==
  ASSUME FrameInv, SerialTick, EOverlaps
  PROVE  EMissed' \/ EOverlaps'
<1> DEFINE u == m_rx_baudcounter  L == Len(levels)  M == Len(levels')
<1>1. /\ N \in Nat /\ N' = N /\ Half' = Half /\ Half \in Nat /\ Half + 1 < CLOCKS /\ CLOCKS \in Nat
      /\ UNCHANGED setup /\ Receive(wire) /\ u \in 0..Half /\ Len(heard) = 2 /\ L + u <= Half
  BY HeardFacts, HalfFacts DEF EOverlaps
<1>2. PICK c \in Typed : heard # <<>> /\ c = heard[Len(heard)]
  <2>1. heard \in Seq(Typed) BY HeardFacts
  <2>2. 2 \in 1..Len(heard) BY <1>1
  <2> QED BY <1>1, <2>1, <2>2
<1>3. L \in Nat /\ L >= 1 BY <1>2, LevelFound DEF EOverlaps
<1> HIDE DEF L
<1>4. L <= CLOCKS /\ L < CLOCKS BY <1>1, <1>3
<1>5. wire = 0 BY <1>2, <1>4, LevelFound DEF EOverlaps, L
<1>6. m_last_tx' = 0 /\ m_rx_changectr' = L - 1 BY <1>1, <1>3, <1>4, <1>5, HearsFall DEF EOverlaps, L
<1>7. M = L + 1 /\ m_tx_state' = "TXDATA" /\ heard' = Kept BY <1>4, StillSends DEF EOverlaps, L
<1>8. Fell'
  <2> HIDE DEF M
  <2>1. M # 1 /\ L - 1 = M - 2 BY <1>3, <1>7
  <2> QED BY <1>6, <2>1 DEF Fell, M
<1>9. CASE u # 0
  <2>1. /\ m_rx_state' = "RXDATA" /\ m_rx_busy' = N /\ m_rx_data' = m_rx_data /\ ~Completes
        /\ m_rx_baudcounter' = u - 1
    <3>1. u \in Nat BY <1>1
    <3> QED BY <1>1, <1>9, <3>1, HearsOn DEF EOverlaps
  <2>2. heard' = heard BY <1>7, <2>1, HeardFacts
  <2>3. RightlyHeard' BY <1>1, <2>1, <2>2, StaysRight DEF EOverlaps
  <2>4. u - 1 \in 0..Half /\ M + (u - 1) <= Half
    <3> HIDE DEF M
    <3> QED BY <1>1, <1>3, <1>7, <1>9
  <2> QED BY <1>1, <1>7, <1>8, <2>1, <2>2, <2>3, <2>4 DEF EOverlaps
<1>10. CASE u = 0
  <2>1. m_rx_state' = "RXIDLE" /\ Completes BY <1>1, <1>10, HearsEnd DEF EOverlaps
  <2>2. Len(heard') = 1 BY <1>1, <1>2, <1>7, <2>1, HeardFacts
  <2>3. M <= Half + 1
    <3> HIDE DEF M
    <3> QED BY <1>1, <1>3, <1>7
  <2> QED BY <1>1, <1>7, <1>8, <2>1, <2>2, <2>3 DEF EMissed
<1> QED BY <1>9, <1>10

LEMMA EchoStep ==
  ASSUME FrameInv, EchoInv, [SerialNext]_serialVars
  PROVE  EchoInv'
<1>1. CASE SerialTick
  <2>1. (Driven' => Driven) /\ (PortTakes => Driven') BY <1>1, TickCases DEF PortTakes
  <2>2. Driven' => EQuiet' \/ EMissed' \/ EHears' \/ EStops' \/ EOverlaps'
    BY <1>1, <2>1, EchoQuiet, EchoMissed, EchoHears, EchoStops, EchoOverlaps DEF EchoInv
  <2>3. Len(heard') <= 2
    <3>1. CASE Driven'
      <4>1. Len(heard') = 0 \/ Len(heard') = 1 \/ Len(heard') = 2
        BY Zenon, <2>2, <3>1 DEF EQuiet, EMissed, EHears, EStops, EOverlaps
      <4> DEFINE n == Len(heard')
      <4>2. n = 0 \/ n = 1 \/ n = 2 BY <4>1
      <4> HIDE DEF n
      <4>3. n <= 2 BY <4>2
      <4> QED BY <4>3 DEF n
    <3>2. CASE ~Driven'
      <4>1. heard' = Kept BY <1>1, <2>1, <3>2, HeardFacts DEF PortIdles, PortShifts
      <4>2. Len(Kept) <= Len(heard) /\ Len(Kept) \in Nat /\ Len(heard) \in Nat BY <1>1, HeardFacts
      <4> QED BY <4>1, <4>2 DEF EchoInv
    <3> QED BY <3>1, <3>2
  <2> QED BY <2>2, <2>3 DEF EchoInv
<1>2. ASSUME UNCHANGED <<setup, rxHalf, txHalf, wire, heard, levels>>, Driven' => Driven
      PROVE  EchoInv'
  <2>1. UNCHANGED <<m_rx_state, m_rx_baudcounter, m_rx_busy, m_rx_changectr, m_rx_data, m_last_tx, m_tx_state>>
    BY <1>2 DEF rxHalf, txHalf
  <2>2. N' = N /\ \A c : Encoded(c)' = Encoded(c) BY <1>2, SameSetUp
  <2>3. \A c : HeardBits(c)' = HeardBits(c) BY <2>1, <2>2 DEF HeardBits
  <2>4. RightlyHeard' = RightlyHeard BY <1>2, <2>3 DEF RightlyHeard
  <2>5. Fell' = Fell BY <1>2, <2>1 DEF Fell
  <2>6. Half' = Half BY DEF Half
  <2>7. EQuiet' = EQuiet /\ EMissed' = EMissed BY <1>2, <2>1, <2>5, <2>6 DEF EQuiet, EMissed
  <2>8. EHears' = EHears BY <1>2, <2>1, <2>2, <2>4, <2>6 DEF EHears
  <2>9. EStops' = EStops BY <1>2, <2>1, <2>2, <2>4, <2>6 DEF EStops
  <2>10. EOverlaps' = EOverlaps BY <1>2, <2>1, <2>2, <2>4, <2>5, <2>6 DEF EOverlaps
  <2> QED BY <1>2, <2>7, <2>8, <2>9, <2>10 DEF EchoInv
<1>3. CASE ClientArrives BY <1>2, <1>3 DEF ClientArrives, Driven
<1>4. CASE ClientTypes BY <1>2, <1>4 DEF ClientTypes, Driven
<1>5. CASE ClientLeaves BY <1>2, <1>5 DEF ClientLeaves, Driven
<1>6. CASE Kill BY <1>2, <1>6 DEF Kill, Driven
<1>7. CASE UNCHANGED serialVars BY <1>2, <1>7 DEF serialVars, Driven
<1> QED BY <1>1, <1>3, <1>4, <1>5, <1>6, <1>7 DEF SerialNext

(* When a character is complete its bits are at the top of the register.   *)
LEMMA RightBuf ==
  ASSUME SetUpRight, NEW c \in Typed, HeardBits(c), m_rx_busy = N
  PROVE  LowBits(Buf) = LowBits(c)
<1>1. /\ m_nbits \in Nat /\ m_nbits >= 1 /\ m_nbits <= CHAR_BITS /\ CHAR_BITS \in Nat /\ WORD \in Nat /\ N \in Nat
      /\ N + 1 <= WORD - 1 /\ m_nbits < N
  BY SetUpFacts DEF SetUpRight, N
<1>2. m_rx_data \in SUBSET Nat
      /\ \A i \in Nat : i \in m_rx_data <=> i <= WORD - 1 /\ i >= WORD - N /\ (i + N) - (WORD - 1) \in Encoded(c)
  BY DEF HeardBits
<1>3. WORD - N \in Nat BY <1>1
<1> DEFINE S == WORD - N
<1>4. S \in Nat /\ \A i \in Nat : i \in Right(m_rx_data, S) <=> i + S \in m_rx_data BY <1>2, <1>3, RightBits
<1>5. ASSUME NEW i \in 0..m_nbits-1 PROVE i \in Buf <=> i \in c
  <2>1. i \in Nat /\ i \in CharMask BY <1>1 DEF CharMask
  <2>2. i \in Buf <=> i + S \in m_rx_data BY <1>4, <2>1 DEF Buf
  <2>3. i + S \in Nat /\ i + S <= WORD - 1 /\ i + S >= WORD - N /\ ((i + S) + N) - (WORD - 1) = i + 1
    BY <1>1, <2>1
  <2>4. i + S \in m_rx_data <=> i + 1 \in Encoded(c) BY <1>2, <2>3
  <2>5. i + 1 \in Encoded(c) <=> i \in c BY EncodedBits
  <2> QED BY <2>2, <2>4, <2>5
<1> QED BY <1>5 DEF LowBits

(* What a client types comes back to it, in its order and once each: for   *)
(* any number of clients, of bits and of clocks per baud, however the      *)
(* halves of the port lie in time (uartsim.cpp 173-295).                   *)
THEOREM EchoesInOrder == SerialSpec => []EchoInOrder
<1>1. SerialInit => FrameInv /\ EchoInv
  <2> SUFFICES ASSUME SerialInit PROVE FrameInv /\ EchoInv OBVIOUS
  <2>1. heard = <<>> /\ m_tx_state = "TXIDLE" /\ m_rx_state = "RXIDLE" /\ wire = 1 BY DEF SerialInit
  <2>2. Len(heard) = 0 BY <2>1
  <2> QED BY <2>1, <2>2, FrameStarts DEF EchoInv, EQuiet
<1>2. FrameInv /\ EchoInv /\ [SerialNext]_serialVars => FrameInv' /\ EchoInv' BY FrameStep, EchoStep
<1>3. FrameInv /\ EchoInv => EchoInOrder
  <2> SUFFICES ASSUME FrameInv, EchoInv PROVE EchoInOrder OBVIOUS
  <2>1. SetUpRight /\ N \in Nat /\ heard \in Seq(Typed) BY SetUpFacts DEF FrameInv
  <2>2. ASSUME Driven, Completes PROVE heard # <<>> /\ LowBits(Buf) = LowBits(heard[1])
    <3>1. EHears \/ EStops \/ EOverlaps BY <2>2 DEF EchoInv, EQuiet, EMissed, Completes
    <3>2. Len(heard) \in Nat /\ Len(heard) >= 1 /\ RightlyHeard
      <4>1. (Len(heard) = 1 \/ Len(heard) = 2) /\ RightlyHeard BY Zenon, <3>1 DEF EHears, EStops, EOverlaps
      <4>2. Len(heard) \in Nat BY <2>1
      <4> QED BY <4>1, <4>2
    <3>3. PICK c \in Typed : c = heard[1]
      <4>1. 1 \in 1..Len(heard) BY <3>2
      <4> QED BY <2>1, <4>1
    <3>4. m_rx_busy = N BY <2>1, <2>2, <3>1 DEF EHears, EStops, EOverlaps, Completes
    <3>5. HeardBits(c) BY <3>2, <3>3 DEF RightlyHeard
    <3>6. heard # <<>> BY <3>2
    <3> QED BY <2>1, <3>3, <3>4, <3>5, <3>6, RightBuf
  <2> QED BY <2>2 DEF EchoInOrder, EchoInv
<1> QED BY <1>1, <1>2, <1>3, PTL DEF SerialSpec

-----------------------------------------------------------------------------
(* The console's line.  Where it is between two clocks of phase 3:         *)

Fallen == BAUDS - 1 - baud_counter       \* for how many clocks a start bit has been there

LineTypes ==
  /\ state \in 0..IDLE /\ r_busy \in BOOLEAN /\ lcl_data \in Nat /\ baud_counter \in Nat
  /\ zero_baud_counter \in BOOLEAN /\ last_state \in BOOLEAN
  /\ cts \in [1..3 -> 0..1] /\ o_uart_tx \in 0..1
  /\ rx \in [busy : BOOLEAN, last : 0..1, baud : Int, bit : Nat, data : Nat, change : Nat]
  /\ printed \in Char /\ prints \in 0..1 /\ receiver \in {"uart.cpp", "uartsim.cpp"}
  /\ underway \in Seq(Char)

(* What the registers of the transmitter say of each other; the shift      *)
(* register of the reset of cts empties from the front.                    *)
TransmitterInv ==
  /\ zero_baud_counter <=> baud_counter = 0
  /\ state = IDLE => o_uart_tx = 1
  /\ state # IDLE => r_busy /\ baud_counter <= BAUDS - 1
  /\ state = 0 => o_uart_tx = 0
  /\ state = STOP => last_state \/ baud_counter = BAUDS - 1
  /\ state < STOP => ~last_state
  /\ ~r_busy => state = IDLE /\ baud_counter = 0 /\ cts[1] = 0 /\ cts[2] = 0 /\ cts[3] = 0
  /\ phase > 1 => cts[1] <= cts[2] /\ cts[2] <= cts[3]
  /\ rx.last = o_uart_tx

SettingUp ==
  phase < 3 =>
    /\ state = IDLE /\ r_busy /\ ~rx.busy /\ underway = <<>> /\ printed = 0
    /\ phase = 0 => baud_counter = 5
    /\ phase = 2 => baud_counter = RESET_CLOCKS

(* The character at the head of those underway, from the n bits heard, the *)
(* one on the line and those still to be sent.                             *)
Heard(n)  == underway[1] = rx.data + Pow2[n] * lcl_data
ToHear(n) == underway[1] = rx.data + Pow2[n] * (o_uart_tx + 2 * lcl_data)

Rest == ~rx.busy /\ underway = <<>> /\ state = IDLE

(* The receiver of the bench samples once in each state of the             *)
(* transmitter, half a baud behind its beginning.                          *)
BStart ==
  /\ rx.busy /\ Len(underway) = 1 /\ state = 0 /\ rx.bit = 0 /\ rx.data = 0
  /\ rx.baud >= 0 /\ rx.baud = baud_counter - (BAUDS - 1 - HalfBaud) /\ underway[1] = lcl_data
BBefore ==
  /\ rx.busy /\ Len(underway) = 1 /\ state \in 1..STOP /\ rx.bit = state
  /\ rx.baud >= 0 /\ rx.baud = baud_counter - (BAUDS - 1 - HalfBaud) /\ ToHear(state - 1)
BAfter ==
  /\ rx.busy /\ Len(underway) = 1 /\ state \in 0..STOP /\ rx.bit = state + 1
  /\ baud_counter <= BAUDS - 2 - HalfBaud /\ rx.baud = baud_counter + HalfBaud + 1 /\ Heard(state)
BStop ==
  /\ rx.busy /\ Len(underway) = 1 /\ state = IDLE /\ r_busy /\ rx.bit = DATA_BITS + 1
  /\ rx.baud >= 0 /\ rx.baud = baud_counter - (BAUDS - 2 - HalfBaud) /\ rx.data = underway[1]
BenchInv == receiver = "uart.cpp" => Rest \/ BStart \/ BBefore \/ BAfter \/ BStop

(* The archived one skips the start bit, and keeps the character for a     *)
(* baud behind the stop bit, when the next one may be on the line already. *)
AStart ==
  /\ rx.busy /\ Len(underway) = 1 /\ state = 0 /\ rx.bit = 0 /\ rx.data = 0
  /\ rx.baud = HalfBaud + baud_counter /\ underway[1] = lcl_data
ABefore ==
  /\ rx.busy /\ Len(underway) = 1 /\ state \in 1..STOP /\ rx.bit = state - 1
  /\ rx.baud >= 0 /\ rx.baud = baud_counter - (BAUDS - HalfBaud) /\ ToHear(state - 1)
AAfter ==
  /\ rx.busy /\ Len(underway) = 1 /\ state \in 1..STOP /\ rx.bit = state
  /\ baud_counter <= BAUDS - HalfBaud - 1 /\ rx.baud = baud_counter + HalfBaud /\ Heard(state)
AStopBefore ==
  /\ rx.busy /\ Len(underway) = 1 /\ state = IDLE /\ r_busy /\ rx.bit = DATA_BITS
  /\ rx.baud >= 0 /\ rx.baud = baud_counter - (BAUDS - 1 - HalfBaud) /\ rx.data = underway[1]
AHeard == rx.busy /\ rx.bit = DATA_BITS + 1 /\ rx.data = underway[1] + Pow2[DATA_BITS] /\ rx.baud >= 0
AStopAfter ==
  /\ AHeard /\ Len(underway) = 1 /\ state = IDLE
  /\ \/ r_busy /\ rx.baud = baud_counter + HalfBaud + 1
     \/ baud_counter = 0 /\ rx.baud <= HalfBaud
AOverlap ==
  /\ AHeard /\ Len(underway) = 2 /\ state = 0 /\ lcl_data = underway[2]
  /\ rx.change = Fallen /\ rx.baud + Fallen <= HalfBaud - 1
AMissed ==
  /\ ~rx.busy /\ Len(underway) = 1 /\ state = 0 /\ lcl_data = underway[1]
  /\ rx.change = Fallen /\ Fallen <= HalfBaud
ArchivedInv ==
  receiver = "uartsim.cpp" =>
    Rest \/ AStart \/ ABefore \/ AAfter \/ AStopBefore \/ AStopAfter \/ AOverlap \/ AMissed

LineInv == LineTypes /\ TransmitterInv /\ SettingUp /\ BenchInv /\ ArchivedInv

LEMMA BaudFacts ==
  /\ DATA_BITS \in Nat /\ DATA_BITS > 0 /\ BAUDS \in Nat /\ BAUDS > 2 /\ RESET_CLOCKS \in Nat /\ RESET_CLOCKS > 0
  /\ HalfBaud \in Nat /\ HalfBaud >= 1 /\ 2 * HalfBaud <= BAUDS /\ BAUDS <= 2 * HalfBaud + 1
BY LineAssumption DEF HalfBaud

LEMMA PowerFacts ==
  /\ \A n \in 0..DATA_BITS : Pow2[n] \in Nat /\ Pow2[n] > 0
  /\ Pow2[0] = 1 /\ \A n \in 1..DATA_BITS : Pow2[n] = 2 * Pow2[n-1]
<1>1. \A n \in 0..DATA_BITS : Pow2[n] \in Nat /\ Pow2[n] > 0 BY LineAssumption
<1>2. ASSUME NEW n \in 1..DATA_BITS PROVE Pow2[n] = 2 * Pow2[n-1]
  <2>1. n - 1 \in 0..DATA_BITS-1 /\ (n - 1) + 1 = n BY BaudFacts
  <2> QED BY <2>1, LineAssumption
<1> QED BY <1>1, <1>2, LineAssumption

LEMMA CharFacts == /\ Char \subseteq Nat /\ \A c \in Char : c < Pow2[DATA_BITS]
                   /\ \A c \in Nat : c < Pow2[DATA_BITS] => c \in Char
BY PowerFacts, BaudFacts DEF Char

(* Sums of bits.                                                           *)
LEMMA OneBitMore ==
  ASSUME NEW d \in Nat, NEW p \in Nat, NEW b \in Nat, NEW l \in Nat
  PROVE  d + p * (b + 2 * l) = (d + b * p) + (2 * p) * l /\ d + b * p \in Nat
OBVIOUS
LEMMA NothingLeft == ASSUME NEW p \in Nat, NEW l \in Nat, p * l < p PROVE l = 0
OBVIOUS
LEMMA StopBitDropped == ASSUME NEW p \in Nat, NEW c \in Nat, c < p PROVE (c + p) % p = c
OBVIOUS

-----------------------------------------------------------------------------
(* The transmitter: five kinds of clock, as its receiver sees them.        *)

Put == pc = "store" /\ pc' # "store"     \* a character is stored
PutSound == Put => ~r_busy /\ Head(todo) \in Char

Counts    == /\ baud_counter > 0 /\ ~Put /\ r_busy' = TRUE /\ baud_counter' = baud_counter - 1
             /\ state' = state /\ o_uart_tx' = o_uart_tx /\ lcl_data' = lcl_data
NextBit   == /\ baud_counter = 0 /\ ~Put /\ state < STOP /\ baud_counter' = BAUDS - 1 /\ r_busy' = TRUE
             /\ state' = state + 1 /\ lcl_data = o_uart_tx' + 2 * lcl_data'
StartStop == /\ baud_counter = 0 /\ ~Put /\ state = STOP /\ baud_counter' = BAUDS - 2 /\ r_busy' = TRUE
             /\ state' = IDLE /\ o_uart_tx' = 1
Idles     == /\ baud_counter = 0 /\ ~Put /\ state = IDLE /\ baud_counter' = 0
             /\ state' = IDLE /\ o_uart_tx' = 1
Takes     == /\ Put /\ baud_counter = 0 /\ state = IDLE /\ ~r_busy /\ baud_counter' = BAUDS - 1 /\ r_busy' = TRUE
             /\ state' = 0 /\ o_uart_tx' = 0 /\ lcl_data' = Head(todo)

LEMMA TransmitterSteps ==
  ASSUME LineTypes, TransmitterInv, PutSound, NEW d,
         d = Head(todo) \/ ~Put, Transmitter(FALSE, Put, d)
  PROVE  Counts \/ NextBit \/ StartStop \/ Idles \/ Takes
<1> USE BaudFacts
<1>1. TransmitterClock(Put, d) /\ lcl_data' = IF Accepts(Put) THEN d ELSE IF r_busy THEN Shifted ELSE lcl_data
  BY DEF Transmitter
<1>2. Accepts(Put) <=> Put BY DEF Accepts, PutSound
<1>3. zero_baud_counter <=> baud_counter = 0 BY DEF TransmitterInv
<1>4. ~Put /\ baud_counter > 0 => r_busy BY DEF TransmitterInv, LineTypes
<1>5. CASE baud_counter > 0
  <2>1. ~Put BY <1>5 DEF PutSound, TransmitterInv
  <2>2. lcl_data' = lcl_data BY <1>1, <1>2, <1>3, <1>5, <2>1 DEF Shifted
  <2>3. r_busy' = TRUE /\ state' = state /\ baud_counter' = baud_counter - 1
    <3>1. ~zero_baud_counter BY <1>3, <1>5
    <3> QED BY <1>1, <3>1 DEF TransmitterClock
  <2>4. o_uart_tx' = o_uart_tx BY <1>1, <1>2, <1>3, <1>5, <2>1 DEF TransmitterClock
  <2> QED BY <1>5, <2>1, <2>2, <2>3, <2>4 DEF Counts
<1>6. CASE baud_counter = 0 /\ state = IDLE /\ ~Put
  <2>1. state' = IDLE /\ baud_counter' = 0 BY <1>1, <1>2, <1>3, <1>6 DEF TransmitterClock
  <2>2. o_uart_tx' = 1 BY <1>1, <1>2, <1>3, <1>6 DEF TransmitterClock, IDLE, STOP
  <2> QED BY <1>6, <2>1, <2>2 DEF Idles
<1>7. CASE Put
  <2>1. ~r_busy /\ state = IDLE /\ baud_counter = 0 BY <1>7 DEF PutSound, TransmitterInv
  <2>2. state' = 0 /\ r_busy' = TRUE /\ baud_counter' = BAUDS - 1 /\ o_uart_tx' = 0
    BY <1>1, <1>2, <1>3, <1>7, <2>1 DEF TransmitterClock
  <2>3. lcl_data' = Head(todo) BY <1>1, <1>2, <1>7
  <2> QED BY <1>7, <2>1, <2>2, <2>3 DEF Takes
<1>8. CASE baud_counter = 0 /\ state # IDLE /\ ~Put
  <2>1. r_busy /\ lcl_data' = lcl_data \div 2 BY <1>1, <1>2, <1>3, <1>8 DEF TransmitterInv, Shifted
  <2>2. /\ r_busy' = TRUE /\ state' = (IF state = STOP THEN IDLE ELSE state + 1)
        /\ baud_counter' = IF last_state THEN BAUDS - 2 ELSE BAUDS - 1
    BY <1>1, <1>3, <1>8 DEF TransmitterClock
  <2>3. o_uart_tx' = IF state < STOP THEN lcl_data % 2 ELSE 1
    BY <1>1, <1>2, <1>3, <1>8 DEF TransmitterClock, LowBit
  <2>4. CASE state = STOP
    <3>1. last_state BY <1>8, <2>4 DEF TransmitterInv
    <3> QED BY <1>8, <2>2, <2>3, <2>4, <3>1 DEF StartStop, STOP
  <2>5. CASE state # STOP
    <3>1. state < STOP BY <1>8, <2>5 DEF LineTypes, STOP, IDLE
    <3>2. ~last_state BY <3>1 DEF TransmitterInv
    <3>3. lcl_data = (lcl_data % 2) + 2 * (lcl_data \div 2) BY DEF LineTypes
    <3> QED BY <1>8, <2>1, <2>2, <2>3, <2>5, <3>1, <3>2, <3>3 DEF NextBit
  <2> QED BY <2>4, <2>5
<1> QED BY <1>5, <1>6, <1>7, <1>8 DEF LineTypes

TransmitterTypes ==
  /\ state \in 0..IDLE /\ r_busy \in BOOLEAN /\ lcl_data \in Nat /\ baud_counter \in Nat
  /\ zero_baud_counter \in BOOLEAN /\ last_state \in BOOLEAN
  /\ cts \in [1..3 -> 0..1] /\ o_uart_tx \in 0..1

LEMMA TransmitterKeeps ==
  ASSUME LineTypes, TransmitterInv, phase > 1, PutSound, NEW d,
         d = Head(todo) \/ ~Put, Transmitter(FALSE, Put, d), rx'.last = o_uart_tx'
  PROVE  TransmitterTypes' /\ TransmitterInv'
<1> USE BaudFacts
<1>1. TransmitterClock(Put, d) /\ lcl_data' = IF Accepts(Put) THEN d ELSE IF r_busy THEN Shifted ELSE lcl_data
  BY DEF Transmitter
<1>2. Counts \/ NextBit \/ StartStop \/ Idles \/ Takes BY TransmitterSteps
<1>3. cts' = [i \in 1..3 |-> IF i = 1 THEN 0 ELSE cts[i - 1]] BY <1>1 DEF TransmitterClock
<1>4. /\ cts' \in [1..3 -> 0..1] /\ cts'[1] = 0 /\ cts'[2] = cts[1] /\ cts'[3] = cts[2]
      /\ cts'[1] <= cts'[2] /\ cts'[2] <= cts'[3]
  BY <1>3 DEF LineTypes, TransmitterInv
<1>5. last_state' \in BOOLEAN /\ (last_state' <=> state = STOP) BY <1>1 DEF TransmitterClock
<1>6. state' \in 0..IDLE /\ baud_counter' \in Nat
  BY <1>2 DEF Counts, NextBit, StartStop, Idles, Takes, LineTypes, IDLE, STOP
<1>7. r_busy' \in BOOLEAN BY <1>1 DEF TransmitterClock
<1>8. zero_baud_counter' \in BOOLEAN /\ (zero_baud_counter' <=> baud_counter' = 0)
  <2>1. CASE ~zero_baud_counter
    <3>1. zero_baud_counter' \in BOOLEAN /\ (zero_baud_counter' <=> LastClock)
      BY <1>1, <2>1 DEF TransmitterClock, LastClock
    <3>2. baud_counter' = baud_counter - 1 BY <1>1, <2>1 DEF TransmitterClock
    <3>3. LastClock <=> baud_counter' = 0 BY <3>2 DEF LastClock, LineTypes
    <3> QED BY <3>1, <3>3
  <2>2. CASE zero_baud_counter /\ state = IDLE
    <3>1. zero_baud_counter' \in BOOLEAN /\ (zero_baud_counter' <=> ~Accepts(Put))
      BY <1>1, <2>2 DEF TransmitterClock
    <3>2. ~Accepts(Put) <=> baud_counter' = 0
      <4>1. baud_counter' = IF Accepts(Put) THEN BAUDS - 1 ELSE 0 BY <1>1, <2>2 DEF TransmitterClock
      <4>2. BAUDS - 1 # 0 OBVIOUS
      <4> QED BY <4>1, <4>2
    <3> QED BY <3>1, <3>2
  <2>3. CASE zero_baud_counter /\ state # IDLE
    <3>1. zero_baud_counter' \in BOOLEAN /\ ~zero_baud_counter' BY <1>1, <2>3 DEF TransmitterClock
    <3>2. baud_counter' = IF last_state THEN BAUDS - 2 ELSE BAUDS - 1 BY <1>1, <2>3 DEF TransmitterClock
    <3>3. baud_counter' # 0 BY <3>2
    <3> QED BY <3>1, <3>3
  <2> QED BY <2>1, <2>2, <2>3
<1>9. o_uart_tx' \in 0..1 /\ lcl_data' \in Nat
  <2>1. lcl_data % 2 \in 0..1 /\ lcl_data \div 2 \in Nat BY DEF LineTypes
  <2>2. o_uart_tx' \in 0..1 BY <1>1, <2>1 DEF TransmitterClock, LowBit, LineTypes
  <2>3. Accepts(Put) => d \in Nat BY CharFacts DEF PutSound, Accepts
  <2> QED BY <1>1, <2>1, <2>2, <2>3 DEF Shifted, LineTypes
<1>10. ~r_busy' => /\ state' = IDLE /\ baud_counter' = 0
                   /\ cts'[1] = 0 /\ cts'[2] = 0 /\ cts'[3] = 0
  <2> SUFFICES ASSUME ~r_busy' PROVE state' = IDLE /\ baud_counter' = 0 /\ cts'[1] = 0 /\ cts'[2] = 0 /\ cts'[3] = 0
    OBVIOUS
  <2>1. Idles BY <1>2 DEF Counts, NextBit, StartStop, Takes
  <2>2. ~Accepts(Put) BY <2>1 DEF Idles, Accepts
  <2>3. r_busy' <=> cts[3] = 1
    <3>1. zero_baud_counter /\ state = IDLE BY <2>1 DEF Idles, TransmitterInv
    <3> QED BY <1>1, <2>2, <3>1 DEF TransmitterClock
  <2>4. cts[3] = 0 BY <2>3 DEF LineTypes
  <2>5. cts[1] = 0 /\ cts[2] = 0 BY <2>4 DEF LineTypes, TransmitterInv
  <2> QED BY <1>4, <2>1, <2>5 DEF Idles
<1>11. state' # IDLE => r_busy' /\ baud_counter' <= BAUDS - 1
  BY <1>2 DEF Counts, NextBit, StartStop, Idles, Takes, TransmitterInv, LineTypes
<1>12. (state' = IDLE => o_uart_tx' = 1) /\ (state' = 0 => o_uart_tx' = 0)
  BY <1>2 DEF Counts, NextBit, StartStop, Idles, Takes, TransmitterInv, LineTypes, IDLE, STOP
<1>13. state' = STOP => last_state' \/ baud_counter' = BAUDS - 1
  BY <1>2, <1>5 DEF Counts, NextBit, StartStop, Idles, Takes, TransmitterInv, LineTypes, IDLE, STOP
<1>14. state' < STOP => ~last_state'
  BY <1>2, <1>5 DEF Counts, NextBit, StartStop, Idles, Takes, TransmitterInv, LineTypes, IDLE, STOP
<1> HIDE BaudFacts
<1>15. TransmitterTypes' BY <1>4, <1>5, <1>6, <1>7, <1>8, <1>9 DEF TransmitterTypes
<1>16. TransmitterInv'
  BY <1>4, <1>8, <1>10, <1>11, <1>12, <1>13, <1>14 DEF TransmitterInv
<1> QED BY <1>15, <1>16

-----------------------------------------------------------------------------
(* The receivers, register by register.                                    *)

RxType == rx \in [busy : BOOLEAN, last : 0..1, baud : Int, bit : Nat, data : Nat, change : Nat]

Quiet      == printed' = printed /\ prints' = prints
Countdown  == rx'.busy /\ rx'.baud = rx.baud - 1 /\ rx'.bit = rx.bit /\ rx'.data = rx.data /\ Quiet
NoStart    == ~rx'.busy /\ Quiet
StartSeen  == rx'.busy /\ rx'.bit = 0 /\ rx'.data = 0 /\ Quiet
Sample     == rx'.busy /\ rx'.baud = BAUDS - 1 /\ rx'.bit = rx.bit + 1 /\ Quiet
Ends(c)    == ~rx'.busy /\ Shows(c)

Rx(b, l, n, k, d, c) == [busy |-> b, last |-> l, baud |-> n, bit |-> k, data |-> d, change |-> c]

LEMMA RxFields ==
  ASSUME NEW b \in BOOLEAN, NEW l \in 0..1, NEW n \in Int, NEW k \in Nat, NEW d \in Nat, NEW c \in Nat,
         rx' = Rx(b, l, n, k, d, c)
  PROVE  /\ RxType' /\ (rx'.busy <=> b) /\ rx'.last = l /\ rx'.baud = n /\ rx'.bit = k /\ rx'.data = d
         /\ rx'.change = c
BY DEF RxType, Rx

(* The bench's.                                                            *)
LEMMA BenchSteps ==
  ASSUME RxType, NEW rxd \in 0..1, BenchReceiver(rxd), rx.busy => rx.bit <= DATA_BITS + 1
  PROVE  /\ RxType' /\ rx'.last = rxd
         /\ ~rx.busy /\ rxd = 0 /\ rx.last = 1 => StartSeen /\ rx'.baud = HalfBaud
         /\ ~rx.busy /\ ~(rxd = 0 /\ rx.last = 1) => NoStart
         /\ rx.busy /\ rx.baud # 0 => Countdown
         /\ rx.busy /\ rx.baud = 0 /\ rx.bit <= DATA_BITS =>
              /\ Sample
              /\ rx'.data = IF rx.bit = 0 THEN rx.data ELSE rx.data + rxd * Pow2[rx.bit - 1]
         /\ rx.busy /\ rx.baud = 0 /\ rx.bit = DATA_BITS + 1 => Ends(rx.data)
<1> USE BaudFacts
<1>0. /\ rx.busy \in BOOLEAN /\ rx.baud \in Int /\ rx.baud - 1 \in Int /\ rx.bit \in Nat /\ rx.bit + 1 \in Nat
      /\ rx.data \in Nat /\ rx.change \in Nat
  BY DEF RxType
<1>1. CASE ~rx.busy /\ rxd = 0 /\ rx.last = 1
  <2>1. rx' = [rx EXCEPT !.busy = TRUE, !.baud = HalfBaud, !.bit = 0, !.data = 0, !.last = rxd] /\ Quiet
    BY <1>1 DEF BenchReceiver, ShowsNothing, Quiet
  <2>2. rx' = Rx(TRUE, rxd, HalfBaud, 0, 0, rx.change) BY <2>1 DEF Rx, RxType
  <2>3. RxType' /\ rx'.last = rxd /\ rx'.busy /\ rx'.baud = HalfBaud /\ rx'.bit = 0 /\ rx'.data = 0
    <3>1. TRUE \in BOOLEAN /\ HalfBaud \in Int /\ 0 \in Nat OBVIOUS
    <3> QED BY <1>0, <2>2, <3>1, RxFields, ZenonT(40)
  <2> QED BY <1>1, <2>1, <2>3 DEF StartSeen
<1>2. CASE ~rx.busy /\ ~(rxd = 0 /\ rx.last = 1)
  <2>1. rx' = [rx EXCEPT !.last = rxd] /\ Quiet
    BY <1>2 DEF BenchReceiver, ShowsNothing, Quiet
  <2>2. rx' = Rx(rx.busy, rxd, rx.baud, rx.bit, rx.data, rx.change) BY <2>1 DEF Rx, RxType
  <2>3. RxType' /\ rx'.last = rxd /\ ~rx'.busy BY <1>0, <1>2, <2>2, RxFields
  <2> QED BY <1>2, <2>1, <2>3 DEF NoStart
<1>3. CASE rx.busy /\ rx.baud # 0
  <2>1. rx' = [rx EXCEPT !.baud = @ - 1, !.last = rxd] /\ Quiet
    BY <1>3 DEF BenchReceiver, ShowsNothing, Quiet
  <2>2. rx' = Rx(rx.busy, rxd, rx.baud - 1, rx.bit, rx.data, rx.change) BY <2>1 DEF Rx, RxType
  <2>3. RxType' /\ rx'.last = rxd /\ rx'.busy /\ rx'.baud = rx.baud - 1 /\ rx'.bit = rx.bit /\ rx'.data = rx.data
    <3>1. /\ RxType' /\ (rx'.busy <=> rx.busy) /\ rx'.last = rxd /\ rx'.baud = rx.baud - 1
          /\ rx'.bit = rx.bit /\ rx'.data = rx.data
      BY SMTT(30), <1>0, <2>2, RxFields
    <3> QED BY <1>3, <3>1
  <2> QED BY <1>3, <2>1, <2>3 DEF Countdown
<1>4. CASE rx.busy /\ rx.baud = 0
  <2> DEFINE d == IF rx.bit \in 1..DATA_BITS THEN rx.data + rxd * Pow2[rx.bit - 1] ELSE rx.data
             more == rx.bit # DATA_BITS + 1
  <2>1. d \in Nat /\ more \in BOOLEAN
    <3>1. rx.bit \in 1..DATA_BITS => Pow2[rx.bit - 1] \in Nat BY PowerFacts
    <3>2. \A p \in Nat : rx.data + rxd * p \in Nat BY <1>0
    <3> QED BY <1>0, <3>1, <3>2
  <2>2. rx' = [rx EXCEPT !.baud = BAUDS - 1, !.bit = @ + 1, !.last = rxd, !.busy = more, !.data = d]
    BY <1>4 DEF BenchReceiver
  <2>3. rx.bit <= DATA_BITS => Quiet BY <1>4 DEF BenchReceiver, ShowsNothing, Quiet
  <2>4. rx.bit = DATA_BITS + 1 => Shows(rx.data) BY <1>4 DEF BenchReceiver
  <2>5. rx.bit <= DATA_BITS => more /\ d = IF rx.bit = 0 THEN rx.data ELSE rx.data + rxd * Pow2[rx.bit - 1]
    BY <1>0
  <2>6. rx.bit = DATA_BITS + 1 => ~more OBVIOUS
  <2> HIDE DEF d, more
  <2>7. rx' = Rx(more, rxd, BAUDS - 1, rx.bit + 1, d, rx.change) BY <2>2 DEF Rx, RxType
  <2>8. /\ RxType' /\ rx'.last = rxd /\ (rx'.busy <=> more) /\ rx'.baud = BAUDS - 1 /\ rx'.bit = rx.bit + 1
        /\ rx'.data = d
    <3>1. BAUDS - 1 \in Int OBVIOUS
    <3> QED BY SMTT(30), <1>0, <2>1, <2>7, <3>1, RxFields
  <2> QED BY <1>4, <2>3, <2>4, <2>5, <2>6, <2>8 DEF Sample, Ends
<1> QED BY <1>1, <1>2, <1>3, <1>4

(* The archived one.                                                       *)
LEMMA ArchivedSteps ==
  ASSUME RxType, NEW i_tx \in 0..1, ArchivedReceiver(i_tx), rx.busy => rx.bit <= DATA_BITS + 1
  PROVE  /\ RxType' /\ rx'.last = i_tx /\ rx'.change = FallenFor(i_tx)
         /\ ~rx.busy /\ i_tx = 0 => StartSeen /\ rx'.baud = BAUDS + HalfBaud - 1 - FallenFor(i_tx)
         /\ ~rx.busy /\ i_tx # 0 => NoStart
         /\ rx.busy /\ rx.baud > 0 => Countdown
         /\ rx.busy /\ rx.baud <= 0 /\ rx.bit <= DATA_BITS =>
              Sample /\ rx'.data = rx.data + i_tx * Pow2[rx.bit]
         /\ rx.busy /\ rx.baud <= 0 /\ rx.bit = DATA_BITS + 1 => Ends(rx.data % Pow2[DATA_BITS])
<1> USE BaudFacts
<1> DEFINE n == FallenFor(i_tx)
<1>0. /\ rx.busy \in BOOLEAN /\ rx.baud \in Int /\ rx.baud - 1 \in Int /\ rx.bit \in Nat /\ rx.bit + 1 \in Nat
      /\ rx.data \in Nat /\ rx.change \in Nat /\ BAUDS - 1 \in Int
  BY DEF RxType
<1>1. n \in Nat /\ BAUDS + HalfBaud - 1 - n \in Int BY <1>0 DEF FallenFor
<1> HIDE DEF n
<1>2. CASE ~rx.busy /\ i_tx = 0
  <2>1. rx' = [rx EXCEPT !.change = n, !.last = i_tx, !.busy = TRUE, !.bit = 0, !.data = 0,
                         !.baud = BAUDS + HalfBaud - 1 - n] /\ Quiet
    BY <1>2 DEF ArchivedReceiver, ShowsNothing, Quiet, HalfBaud, n, RxType
  <2>2. rx' = Rx(TRUE, i_tx, BAUDS + HalfBaud - 1 - n, 0, 0, n) BY <2>1 DEF Rx, RxType
  <2>3. /\ RxType' /\ rx'.last = i_tx /\ rx'.change = n /\ rx'.busy /\ rx'.bit = 0 /\ rx'.data = 0
        /\ rx'.baud = BAUDS + HalfBaud - 1 - n
    BY <1>1, <2>2, RxFields
  <2> QED BY <1>2, <2>1, <2>3 DEF StartSeen, n
<1>3. CASE ~rx.busy /\ i_tx # 0
  <2>1. rx' = [rx EXCEPT !.change = n, !.last = i_tx] /\ Quiet
    BY <1>3 DEF ArchivedReceiver, ShowsNothing, Quiet, n
  <2>2. rx' = Rx(rx.busy, i_tx, rx.baud, rx.bit, rx.data, n) BY <2>1 DEF Rx, RxType
  <2>3. RxType' /\ rx'.last = i_tx /\ rx'.change = n /\ ~rx'.busy BY <1>0, <1>1, <1>3, <2>2, RxFields
  <2> QED BY <1>3, <2>1, <2>3 DEF NoStart, n
<1>4. CASE rx.busy /\ rx.baud > 0
  <2>1. rx' = [rx EXCEPT !.change = n, !.last = i_tx, !.baud = @ - 1] /\ Quiet
    BY <1>4 DEF ArchivedReceiver, ShowsNothing, Quiet, n, RxType
  <2>2. rx' = Rx(rx.busy, i_tx, rx.baud - 1, rx.bit, rx.data, n) BY <2>1 DEF Rx, RxType
  <2>3. /\ RxType' /\ rx'.last = i_tx /\ rx'.change = n /\ rx'.busy /\ rx'.baud = rx.baud - 1
        /\ rx'.bit = rx.bit /\ rx'.data = rx.data
    <3>1. RxType' /\ rx'.last = i_tx /\ rx'.change = n /\ (rx'.busy <=> rx.busy) /\ rx'.baud = rx.baud - 1
          /\ rx'.bit = rx.bit /\ rx'.data = rx.data
      BY ZenonT(30), <1>0, <1>1, <2>2, RxFields
    <3> QED BY <1>4, <3>1
  <2> QED BY <1>0, <1>4, <2>1, <2>3 DEF Countdown, n
<1>5. CASE rx.busy /\ rx.baud <= 0 /\ rx.bit <= DATA_BITS
  <2> DEFINE d == rx.data + i_tx * Pow2[rx.bit]
  <2>1. rx' = [rx EXCEPT !.change = n, !.last = i_tx, !.baud = BAUDS - 1, !.bit = @ + 1, !.data = d] /\ Quiet
    BY <1>0, <1>5 DEF ArchivedReceiver, ShowsNothing, Quiet, n, RxType
  <2>2. d \in Nat
    <3>1. Pow2[rx.bit] \in Nat BY <1>0, <1>5, PowerFacts
    <3>2. \A p \in Nat : rx.data + i_tx * p \in Nat BY <1>0
    <3> QED BY <3>1, <3>2
  <2> HIDE DEF d
  <2>3. rx' = Rx(rx.busy, i_tx, BAUDS - 1, rx.bit + 1, d, n) BY <2>1 DEF Rx, RxType
  <2>4. /\ RxType' /\ rx'.last = i_tx /\ rx'.change = n /\ rx'.busy /\ rx'.baud = BAUDS - 1
        /\ rx'.bit = rx.bit + 1 /\ rx'.data = d
    BY <1>0, <1>1, <1>5, <2>2, <2>3, RxFields
  <2> QED BY <1>0, <1>5, <2>1, <2>4 DEF Sample, n, d
<1>6. CASE rx.busy /\ rx.baud <= 0 /\ rx.bit = DATA_BITS + 1
  <2>1. rx' = [rx EXCEPT !.change = n, !.last = i_tx, !.baud = BAUDS - 1, !.busy = FALSE]
        /\ Shows(rx.data % Pow2[DATA_BITS])
    BY <1>0, <1>6 DEF ArchivedReceiver, n, RxType
  <2>2. rx' = Rx(FALSE, i_tx, BAUDS - 1, rx.bit, rx.data, n) BY <2>1 DEF Rx, RxType
  <2>3. RxType' /\ rx'.last = i_tx /\ rx'.change = n /\ ~rx'.busy BY <1>0, <1>1, <2>2, RxFields
  <2> QED BY <1>0, <1>6, <2>1, <2>3 DEF Ends, n
<1>7. rx.busy => rx.bit <= DATA_BITS \/ rx.bit = DATA_BITS + 1 BY <1>0
<1>8. rx.baud > 0 \/ rx.baud <= 0 BY <1>0
<1> QED BY <1>2, <1>3, <1>4, <1>5, <1>6, <1>7, <1>8

-----------------------------------------------------------------------------
(* The characters underway.                                                *)

Underway == underway' = IF Put THEN Append(Remaining, Head(todo)) ELSE Remaining

(* What a clock shows is the oldest character underway.                    *)
ShowsOldest == underway # <<>> /\ Shows(Head(underway))

LEMMA UnderwaySteps ==
  ASSUME LineTypes, Underway, PutSound
  PROVE  /\ Quiet /\ ~Put => underway' = underway
         /\ Quiet /\ Put => underway' = Append(underway, Head(todo))
         /\ ShowsOldest /\ ~Put => underway' = Tail(underway)
         /\ ShowsOldest /\ Put => underway' = Append(Tail(underway), Head(todo))
         /\ Quiet \/ ShowsOldest =>
              underway' \in Seq(Char) /\ printed' \in Char /\ prints' \in 0..1
<1>1. CASE Quiet
  <2>1. Remaining = underway BY <1>1 DEF Quiet, Remaining
  <2>2. ~ShowsOldest BY <1>1 DEF Quiet, ShowsOldest, Shows, LineTypes
  <2> QED BY <1>1, <2>1, <2>2 DEF Underway, Quiet, LineTypes, PutSound
<1>2. CASE ShowsOldest
  <2>1. ~Quiet BY <1>2 DEF Quiet, ShowsOldest, Shows, LineTypes
  <2>2. prints' # prints BY <1>2 DEF ShowsOldest, Shows, LineTypes
  <2>3. Remaining = Tail(underway) BY <1>2, <2>2 DEF ShowsOldest, Remaining
  <2>4. Head(underway) \in Char /\ Tail(underway) \in Seq(Char) BY <1>2 DEF ShowsOldest, LineTypes
  <2>5. printed' \in Char /\ prints' \in 0..1 BY <1>2, <2>4 DEF ShowsOldest, Shows, LineTypes
  <2> QED BY <1>2, <2>1, <2>3, <2>4, <2>5 DEF Underway, PutSound
<1> QED BY <1>1, <1>2

LEMMA ShortQueues ==
  ASSUME NEW q \in Seq(Char), Len(q) > 0
  PROVE  /\ q # <<>> /\ q[1] \in Char /\ Head(q) = q[1] /\ Tail(q) \in Seq(Char)
         /\ Len(Tail(q)) = Len(q) - 1
         /\ Len(q) = 1 => Tail(q) = <<>>
         /\ Len(q) = 2 => Tail(q)[1] = q[2] /\ q[2] \in Char
<1>1. Len(q) \in Nat /\ q # <<>> OBVIOUS
<1>2. q[1] \in Char /\ Head(q) = q[1] BY <1>1
<1>3. Tail(q) \in Seq(Char) /\ Len(Tail(q)) = Len(q) - 1 BY <1>1
<1>4. Len(q) = 1 => Tail(q) = <<>>
  <2> SUFFICES ASSUME Len(q) = 1 PROVE Tail(q) = <<>> OBVIOUS
  <2>1. \A t \in Seq(Char) : Len(t) = 0 => t = <<>> OBVIOUS
  <2>2. Len(Tail(q)) = 0 BY <1>3
  <2> QED BY <1>3, <2>1, <2>2, Zenon
<1>5. Len(q) = 2 => Tail(q)[1] = q[2] /\ q[2] \in Char
  <2> SUFFICES ASSUME Len(q) = 2 PROVE Tail(q)[1] = q[2] /\ q[2] \in Char OBVIOUS
  <2>1. 2 \in 1..Len(q) /\ 1 \in 1..(Len(q) - 1) OBVIOUS
  <2>2. q[2] \in Char BY <2>1
  <2>3. Tail(q)[1] = q[1 + 1] BY <1>1, <2>1
  <2> QED BY <2>2, <2>3
<1> QED BY <1>1, <1>2, <1>3, <1>4, <1>5

LEMMA OneMore ==
  ASSUME NEW q \in Seq(Char), Len(q) = 1, NEW c \in Char
  PROVE  Len(Append(q, c)) = 2 /\ Append(q, c)[1] = q[1] /\ Append(q, c)[2] = c
<1>1. /\ Len(Append(q, c)) = Len(q) + 1
      /\ Append(q, c)[1] = q[1]
  OBVIOUS
<1>2. Append(q, c)[Len(q) + 1] = c BY SMTT(30), AppendProperties
<1>3. 1 \in 1..Len(q) /\ Len(q) + 1 = 2 OBVIOUS
<1> QED BY <1>1, <1>2, <1>3, Zenon

(* When all bits of a character are heard, its value is known.             *)
LEMMA HeardAll == ASSUME LineTypes, Len(underway) = 1, Heard(DATA_BITS) PROVE rx.data = underway[1]
<1>1. underway[1] \in Char
  <2>1. underway \in Seq(Char) BY DEF LineTypes
  <2> QED BY <2>1, ShortQueues
<1>2. underway[1] \in Nat /\ underway[1] < Pow2[DATA_BITS] BY <1>1, CharFacts
<1>3. rx.data \in Nat /\ lcl_data \in Nat BY DEF LineTypes
<1>4. Pow2[DATA_BITS] \in Nat BY PowerFacts, BaudFacts
<1>5. underway[1] = rx.data + Pow2[DATA_BITS] * lcl_data BY DEF Heard
<1> DEFINE p == Pow2[DATA_BITS]  q == p * lcl_data
<1>6. p \in Nat /\ q \in Nat /\ q < p
  <2>1. q \in Nat BY <1>3, <1>4
  <2> HIDE DEF q
  <2>2. underway[1] = rx.data + q BY <1>5 DEF q
  <2> QED BY <1>2, <1>3, <1>4, <2>1, <2>2
<1> HIDE DEF p
<1>7. lcl_data = 0 BY <1>3, <1>6, NothingLeft
<1>8. q = 0 BY <1>6, <1>7
<1> QED BY <1>3, <1>5, <1>8 DEF p

BenchPhase == Rest \/ BStart \/ BBefore \/ BAfter \/ BStop

(* The bench's receiver: each of its phases leads to one of them, and it   *)
(* is done before the line can take the next character.                    *)
LEMMA BenchKeeps ==
  ASSUME LineTypes, TransmitterInv, PutSound, Underway, BenchPhase,
         o_uart_tx' \in 0..1, BenchReceiver(o_uart_tx'),
         Counts \/ NextBit \/ StartStop \/ Idles \/ Takes
  PROVE  /\ RxType' /\ rx'.last = o_uart_tx' /\ BenchPhase'
         /\ Quiet \/ ShowsOldest
         /\ Put => Len(underway) = 0
<1> USE BaudFacts
<1>1. RxType /\ rx.last = o_uart_tx /\ baud_counter \in Nat /\ o_uart_tx \in 0..1
  BY DEF LineTypes, RxType, TransmitterInv
<1>2. rx.busy => rx.bit <= DATA_BITS + 1 BY DEF BenchPhase, Rest, BStart, BBefore, BAfter, BStop, STOP
<1>3. /\ RxType' /\ rx'.last = o_uart_tx'
      /\ ~rx.busy /\ o_uart_tx' = 0 /\ rx.last = 1 => StartSeen /\ rx'.baud = HalfBaud
      /\ ~rx.busy /\ ~(o_uart_tx' = 0 /\ rx.last = 1) => NoStart
      /\ rx.busy /\ rx.baud # 0 => Countdown
      /\ rx.busy /\ rx.baud = 0 /\ rx.bit <= DATA_BITS =>
           /\ Sample
           /\ rx'.data = IF rx.bit = 0 THEN rx.data ELSE rx.data + o_uart_tx' * Pow2[rx.bit - 1]
      /\ rx.busy /\ rx.baud = 0 /\ rx.bit = DATA_BITS + 1 => Ends(rx.data)
  BY <1>1, <1>2, BenchSteps
<1>4. CASE Rest
  <2>1. state = IDLE /\ ~rx.busy /\ underway = <<>> /\ rx.last = 1
    BY <1>1, <1>4 DEF Rest, TransmitterInv
  <2>2. CASE Counts \/ Idles
    <3>1. o_uart_tx' = 1 /\ ~Put /\ state' = IDLE BY <1>1, <2>1, <2>2 DEF Counts, Idles
    <3>2. NoStart BY <1>3, <2>1, <3>1
    <3>3. underway' = <<>> BY <2>1, <3>1, <3>2, UnderwaySteps DEF NoStart
    <3>4. Rest' BY <3>1, <3>2, <3>3 DEF Rest, NoStart
    <3> QED BY <1>3, <3>1, <3>2, <3>4 DEF BenchPhase, NoStart
  <2>3. CASE Takes
    <3>1. StartSeen /\ rx'.baud = HalfBaud BY <1>3, <2>1, <2>3 DEF Takes
    <3>2. underway' = Append(<<>>, Head(todo)) BY <2>1, <2>3, <3>1, UnderwaySteps DEF StartSeen, Takes
    <3>3. Len(underway') = 1 /\ underway'[1] = lcl_data' BY <2>3, <3>2 DEF Takes
    <3>4. BStart'
      BY <2>3, <3>1, <3>3 DEF BStart, StartSeen, Takes
    <3> QED BY <1>3, <2>1, <3>1, <3>4 DEF BenchPhase, StartSeen
  <2> QED BY <2>1, <2>2, <2>3 DEF NextBit, StartStop, IDLE, STOP
<1>5. CASE BStart \/ BBefore
  <2>1. Counts /\ state # IDLE
    BY <1>1, <1>5 DEF BStart, BBefore, NextBit, StartStop, Idles, Takes, IDLE, STOP
  <2>2. CASE rx.baud # 0
    <3>1. Countdown BY <1>3, <1>5, <2>2 DEF BStart, BBefore
    <3>2. underway' = underway BY <2>1, <3>1, UnderwaySteps DEF Countdown, Counts
    <3>3. BStart' \/ BBefore'
      BY <1>1, <1>5, <2>1, <2>2, <3>1, <3>2 DEF BStart, BBefore, Counts, Countdown, ToHear, RxType
    <3> QED BY <1>3, <2>1, <3>1, <3>3 DEF BenchPhase, Countdown, Counts
  <2>3. CASE rx.baud = 0
    <3>1. rx.busy /\ rx.bit = state /\ state \in 0..STOP /\ Len(underway) = 1
          /\ baud_counter = BAUDS - 1 - HalfBaud
      BY <1>1, <1>5, <2>3 DEF BStart, BBefore, STOP
    <3>2. /\ Sample
          /\ rx'.data = IF rx.bit = 0 THEN rx.data ELSE rx.data + o_uart_tx' * Pow2[rx.bit - 1]
      BY <1>3, <2>3, <3>1 DEF STOP
    <3>3. underway' = underway BY <2>1, <3>2, UnderwaySteps DEF Sample, Counts
    <3>4. Heard(state)'
      <4>1. CASE state = 0
        <5>1. underway[1] = lcl_data /\ rx.data = 0 BY <1>5, <4>1 DEF BStart, BBefore
        <5>2. rx'.data = 0 /\ lcl_data' = lcl_data /\ state' = 0 BY <2>1, <3>1, <3>2, <4>1, <5>1 DEF Counts
        <5> QED BY <3>3, <4>1, <5>1, <5>2, PowerFacts DEF Heard, LineTypes
      <4>2. CASE state # 0
        <5>1. ToHear(state - 1) /\ state \in 1..DATA_BITS BY <1>5, <3>1, <4>2 DEF BStart, BBefore, STOP
        <5>2. Pow2[state - 1] \in Nat /\ Pow2[state] = 2 * Pow2[state - 1] BY <5>1, PowerFacts
        <5>3. rx.data \in Nat /\ lcl_data \in Nat BY DEF LineTypes
        <5>4. underway[1] = (rx.data + o_uart_tx * Pow2[state - 1]) + Pow2[state] * lcl_data
          BY <1>1, <5>1, <5>2, <5>3, OneBitMore DEF ToHear
        <5>5. rx'.data = rx.data + o_uart_tx * Pow2[state - 1] /\ lcl_data' = lcl_data /\ state' = state
          BY <2>1, <3>1, <3>2, <4>2 DEF Counts
        <5> QED BY <3>3, <5>4, <5>5 DEF Heard
      <4> QED BY <4>1, <4>2
    <3>5. BAfter' BY <1>1, <2>1, <3>1, <3>2, <3>3, <3>4 DEF BAfter, Counts, Sample
    <3> QED BY <1>3, <2>1, <3>2, <3>5 DEF BenchPhase, Sample, Counts
  <2> QED BY <2>2, <2>3
<1>6. CASE BAfter
  <2>1. Countdown BY <1>1, <1>3, <1>6 DEF BAfter
  <2>2. ~Put /\ state \in 0..STOP
    BY <1>6 DEF BAfter, Counts, NextBit, StartStop, Takes, Idles, IDLE, STOP
  <2>3. underway' = underway BY <2>1, <2>2, UnderwaySteps DEF Countdown
  <2>4. CASE Counts
    <3>1. BAfter' BY <1>1, <1>6, <2>1, <2>3, <2>4 DEF BAfter, Counts, Countdown, Heard
    <3> QED BY <1>3, <2>1, <2>2, <3>1 DEF BenchPhase, Countdown
  <2>5. CASE NextBit
    <3>1. state' - 1 = state /\ state' \in 1..STOP BY <2>2, <2>5 DEF NextBit, STOP
    <3>2. ToHear(state - 1)' BY <1>6, <2>1, <2>3, <2>5, <3>1 DEF BAfter, NextBit, Countdown, Heard, ToHear
    <3>3. BBefore' BY <1>1, <1>6, <2>1, <2>3, <2>5, <3>1, <3>2 DEF BAfter, BBefore, NextBit, Countdown
    <3> QED BY <1>3, <2>1, <2>2, <3>3 DEF BenchPhase, Countdown
  <2>6. CASE StartStop
    <3>1. rx.data = underway[1] BY <1>6, <2>6, HeardAll DEF BAfter, StartStop, STOP
    <3>2. BStop' BY <1>1, <1>6, <2>1, <2>3, <2>6, <3>1 DEF BAfter, BStop, StartStop, Countdown, STOP, IDLE
    <3> QED BY <1>3, <2>1, <2>2, <3>2 DEF BenchPhase, Countdown
  <2> QED BY <2>2, <2>4, <2>5, <2>6 DEF Idles, Takes, IDLE, STOP
<1>7. CASE BStop
  <2>1. ~Put /\ state' = IDLE /\ (Counts \/ Idles)
    BY <1>7 DEF BStop, Counts, Idles, Takes, NextBit, StartStop, IDLE, STOP
  <2>2. CASE rx.baud # 0
    <3>1. Countdown /\ Counts BY <1>1, <1>3, <1>7, <2>1, <2>2 DEF BStop, Idles
    <3>2. underway' = underway BY <2>1, <3>1, UnderwaySteps DEF Countdown
    <3>3. BStop' BY <1>1, <1>7, <2>2, <3>1, <3>2 DEF BStop, Counts, Countdown, RxType
    <3> QED BY <1>3, <2>1, <3>1, <3>3 DEF BenchPhase, Countdown
  <2>3. CASE rx.baud = 0
    <3>1. Ends(rx.data) BY <1>3, <1>7, <2>3 DEF BStop
    <3>2. underway # <<>> /\ Head(underway) = underway[1] /\ Tail(underway) = <<>>
      <4>1. underway \in Seq(Char) /\ Len(underway) = 1 BY <1>7 DEF BStop, LineTypes
      <4> QED BY <4>1, ShortQueues
    <3>3. ShowsOldest BY <1>7, <3>1, <3>2 DEF ShowsOldest, BStop, Ends
    <3>4. underway' = <<>> BY <2>1, <3>2, <3>3, UnderwaySteps
    <3>5. Rest' BY <2>1, <3>1, <3>4 DEF Rest, Ends
    <3> QED BY <1>3, <2>1, <3>3, <3>5 DEF BenchPhase
  <2> QED BY <2>2, <2>3
<1> QED BY <1>4, <1>5, <1>6, <1>7 DEF BenchPhase

(* The stop bit, counted as one bit more, does not show.                   *)
LEMMA StopShown ==
  ASSUME underway \in Seq(Char), Len(underway) > 0, AHeard
  PROVE  underway # <<>> /\ rx.data % Pow2[DATA_BITS] = Head(underway)
<1>1. underway # <<>> /\ Head(underway) = underway[1] /\ underway[1] \in Char BY ShortQueues
<1>2. underway[1] \in Nat /\ underway[1] < Pow2[DATA_BITS] /\ Pow2[DATA_BITS] \in Nat
  <2>1. underway[1] \in Nat /\ underway[1] < Pow2[DATA_BITS] BY <1>1, CharFacts
  <2>2. DATA_BITS \in 0..DATA_BITS BY BaudFacts
  <2>3. Pow2[DATA_BITS] \in Nat BY <2>2, PowerFacts
  <2> QED BY <2>1, <2>3
<1>3. (underway[1] + Pow2[DATA_BITS]) % Pow2[DATA_BITS] = underway[1] BY <1>2, StopBitDropped
<1> QED BY <1>1, <1>3 DEF AHeard

ArchivedPhase == Rest \/ AStart \/ ABefore \/ AAfter \/ AStopBefore \/ AStopAfter \/ AOverlap \/ AMissed

(* The archived receiver: it can show a character while the line has the   *)
(* next one already, and still knows when that one's start bit began.      *)
LEMMA ArchivedKeeps ==
  ASSUME LineTypes, TransmitterInv, PutSound, Underway, ArchivedPhase,
         o_uart_tx' \in 0..1, ArchivedReceiver(o_uart_tx'),
         Counts \/ NextBit \/ StartStop \/ Idles \/ Takes
  PROVE  /\ RxType' /\ rx'.last = o_uart_tx' /\ ArchivedPhase'
         /\ Quiet \/ ShowsOldest
         /\ Put => Len(underway) <= 1
<1> USE BaudFacts
<1>1. /\ RxType /\ rx.last = o_uart_tx /\ baud_counter \in Nat /\ o_uart_tx \in 0..1 /\ rx.baud \in Int
      /\ underway \in Seq(Char)
  BY DEF LineTypes, RxType, TransmitterInv
<1>2. rx.busy => rx.bit <= DATA_BITS + 1
  BY DEF ArchivedPhase, Rest, AStart, ABefore, AAfter, AStopBefore, AStopAfter, AOverlap, AHeard, AMissed, STOP
<1>3. /\ RxType' /\ rx'.last = o_uart_tx' /\ rx'.change = FallenFor(o_uart_tx')
      /\ ~rx.busy /\ o_uart_tx' = 0 => StartSeen /\ rx'.baud = BAUDS + HalfBaud - 1 - FallenFor(o_uart_tx')
      /\ ~rx.busy /\ o_uart_tx' # 0 => NoStart
      /\ rx.busy /\ rx.baud > 0 => Countdown
      /\ rx.busy /\ rx.baud <= 0 /\ rx.bit <= DATA_BITS =>
           Sample /\ rx'.data = rx.data + o_uart_tx' * Pow2[rx.bit]
      /\ rx.busy /\ rx.baud <= 0 /\ rx.bit = DATA_BITS + 1 => Ends(rx.data % Pow2[DATA_BITS])
  BY <1>1, <1>2, ArchivedSteps
<1>4. rx.last = 1 => FallenFor(0) = 0 BY DEF FallenFor
<1>5. CASE Rest
  <2>1. state = IDLE /\ ~rx.busy /\ underway = <<>> /\ rx.last = 1
    BY <1>1, <1>5 DEF Rest, TransmitterInv
  <2>2. CASE Counts \/ Idles
    <3>1. o_uart_tx' = 1 /\ ~Put /\ state' = IDLE BY <1>1, <2>1, <2>2 DEF Counts, Idles
    <3>2. NoStart BY <1>3, <2>1, <3>1
    <3>3. underway' = <<>> BY <2>1, <3>1, <3>2, UnderwaySteps DEF NoStart
    <3>4. Rest' BY <3>1, <3>2, <3>3 DEF Rest, NoStart
    <3> QED BY <1>3, <3>1, <3>2, <3>4 DEF ArchivedPhase, NoStart
  <2>3. CASE Takes
    <3>1. StartSeen /\ rx'.baud = BAUDS + HalfBaud - 1 BY <1>3, <1>4, <2>1, <2>3 DEF Takes
    <3>2. underway' = Append(<<>>, Head(todo)) BY <2>1, <2>3, <3>1, UnderwaySteps DEF StartSeen, Takes
    <3>3. Len(underway') = 1 /\ underway'[1] = lcl_data' BY <2>3, <3>2 DEF Takes
    <3>4. AStart' BY <2>3, <3>1, <3>3 DEF AStart, StartSeen, Takes
    <3> QED BY <1>3, <2>1, <3>1, <3>4 DEF ArchivedPhase, StartSeen
  <2> QED BY <2>1, <2>2, <2>3 DEF NextBit, StartStop, IDLE, STOP
<1>6. CASE AStart
  <2>1. Countdown BY <1>1, <1>3, <1>6 DEF AStart
  <2>2. ~Put /\ (Counts \/ NextBit)
    BY <1>6 DEF AStart, Counts, NextBit, StartStop, Takes, Idles, IDLE, STOP
  <2>3. underway' = underway BY <2>1, <2>2, UnderwaySteps DEF Countdown
  <2>4. CASE Counts
    <3>1. AStart' BY <1>1, <1>6, <2>1, <2>3, <2>4 DEF AStart, Counts, Countdown
    <3> QED BY <1>3, <2>1, <2>2, <3>1 DEF ArchivedPhase, Countdown
  <2>5. CASE NextBit
    <3>1. state' = 1 /\ state' \in 1..STOP BY <1>6, <2>5 DEF AStart, NextBit, STOP
    <3>2. ToHear(0)'
      <4>1. underway[1] = o_uart_tx' + 2 * lcl_data' /\ underway[1] \in Nat /\ rx'.data = 0
        BY <1>6, <2>1, <2>5 DEF AStart, NextBit, Countdown, LineTypes
      <4> QED BY <2>3, <4>1, PowerFacts DEF ToHear
    <3>3. ABefore' BY <1>1, <1>6, <2>1, <2>3, <2>5, <3>1, <3>2 DEF AStart, ABefore, NextBit, Countdown
    <3> QED BY <1>3, <2>1, <2>2, <3>3 DEF ArchivedPhase, Countdown
  <2> QED BY <2>2, <2>4, <2>5
<1>7. CASE ABefore
  <2>1. Counts /\ state \in 1..STOP
    BY <1>1, <1>7 DEF ABefore, NextBit, StartStop, Idles, Takes, IDLE, STOP
  <2>2. CASE rx.baud > 0
    <3>1. Countdown BY <1>3, <1>7, <2>2 DEF ABefore
    <3>2. underway' = underway BY <2>1, <3>1, UnderwaySteps DEF Countdown, Counts
    <3>3. ABefore' BY <1>1, <1>7, <2>1, <2>2, <3>1, <3>2 DEF ABefore, Counts, Countdown, ToHear
    <3> QED BY <1>3, <2>1, <3>1, <3>3 DEF ArchivedPhase, Countdown, Counts
  <2>3. CASE rx.baud = 0
    <3>1. rx.busy /\ rx.bit = state - 1 /\ Len(underway) = 1 /\ baud_counter = BAUDS - HalfBaud /\ ToHear(state - 1)
      BY <1>1, <1>7, <2>3 DEF ABefore
    <3>2. Sample /\ rx'.data = rx.data + o_uart_tx' * Pow2[rx.bit]
      BY <1>3, <2>1, <2>3, <3>1 DEF STOP
    <3>3. underway' = underway BY <2>1, <3>2, UnderwaySteps DEF Sample, Counts
    <3>4. Heard(state)'
      <4>1. Pow2[state - 1] \in Nat /\ Pow2[state] = 2 * Pow2[state - 1] BY <2>1, PowerFacts DEF STOP
      <4>2. rx.data \in Nat /\ lcl_data \in Nat BY DEF LineTypes
      <4>3. underway[1] = (rx.data + o_uart_tx * Pow2[state - 1]) + Pow2[state] * lcl_data
        BY <1>1, <3>1, <4>1, <4>2, OneBitMore DEF ToHear
      <4>4. rx'.data = rx.data + o_uart_tx * Pow2[state - 1] /\ lcl_data' = lcl_data /\ state' = state
        BY <2>1, <3>1, <3>2 DEF Counts
      <4> QED BY <3>3, <4>3, <4>4 DEF Heard
    <3>5. AAfter' BY <1>1, <2>1, <3>1, <3>2, <3>3, <3>4 DEF AAfter, Counts, Sample
    <3> QED BY <1>3, <2>1, <3>2, <3>5 DEF ArchivedPhase, Sample, Counts
  <2> QED BY <1>1, <1>7, <2>2, <2>3 DEF ABefore
<1>8. CASE AAfter
  <2>1. Countdown BY <1>1, <1>3, <1>8 DEF AAfter
  <2>2. ~Put /\ state \in 1..STOP /\ (Counts \/ NextBit \/ StartStop)
    BY <1>8 DEF AAfter, Counts, NextBit, StartStop, Takes, Idles, IDLE, STOP
  <2>3. underway' = underway BY <2>1, <2>2, UnderwaySteps DEF Countdown
  <2>4. CASE Counts
    <3>1. AAfter' BY <1>1, <1>8, <2>1, <2>3, <2>4 DEF AAfter, Counts, Countdown, Heard
    <3> QED BY <1>3, <2>1, <2>2, <3>1 DEF ArchivedPhase, Countdown
  <2>5. CASE NextBit
    <3>1. state' - 1 = state /\ state' \in 1..STOP BY <2>2, <2>5 DEF NextBit, STOP
    <3>2. ToHear(state - 1)' BY <1>8, <2>1, <2>3, <2>5, <3>1 DEF AAfter, NextBit, Countdown, Heard, ToHear
    <3>3. ABefore' BY <1>1, <1>8, <2>1, <2>3, <2>5, <3>1, <3>2 DEF AAfter, ABefore, NextBit, Countdown
    <3> QED BY <1>3, <2>1, <2>2, <3>3 DEF ArchivedPhase, Countdown
  <2>6. CASE StartStop
    <3>1. rx.data = underway[1] BY <1>8, <2>6, HeardAll DEF AAfter, StartStop, STOP
    <3>2. AStopBefore'
      BY <1>1, <1>8, <2>1, <2>3, <2>6, <3>1 DEF AAfter, AStopBefore, StartStop, Countdown, STOP, IDLE
    <3> QED BY <1>3, <2>1, <2>2, <3>2 DEF ArchivedPhase, Countdown
  <2> QED BY <2>2, <2>4, <2>5, <2>6
<1>9. CASE AStopBefore
  <2>1. Counts /\ state = IDLE
    BY <1>1, <1>9 DEF AStopBefore, NextBit, StartStop, Idles, Takes, IDLE, STOP
  <2>2. CASE rx.baud > 0
    <3>1. Countdown BY <1>3, <1>9, <2>2 DEF AStopBefore
    <3>2. underway' = underway BY <2>1, <3>1, UnderwaySteps DEF Countdown, Counts
    <3>3. AStopBefore' BY <1>1, <1>9, <2>1, <2>2, <3>1, <3>2 DEF AStopBefore, Counts, Countdown
    <3> QED BY <1>3, <2>1, <3>1, <3>3 DEF ArchivedPhase, Countdown, Counts
  <2>3. CASE rx.baud = 0
    <3>1. Sample /\ rx'.data = rx.data + o_uart_tx' * Pow2[rx.bit] BY <1>3, <1>9, <2>3 DEF AStopBefore
    <3>2. underway' = underway BY <2>1, <3>1, UnderwaySteps DEF Sample, Counts
    <3>3. o_uart_tx' = 1 /\ rx.bit = DATA_BITS BY <1>9, <2>1 DEF AStopBefore, Counts, TransmitterInv
    <3>4. rx'.data = underway'[1] + Pow2[DATA_BITS]
      <4>1. Pow2[DATA_BITS] \in Nat BY PowerFacts
      <4> QED BY <1>9, <3>1, <3>2, <3>3, <4>1 DEF AStopBefore
    <3>5. AStopAfter'
      BY <1>1, <1>9, <2>1, <2>3, <3>1, <3>2, <3>4 DEF AStopBefore, AStopAfter, AHeard, Counts, Sample
    <3> QED BY <1>3, <2>1, <3>1, <3>5 DEF ArchivedPhase, Sample, Counts
  <2> QED BY <1>1, <1>9, <2>2, <2>3 DEF AStopBefore
<1>10. CASE AStopAfter
  <2>1. state = IDLE /\ rx.last = 1 /\ (Counts \/ Idles \/ Takes) /\ Len(underway) = 1
    BY <1>1, <1>10 DEF AStopAfter, NextBit, StartStop, IDLE, STOP, TransmitterInv
  <2>2. CASE rx.baud > 0 /\ ~Takes
    <3>1. Countdown BY <1>3, <1>10, <2>2 DEF AStopAfter, AHeard
    <3>2. ~Put /\ underway' = underway BY <2>1, <2>2, <3>1, UnderwaySteps DEF Countdown, Counts, Idles
    <3>3. AStopAfter'
      BY <1>1, <1>10, <2>1, <2>2, <3>1, <3>2 DEF AStopAfter, AHeard, Counts, Idles, Countdown
    <3> QED BY <1>3, <3>1, <3>2, <3>3 DEF ArchivedPhase, Countdown
  <2>3. CASE rx.baud > 0 /\ Takes
    <3>1. Countdown /\ rx.baud <= HalfBaud BY <1>3, <1>10, <2>3 DEF AStopAfter, AHeard, Takes
    <3>2. underway' = Append(underway, Head(todo)) BY <2>3, <3>1, UnderwaySteps DEF Countdown, Takes
    <3>3. Len(underway') = 2 /\ underway'[1] = underway[1] /\ underway'[2] = lcl_data'
      <4>1. Head(todo) \in Char /\ lcl_data' = Head(todo) BY <2>3 DEF Takes, PutSound
      <4> QED BY <1>1, <2>1, <3>2, <4>1, OneMore
    <3>4. rx'.change = 0 BY <1>3, <1>4, <2>1, <2>3 DEF Takes
    <3>5. AOverlap'
      BY <1>1, <1>10, <2>3, <3>1, <3>3, <3>4 DEF AStopAfter, AOverlap, AHeard, Takes, Countdown, Fallen
    <3> QED BY <1>3, <2>1, <3>1, <3>5 DEF ArchivedPhase, Countdown
  <2>4. CASE rx.baud = 0
    <3>1. Ends(rx.data % Pow2[DATA_BITS]) BY <1>3, <1>10, <2>4 DEF AStopAfter, AHeard
    <3>2. ShowsOldest /\ Tail(underway) = <<>>
      BY <1>1, <1>10, <2>1, <3>1, StopShown, ShortQueues DEF AStopAfter, Ends, ShowsOldest
    <3>3. CASE ~Takes
      <4>1. ~Put /\ underway' = <<>> /\ state' = IDLE BY <2>1, <3>2, <3>3, UnderwaySteps DEF Counts, Idles
      <4>2. Rest' BY <3>1, <4>1 DEF Rest, Ends
      <4> QED BY <1>3, <3>2, <4>1, <4>2 DEF ArchivedPhase
    <3>4. CASE Takes
      <4>1. underway' = Append(<<>>, Head(todo)) BY <3>2, <3>4, UnderwaySteps DEF Takes
      <4>2. Len(underway') = 1 /\ underway'[1] = lcl_data' BY <3>4, <4>1 DEF Takes
      <4>3. rx'.change = 0 BY <1>3, <1>4, <2>1, <3>4 DEF Takes
      <4>4. AMissed' BY <3>1, <3>4, <4>2, <4>3 DEF AMissed, Takes, Ends, Fallen
      <4> QED BY <1>3, <2>1, <3>2, <4>4 DEF ArchivedPhase
    <3> QED BY <3>3, <3>4
  <2> QED BY <1>1, <1>10, <2>2, <2>3, <2>4 DEF AStopAfter, AHeard
<1>11. CASE AOverlap \/ AMissed
  <2>1. state = 0 /\ o_uart_tx = 0 /\ rx.last = 0 /\ rx.change = Fallen /\ Fallen <= HalfBaud
    <3>1. state = 0 /\ rx.change = Fallen BY <1>11 DEF AOverlap, AMissed
    <3>2. o_uart_tx = 0 /\ rx.last = 0 BY <1>1, <3>1 DEF TransmitterInv
    <3>3. Fallen \in Int BY <1>1 DEF Fallen
    <3>4. Fallen <= HalfBaud BY <1>1, <1>11, <3>3 DEF AOverlap, AMissed, AHeard
    <3> QED BY <3>1, <3>2, <3>4
  <2>2. Counts BY <1>1, <2>1 DEF NextBit, StartStop, Idles, Takes, Fallen, IDLE, STOP
  <2>3. o_uart_tx' = 0 /\ rx'.change = Fallen + 1 /\ Fallen' = Fallen + 1
        /\ FallenFor(o_uart_tx') = Fallen + 1
    <3>1. o_uart_tx' = 0 /\ Fallen' = Fallen + 1 BY <1>1, <2>1, <2>2 DEF Counts, Fallen
    <3>2. rx.change < 2 * BAUDS
      <4>1. rx.change \in Int /\ rx.change <= HalfBaud BY <2>1, <1>1 DEF RxType
      <4> QED BY <4>1
    <3>3. FallenFor(o_uart_tx') = rx.change + 1
      <4>1. ~(rx.last = 1) BY <2>1
      <4> QED BY <3>2, <4>1 DEF FallenFor
    <3> QED BY <1>3, <2>1, <3>1, <3>3
  <2>4. CASE AOverlap /\ rx.baud > 0
    <3>1. Countdown BY <1>3, <2>4 DEF AOverlap, AHeard
    <3>2. underway' = underway BY <2>2, <3>1, UnderwaySteps DEF Countdown, Counts
    <3>3. rx'.baud + Fallen' <= HalfBaud - 1 /\ rx'.baud >= 0 /\ rx'.change = Fallen'
      <4>1. Fallen \in Int BY <1>1 DEF Fallen
      <4>2. rx'.baud = rx.baud - 1 /\ rx.baud + Fallen <= HalfBaud - 1
        BY <2>4, <3>1 DEF AOverlap, Countdown
      <4> QED BY <1>1, <2>3, <2>4, <4>1, <4>2
    <3>4. rx'.busy /\ rx'.bit = DATA_BITS + 1 /\ rx'.data = underway'[1] + Pow2[DATA_BITS]
      BY <2>4, <3>1, <3>2 DEF AOverlap, AHeard, Countdown
    <3>5. Len(underway') = 2 /\ state' = 0 /\ lcl_data' = underway'[2]
      BY <2>2, <2>4, <3>2 DEF AOverlap, Counts
    <3>6. AOverlap' BY <3>3, <3>4, <3>5 DEF AOverlap, AHeard
    <3> QED BY <1>3, <2>2, <3>1, <3>6 DEF ArchivedPhase, Countdown, Counts
  <2>5. CASE AOverlap /\ rx.baud = 0
    <3>1. Ends(rx.data % Pow2[DATA_BITS]) BY <1>3, <2>5 DEF AOverlap, AHeard
    <3>2. ShowsOldest BY <1>1, <2>5, <3>1, StopShown DEF AOverlap, Ends, ShowsOldest
    <3>3. underway' = Tail(underway) BY <2>2, <3>2, UnderwaySteps DEF Counts
    <3>4. Len(underway') = 1 /\ underway'[1] = lcl_data'
      <4>1. Len(underway) = 2 /\ lcl_data' = underway[2] BY <2>2, <2>5 DEF AOverlap, Counts
      <4>2. Len(Tail(underway)) = 1 /\ Tail(underway)[1] = underway[2] 
        <5>1. Len(underway) > 0 /\ Len(underway) - 1 = 1 BY <4>1
        <5> QED BY <1>1, <4>1, <5>1, ShortQueues
      <4> QED BY <3>3, <4>1, <4>2
    <3>5. AMissed'
      <4>1. Fallen \in Int BY <1>1 DEF Fallen
      <4>2. Fallen' <= HalfBaud /\ rx'.change = Fallen' BY <2>3, <2>5, <4>1 DEF AOverlap
      <4>3. ~rx'.busy /\ state' = 0 BY <2>1, <2>2, <3>1 DEF Ends, Counts
      <4> QED BY <3>4, <4>2, <4>3 DEF AMissed
    <3> QED BY <1>3, <2>2, <3>2, <3>5 DEF ArchivedPhase, Counts
  <2>6. CASE AMissed
    <3>1. StartSeen /\ rx'.baud = BAUDS + HalfBaud - 1 - (Fallen + 1) BY <1>3, <2>3, <2>6 DEF AMissed
    <3>2. underway' = underway BY <2>2, <3>1, UnderwaySteps DEF StartSeen, Counts
    <3>3. AStart' BY <1>1, <2>2, <2>6, <3>1, <3>2 DEF AMissed, AStart, Counts, StartSeen, Fallen
    <3> QED BY <1>3, <2>2, <3>1, <3>3 DEF ArchivedPhase, StartSeen, Counts
  <2> QED BY <1>1, <1>11, <2>4, <2>5, <2>6 DEF AOverlap, AHeard
<1> QED BY <1>5, <1>6, <1>7, <1>8, <1>9, <1>10, <1>11 DEF ArchivedPhase

-----------------------------------------------------------------------------
(* The line as a whole.                                                    *)

LEMMA LineStarts == ConsoleInit => LineInv
<1> SUFFICES ASSUME ConsoleInit PROVE LineInv OBVIOUS
<1> USE BaudFacts
<1>1. Pow2[DATA_BITS] \in Nat /\ Pow2[DATA_BITS] > 0
  <2>1. DATA_BITS \in 0..DATA_BITS OBVIOUS
  <2> QED BY <2>1, PowerFacts
<1>2. 0 \in Char BY <1>1 DEF Char
<1>3. /\ rx = Rx(FALSE, 1, 0, 0, 0, 0) /\ RxType /\ ~rx.busy /\ rx.last = 1
  <2>1. rx = [busy |-> FALSE, last |-> 1, baud |-> 0, bit |-> 0, data |-> 0, change |-> 0]
    BY DEF ConsoleInit, UartInit
  <2> QED BY <2>1 DEF Rx, RxType
<1>4. LineTypes
  <2>1. rx \in [busy : BOOLEAN, last : 0..1, baud : Int, bit : Nat, data : Nat, change : Nat]
    BY <1>3 DEF RxType
  <2>2. underway \in Seq(Char) BY DEF ConsoleInit
  <2>3. r_busy \in BOOLEAN /\ zero_baud_counter \in BOOLEAN /\ last_state \in BOOLEAN
    BY DEF ConsoleInit, UartInit
  <2>4. /\ state \in 0..IDLE /\ lcl_data \in Nat /\ baud_counter \in Nat
        /\ cts \in [1..3 -> 0..1] /\ o_uart_tx \in 0..1
        /\ printed \in Char /\ prints \in 0..1 /\ receiver \in {"uart.cpp", "uartsim.cpp"}
    <3>1. /\ state = IDLE /\ lcl_data = Pow2[DATA_BITS] - 1 /\ baud_counter = 5
          /\ cts \in [1..3 -> 0..1] /\ o_uart_tx = 1 /\ printed = 0 /\ prints = 0
          /\ receiver \in {"uart.cpp", "uartsim.cpp"}
      BY DEF ConsoleInit, UartInit
    <3> QED BY <1>1, <1>2, <3>1 DEF IDLE
  <2> QED BY <2>1, <2>2, <2>3, <2>4 DEF LineTypes
<1>5. TransmitterInv
  <2>1. phase = 0 /\ state = IDLE /\ baud_counter = 5 /\ o_uart_tx = 1 BY DEF ConsoleInit, UartInit
  <2>2. ~zero_baud_counter /\ r_busy /\ ~last_state BY DEF ConsoleInit, UartInit
  <2>3. baud_counter # 0 /\ state # 0 /\ state # STOP /\ ~(state < STOP) /\ ~(phase > 1)
    BY <2>1 DEF IDLE, STOP
  <2> QED BY <1>3, <2>1, <2>2, <2>3, Zenon DEF TransmitterInv
<1>6. Rest BY <1>3 DEF Rest, ConsoleInit, UartInit
<1>7. SettingUp
  <2>1. r_busy BY DEF ConsoleInit, UartInit
  <2>2. state = IDLE /\ underway = <<>> /\ printed = 0 /\ phase = 0 /\ baud_counter = 5
    BY DEF ConsoleInit, UartInit
  <2>3. phase # 2 BY <2>2
  <2> QED BY <1>3, <2>1, <2>2, <2>3, Zenon DEF SettingUp
<1> QED BY <1>4, <1>5, <1>6, <1>7 DEF LineInv, BenchInv, ArchivedInv

Loads == IF pc = "store" THEN Head(todo) ELSE 0

(* reset() of the bench: nothing is taken, and nothing shown.              *)
LEMMA SetUpStep ==
  ASSUME LineInv, Bench, phase \in 0..2, ~Put
  PROVE  LineInv' /\ Quiet /\ underway' = underway
<1> USE BaudFacts
<1>1. LineTypes /\ TransmitterInv
  BY DEF LineInv
<1>2. state = IDLE /\ r_busy /\ ~rx.busy /\ underway = <<>> /\ printed = 0 /\ o_uart_tx = 1 /\ rx.last = 1
  BY DEF LineInv, SettingUp, TransmitterInv
<1>3. phase' = phase + 1 /\ rx' = rx /\ printed' = printed /\ prints' = prints /\ receiver' = receiver
  BY DEF Bench, rxVars
<1>4. underway' = underway BY <1>3 DEF Bench, Remaining, Put
<1>5. CASE phase = 1
  <2>1. /\ state' = IDLE /\ cts' = [i \in 1..3 |-> 1] /\ o_uart_tx' = 1
        /\ baud_counter' = RESET_CLOCKS
    BY <1>5 DEF Bench, Transmitter, TransmitterReset
  <2>2. r_busy' = TRUE /\ zero_baud_counter' = FALSE /\ last_state' = FALSE
    BY <1>5 DEF Bench, Transmitter, TransmitterReset
  <2>3. lcl_data' \in Nat
    <3>1. lcl_data' = Shifted
      <4>1. ~Accepts(Put) BY <1>2 DEF Accepts
      <4> QED BY <1>2, <4>1 DEF Bench, Transmitter, Put
    <3>2. lcl_data \in Nat /\ lcl_data \div 2 \in Nat BY <1>1 DEF LineTypes
    <3> QED BY <3>1, <3>2 DEF Shifted
  <2>4. LineTypes'
    <3>1. r_busy' \in BOOLEAN /\ zero_baud_counter' \in BOOLEAN /\ last_state' \in BOOLEAN BY <2>2
    <3>2. state' \in 0..IDLE /\ baud_counter' \in Nat /\ cts' \in [1..3 -> 0..1] /\ o_uart_tx' \in 0..1
      BY <2>1 DEF IDLE
    <3> QED BY <1>1, <1>3, <1>4, <2>3, <3>1, <3>2 DEF LineTypes
  <2>5. TransmitterInv'
    BY <1>2, <1>3, <2>1, <2>2 DEF TransmitterInv, IDLE, STOP
  <2>6. SettingUp'
    BY <1>2, <1>3, <1>4, <1>5, <2>1, <2>2 DEF SettingUp
  <2>7. Rest' BY <1>2, <1>3, <1>4, <2>1 DEF Rest
  <2> QED BY <1>3, <1>4, <2>4, <2>5, <2>6, <2>7 DEF LineInv, Quiet, BenchInv, ArchivedInv
<1>6. CASE phase # 1
  <2>1. baud_counter > 0 BY <1>6 DEF LineInv, SettingUp
  <2>2. ~zero_baud_counter BY <1>1, <2>1 DEF TransmitterInv
  <2>3. TransmitterClock(Put, Loads) BY <1>6 DEF Bench, Transmitter, Put, Loads
  <2>4. ~Accepts(Put) BY <1>2 DEF Accepts
  <2>5. /\ state' = IDLE /\ baud_counter' = baud_counter - 1 /\ o_uart_tx' = 1
        /\ cts' = [i \in 1..3 |-> IF i = 1 THEN 0 ELSE cts[i - 1]]
    BY <1>2, <2>2, <2>3, <2>4 DEF TransmitterClock
  <2>6. r_busy' = TRUE BY <2>2, <2>3 DEF TransmitterClock
  <2>7. zero_baud_counter' \in BOOLEAN /\ (zero_baud_counter' <=> baud_counter' = 0)
    <3>1. zero_baud_counter' \in BOOLEAN /\ (zero_baud_counter' <=> LastClock)
      BY <2>2, <2>3 DEF TransmitterClock, LastClock
    <3>2. LastClock <=> baud_counter' = 0 BY <1>1, <2>5 DEF LastClock, LineTypes
    <3> QED BY <3>1, <3>2
  <2>8. last_state' \in BOOLEAN /\ (last_state' <=> state = STOP) BY <2>3 DEF TransmitterClock
  <2>9. lcl_data' = lcl_data
    <3>1. lcl_data' = Shifted BY <1>2, <2>4 DEF Bench, Transmitter, Put
    <3> QED BY <2>2, <3>1 DEF Shifted
  <2>10. /\ cts' \in [1..3 -> 0..1] /\ cts'[1] = 0 /\ cts'[2] = cts[1] /\ cts'[3] = cts[2]
         /\ phase > 1 => cts'[1] <= cts'[2] /\ cts'[2] <= cts'[3]
    BY <1>1, <2>5 DEF LineTypes, TransmitterInv
  <2>11. LineTypes'
    <3>1. baud_counter' \in Nat BY <1>1, <2>1, <2>5 DEF LineTypes
    <3> QED BY <1>1, <1>3, <1>4, <2>5, <2>6, <2>7, <2>8, <2>9, <2>10, <3>1 DEF LineTypes, IDLE
  <2>12. TransmitterInv'
    <3>1. phase' > 1 => phase > 1 BY <1>3, <1>6
    <3> QED BY <1>2, <1>3, <2>5, <2>6, <2>7, <2>10, <3>1 DEF TransmitterInv, IDLE, STOP
  <2>13. SettingUp'
    <3>1. phase' # 0 /\ phase' # 2 BY <1>3, <1>6
    <3> QED BY <1>2, <1>3, <1>4, <2>5, <2>6, <3>1 DEF SettingUp
  <2>14. Rest' BY <1>2, <1>3, <1>4, <2>5 DEF Rest
  <2> QED BY <1>3, <1>4, <2>11, <2>12, <2>13, <2>14 DEF LineInv, Quiet, BenchInv, ArchivedInv
<1> QED BY <1>5, <1>6

(* Any clock: what it shows is the oldest character underway, and the line *)
(* takes one when that can be the only one, or the second.                 *)
LEMMA LineStep ==
  ASSUME LineInv, Bench, phase \in 0..3, phase < 3 => ~Put, PutSound
  PROVE  /\ LineInv' /\ (Quiet \/ ShowsOldest) /\ Underway
         /\ Put => Len(underway) <= 1
         /\ Put /\ receiver = "uart.cpp" => Len(underway) = 0
<1>1. CASE phase < 3
  <2>1. LineInv' /\ Quiet /\ underway' = underway BY <1>1, SetUpStep
  <2>2. Underway BY <1>1 DEF Bench, Underway, Put
  <2> QED BY <1>1, <2>1, <2>2
<1>2. CASE phase = 3
  <2>1. LineTypes /\ TransmitterInv /\ (receiver = "uart.cpp" => BenchPhase)
        /\ (receiver = "uartsim.cpp" => ArchivedPhase) /\ receiver \in {"uart.cpp", "uartsim.cpp"}
    BY DEF LineInv, BenchInv, ArchivedInv, BenchPhase, ArchivedPhase, LineTypes
  <2>2. Transmitter(FALSE, Put, Loads) /\ (Loads = Head(todo) \/ ~Put) /\ Underway
    BY <1>2 DEF Bench, Transmitter, Put, Loads, Underway
  <2>3. Receiver(o_uart_tx') /\ phase' = 3 BY <1>2 DEF Bench
  <2>4. Counts \/ NextBit \/ StartStop \/ Idles \/ Takes BY <2>1, <2>2, TransmitterSteps
  <2>5. o_uart_tx' \in 0..1
    <3>1. lcl_data % 2 \in 0..1 BY <2>1 DEF LineTypes
    <3> QED BY <2>1, <2>2, <3>1 DEF Transmitter, TransmitterClock, LowBit, LineTypes
  <2>6. /\ RxType' /\ rx'.last = o_uart_tx' /\ (Quiet \/ ShowsOldest)
        /\ Put => Len(underway) <= 1
        /\ Put /\ receiver = "uart.cpp" => Len(underway) = 0
        /\ receiver' = receiver
        /\ receiver = "uart.cpp" => BenchPhase'
        /\ receiver = "uartsim.cpp" => ArchivedPhase'
    <3>1. CASE receiver = "uart.cpp"
      <4>1. BenchReceiver(o_uart_tx') /\ receiver' = receiver BY <2>3, <3>1 DEF Receiver
      <4>2. /\ RxType' /\ rx'.last = o_uart_tx' /\ BenchPhase' /\ (Quiet \/ ShowsOldest)
            /\ Put => Len(underway) = 0
        BY <2>1, <2>2, <2>4, <2>5, <3>1, <4>1, BenchKeeps
      <4> QED BY <3>1, <4>1, <4>2
    <3>2. CASE receiver = "uartsim.cpp"
      <4>1. ArchivedReceiver(o_uart_tx') /\ receiver' = receiver BY <2>3, <3>2 DEF Receiver
      <4>2. /\ RxType' /\ rx'.last = o_uart_tx' /\ ArchivedPhase' /\ (Quiet \/ ShowsOldest)
            /\ Put => Len(underway) <= 1
        BY <2>1, <2>2, <2>4, <2>5, <3>2, <4>1, ArchivedKeeps
      <4> QED BY <3>2, <4>1, <4>2
    <3> QED BY <2>1, <3>1, <3>2
  <2>7. TransmitterTypes' /\ TransmitterInv'
    <3>1. phase > 1 BY <1>2
    <3> QED BY <2>1, <2>2, <2>6, <3>1, TransmitterKeeps, Zenon
  <2>8. underway' \in Seq(Char) /\ printed' \in Char /\ prints' \in 0..1 BY <2>1, <2>2, <2>6, UnderwaySteps
  <2>9. LineTypes' BY <2>1, <2>6, <2>7, <2>8 DEF LineTypes, TransmitterTypes, RxType
  <2>10. BenchInv' /\ ArchivedInv' BY <2>6 DEF BenchInv, ArchivedInv, BenchPhase, ArchivedPhase
  <2>11. SettingUp' BY <2>3 DEF SettingUp
  <2> QED BY <2>2, <2>6, <2>7, <2>9, <2>10, <2>11 DEF LineInv
<1> QED BY <1>1, <1>2

-----------------------------------------------------------------------------
(* The bench's counters, and what the processor may store.                 *)
BenchSound ==
  /\ phase \in 0..3 /\ clocksAfterHalt \in 0..2
  /\ exited \in BOOLEAN /\ (~exited => clocksAfterHalt < 2)
CpuSound ==
  /\ phase < 3 => pc = "start"
  /\ todo \in Seq(Char) /\ call.chars \in Seq(Char)
  /\ pc \in {"poll", "store"} => todo # <<>>
  /\ pc = "store" => ~r_busy
  /\ lcl_data \in Char

(* Where the program is, or goes on when the BIOS returns.                 *)
InBios == \/ pc \in {"handler", "poll", "store", "mret", "ebreak"}
          \/ pc \in {"halted", "pulse"} /\ mepc # "spin"
Place  == IF InBios THEN mepc ELSE pc

(* The frames hold what was saved in them.                                 *)
RegsShape(r) == r = [s11 |-> r.s11, ft0lo |-> r.ft0lo, ft0hi |-> r.ft0hi, fs0lo |-> r.fs0lo, fs0hi |-> r.fs0hi]
SwitchFrame(q) ==
  LET f == procs[Slot[q]].frame  old == kept[q].regs IN
  /\ f[12] = old.s11 /\ LowOf(f, 14, misaligned[q]) = old.fs0lo
  /\ ~misaligned[q] => HighOf(f, 14, misaligned[q]) = old.fs0hi
RegistersInv ==
  /\ program \in {"kernel", "calls"} /\ turn \in Process /\ misaligned \in [Stacks -> BOOLEAN]
  /\ RegsShape(regs) /\ DOMAIN kept = Process
  /\ InBios => frame = SaveFrame /\ kept[turn] = [by |-> "call", regs |-> regs] /\ mepc \in Supervisor
  /\ RegistersSurvive

(* The process table, as far as the program has come.                      *)
Before  == {"start", "boot", "hello", "booted", "createA", "createB", "calls", "panic", "panicked"}
Running == {"startA", "loopA", "switch", "startB", "loopB"}
TableInv ==
  /\ DOMAIN procs = 1..PROCS_MAX
  /\ \A i \in 1..PROCS_MAX : procs[i] = [state |-> procs[i].state, frame |-> procs[i].frame]
ProgramInv(place) ==
  LET q == Other(turn) IN
  /\ place \in Before \cup Running \cup {"halted", "pulse", "spin"}
  /\ place \in Before => turn = "A" /\ kept["B"].by = "nothing"
  /\ place \in {"start", "boot"} => kept["A"].by = "nothing"
  /\ place \in {"hello", "booted", "createA"} => \A i \in 1..PROCS_MAX : procs[i] = UNUSED
  /\ place = "createB" => PROCS_MAX >= 1 /\ ~Free(procs[1]) /\ \A i \in 2..PROCS_MAX : procs[i] = UNUSED
  /\ place \in Running =>
       /\ PROCS_MAX >= 2
       /\ place \in {"startA", "loopA"} => turn = "A"
       /\ place \in {"startB", "loopB"} => turn = "B"
       /\ \/ q = "B" /\ kept[q].by = "nothing" /\ procs[2].frame[0] = "startB"
          \/ kept[q].by = "switch" /\ SwitchFrame(q) /\ procs[Slot[q]].frame[0] = ReturnsTo(q)
  /\ place = "startB" => kept["A"].by = "switch"

ConsoleIInv == LineInv /\ BenchSound /\ CpuSound /\ RegistersInv /\ TableInv /\ ProgramInv(Place)

LEMMA MessageFacts ==
  /\ DOMAIN Prints = {"hello", "booted", "startA", "loopA", "startB", "loopB", "panic"}
  /\ Prints["hello"] = Hello /\ Then["hello"] = "booted"
  /\ Prints["booted"] = Booted /\ Then["booted"] = "createA"
  /\ Prints["startA"] = StartingA /\ Then["startA"] = "loopA"
  /\ Prints["loopA"] = CharA /\ Then["loopA"] = "switch"
  /\ Prints["startB"] = StartingB /\ Then["startB"] = "loopB"
  /\ Prints["loopB"] = CharB /\ Then["loopB"] = "switch"
  /\ Prints["panic"] = Panic /\ Then["panic"] = "panicked"
BY DEF Prints, Then

LEMMA SupervisorPlaces ==
  Supervisor = {"hello", "booted", "startA", "loopA", "startB", "loopB", "panic",
                "boot", "createA", "createB", "switch", "calls", "panicked"}
BY MessageFacts DEF Supervisor

LEMMA SlotFacts == Slot["A"] = 1 /\ Slot["B"] = 2
BY DEF Slot

(* Calls: all registers come back from an aligned frame, and the first     *)
(* words of the doubles in any case.                                       *)
LEMMA CallFrame ==
  ASSUME RegsShape(regs), misaligned \in [Stacks -> BOOLEAN], NEW r, r = RestoreFrame(SaveFrame)
  PROVE  /\ RegsShape(r) /\ r.fs0lo = regs.fs0lo /\ r.ft0lo = regs.ft0lo
         /\ ~misaligned["BIOS"] => r = regs
<1> DEFINE off == misaligned["BIOS"]
           first == [[word \in (29..31) \cup (45..47) |-> None] EXCEPT ![29] = regs.s11]
           second == Fsd(first, 30, regs.ft0lo, regs.ft0hi, off)
           third == Fsd(second, 46, regs.fs0lo, regs.fs0hi, off)
<1>1. off \in BOOLEAN BY DEF Stacks
<1>2. SaveFrame = third BY DEF SaveFrame
<1>3. DOMAIN first = (29..31) \cup (45..47) /\ first[29] = regs.s11 OBVIOUS
<1> HIDE DEF first
<1>4. CASE off
  <2>1. /\ DOMAIN second = (29..31) \cup (45..47)
        /\ second[29] = regs.ft0lo /\ second[30] = regs.ft0lo
    BY <1>3, <1>4 DEF Fsd
  <2> HIDE DEF second
  <2>2. third[29] = second[29] /\ third[30] = second[30] /\ third[45] = regs.fs0lo /\ third[46] = regs.fs0lo
    BY <1>4, <2>1 DEF Fsd
  <2> HIDE DEF third
  <2>3. r = [s11 |-> third[29], ft0lo |-> third[29], ft0hi |-> third[30], fs0lo |-> third[45], fs0hi |-> third[46]]
    BY <1>2, <1>4 DEF RestoreFrame, LowOf, HighOf
  <2> QED BY <1>4, <2>1, <2>2, <2>3 DEF RegsShape
<1>5. CASE ~off
  <2>1. /\ DOMAIN second = (29..31) \cup (45..47)
        /\ second[29] = regs.s11 /\ second[30] = regs.ft0lo /\ second[31] = regs.ft0hi
    BY <1>3, <1>5 DEF Fsd
  <2> HIDE DEF second
  <2>2. /\ third[29] = second[29] /\ third[30] = second[30] /\ third[31] = second[31]
        /\ third[46] = regs.fs0lo /\ third[47] = regs.fs0hi
    BY <1>5, <2>1 DEF Fsd
  <2> HIDE DEF third
  <2>3. r = [s11 |-> third[29], ft0lo |-> third[30], ft0hi |-> third[31], fs0lo |-> third[46], fs0hi |-> third[47]]
    BY <1>2, <1>5 DEF RestoreFrame, LowOf, HighOf
  <2> QED BY <2>1, <2>2, <2>3 DEF RegsShape
<1> QED BY <1>1, <1>4, <1>5

(* Switches.                                                               *)
LEMMA SwitchedFrame ==
  ASSUME NEW f, NEW entry, NEW off \in BOOLEAN,
         f = Fsd([NewFrame(entry) EXCEPT ![12] = regs.s11], 14, regs.fs0lo, regs.fs0hi, off)
  PROVE  /\ f[0] = entry /\ f[12] = regs.s11 /\ LowOf(f, 14, off) = regs.fs0lo
         /\ ~off => HighOf(f, 14, off) = regs.fs0hi
<1> DEFINE first == [NewFrame(entry) EXCEPT ![12] = regs.s11]
<1>1. DOMAIN first = {0} \cup 12..15 /\ first[0] = entry /\ first[12] = regs.s11 BY DEF NewFrame
<1> HIDE DEF first
<1>2. f = Fsd(first, 14, regs.fs0lo, regs.fs0hi, off) BY DEF first
<1>3. CASE off BY <1>1, <1>2, <1>3 DEF Fsd, LowOf
<1>4. CASE ~off BY <1>1, <1>2, <1>4 DEF Fsd, LowOf, HighOf
<1> QED BY <1>3, <1>4

-----------------------------------------------------------------------------
(* The steps of the processor.                                             *)

ProcessorInv == RegistersInv /\ TableInv /\ ProgramInv(Place)
Around == program' = program /\ misaligned' = misaligned

(* A message, and where the program goes on behind it.                     *)
LEMMA PlacesBefore ==
  ASSUME NEW p, NEW n, ProgramInv(p), p \in {"hello", "booted", "panic"},
         n = (IF p = "hello" THEN "booted" ELSE IF p = "booted" THEN "createA" ELSE "panicked")
  PROVE  ProgramInv(n)
<1>1. turn = "A" /\ kept["B"].by = "nothing" BY DEF ProgramInv, Before
<1>2. CASE n = "panicked" BY <1>1, <1>2 DEF ProgramInv, Before, Running
<1>3. CASE n # "panicked"
  <2>1. \A i \in 1..PROCS_MAX : procs[i] = UNUSED BY <1>3 DEF ProgramInv
  <2>2. n \in {"booted", "createA"} BY <1>3
  <2> QED BY <1>1, <2>1, <2>2 DEF ProgramInv, Before, Running
<1> QED BY <1>2, <1>3

LEMMA PlacesRunning ==
  ASSUME NEW p, NEW n, ProgramInv(p), p \in {"startA", "loopA", "startB", "loopB"},
         n = (IF p = "startA" THEN "loopA" ELSE IF p = "startB" THEN "loopB" ELSE "switch")
  PROVE  ProgramInv(n)
<1>1. /\ p \in Running /\ n \in Running /\ n \notin Before /\ n # "startB" /\ n # "createB"
      /\ n \notin {"start", "boot"} /\ n \notin {"hello", "booted", "createA"}
  BY DEF Running, Before
<1>2. /\ n \in {"startA", "loopA"} => p \in {"startA", "loopA"}
      /\ n \in {"startB", "loopB"} => p \in {"startB", "loopB"}
  OBVIOUS
<1> QED BY <1>1, <1>2, Zenon DEF ProgramInv

LEMMA NextPlace ==
  ASSUME NEW p, p \in DOMAIN Prints, ProgramInv(p)
  PROVE  /\ ProgramInv(Then[p]) /\ Then[p] \in Supervisor /\ Prints[p] \in Char
         /\ Then[p] \notin {"boot", "startB"}
<1>1. Prints[p] \in Char
  <2>1. \A n \in 1..Panic : n \in Char BY MessageAssumption, PowerFacts, BaudFacts DEF Char, Panic
  <2>2. Prints[p] \in 1..Panic
    BY MessageFacts DEF Hello, Booted, StartingA, CharA, StartingB, CharB, Panic
  <2> QED BY <2>1, <2>2
<1>2. Then[p] \in Supervisor /\ Then[p] \notin {"boot", "startB"} BY MessageFacts, SupervisorPlaces
<1>3. ASSUME p \in {"hello", "booted", "panic"} PROVE ProgramInv(Then[p])
  <2>1. Then[p] = IF p = "hello" THEN "booted" ELSE IF p = "booted" THEN "createA" ELSE "panicked"
    BY <1>3, MessageFacts
  <2> QED BY <1>3, <2>1, PlacesBefore, Zenon
<1>4. ASSUME p \in {"startA", "loopA", "startB", "loopB"} PROVE ProgramInv(Then[p])
  <2>1. Then[p] = IF p = "startA" THEN "loopA" ELSE IF p = "startB" THEN "loopB" ELSE "switch"
    BY <1>4, MessageFacts
  <2> QED BY <1>4, <2>1, PlacesRunning, Zenon
<1> QED BY <1>1, <1>2, <1>3, <1>4, MessageFacts

(* Where the table and the other process are left alone, only the place    *)
(* counts.                                                                 *)
LEMMA SamePlaces ==
  ASSUME NEW b, ProgramInv(b), Place' = b, procs' = procs, turn' = turn, misaligned' = misaligned,
         turn \in Process, DOMAIN kept = Process,
         \/ kept' = kept
         \/ b \notin {"start", "boot", "startB"} /\ \E k : kept' = [kept EXCEPT ![turn] = k]
  PROVE  ProgramInv(Place)'
<1>1. kept'[Other(turn)] = kept[Other(turn)] BY DEF Other, Process
<1>2. turn = "A" => kept'["B"] = kept["B"] BY <1>1 DEF Other
<1>3. b \in {"start", "boot", "startB"} => kept' = kept OBVIOUS
<1>4. SwitchFrame(Other(turn)) => SwitchFrame(Other(turn))' BY <1>1 DEF SwitchFrame
<1> QED BY <1>1, <1>2, <1>3, <1>4 DEF ProgramInv

LEMMA EcallKeeps ==
  ASSUME ProcessorInv, Around, NEW c, NEW back \in Supervisor, ProgramInv(back),
         back \notin {"boot", "startB"}, Ecall(c, back)
  PROVE  ProcessorInv'
<1>1. InBios' /\ Place' = back /\ pc' \notin Supervisor BY SupervisorPlaces DEF Ecall, InBios, Place
<1>2. back # "start" BY SupervisorPlaces
<1>3. ProgramInv(Place)'
  <2>1. \E k : kept' = [kept EXCEPT ![turn] = k] BY DEF Ecall
  <2> QED BY <1>1, <1>2, <2>1, SamePlaces DEF ProcessorInv, RegistersInv, Around, Ecall
<1>4. frame' = SaveFrame' BY DEF Ecall, SaveFrame, Around
<1>5. kept'[turn] = [by |-> "call", regs |-> regs] /\ DOMAIN kept' = Process
  BY DEF Ecall, ProcessorInv, RegistersInv
<1>6. RegistersSurvive' BY <1>1 DEF RegistersSurvive, AtHome, Supervisor
<1>7. RegistersInv'
  BY <1>1, <1>4, <1>5, <1>6 DEF RegistersInv, ProcessorInv, RegsShape, Ecall, Around
<1>8. TableInv' BY DEF TableInv, ProcessorInv, Ecall
<1> QED BY <1>3, <1>7, <1>8 DEF ProcessorInv

(* Steps inside the BIOS.                                                  *)
LEMMA BiosKeeps ==
  ASSUME ProcessorInv, Around, UNCHANGED <<mepc, regs, frame, procs, turn, kept>>,
         InBios, InBios'
  PROVE  ProcessorInv'
<1>1. Place' = Place /\ pc' \notin Supervisor BY SupervisorPlaces DEF InBios, Place
<1>2. ProgramInv(Place)' BY <1>1, SamePlaces DEF ProcessorInv, RegistersInv, Around
<1>3. RegistersSurvive' BY <1>1 DEF RegistersSurvive, AtHome, Supervisor
<1>4. RegistersInv' BY <1>3 DEF RegistersInv, ProcessorInv, RegsShape, Around, SaveFrame
<1>5. TableInv' BY DEF TableInv, ProcessorInv
<1> QED BY <1>2, <1>4, <1>5 DEF ProcessorInv

LEMMA MretKeeps ==
  ASSUME ProcessorInv, Around, Mret
  PROVE  ProcessorInv' /\ pc' \in Supervisor
<1>1. InBios /\ Place = mepc /\ mepc \in Supervisor BY DEF Mret, InBios, Place, ProcessorInv, RegistersInv
<1>2. pc' = mepc /\ ~InBios' /\ Place' = mepc
  BY <1>1, SupervisorPlaces DEF Mret, InBios, Place
<1>3. ProgramInv(Place)' BY <1>1, <1>2, SamePlaces DEF ProcessorInv, RegistersInv, Around, Mret
<1>4. kept' = kept /\ turn' = turn /\ kept[turn] = [by |-> "call", regs |-> regs]
  BY <1>1 DEF Mret, ProcessorInv, RegistersInv
<1>5. regs' = RestoreFrame(SaveFrame) BY <1>1 DEF Mret, ProcessorInv, RegistersInv
<1>6. /\ RegsShape(regs') /\ regs'.fs0lo = regs.fs0lo /\ regs'.ft0lo = regs.ft0lo
      /\ ~misaligned["BIOS"] => regs' = regs
  BY <1>5, CallFrame DEF ProcessorInv, RegistersInv
<1>7. RegistersSurvive'
  <2>1. kept'[turn'].by = "call" /\ kept'[turn'].regs = regs BY <1>4
  <2> QED BY <1>6, <2>1 DEF RegistersSurvive, Around
<1>8. RegistersInv'
  BY <1>2, <1>4, <1>6, <1>7 DEF RegistersInv, ProcessorInv, RegsShape, Around
<1>9. TableInv' BY DEF TableInv, ProcessorInv, Mret
<1> QED BY <1>1, <1>2, <1>3, <1>8, <1>9 DEF ProcessorInv

(* Steps that leave the registers alone, and do not come from a call.      *)
LEMMA SameRegisters ==
  ASSUME RegistersInv, Around, UNCHANGED <<regs, turn, kept>>, ~InBios',
         pc' \in Supervisor => pc \in Supervisor \/ kept[turn].by = "nothing"
  PROVE  RegistersInv'
<1>1. RegistersSurvive'
  <2>1. AtHome' => AtHome BY DEF AtHome
  <2> QED BY <2>1 DEF RegistersSurvive, RegistersInv, Around
<1> QED BY <1>1 DEF RegistersInv, RegsShape, Around

LEMMA StartKeeps == ASSUME ProcessorInv, Around, Start PROVE ProcessorInv' /\ pc' \in {"boot", "calls"}
<1>1. Place = "start" /\ pc = "start" BY DEF Start, Place, InBios
<1>2. pc' \in {"boot", "calls"} BY DEF Start
<1>3. ~InBios' /\ Place' = pc' BY <1>2 DEF Place, InBios
<1>4. turn = "A" /\ kept["B"].by = "nothing" /\ kept["A"].by = "nothing"
  BY <1>1 DEF ProcessorInv, ProgramInv, Before
<1>5. ProgramInv(Place)' BY <1>2, <1>3, <1>4 DEF ProgramInv, Before, Running, Start
<1>6. RegistersInv' BY <1>3, <1>4, SameRegisters DEF Start, ProcessorInv
<1>7. TableInv' BY DEF TableInv, ProcessorInv, Start
<1> QED BY <1>2, <1>5, <1>6, <1>7 DEF ProcessorInv

LEMMA KernelMainKeeps == ASSUME ProcessorInv, Around, KernelMain PROVE ProcessorInv' /\ pc' = "hello"
<1>1. Place = "boot" /\ pc = "boot" BY DEF KernelMain, Place, InBios
<1>2. pc' = "hello" /\ ~InBios' /\ Place' = "hello" BY DEF KernelMain, Place, InBios
<1>3. turn = "A" /\ kept["B"].by = "nothing" BY <1>1 DEF ProcessorInv, ProgramInv, Before
<1>4. TableInv' /\ \A i \in 1..PROCS_MAX : procs'[i] = UNUSED
  BY DEF TableInv, ProcessorInv, KernelMain, Cleared, UNUSED
<1>5. ProgramInv(Place)'
  <2>1. turn' = turn /\ kept' = kept BY DEF KernelMain
  <2> QED BY <1>2, <1>3, <1>4, <2>1 DEF ProgramInv, Before, Running
<1>6. pc \in Supervisor BY <1>1, SupervisorPlaces
<1>7. RegistersInv' BY <1>2, <1>6, SameRegisters DEF KernelMain, ProcessorInv
<1> QED BY <1>2, <1>4, <1>5, <1>7 DEF ProcessorInv

LEMMA CreateProcessKeeps ==
  ASSUME ProcessorInv, Around, CreateProcess
  PROVE  ProcessorInv' /\ pc' \in {"createB", "startA", "panic"}
<1>1. Place = pc /\ pc \in {"createA", "createB"} /\ pc \in Supervisor
  BY SupervisorPlaces DEF CreateProcess, Place, InBios
<1>2. turn = "A" /\ kept["B"].by = "nothing" /\ turn' = turn /\ kept' = kept /\ Other("A") = "B"
  BY <1>1 DEF ProcessorInv, ProgramInv, Before, CreateProcess, Other
<1>3. pc' \in {"createB", "startA", "panic"} BY <1>1 DEF CreateProcess
<1>4. ~InBios' /\ Place' = pc' BY <1>3 DEF Place, InBios
<1>5. RegistersInv' BY <1>1, <1>4, SameRegisters DEF CreateProcess, ProcessorInv
<1>6. PROCS_MAX \in Nat BY CallsAssumption
<1>7. Free(UNUSED) BY DEF Free, UNUSED
<1>8. CASE ~\E i \in DOMAIN procs : Free(procs[i])
  <2>1. pc' = "panic" /\ procs' = procs BY <1>8 DEF CreateProcess
  <2>2. ProgramInv(Place)' BY <1>2, <1>4, <2>1 DEF ProgramInv, Before, Running
  <2>3. TableInv' BY <2>1 DEF TableInv, ProcessorInv
  <2> QED BY <1>3, <1>5, <2>2, <2>3 DEF ProcessorInv
<1>9. CASE \E i \in DOMAIN procs : Free(procs[i])
  <2> DEFINE new == [state |-> "RUNNABLE", frame |-> NewFrame(IF pc = "createA" THEN "startA" ELSE "startB")]
             n == IF pc = "createA" THEN 1 ELSE 2
  <2>1. procs' = [procs EXCEPT ![FirstFree] = new] /\ pc' = IF pc = "createA" THEN "createB" ELSE "startA"
    BY <1>9 DEF CreateProcess
  <2>2. DOMAIN procs = 1..PROCS_MAX BY DEF ProcessorInv, TableInv
  <2>3. /\ pc = "createA" => \A i \in 1..PROCS_MAX : procs[i] = UNUSED
        /\ pc = "createB" => PROCS_MAX >= 1 /\ ~Free(procs[1]) /\ \A i \in 2..PROCS_MAX : procs[i] = UNUSED
    BY <1>1 DEF ProcessorInv, ProgramInv
  <2>4. PROCS_MAX >= n /\ Free(procs[n]) /\ \A j \in 1..(n-1) : ~Free(procs[j])
    <3>1. CASE pc = "createA"
      <4>1. PROCS_MAX >= 1 BY <1>6, <1>9, <2>2
      <4> QED BY <1>6, <1>7, <2>3, <3>1, <4>1
    <3>2. CASE pc = "createB"
      <4>1. PICK i \in 1..PROCS_MAX : Free(procs[i]) BY <1>9, <2>2
      <4>2. i # 1 BY <2>3, <3>2, <4>1
      <4>3. PROCS_MAX >= 2 BY <1>6, <4>1, <4>2
      <4>4. 2 \in 2..PROCS_MAX BY <1>6, <4>3
      <4>5. \A j \in 1..1 : j = 1 OBVIOUS
      <4> QED BY <1>6, <1>7, <2>3, <3>2, <4>3, <4>4, <4>5
    <3> QED BY <1>1, <3>1, <3>2
  <2>5. FirstFree = n
    <3>1. n \in DOMAIN procs BY <1>6, <2>2, <2>4
    <3>2. \A i \in DOMAIN procs : Free(procs[i]) /\ (\A j \in 1..(i-1) : ~Free(procs[j])) => i = n
      <4> SUFFICES ASSUME NEW i \in 1..PROCS_MAX, Free(procs[i]), \A j \in 1..(i-1) : ~Free(procs[j])
                   PROVE  i = n
        BY <2>2
      <4>1. ~(n < i) BY <1>6, <2>4
      <4>2. ~(i < n) BY <1>6, <2>4
      <4> QED BY <1>6, <4>1, <4>2
    <3> QED BY <2>4, <3>1, <3>2 DEF FirstFree
  <2>6. n \in 1..PROCS_MAX /\ procs' = [procs EXCEPT ![n] = new] BY <1>6, <2>1, <2>4, <2>5
  <2>7. ~Free(new) BY DEF Free
  <2>8. new.frame[0] = IF pc = "createA" THEN "startA" ELSE "startB" BY DEF NewFrame
  <2>9. TableInv'
    <3>1. new = [state |-> new.state, frame |-> new.frame] OBVIOUS
    <3> HIDE DEF new, n
    <3> QED BY <2>2, <2>6, <3>1 DEF TableInv, ProcessorInv
  <2>10. ProgramInv(Place)'
    <3>1. CASE pc = "createA"
      <4>1. procs'[1] = new /\ \A i \in 2..PROCS_MAX : procs'[i] = UNUSED
        <5> HIDE DEF new
        <5> QED BY <1>6, <2>2, <2>3, <2>6, <3>1
      <4>2. pc' = "createB" BY <2>1, <3>1
      <4>3. PROCS_MAX >= 1 BY <2>4, <3>1
      <4> HIDE DEF new
      <4> QED BY <1>2, <1>4, <2>7, <4>1, <4>2, <4>3 DEF ProgramInv, Before, Running
    <3>2. CASE pc = "createB"
      <4>1. procs'[2] = new
        <5> HIDE DEF new
        <5> QED BY <1>6, <2>2, <2>6, <3>2
      <4>2. pc' = "startA" /\ procs'[2].frame[0] = "startB" BY <2>1, <2>8, <3>2, <4>1
      <4>3. PROCS_MAX >= 2 BY <2>4, <3>2
      <4> HIDE DEF new
      <4> QED BY <1>2, <1>4, <4>2, <4>3 DEF ProgramInv, Before, Running
    <3> QED BY <1>1, <3>1, <3>2
  <2> QED BY <1>3, <1>5, <2>9, <2>10 DEF ProcessorInv
<1> QED BY <1>8, <1>9

(* Who stops comes to no place that counts.                                *)
LEMMA StopKeeps ==
  ASSUME ProcessorInv, Around, UNCHANGED <<regs, frame, procs, turn, kept>>,
         ~InBios', pc' \in {"halted", "pulse", "spin"}
  PROVE  ProcessorInv'
<1>1. pc' \notin Supervisor BY SupervisorPlaces
<1>2. RegistersInv' BY <1>1, SameRegisters DEF ProcessorInv
<1>3. Place' = pc' BY DEF Place
<1>4. ProgramInv(Place)' BY <1>3 DEF ProgramInv, Before, Running
<1>5. TableInv' BY DEF TableInv, ProcessorInv
<1> QED BY <1>2, <1>4, <1>5 DEF ProcessorInv

(* A switch saves one process and gives the other its registers back.      *)
LEMMA SwitchKeeps ==
  ASSUME ProcessorInv, Around, SwitchContext
  PROVE  ProcessorInv' /\ pc' \in {"startB", "loopA", "loopB"}
<1> DEFINE next == Other(turn)
           new == procs[Slot[next]].frame
           saved == Fsd([NewFrame(ReturnsTo(turn)) EXCEPT ![12] = regs.s11],
                        14, regs.fs0lo, regs.fs0hi, misaligned[turn])
<1>1. Place = "switch" /\ turn \in {"A", "B"} BY DEF SwitchContext, Place, InBios, ProcessorInv, RegistersInv, Process
<1>2. next \in {"A", "B"} /\ next # turn /\ Other(next) = turn BY <1>1 DEF Other
<1>3. PROCS_MAX \in Nat /\ PROCS_MAX >= 2 BY <1>1, CallsAssumption DEF ProcessorInv, ProgramInv, Running
<1>4. Slot[turn] \in 1..PROCS_MAX /\ Slot[next] \in 1..PROCS_MAX /\ Slot[next] # Slot[turn]
  BY <1>1, <1>2, <1>3, SlotFacts
<1>5. \/ next = "B" /\ kept[next].by = "nothing" /\ new[0] = "startB"
      \/ kept[next].by = "switch" /\ SwitchFrame(next) /\ new[0] = ReturnsTo(next)
  BY <1>1, SlotFacts DEF ProcessorInv, ProgramInv, Running
<1>6. turn' = next /\ pc' = new[0] BY DEF SwitchContext
<1>7. kept' = [kept EXCEPT ![turn] = [by |-> "switch", regs |-> regs]] /\ DOMAIN kept = {"A", "B"}
  BY DEF SwitchContext, ProcessorInv, RegistersInv, Process
<1>8. /\ kept'[turn].by = "switch" /\ kept'[turn].regs = regs /\ kept'[next] = kept[next]
      /\ DOMAIN kept' = {"A", "B"}
  BY <1>1, <1>2, <1>7
<1>9. procs' = [procs EXCEPT ![Slot[turn]].frame = saved] BY DEF SwitchContext, ReturnsTo
<1>10. TableInv' /\ procs'[Slot[turn]].frame = saved
  <2> HIDE DEF saved
  <2> QED BY <1>4, <1>9 DEF TableInv, ProcessorInv
<1>11. misaligned[turn] \in BOOLEAN /\ misaligned[next] \in BOOLEAN /\ misaligned' = misaligned
  BY <1>1, <1>2 DEF ProcessorInv, RegistersInv, Stacks, Process, Around
<1>12. SwitchFrame(Other(turn))' /\ saved[0] = ReturnsTo(turn)
  <2>1. /\ saved[0] = ReturnsTo(turn) /\ saved[12] = regs.s11 /\ LowOf(saved, 14, misaligned[turn]) = regs.fs0lo
        /\ ~misaligned[turn] => HighOf(saved, 14, misaligned[turn]) = regs.fs0hi
    BY <1>11, SwitchedFrame
  <2>2. Other(turn)' = turn BY <1>2, <1>6 DEF Other
  <2> HIDE DEF saved
  <2> QED BY <1>8, <1>10, <1>11, <2>1, <2>2 DEF SwitchFrame
<1> HIDE DEF saved
<1>13. pc' \in {"startB", "loopA", "loopB"} BY <1>2, <1>5, <1>6 DEF ReturnsTo
<1>14. ~InBios' /\ Place' = pc' BY <1>13 DEF InBios, Place
<1>15. Other(turn)' = turn BY <1>2, <1>6 DEF Other
<1>16. ProgramInv(Place)'
  <2>1. pc' = "startB" => turn = "A" /\ turn' = "B" BY <1>1, <1>2, <1>5, <1>6 DEF ReturnsTo, Other
  <2>2. pc' = "loopA" => turn' = "A" BY <1>2, <1>5, <1>6 DEF ReturnsTo
  <2>3. pc' = "loopB" => turn' = "B" BY <1>2, <1>5, <1>6 DEF ReturnsTo
  <2>4. /\ kept'[Other(turn)'].by = "switch" /\ procs'[Slot[Other(turn)']].frame[0] = ReturnsTo(Other(turn)')
    BY <1>8, <1>10, <1>12, <1>15
  <2>5. pc' = "startB" => kept'["A"].by = "switch" BY <1>8, <2>1
  <2> QED BY <1>3, <1>12, <1>13, <1>14, <2>1, <2>2, <2>3, <2>4, <2>5 DEF ProgramInv, Before, Running
<1>17. RegistersInv'
  <2>1. CASE kept[next].by = "nothing"
    <3>1. ~AtHome' BY <1>6, <1>8, <2>1 DEF AtHome
    <3>2. RegistersSurvive' BY <3>1 DEF RegistersSurvive
    <3>3. regs' = Own(next) BY <1>5, <2>1 DEF SwitchContext
    <3>4. RegsShape(regs') BY <3>3 DEF RegsShape, Own
    <3> QED BY <1>2, <1>6, <1>8, <1>11, <1>14, <3>2, <3>4
            DEF RegistersInv, ProcessorInv, Around, Process, RegsShape
  <2>2. CASE kept[next].by = "switch" /\ SwitchFrame(next) /\ new[0] = ReturnsTo(next)
    <3> DEFINE off == misaligned[next]
    <3>1. new[0] \notin {"startA", "startB"} BY <2>2 DEF ReturnsTo
    <3>2. regs' = [regs EXCEPT !.s11 = new[12], !.fs0lo = LowOf(new, 14, off), !.fs0hi = HighOf(new, 14, off)]
      BY <3>1 DEF SwitchContext
    <3>3. RegsShape(regs) BY DEF ProcessorInv, RegistersInv
    <3>4. regs' = [s11 |-> new[12], ft0lo |-> regs.ft0lo, ft0hi |-> regs.ft0hi,
                   fs0lo |-> LowOf(new, 14, off), fs0hi |-> HighOf(new, 14, off)]
      <4> HIDE DEF new
      <4> QED BY <3>2, <3>3 DEF RegsShape
    <3>5. /\ RegsShape(regs') /\ regs'.s11 = new[12] /\ regs'.fs0lo = LowOf(new, 14, off)
          /\ regs'.fs0hi = HighOf(new, 14, off)
      <4> HIDE DEF new
      <4> QED BY <3>4 DEF RegsShape
    <3>6. /\ regs'.s11 = kept[next].regs.s11 /\ regs'.fs0lo = kept[next].regs.fs0lo
          /\ ~off => regs'.fs0hi = kept[next].regs.fs0hi
      BY <2>2, <3>5 DEF SwitchFrame
    <3>7. kept'[turn'] = kept[next] /\ misaligned'[turn'] = off BY <1>6, <1>8, <1>11
    <3>8. RegistersSurvive'
      <4>1. kept'[turn'].by # "call" BY <2>2, <3>7
      <4> HIDE DEF off
      <4> QED BY <3>6, <3>7, <4>1 DEF RegistersSurvive
    <3> QED BY <1>2, <1>6, <1>8, <1>11, <1>14, <3>5, <3>8
            DEF RegistersInv, ProcessorInv, Around, Process, RegsShape
  <2> QED BY <1>5, <2>1, <2>2
<1> QED BY <1>10, <1>13, <1>16, <1>17 DEF ProcessorInv

CpuMoves ==
  /\ todo' \in Seq(Char) /\ call'.chars \in Seq(Char)
  /\ pc' \in {"poll", "store"} => todo' # <<>>
  /\ pc' = "store" => pc = "poll" /\ ~r_busy

LEMMA ProcessorStep ==
  ASSUME ProcessorInv, CpuSound, Around, SupervisorStep \/ MachineStep
  PROVE  ProcessorInv' /\ CpuMoves
<1>1. \A s \in Supervisor : s \notin {"poll", "store", "handler"} BY SupervisorPlaces
<1>2. CASE pc \in DOMAIN Prints /\ Ecall(PutChar(Prints[pc]), Then[pc])
  <2>1. Place = pc BY <1>2, MessageFacts DEF Place, InBios
  <2>2. ProgramInv(pc) BY <2>1 DEF ProcessorInv
  <2>3. /\ ProgramInv(Then[pc]) /\ Then[pc] \in Supervisor /\ Prints[pc] \in Char
        /\ Then[pc] \notin {"boot", "startB"}
    BY <1>2, <2>2, NextPlace
  <2>4. ProcessorInv' BY <1>2, <2>3, EcallKeeps
  <2>5. call' = PutChar(Prints[pc]) /\ pc' = "handler" /\ todo' = todo BY <1>2 DEF Ecall
  <2>6. call'.chars \in Seq(Char) BY <2>3, <2>5 DEF PutChar
  <2> QED BY <2>4, <2>5, <2>6 DEF CpuMoves, CpuSound
<1>3. CASE pc = "calls" /\ \E c \in Calls : Ecall(c, "calls")
  <2>1. PICK c \in Calls : Ecall(c, "calls") BY <1>3
  <2>2. Place = "calls" BY <1>3 DEF Place, InBios
  <2>3. ProgramInv("calls") BY <2>2 DEF ProcessorInv
  <2>4. "calls" \in Supervisor /\ "calls" \notin {"boot", "startB"} BY SupervisorPlaces
  <2>5. ProcessorInv' BY <2>1, <2>3, <2>4, EcallKeeps
  <2>6. call' = c /\ pc' = "handler" /\ todo' = todo BY <2>1 DEF Ecall
  <2> QED BY <2>5, <2>6, CallsAssumption DEF CpuMoves, CpuSound
<1>4. CASE KernelMain BY <1>4, KernelMainKeeps DEF CpuMoves, CpuSound, KernelMain
<1>5. CASE CreateProcess BY <1>5, CreateProcessKeeps DEF CpuMoves, CpuSound, CreateProcess
<1>6. CASE SwitchContext BY <1>6, SwitchKeeps DEF CpuMoves, CpuSound, SwitchContext
<1>7. CASE Start BY <1>7, StartKeeps DEF CpuMoves, CpuSound, Start
<1>8. CASE Handler
  <2>1. pc = "handler" /\ pc' \in {"ebreak", "poll", "mret"} /\ UNCHANGED <<mepc, call, regs, frame, procs, turn, kept>>
    BY <1>8 DEF Handler
  <2>2. InBios /\ InBios' BY <2>1 DEF InBios
  <2>3. ProcessorInv' BY <2>1, <2>2, BiosKeeps
  <2>4. todo' \in Seq(Char) /\ (pc' = "poll" => todo' # <<>>) BY <1>8 DEF Handler, CpuSound
  <2> QED BY <2>1, <2>3, <2>4 DEF CpuMoves, CpuSound
<1>9. CASE Poll
  <2>1. pc = "poll" /\ pc' \in {"store", "poll"} /\ UNCHANGED <<mepc, todo, call, regs, frame, procs, turn, kept>>
    BY <1>9 DEF Poll
  <2>2. InBios /\ InBios' BY <2>1 DEF InBios
  <2>3. ProcessorInv' BY <2>1, <2>2, BiosKeeps
  <2>4. pc' = "store" => ~r_busy BY <1>9 DEF Poll, LineFree
  <2> QED BY <2>1, <2>3, <2>4 DEF CpuMoves, CpuSound
<1>10. CASE Store
  <2>1. pc = "store" /\ pc' \in {"mret", "poll"} /\ UNCHANGED <<mepc, call, regs, frame, procs, turn, kept>>
    BY <1>10 DEF Store
  <2>2. InBios /\ InBios' BY <2>1 DEF InBios
  <2>3. ProcessorInv' BY <2>1, <2>2, BiosKeeps
  <2>4. todo' \in Seq(Char) /\ (pc' = "poll" => todo' # <<>>) BY <1>10, <2>1 DEF Store, CpuSound
  <2> QED BY <2>1, <2>3, <2>4 DEF CpuMoves, CpuSound
<1>11. CASE Mret
  <2>1. ProcessorInv' /\ pc' \in Supervisor BY <1>11, MretKeeps
  <2>2. call' = NoCall /\ todo' = todo BY <1>11 DEF Mret
  <2>3. call'.chars \in Seq(Char) BY <2>2 DEF NoCall
  <2> QED BY <1>1, <2>1, <2>2, <2>3 DEF CpuMoves, CpuSound
<1>12. CASE Ebreak
  <2>1. /\ pc \in {"ebreak", "panicked"} /\ pc' \in {"halted", "pulse"}
        /\ UNCHANGED <<todo, call, regs, frame, procs, turn, kept>>
        /\ mepc' = IF pc = "panicked" THEN "spin" ELSE mepc
    BY <1>12 DEF Ebreak
  <2>2. CASE pc = "panicked"
    <3>1. ~InBios' BY <2>1, <2>2 DEF InBios
    <3>2. ProcessorInv' BY <2>1, <3>1, StopKeeps
    <3> QED BY <2>1, <3>2 DEF CpuMoves, CpuSound
  <2>3. CASE pc = "ebreak"
    <3>1. InBios BY <2>3 DEF InBios
    <3>2. mepc # "spin" BY <3>1, SupervisorPlaces DEF ProcessorInv, RegistersInv
    <3>3. InBios' BY <2>1, <2>3, <3>2 DEF InBios
    <3>4. ProcessorInv' BY <2>1, <2>3, <3>1, <3>3, BiosKeeps
    <3> QED BY <2>1, <3>4 DEF CpuMoves, CpuSound
  <2> QED BY <2>1, <2>2, <2>3
<1>13. CASE AfterPulse
  <2>1. /\ pc = "pulse" /\ pc' = (IF mepc = "spin" THEN "spin" ELSE "mret")
        /\ UNCHANGED <<mepc, todo, call, regs, frame, procs, turn, kept>>
    BY <1>13 DEF AfterPulse
  <2>2. CASE mepc = "spin"
    <3>1. ~InBios' BY <2>1, <2>2 DEF InBios
    <3>2. ProcessorInv' BY <2>1, <2>2, <3>1, StopKeeps
    <3> QED BY <2>1, <2>2, <3>2 DEF CpuMoves, CpuSound
  <2>3. CASE mepc # "spin"
    <3>1. InBios /\ InBios' BY <2>1, <2>3 DEF InBios
    <3>2. ProcessorInv' BY <2>1, <3>1, BiosKeeps
    <3> QED BY <2>1, <2>3, <3>2 DEF CpuMoves, CpuSound
  <2> QED BY <2>2, <2>3
<1> QED BY <1>2, <1>3, <1>4, <1>5, <1>6, <1>7, <1>8, <1>9, <1>10, <1>11, <1>12, <1>13
        DEF SupervisorStep, MachineStep

LEMMA ProcessorRests ==
  ASSUME ProcessorInv, Around, UNCHANGED cpuVars
  PROVE  ProcessorInv'
<1>1. Place' = Place /\ (InBios' <=> InBios) BY DEF Place, InBios, cpuVars
<1>2. ProgramInv(Place)' BY <1>1, SamePlaces DEF ProcessorInv, RegistersInv, Around, cpuVars
<1>3. RegistersSurvive'
  <2>1. AtHome' => AtHome BY DEF AtHome, cpuVars
  <2> QED BY <2>1 DEF RegistersSurvive, ProcessorInv, RegistersInv, Around, cpuVars
<1>4. RegistersInv'
  BY <1>1, <1>3 DEF RegistersInv, ProcessorInv, RegsShape, Around, SaveFrame, cpuVars
<1>5. TableInv' BY DEF TableInv, ProcessorInv, cpuVars
<1> QED BY <1>2, <1>4, <1>5 DEF ProcessorInv

-----------------------------------------------------------------------------
(* The bench around them.                                                  *)

(* A free line stays free until something is stored.                       *)
LEMMA StaysFree ==
  ASSUME LineInv, Bench, phase = 3, ~Put, ~r_busy
  PROVE  ~r_busy'
<1>1. TransmitterClock(Put, Loads) BY DEF Bench, Transmitter, Put, Loads
<1>2. zero_baud_counter /\ state = IDLE /\ cts[3] = 0 BY DEF LineInv, TransmitterInv
<1>3. ~Accepts(Put) BY DEF Accepts
<1>4. r_busy' <=> cts[3] = 1 BY <1>1, <1>2, <1>3 DEF TransmitterClock
<1> QED BY <1>2, <1>4

LEMMA DataStays ==
  ASSUME LineInv, CpuSound, Bench
  PROVE  lcl_data' \in Char
<1>1. lcl_data' = IF Accepts(Put) THEN Loads ELSE IF r_busy THEN Shifted ELSE lcl_data
  BY DEF Bench, Transmitter, Put, Loads
<1>2. Accepts(Put) => Loads \in Char BY DEF Accepts, Put, Loads, CpuSound
<1>3. Shifted \in Char
  <2>1. lcl_data \in Nat /\ lcl_data < Pow2[DATA_BITS] /\ lcl_data \in Char BY CharFacts DEF CpuSound
  <2>2. Pow2[DATA_BITS] \in Nat
    <3>1. DATA_BITS \in 0..DATA_BITS BY BaudFacts
    <3> QED BY <3>1, PowerFacts
  <2>3. lcl_data \div 2 \in Nat /\ lcl_data \div 2 < Pow2[DATA_BITS] BY <2>1, <2>2
  <2>4. lcl_data \div 2 \in Char BY <2>3, CharFacts
  <2> QED BY <2>1, <2>4 DEF Shifted
<1> QED BY <1>1, <1>2, <1>3 DEF CpuSound

LEMMA BenchCounts == ASSUME BenchSound, Bench, ~exited PROVE BenchSound'
<1>1. phase' \in 0..3 BY DEF BenchSound, Bench
<1>2. CASE phase < 3 BY <1>1, <1>2 DEF BenchSound, Bench
<1>3. CASE ~(phase < 3)
  <2>1. clocksAfterHalt' = Counted /\ exited' \in BOOLEAN /\ (exited' <=> Counted > 1)
    <3>1. clocksAfterHalt' = Counted /\ exited' = (Counted > 1) BY <1>3, Zenon DEF Bench
    <3>2. (Counted > 1) \in BOOLEAN OBVIOUS
    <3> QED BY <3>1, <3>2, Zenon
  <2>2. Counted \in 0..2 BY DEF BenchSound, Counted
  <2> QED BY <1>1, <2>1, <2>2 DEF BenchSound
<1> QED BY <1>2, <1>3

LEMMA Stores == ASSUME CpuSound, BenchSound PROVE PutSound /\ (phase < 3 => ~Put) /\ phase \in 0..3
BY DEF CpuSound, BenchSound, PutSound, Put

LEMMA ConsoleStep ==
  ASSUME ConsoleIInv, [Next]_vars
  PROVE  ConsoleIInv'
<1>1. CASE BusyClock \/ IdleClock
  <2>1. Bench /\ ~exited /\ Around BY <1>1 DEF BusyClock, IdleClock, Bench, Around
  <2>2. LineInv' /\ BenchSound' /\ lcl_data' \in Char
    BY <2>1, Stores, LineStep, BenchCounts, DataStays DEF ConsoleIInv
  <2>3. ProcessorInv /\ CpuSound BY DEF ConsoleIInv, ProcessorInv
  <2>4. CASE BusyClock
    <3>1. phase = 3 /\ (SupervisorStep \/ MachineStep) BY <2>4 DEF BusyClock
    <3>2. ProcessorInv' /\ CpuMoves BY <2>1, <2>3, <3>1, ProcessorStep
    <3>3. pc' = "store" => ~r_busy'
      <4> SUFFICES ASSUME pc' = "store" PROVE ~r_busy' OBVIOUS
      <4>1. ~Put /\ ~r_busy BY <3>2 DEF CpuMoves, Put
      <4> QED BY <2>1, <3>1, <4>1, StaysFree DEF ConsoleIInv
    <3>4. phase' = 3 BY <2>1, <3>1 DEF Bench
    <3>5. CpuSound' BY <2>2, <3>2, <3>3, <3>4 DEF CpuSound, CpuMoves
    <3> QED BY <2>2, <3>2, <3>5 DEF ConsoleIInv, ProcessorInv
  <2>5. CASE IdleClock
    <3>1. UNCHANGED cpuVars BY <2>5 DEF IdleClock
    <3>2. ProcessorInv' BY <2>1, <2>3, <3>1, ProcessorRests
    <3>3. pc' = "store" => ~r_busy'
      <4> SUFFICES ASSUME pc' = "store" PROVE ~r_busy' OBVIOUS
      <4>1. pc = "store" /\ ~Put BY <3>1 DEF cpuVars, Put
      <4>2. ~r_busy /\ phase = 3 BY <2>3, <4>1 DEF CpuSound, ConsoleIInv, BenchSound
      <4> QED BY <2>1, <4>1, <4>2, StaysFree DEF ConsoleIInv
    <3>4. phase' < 3 => phase < 3 BY <2>1 DEF Bench, ConsoleIInv, BenchSound
    <3>5. CpuSound' BY <2>2, <2>3, <3>1, <3>3, <3>4 DEF CpuSound, cpuVars
    <3> QED BY <2>2, <3>2, <3>5 DEF ConsoleIInv, ProcessorInv
  <2> QED BY <1>1, <2>4, <2>5
<1>2. CASE UNCHANGED vars
  <2>1. UNCHANGED cpuVars /\ Around BY <1>2 DEF vars, Around
  <2>2. ProcessorInv' BY <2>1, ProcessorRests DEF ConsoleIInv, ProcessorInv
  <2>3. CpuSound' BY <1>2 DEF CpuSound, ConsoleIInv, vars, cpuVars, uartVars, txVars
  <2>4. BenchSound' BY <1>2 DEF BenchSound, ConsoleIInv, vars
  <2>5. LineInv'
    <3>1. UNCHANGED <<state, r_busy, lcl_data, baud_counter, zero_baud_counter, last_state, cts, o_uart_tx,
                      receiver, rx, printed, prints, phase, underway>>
      BY <1>2 DEF vars, uartVars, txVars, rxVars
    <3>2. LineTypes' /\ TransmitterInv' /\ SettingUp'
      BY <3>1 DEF ConsoleIInv, LineInv, LineTypes, TransmitterInv, SettingUp
    <3>3. BenchInv'
      BY <3>1 DEF ConsoleIInv, LineInv, BenchInv, Rest, BStart, BBefore, BAfter, BStop, ToHear, Heard
    <3>4. ArchivedInv'
      BY <3>1 DEF ConsoleIInv, LineInv, ArchivedInv, Rest, AStart, ABefore, AAfter, AStopBefore, AStopAfter,
                  AOverlap, AMissed, AHeard, ToHear, Heard, Fallen
    <3> QED BY <3>2, <3>3, <3>4 DEF LineInv
  <2> QED BY <2>2, <2>3, <2>4, <2>5 DEF ConsoleIInv, ProcessorInv
<1> QED BY <1>1, <1>2 DEF Next, Done

LEMMA ConsoleStarts == ConsoleInit => ConsoleIInv
<1> SUFFICES ASSUME ConsoleInit PROVE ConsoleIInv OBVIOUS
<1>1. LineInv BY LineStarts
<1>2. BenchSound
  <2>1. exited \in BOOLEAN BY DEF ConsoleInit
  <2>2. phase = 0 /\ clocksAfterHalt = 0 BY DEF ConsoleInit
  <2> QED BY <2>1, <2>2 DEF BenchSound
<1>3. CpuSound
  <2>1. /\ pc = "start" /\ todo = <<>> /\ call = NoCall /\ lcl_data = Pow2[DATA_BITS] - 1
    BY DEF ConsoleInit, UartInit
  <2>2. lcl_data \in Char
    <3>1. DATA_BITS \in 0..DATA_BITS BY BaudFacts
    <3>2. Pow2[DATA_BITS] \in Nat /\ Pow2[DATA_BITS] > 0 BY <3>1, PowerFacts
    <3> QED BY <2>1, <3>2 DEF Char
  <2> QED BY <2>1, <2>2 DEF CpuSound, NoCall
<1>4. ~InBios /\ Place = "start" BY DEF ConsoleInit, InBios, Place
<1>5. turn = "A" /\ regs = Own("A") /\ DOMAIN kept = Process /\ kept["A"].by = "nothing" /\ kept["B"].by = "nothing"
  BY DEF ConsoleInit, Process
<1>6. RegistersInv
  <2>1. RegistersSurvive BY <1>5 DEF RegistersSurvive, AtHome
  <2>2. program \in {"kernel", "calls"} /\ misaligned \in [Stacks -> BOOLEAN] BY DEF ConsoleInit
  <2> QED BY <1>4, <1>5, <2>1, <2>2 DEF RegistersInv, RegsShape, Own, Process
<1>7. TableInv
  <2>1. procs \in [1..PROCS_MAX -> {UNUSED, [UNUSED EXCEPT !.state = "RUNNABLE"]}] BY DEF ConsoleInit
  <2>2. [UNUSED EXCEPT !.state = "RUNNABLE"] = [state |-> "RUNNABLE", frame |-> <<>>] BY DEF UNUSED
  <2>3. UNUSED = [state |-> "UNUSED", frame |-> <<>>] BY DEF UNUSED
  <2>4. \A i \in 1..PROCS_MAX : procs[i] = [state |-> procs[i].state, frame |-> procs[i].frame]
    <3> SUFFICES ASSUME NEW i \in 1..PROCS_MAX
                 PROVE  procs[i] = [state |-> procs[i].state, frame |-> procs[i].frame]
      OBVIOUS
    <3>1. procs[i] = UNUSED \/ procs[i] = [UNUSED EXCEPT !.state = "RUNNABLE"] BY <2>1
    <3> QED BY <2>2, <2>3, <3>1
  <2> QED BY <2>1, <2>4 DEF TableInv
<1>8. ProgramInv(Place) BY <1>4, <1>5 DEF ProgramInv, Before, Running
<1> QED BY <1>1, <1>2, <1>3, <1>6, <1>7, <1>8 DEF ConsoleIInv

(* The registers are of their types, and the bench's receiver has printed  *)
(* a character before the transmitter takes the next one, for any number   *)
(* of clocks per baud from three on (txuart.v 206-365, uart.cpp 38-75).    *)
THEOREM ConsoleInvariant == Spec => []ConsoleInv
<1>1. ConsoleIInv => ConsoleInv
  <2> SUFFICES ASSUME ConsoleIInv PROVE ConsoleInv OBVIOUS
  <2>1. ConsoleTypeOK
    BY DEF ConsoleIInv, ConsoleTypeOK, LineInv, LineTypes, CpuSound, BenchSound, RegistersInv, TableInv
  <2>2. OneUnderWay
    <3>1. receiver = "uart.cpp" => underway = <<>> \/ Len(underway) = 1
      BY DEF ConsoleIInv, LineInv, BenchInv, Rest, BStart, BBefore, BAfter, BStop
    <3>2. underway = <<>> => Len(underway) <= 1 OBVIOUS
    <3>3. Len(underway) = 1 => Len(underway) <= 1 OBVIOUS
    <3> QED BY <3>1, <3>2, <3>3 DEF OneUnderWay
  <2> QED BY <2>1, <2>2 DEF ConsoleInv
<1> QED BY <1>1, ConsoleStarts, ConsoleStep, PTL DEF Spec

(* A call and a switch give the program its registers back, as far as the  *)
(* alignment of the stacks allows, whatever is called and however large    *)
(* the process table is (bios.S, kernel.c switch_context).                 *)
THEOREM RegistersComeBack == Spec => []RegistersSurvive
<1>1. ConsoleIInv => RegistersSurvive BY DEF ConsoleIInv, RegistersInv
<1> QED BY <1>1, ConsoleStarts, ConsoleStep, PTL DEF Spec

(* The line shows what was written to it, in order, once, and has room for *)
(* two characters: to the programs it is the terminal of Terminal.tla,     *)
(* with either receiver, until the bench ends (but for its progress).      *)
LEMMA TerminalStep ==
  ASSUME ConsoleIInv, [Next]_vars
  PROVE  [Term!TerminalNext]_(Term!terminalVars)
<1>1. exited \in BOOLEAN BY DEF ConsoleIInv, BenchSound
<1>2. exited' \in BOOLEAN
  <2>1. ConsoleIInv' BY ConsoleStep
  <2> QED BY <2>1 DEF ConsoleIInv, BenchSound
<1>3. CASE BusyClock \/ IdleClock
  <2>1. Bench /\ ~exited BY <1>3 DEF BusyClock, IdleClock
  <2>2. /\ (Quiet \/ ShowsOldest) /\ Underway /\ underway \in Seq(Char) /\ PutSound /\ prints \in 0..1
        /\ Put => Len(underway) <= 1
    BY <2>1, Stores, LineStep DEF ConsoleIInv, LineInv, LineTypes
  <2>3. Put => Head(todo) \in Char BY <2>2 DEF PutSound
  <2>4. CASE Quiet
    <3>1. Remaining = underway BY <2>4 DEF Quiet, Remaining
    <3>2. CASE Put
      <4>1. Len(underway) < 2 /\ underway' = Append(underway, Head(todo)) /\ Head(todo) \in Char
        BY <2>2, <2>3, <3>1, <3>2 DEF Underway
      <4>2. Term!Step(FALSE, TRUE, exited') BY <1>1, <1>2, <2>1, <2>4, <4>1, Zenon DEF Term!Step, Quiet
      <4> QED BY <1>2, <4>2, Zenon DEF Term!TerminalNext
    <3>3. CASE ~Put
      <4>1. underway' = underway BY <2>2, <3>1, <3>3 DEF Underway
      <4>2. Term!Step(FALSE, FALSE, exited') BY <1>1, <1>2, <2>1, <2>4, <4>1, Zenon DEF Term!Step, Quiet
      <4> QED BY <1>2, <4>2, Zenon DEF Term!TerminalNext
    <3> QED BY <3>2, <3>3
  <2>5. CASE ShowsOldest
    <3>1. underway # <<>> /\ printed' = Head(underway) /\ prints' = 1 - prints BY <2>5 DEF ShowsOldest, Shows
    <3>2. prints' # prints BY <2>2, <3>1
    <3>3. Remaining = Tail(underway) BY <3>1, <3>2 DEF Remaining
    <3>4. CASE Put
      <4>1. underway' = Append(Tail(underway), Head(todo)) /\ Head(todo) \in Char
        BY <2>2, <2>3, <3>3, <3>4 DEF Underway
      <4>2. Len(Tail(underway)) < 2 BY <2>2, <3>1, <3>4
      <4>3. Term!Step(TRUE, TRUE, exited') BY <1>1, <1>2, <2>1, <3>1, <4>1, <4>2, Zenon DEF Term!Step
      <4> QED BY <1>2, <4>3, Zenon DEF Term!TerminalNext
    <3>5. CASE ~Put
      <4>1. underway' = Tail(underway) BY <2>2, <3>3, <3>5 DEF Underway
      <4>2. Term!Step(TRUE, FALSE, exited') BY <1>1, <1>2, <2>1, <3>1, <4>1, Zenon DEF Term!Step
      <4> QED BY <1>2, <4>2, Zenon DEF Term!TerminalNext
    <3> QED BY <3>4, <3>5
  <2> QED BY <2>2, <2>4, <2>5
<1>4. CASE UNCHANGED vars
  BY <1>4 DEF vars, uartVars, rxVars, Term!terminalVars
<1> QED BY <1>3, <1>4 DEF Next, Done

THEOREM LineIsTerminal ==
  Spec => Term!TerminalInit /\ [][Term!TerminalNext]_(Term!terminalVars)
<1>1. ConsoleInit => Term!TerminalInit
  <2> SUFFICES ASSUME ConsoleInit PROVE Term!TerminalInit OBVIOUS
  <2>1. underway = <<>> /\ prints = 0 /\ exited = FALSE BY DEF ConsoleInit, UartInit
  <2>2. printed \in Char BY ConsoleStarts DEF ConsoleIInv, LineInv, LineTypes
  <2> QED BY <2>1, <2>2 DEF Term!TerminalInit
<1>2. ConsoleIInv /\ [Next]_vars => [Term!TerminalNext]_(Term!terminalVars) BY TerminalStep
<1> QED BY <1>1, <1>2, ConsoleStarts, ConsoleStep, PTL DEF Spec

-----------------------------------------------------------------------------
(* The turns of the kernel's processes: what was said last, when the       *)
(* program is at some place and it is someone's turn.                      *)
Latest == IF underway = <<>> THEN printed ELSE underway[Len(underway)]

KernelPlaces == {"start", "boot", "hello", "booted", "createA", "createB",
                 "startA", "loopA", "startB", "loopB", "switch"}
Said(place, t) ==
  IF place \in {"start", "boot", "hello"} THEN {0}
  ELSE IF place = "booted" THEN {Hello}
  ELSE IF place \in {"createA", "createB", "startA"} THEN {Booted}
  ELSE IF place = "loopA" THEN {StartingA, CharB}
  ELSE IF place = "startB" THEN {CharA}
  ELSE IF place = "loopB" THEN {CharA, StartingB}
  ELSE IF place = "switch" THEN {IF t = "A" THEN CharA ELSE CharB}
  ELSE {}

Messages == {"hello", "booted", "startA", "loopA", "startB", "loopB"}
Speaking == pc \in {"handler", "poll", "store"}
Speaks(p) ==
  /\ mepc = Then[p] /\ Latest \in Said(p, turn)
  /\ (p = "loopA" => turn = "A") /\ (p = "loopB" => turn = "B")
  /\ pc = "handler" => call = PutChar(Prints[p])
  /\ pc \in {"poll", "store"} => todo = <<Prints[p]>>
Silent == pc \in KernelPlaces \cup {"mret"} /\ Latest \in Said(Place, turn)
Ordered ==
  /\ underway # <<>> => underway[1] \in Follow[printed]
  /\ Len(underway) = 2 => underway[2] \in Follow[underway[1]]
LEMMA Numbers == /\ Hello = 1 /\ Booted = 2 /\ StartingA = 3 /\ CharA = 4 /\ StartingB = 5
                 /\ CharB = 6 /\ Panic = 7
BY DEF Hello, Booted, StartingA, CharA, StartingB, CharB, Panic

LEMMA FollowFacts ==
  /\ 1 \in Follow[0] /\ 2 \in Follow[1] /\ 3 \in Follow[2] /\ 4 \in Follow[3]
  /\ 5 \in Follow[4] /\ 6 \in Follow[4] /\ 6 \in Follow[5] /\ 4 \in Follow[6]
<1>1. \A c \in 0..7 : Follow[c] = IF c < 4 THEN {c + 1} ELSE IF c = 4 THEN {5, 6}
                                  ELSE IF c = 5 THEN {6} ELSE IF c = 6 THEN {4} ELSE {}
  BY Numbers DEF Follow
<1>2. Follow[0] = {1} /\ Follow[1] = {2} /\ Follow[2] = {3} /\ Follow[3] = {4} BY <1>1
<1>3. Follow[4] = {5, 6} /\ Follow[5] = {6} /\ Follow[6] = {4} BY <1>1
<1> QED BY <1>2, <1>3

LEMMA OnlyFollows == Follow[4] = {5, 6} /\ Follow[5] = {6} /\ Follow[6] = {4}
<1>1. \A c \in 4..7 : Follow[c] = IF c = 4 THEN {5, 6} ELSE IF c = 5 THEN {6} ELSE IF c = 6 THEN {4} ELSE {}
  BY Numbers DEF Follow
<1> QED BY <1>1

(* What a message says follows on what was said before it.                 *)
LEMMA SaysNext ==
  ASSUME NEW p \in Messages, NEW t, NEW l, l \in Said(p, t), p = "loopA" => t = "A", p = "loopB" => t = "B"
  PROVE  Prints[p] \in Follow[l] /\ Prints[p] \in Said(Then[p], t)
<1> USE MessageFacts, Numbers
<1>1. CASE p = "hello" BY <1>1, FollowFacts DEF Said
<1>2. CASE p = "booted" BY <1>2, FollowFacts DEF Said
<1>3. CASE p = "startA" BY <1>3, FollowFacts DEF Said
<1>4. CASE p = "loopA" BY <1>4, FollowFacts DEF Said
<1>5. CASE p = "startB" BY <1>5, FollowFacts DEF Said
<1>6. CASE p = "loopB" BY <1>6, FollowFacts DEF Said
<1> QED BY <1>1, <1>2, <1>3, <1>4, <1>5, <1>6 DEF Messages

LEMMA OneOrTwo == \A n \in Nat : n > 0 => (n <= 1 => n = 1) /\ (n <= 2 => n \in {1, 2})
OBVIOUS

(* The line keeps the order of what it is given.                           *)
LEMMA LineKeepsOrder ==
  ASSUME underway \in Seq(Char), underway' \in Seq(Char), Len(underway) <= 2, Put => Len(underway) <= 1,
         Head(todo) \in Char \/ ~Put,
         Underway, Quiet \/ ShowsOldest, prints \in 0..1, Ordered, Put => Head(todo) \in Follow[Latest]
  PROVE  /\ Ordered' /\ Latest' = (IF Put THEN Head(todo) ELSE Latest)
         /\ prints' # prints => printed' \in Follow[printed]
<1>0. Len(underway) \in Nat /\ (underway # <<>> => Len(underway) > 0)
  <2>1. \A t \in Seq(Char) : Len(t) = 0 => t = <<>> OBVIOUS
  <2>2. Len(underway) \in Nat OBVIOUS
  <2>3. Len(underway) = 0 => underway = <<>> BY <2>1
  <2> QED BY <2>2, <2>3
<1>1. CASE Quiet
  <2>1. Remaining = underway /\ printed' = printed /\ prints' = prints BY <1>1 DEF Quiet, Remaining
  <2>2. CASE ~Put
    <3>1. underway' = underway BY <2>1, <2>2 DEF Underway
    <3> QED BY <2>1, <2>2, <3>1 DEF Ordered, Latest
  <2>3. CASE Put
    <3>1. underway' = Append(underway, Head(todo)) BY <2>1, <2>3 DEF Underway
    <3>2. CASE underway = <<>>
      <4>1. underway' = <<Head(todo)>> BY <3>1, <3>2
      <4>2. underway' # <<>> /\ Len(underway') = 1 /\ underway'[1] = Head(todo) BY <4>1
      <4>3. Latest = printed /\ Latest' = Head(todo) BY <3>2, <4>2 DEF Latest
      <4> QED BY <2>1, <2>3, <4>2, <4>3 DEF Ordered
    <3>3. CASE underway # <<>>
      <4>1. Len(underway) = 1 BY <1>0, <2>3, <3>3, OneOrTwo
      <4>2. Len(underway') = 2 /\ underway'[1] = underway[1] /\ underway'[2] = Head(todo)
        BY <2>3, <3>1, <4>1, OneMore
      <4>3. underway' # <<>> BY <4>2
      <4>4. Latest = underway[1] /\ Latest' = Head(todo) BY <3>3, <4>1, <4>2, <4>3 DEF Latest
      <4> QED BY <2>1, <2>3, <3>3, <4>2, <4>3, <4>4 DEF Ordered
    <3> QED BY <3>2, <3>3
  <2> QED BY <2>2, <2>3
<1>2. CASE ShowsOldest
  <2>1. underway # <<>> /\ printed' = Head(underway) /\ prints' = 1 - prints BY <1>2 DEF ShowsOldest, Shows
  <2>2. prints' # prints BY <2>1
  <2>3. Remaining = Tail(underway) BY <2>1, <2>2 DEF Remaining
  <2>4. Len(underway) \in {1, 2} /\ Len(underway) > 0 BY <1>0, <2>1, OneOrTwo
  <2>5. printed' = underway[1] /\ printed' \in Follow[printed] BY <2>1, <2>4, ShortQueues DEF Ordered
  <2>6. CASE Len(underway) = 1
    <3>1. Tail(underway) = <<>> BY <2>4, <2>6, ShortQueues
    <3>2. Latest = underway[1] BY <2>1, <2>6 DEF Latest
    <3>3. CASE Put
      <4>0. underway' = Append(<<>>, Head(todo)) BY <2>3, <3>1, <3>3 DEF Underway
      <4>1. underway' = <<Head(todo)>> BY <3>3, <4>0
      <4>2. underway' # <<>> /\ Len(underway') = 1 /\ underway'[1] = Head(todo) BY <4>1
      <4>3. Latest' = Head(todo) BY <4>2 DEF Latest
      <4> QED BY <2>5, <3>2, <3>3, <4>2, <4>3 DEF Ordered
    <3>4. CASE ~Put
      <4>1. underway' = <<>> BY <2>3, <3>1, <3>4 DEF Underway
      <4>2. Len(underway') # 2 BY <4>1
      <4>3. Latest' = printed' BY <4>1 DEF Latest
      <4> QED BY <2>5, <3>2, <3>4, <4>1, <4>2, <4>3 DEF Ordered
    <3> QED BY <3>3, <3>4
  <2>7. CASE Len(underway) = 2
    <3>1. ~Put /\ underway' = Tail(underway) BY <2>3, <2>7 DEF Underway
    <3>2. Len(Tail(underway)) = 1 /\ Tail(underway)[1] = underway[2]
      <4>1. Len(underway) - 1 = 1 BY <2>7
      <4> QED BY <2>4, <2>7, <4>1, ShortQueues
    <3>3. underway' # <<>> /\ Len(underway') = 1 /\ underway'[1] = underway[2]
      <4>1. Len(underway') = 1 /\ underway'[1] = underway[2] BY <3>1, <3>2
      <4> QED BY <4>1
    <3>4. Latest = underway[2] /\ Latest' = underway[2] BY <2>1, <2>7, <3>3 DEF Latest
    <3> QED BY <2>5, <2>7, <3>1, <3>3, <3>4 DEF Ordered
  <2> QED BY <2>4, <2>6, <2>7
<1> QED BY <1>1, <1>2

LEMMA TwoUnderway == ASSUME LineInv PROVE Len(underway) <= 2
<1>1. underway = <<>> \/ Len(underway) = 1 \/ Len(underway) = 2
  BY DEF LineInv, LineTypes, BenchInv, ArchivedInv, Rest, BStart, BBefore, BAfter, BStop,
         AStart, ABefore, AAfter, AStopBefore, AStopAfter, AOverlap, AMissed
<1>2. underway = <<>> => Len(underway) <= 2 OBVIOUS
<1>3. Len(underway) = 1 => Len(underway) <= 2 OBVIOUS
<1>4. Len(underway) = 2 => Len(underway) <= 2 OBVIOUS
<1> QED BY <1>1, <1>2, <1>3, <1>4

LEMMA PlacesSaid == \A place, t, l : l \in Said(place, t) => place \in KernelPlaces
BY DEF Said, KernelPlaces

Kernel == program = "kernel" /\ PROCS_MAX >= 2
Says == (Speaking => \E p \in Messages : Speaks(p)) /\ (~Speaking => Silent)

(* Each step of the processor: what it stores is the message whose turn it *)
(* is, and only then what was said last changes.                           *)
LEMMA KernelStores ==
  ASSUME Says, Put
  PROVE  \E p \in Messages : Head(todo) = Prints[p] /\ Prints[p] \in Follow[Latest]
<1>1. pc = "store" BY DEF Put
<1>2. PICK p \in Messages : Speaks(p) BY <1>1 DEF Says, Speaking
<1>3. todo = <<Prints[p]>> BY <1>1, <1>2 DEF Speaks
<1>4. Prints[p] \in Follow[Latest] BY <1>2, SaysNext DEF Speaks
<1> QED BY <1>3, <1>4

LEMMA KernelStep ==
  ASSUME ConsoleIInv, Kernel, Says, Around, SupervisorStep \/ MachineStep, ProcessorInv',
         Latest' = IF Put THEN Head(todo) ELSE Latest
  PROVE  Says'
<1>0. PROCS_MAX \in Nat /\ turn \in Process BY CallsAssumption DEF ConsoleIInv, RegistersInv
<1>1. ASSUME NEW p \in DOMAIN Prints, pc = p, Ecall(PutChar(Prints[p]), Then[p]) PROVE Says'
  <2>1. ~Speaking /\ Place = p /\ ~Put BY <1>1, MessageFacts DEF Speaking, Place, InBios, Put
  <2>2. Latest \in Said(p, turn) BY <2>1 DEF Says, Silent
  <2>3. p \in Messages BY <2>2, MessageFacts, PlacesSaid DEF KernelPlaces, Messages
  <2>4. /\ pc' = "handler" /\ mepc' = Then[p] /\ call' = PutChar(Prints[p]) /\ turn' = turn
        /\ Latest' = Latest
    BY <1>1, <2>1 DEF Ecall
  <2>5. (p = "loopA" => turn = "A") /\ (p = "loopB" => turn = "B")
    BY <2>1 DEF ConsoleIInv, ProgramInv, Running
  <2>6. Speaks(p)' BY <2>2, <2>4, <2>5 DEF Speaks
  <2>7. Speaking' BY <2>4 DEF Speaking
  <2> QED BY <2>3, <2>6, <2>7 DEF Says
<1>2. CASE pc = "calls" \/ Ebreak \/ AfterPulse
  <2>1. ~Speaking /\ pc \notin KernelPlaces /\ pc # "mret"
    BY <1>2 DEF Ebreak, AfterPulse, Speaking, KernelPlaces
  <2> QED BY <2>1 DEF Says, Silent
<1>3. CASE Start \/ KernelMain \/ CreateProcess
  <2>1. ~Speaking /\ Place = pc /\ ~Put /\ turn' = turn
    BY <1>3 DEF Start, KernelMain, CreateProcess, Speaking, Place, InBios, Put
  <2>2. Latest' = Latest /\ Latest \in Said(pc, turn) BY <2>1 DEF Says, Silent
  <2>3. <<pc, pc'>> \in {<<"start", "boot">>, <<"boot", "hello">>, <<"createA", "createB">>, <<"createB", "startA">>}
    <3>1. CASE Start \/ KernelMain BY <3>1 DEF Start, KernelMain, Kernel
    <3>2. CASE CreateProcess
      <4>1. pc \in {"createA", "createB"} BY <3>2 DEF CreateProcess
      <4>2. \E i \in DOMAIN procs : Free(procs[i])
        <5>1. DOMAIN procs = 1..PROCS_MAX /\ 1 \in 1..PROCS_MAX /\ 2 \in 1..PROCS_MAX /\ 2 \in 2..PROCS_MAX
          BY <1>0 DEF ConsoleIInv, TableInv, Kernel
        <5>2. procs[2] = UNUSED BY <2>1, <4>1, <5>1 DEF ConsoleIInv, ProgramInv
        <5>3. Free(procs[2]) BY <5>2 DEF Free, UNUSED
        <5> QED BY <5>1, <5>3
      <4> QED BY <3>2, <4>1, <4>2 DEF CreateProcess
    <3> QED BY <1>3, <3>1, <3>2
  <2>4. ~Speaking' /\ Place' = pc' BY <2>3 DEF Speaking, Place, InBios
  <2>5. Latest \in Said(pc', turn) /\ pc' \in KernelPlaces BY <2>2, <2>3 DEF Said, KernelPlaces
  <2>6. Silent' BY <2>1, <2>2, <2>4, <2>5 DEF Silent
  <2> QED BY <2>4, <2>6 DEF Says
<1>4. CASE SwitchContext
  <2>1. ~Speaking /\ Place = "switch" /\ ~Put /\ turn' = Other(turn) /\ turn \in {"A", "B"}
    BY <1>0, <1>4 DEF SwitchContext, Speaking, Place, InBios, Put, Process
  <2>2. Latest' = Latest /\ Latest = (IF turn = "A" THEN CharA ELSE CharB) BY <2>1 DEF Says, Silent, Said
  <2>3. pc' \in {"startB", "loopA", "loopB"} BY <1>4, SwitchKeeps DEF ConsoleIInv, ProcessorInv
  <2>4. ~Speaking' /\ Place' = pc' BY <2>3 DEF Speaking, Place, InBios
  <2>5. (pc' \in {"startB", "loopB"} => turn' = "B") /\ (pc' = "loopA" => turn' = "A")
    BY <2>3, <2>4 DEF ProcessorInv, ProgramInv, Running
  <2>6. Latest \in Said(pc', turn') /\ pc' \in KernelPlaces
    BY <2>1, <2>2, <2>3, <2>5 DEF Said, KernelPlaces, Other
  <2>7. Silent' BY <2>2, <2>4, <2>6 DEF Silent
  <2> QED BY <2>4, <2>7 DEF Says
<1>5. CASE Handler \/ Poll
  <2>1. pc \in {"handler", "poll"} /\ mepc' = mepc /\ turn' = turn BY <1>5 DEF Handler, Poll
  <2>2. PICK p \in Messages : Speaks(p) BY <2>1 DEF Says, Speaking
  <2>3. pc' \in {"poll", "store"} /\ todo' = <<Prints[p]>>
    <3>1. CASE Poll BY <2>1, <2>2, <3>1 DEF Poll, Speaks
    <3>2. CASE Handler
      <4>1. call = PutChar(Prints[p]) BY <2>2, <3>2 DEF Handler, Speaks
      <4>2. call.eid = "DBCN" /\ call.fid = 2 /\ call.chars = <<Prints[p]>> BY <4>1 DEF PutChar
      <4>3. Writes(call) /\ ~Stops(call) BY <4>2 DEF Writes, Stops
      <4>4. call.chars # <<>> BY <4>2
      <4> QED BY <3>2, <4>2, <4>3, <4>4 DEF Handler
    <3> QED BY <1>5, <3>1, <3>2
  <2>4. Latest' = Latest BY <2>1 DEF Put
  <2>5. Speaks(p)' /\ Speaking' BY <2>1, <2>2, <2>3, <2>4 DEF Speaks, Speaking
  <2> QED BY <2>5 DEF Says
<1>6. CASE Store
  <2>1. pc = "store" /\ mepc' = mepc /\ turn' = turn BY <1>6 DEF Store
  <2>2. PICK p \in Messages : Speaks(p) BY <2>1 DEF Says, Speaking
  <2>3. todo = <<Prints[p]>> /\ Head(todo) = Prints[p] /\ Tail(todo) = <<>>
    <3>1. todo = <<Prints[p]>> BY <2>1, <2>2 DEF Speaks
    <3>2. todo \in Seq(Char) BY DEF ConsoleIInv, CpuSound
    <3>3. Len(todo) = 1 /\ todo[1] = Prints[p] BY <3>1
    <3>4. Len(todo) > 0 BY <3>3
    <3>5. Head(todo) = todo[1] /\ Tail(todo) = <<>> BY <3>2, <3>3, <3>4, ShortQueues
    <3> QED BY <3>1, <3>3, <3>5
  <2>4. pc' = "mret" /\ Latest' = Prints[p] BY <1>6, <2>1, <2>3 DEF Store, Put
  <2>5. Latest' \in Said(Then[p], turn) BY <2>2, <2>4, SaysNext DEF Speaks
  <2>6. Place' = Then[p] /\ ~Speaking' BY <2>1, <2>2, <2>4 DEF Place, InBios, Speaks, Speaking
  <2>7. Silent' BY <2>1, <2>4, <2>5, <2>6 DEF Silent
  <2> QED BY <2>6, <2>7 DEF Says
<1>7. CASE Mret
  <2>1. ~Speaking /\ InBios /\ Place = mepc /\ ~Put /\ turn' = turn /\ pc' = mepc
    BY <1>7 DEF Mret, Speaking, InBios, Place, Put
  <2>2. mepc \in Supervisor BY <2>1 DEF ConsoleIInv, RegistersInv
  <2>3. ~Speaking' /\ Place' = mepc BY <2>1, <2>2, SupervisorPlaces DEF Speaking, Place, InBios
  <2>4. Latest' = Latest /\ Latest \in Said(mepc, turn) BY <2>1 DEF Says, Silent
  <2>5. mepc \in KernelPlaces BY <2>4, PlacesSaid
  <2>6. Silent' BY <2>1, <2>3, <2>4, <2>5 DEF Silent
  <2> QED BY <2>3, <2>6 DEF Says
<1> QED BY <1>1, <1>2, <1>3, <1>4, <1>5, <1>6, <1>7 DEF SupervisorStep, MachineStep

(* B has still to say that it starts, or is about to.                      *)
ToStart == kept["B"].by = "nothing" \/ Place = "startB" \/ (Speaking /\ mepc = "loopB")
Unheard == printed # CharB /\ \A i \in 1..Len(underway) : underway[i] # CharB
(* B is heard from its loop only when it has started, and its start is     *)
(* never underway behind that.                                             *)
Once ==
  /\ ToStart => Unheard
  /\ printed = CharB => \A i \in 1..Len(underway) : underway[i] # StartingB

LEMMA KeptStays ==
  ASSUME RegistersInv, SupervisorStep \/ MachineStep, kept["B"].by # "nothing"
  PROVE  kept'["B"].by # "nothing"
<1>1. kept' = kept \/ \E w \in {"call", "switch"} : kept' = [kept EXCEPT ![turn] = [by |-> w, regs |-> regs]]
  BY DEF SupervisorStep, MachineStep, Ecall, KernelMain, CreateProcess, SwitchContext,
         Start, Handler, Poll, Store, Mret, Ebreak, AfterPulse
<1>2. turn \in {"A", "B"} /\ DOMAIN kept = {"A", "B"} BY DEF RegistersInv, Process
<1>3. ASSUME NEW w \in {"call", "switch"}, kept' = [kept EXCEPT ![turn] = [by |-> w, regs |-> regs]]
      PROVE  kept'["B"].by # "nothing"
  <2>1. CASE turn = "A"
    <3>1. kept'["B"] = kept["B"] BY <1>2, <1>3, <2>1
    <3> QED BY <3>1
  <2>2. CASE turn = "B"
    <3>1. kept'["B"].by = w BY <1>2, <1>3, <2>2
    <3> QED BY <3>1
  <2> QED BY <1>2, <2>1, <2>2
<1> QED BY <1>1, <1>3

(* No step takes B back to where it has still to start: a switch goes to   *)
(* its entry only if it has not run, and else to where ra says.            *)
LEMMA StartsNoMore ==
  ASSUME ConsoleIInv, Kernel, Says, Around, SupervisorStep \/ MachineStep, ~ToStart
  PROVE  ~ToStart'
<1>1. kept'["B"].by # "nothing" BY KeptStays DEF ConsoleIInv, ToStart
<1>2. Place # "startB" /\ ~(Speaking /\ mepc = "loopB") BY DEF ToStart
<1>3. CASE \E p \in DOMAIN Prints : pc = p /\ Ecall(PutChar(Prints[p]), Then[p])
  <2>1. PICK p \in DOMAIN Prints : pc = p /\ Ecall(PutChar(Prints[p]), Then[p]) BY <1>3
  <2>2. Place = p BY <2>1, MessageFacts DEF Place, InBios
  <2>3. pc' = "handler" /\ mepc' = Then[p] /\ Place' = Then[p] BY <2>1 DEF Ecall, Place, InBios
  <2>4. Then[p] # "startB" /\ Then[p] # "loopB" BY <1>2, <2>1, <2>2, MessageFacts
  <2> QED BY <1>1, <2>3, <2>4 DEF ToStart
<1>4. CASE pc = "calls" \/ Ebreak \/ AfterPulse
  <2>1. ~Speaking /\ pc \notin KernelPlaces /\ pc # "mret"
    BY <1>4 DEF Ebreak, AfterPulse, Speaking, KernelPlaces
  <2> QED BY <2>1 DEF Says, Silent
<1>5. CASE Start \/ KernelMain \/ CreateProcess
  <2>1. pc' \in {"boot", "calls", "hello", "createB", "startA", "panic"}
    BY <1>5 DEF Start, KernelMain, CreateProcess
  <2>2. Place' = pc' /\ ~Speaking' BY <2>1 DEF Place, InBios, Speaking
  <2> QED BY <1>1, <2>1, <2>2 DEF ToStart
<1>6. CASE SwitchContext
  <2>1. pc' \in {"startB", "loopA", "loopB"} /\ pc' = procs[Slot[Other(turn)]].frame[0]
    BY <1>6, SwitchKeeps DEF ConsoleIInv, ProcessorInv, SwitchContext
  <2>2. Place = "switch" BY <1>6 DEF SwitchContext, Place, InBios
  <2>3. pc' = ReturnsTo(Other(turn)) \/ (Other(turn) = "B" /\ kept[Other(turn)].by = "nothing")
    BY <2>1, <2>2 DEF ConsoleIInv, ProgramInv, Running
  <2>4. pc' # "startB" BY <2>3 DEF ToStart, ReturnsTo
  <2>5. Place' = pc' /\ ~Speaking' BY <2>1 DEF Place, InBios, Speaking
  <2> QED BY <1>1, <2>4, <2>5 DEF ToStart
<1>7. CASE Handler \/ Poll \/ Store
  <2>1. Speaking /\ mepc' = mepc /\ Place = mepc
    BY <1>7 DEF Handler, Poll, Store, Speaking, Place, InBios
  <2>2. pc' \in {"ebreak", "poll", "store", "mret"} BY <1>7 DEF Handler, Poll, Store
  <2>3. Place' = mepc BY <2>1, <2>2 DEF Place, InBios
  <2> QED BY <1>1, <1>2, <2>1, <2>3 DEF ToStart
<1>8. CASE Mret
  <2>1. InBios /\ Place = mepc /\ pc' = mepc BY <1>8 DEF Mret, InBios, Place
  <2>2. mepc \in Supervisor BY <2>1 DEF ConsoleIInv, RegistersInv
  <2>3. ~Speaking' /\ Place' = mepc BY <2>1, <2>2, SupervisorPlaces DEF Speaking, Place, InBios
  <2> QED BY <1>1, <1>2, <2>1, <2>3 DEF ToStart
<1> QED BY <1>3, <1>4, <1>5, <1>6, <1>7, <1>8 DEF SupervisorStep, MachineStep

(* What B says, and what is known when it does.                            *)
LEMMA PutsOfB ==
  ASSUME ConsoleIInv, Says, Put
  PROVE  /\ Head(todo) = StartingB => ToStart
         /\ Head(todo) = CharB => ~ToStart
<1>1. pc = "store" /\ InBios /\ Place = mepc /\ Speaking BY DEF Put, InBios, Place, Speaking
<1>2. PICK p \in Messages : Speaks(p) BY <1>1 DEF Says
<1>3. todo = <<Prints[p]>> /\ mepc = Then[p] BY <1>1, <1>2 DEF Speaks
<1>4. Head(todo) = Prints[p] BY <1>3
<1>5. ASSUME Head(todo) = StartingB PROVE ToStart
  <2>1. p = "startB" BY <1>4, <1>5, MessageFacts, Numbers DEF Messages
  <2> QED BY <1>1, <1>3, <2>1, MessageFacts DEF ToStart
<1>6. ASSUME Head(todo) = CharB PROVE ~ToStart
  <2>1. p = "loopB" BY <1>4, <1>6, MessageFacts, Numbers DEF Messages
  <2>2. turn = "B" /\ mepc = "switch" BY <1>2, <1>3, <2>1, MessageFacts DEF Speaks
  <2>3. kept["B"] = [by |-> "call", regs |-> regs] BY <1>1, <2>2 DEF ConsoleIInv, RegistersInv
  <2>4. kept["B"].by = "call" BY <2>3
  <2> QED BY <1>1, <2>2, <2>4 DEF ToStart
<1> QED BY <1>5, <1>6

(* The line, to which nothing but its two ends matters here.               *)
LEMMA LineMoves ==
  ASSUME underway \in Seq(Char), Len(underway) <= 2, Put => Len(underway) <= 1,
         Head(todo) \in Char \/ ~Put, Underway, Quiet \/ ShowsOldest, prints \in 0..1
  PROVE  /\ \/ printed' = printed
            \/ Len(underway) > 0 /\ printed' = underway[1] /\ prints' # prints
         /\ \A i \in 1..Len(underway') :
              \/ Put /\ underway'[i] = Head(todo)
              \/ \E j \in 1..Len(underway) :
                   /\ underway'[i] = underway[j]
                   /\ printed' = printed \/ j = 2
<1>0. Len(underway) \in Nat /\ (underway # <<>> => Len(underway) > 0)
  <2>1. \A t \in Seq(Char) : Len(t) = 0 => t = <<>> OBVIOUS
  <2>2. Len(underway) \in Nat OBVIOUS
  <2>3. Len(underway) = 0 => underway = <<>> BY <2>1
  <2> QED BY <2>2, <2>3
<1>1. CASE Quiet
  <2>1. Remaining = underway /\ printed' = printed BY <1>1 DEF Quiet, Remaining
  <2>2. CASE ~Put
    <3>1. underway' = underway BY <2>1, <2>2 DEF Underway
    <3> QED BY <2>1, <3>1
  <2>3. CASE Put
    <3>1. underway' = Append(underway, Head(todo)) BY <2>1, <2>3 DEF Underway
    <3>2. Len(underway') = Len(underway) + 1 BY <2>3, <3>1
    <3>3. \A i \in 1..Len(underway) : underway'[i] = underway[i] BY <2>3, <3>1
    <3>4. underway'[Len(underway) + 1] = Head(todo) BY <2>3, <3>1
    <3>5. \A i \in 1..Len(underway') : i \in 1..Len(underway) \/ i = Len(underway) + 1 BY <1>0, <3>2
    <3> QED BY <2>1, <2>3, <3>3, <3>4, <3>5
  <2> QED BY <2>2, <2>3
<1>2. CASE ShowsOldest
  <2>1. underway # <<>> /\ printed' = Head(underway) /\ prints' = 1 - prints BY <1>2 DEF ShowsOldest, Shows
  <2>2. prints' # prints BY <2>1
  <2>3. Remaining = Tail(underway) BY <2>1, <2>2 DEF Remaining
  <2>4. Len(underway) \in {1, 2} /\ Len(underway) > 0 BY <1>0, <2>1, OneOrTwo
  <2>5. printed' = underway[1] BY <2>1, <2>4, ShortQueues
  <2>6. CASE Len(underway) = 1
    <3>1. Tail(underway) = <<>> BY <2>4, <2>6, ShortQueues
    <3>2. CASE Put
      <4>1. underway' = Append(<<>>, Head(todo)) BY <2>3, <3>1, <3>2 DEF Underway
      <4>2. underway' = <<Head(todo)>> BY <3>2, <4>1
      <4>3. Len(underway') = 1 /\ underway'[1] = Head(todo) BY <4>2
      <4>4. \A i \in 1..Len(underway') : i = 1 BY <4>3
      <4> QED BY <2>2, <2>4, <2>5, <3>2, <4>3, <4>4
    <3>3. CASE ~Put
      <4>1. underway' = <<>> BY <2>3, <3>1, <3>3 DEF Underway
      <4>2. \A i \in 1..Len(underway') : FALSE BY <4>1
      <4> QED BY <2>2, <2>4, <2>5, <4>2
    <3> QED BY <3>2, <3>3
  <2>7. CASE Len(underway) = 2
    <3>1. ~Put /\ underway' = Tail(underway) BY <2>3, <2>7 DEF Underway
    <3>2. Len(underway') = 1 /\ underway'[1] = underway[2]
      <4>1. Len(underway) - 1 = 1 BY <2>7
      <4> QED BY <2>4, <2>7, <3>1, <4>1, ShortQueues
    <3>3. \A i \in 1..Len(underway') : i = 1 BY <3>2
    <3>4. 2 \in 1..Len(underway) BY <2>7
    <3> QED BY <2>2, <2>4, <2>5, <3>2, <3>3, <3>4
  <2> QED BY <2>4, <2>6, <2>7
<1> QED BY <1>1, <1>2

(* What is known for ever once A, or B, has been heard from its loop.      *)
GoneA == printed \in {CharA, StartingB, CharB}
GoneB == ~ToStart /\ printed # StartingB /\ \A i \in 1..Len(underway) : underway[i] # StartingB

LEMMA OnceStep ==
  ASSUME ConsoleIInv, Says, Ordered, Once, ToStart' => ToStart, prints' # prints => printed' \in Follow[printed],
         underway \in Seq(Char), Len(underway) <= 2, Put => Len(underway) <= 1,
         Head(todo) \in Char \/ ~Put, Underway, Quiet \/ ShowsOldest, prints \in 0..1
  PROVE  Once' /\ (GoneA => GoneA') /\ (GoneB => GoneB')
<1>1. /\ \/ printed' = printed
         \/ Len(underway) > 0 /\ printed' = underway[1] /\ prints' # prints
      /\ \A i \in 1..Len(underway') :
           \/ Put /\ underway'[i] = Head(todo)
           \/ \E j \in 1..Len(underway) :
                /\ underway'[i] = underway[j]
                /\ printed' = printed \/ j = 2
  BY LineMoves
<1>2. /\ Put /\ Head(todo) = StartingB => ToStart
      /\ Put /\ Head(todo) = CharB => ~ToStart
  BY PutsOfB
<1>3. Len(underway) \in Nat OBVIOUS
<1>4. Len(underway) > 0 => 1 \in 1..Len(underway) BY <1>3
<1>5. ToStart' => Unheard'
  <2> SUFFICES ASSUME ToStart' PROVE Unheard' OBVIOUS
  <2>1. ToStart /\ Unheard BY DEF Once
  <2>2. printed' # CharB BY <1>1, <1>4, <2>1 DEF Unheard
  <2>3. ASSUME NEW i \in 1..Len(underway') PROVE underway'[i] # CharB
    BY <1>1, <1>2, <2>1 DEF Unheard
  <2> QED BY <2>2, <2>3 DEF Unheard
<1>6. ASSUME printed' = CharB, NEW i \in 1..Len(underway') PROVE underway'[i] # StartingB
  <2>1. printed = CharB \/ (Len(underway) > 0 /\ underway[1] = CharB) BY <1>1, <1>6
  <2>2. ~ToStart BY <1>4, <2>1 DEF Once, Unheard
  <2>3. ASSUME NEW j \in 1..Len(underway), underway'[i] = underway[j], printed' = printed \/ j = 2
        PROVE  underway'[i] # StartingB
    <3>1. CASE printed' = printed BY <1>6, <2>3, <3>1 DEF Once
    <3>2. CASE printed' # printed
      <4>1. j = 2 /\ underway[1] = CharB BY <1>1, <1>6, <2>3, <3>2
      <4>2. Len(underway) = 2
        <5>1. \A n \in Nat : n <= 2 /\ 2 \in 1..n => n = 2 OBVIOUS
        <5>2. 2 \in 1..Len(underway) BY <4>1
        <5> QED BY Zenon, <1>3, <5>1, <5>2
      <4>3. underway # <<>> BY <4>2
      <4>4. underway[2] \in Follow[CharB] BY <4>1, <4>2, <4>3 DEF Ordered
      <4>5. underway[2] = CharA BY <4>4, OnlyFollows, Numbers
      <4> QED BY <2>3, <4>1, <4>5, Numbers
    <3> QED BY <3>1, <3>2
  <2> QED BY <1>1, <1>2, <1>6, <2>2, <2>3
<1>7. GoneA => GoneA' BY <1>1, OnlyFollows, Numbers DEF GoneA
<1>8. GoneB => GoneB'
  <2> SUFFICES ASSUME GoneB PROVE GoneB' OBVIOUS
  <2>1. ~ToStart /\ ~ToStart' BY DEF GoneB
  <2>2. printed' # StartingB BY <1>1, <1>4 DEF GoneB
  <2>3. ASSUME NEW i \in 1..Len(underway') PROVE underway'[i] # StartingB
    BY <1>1, <1>2, <2>1 DEF GoneB
  <2> QED BY <2>1, <2>2, <2>3 DEF GoneB
<1> QED BY <1>5, <1>6, <1>7, <1>8 DEF Once

TurnsIInv == ConsoleIInv /\ (Kernel => Ordered /\ Says /\ Once)

LEMMA TurnsStep ==
  ASSUME TurnsIInv, [Next]_vars
  PROVE  /\ TurnsIInv' /\ (Kernel => Kernel')
         /\ Kernel /\ prints' # prints => printed' \in Follow[printed]
         /\ Kernel => (GoneA => GoneA') /\ (GoneB => GoneB')
<1>1. ConsoleIInv /\ ConsoleIInv' BY ConsoleStep DEF TurnsIInv
<1>2. CASE BusyClock \/ IdleClock
  <2>1. Bench /\ Around BY <1>2 DEF BusyClock, IdleClock, Bench, Around
  <2> SUFFICES ASSUME Kernel
               PROVE  /\ Ordered' /\ Says' /\ Once' /\ (prints' # prints => printed' \in Follow[printed])
                      /\ (GoneA => GoneA') /\ (GoneB => GoneB')
    BY <1>1, <2>1 DEF TurnsIInv, Kernel, Around
  <2>2. Ordered /\ Says /\ Once BY DEF TurnsIInv
  <2>3. /\ (Quiet \/ ShowsOldest) /\ Underway /\ PutSound /\ prints \in 0..1
        /\ Put => Len(underway) <= 1
    BY <1>1, <2>1, Stores, LineStep DEF ConsoleIInv, LineInv, LineTypes
  <2>4. underway \in Seq(Char) /\ underway' \in Seq(Char) BY <1>1 DEF ConsoleIInv, LineInv, LineTypes
  <2>5. Len(underway) <= 2 BY <1>1, <2>4, TwoUnderway DEF ConsoleIInv
  <2>6. Put => Head(todo) \in Follow[Latest] BY <2>2, KernelStores
  <2>7. Head(todo) \in Char \/ ~Put BY <2>3 DEF PutSound
  <2>8. /\ Ordered' /\ Latest' = (IF Put THEN Head(todo) ELSE Latest)
        /\ prints' # prints => printed' \in Follow[printed]
    BY <2>2, <2>3, <2>4, <2>5, <2>6, <2>7, LineKeepsOrder
  <2>9. Says' /\ (ToStart' => ToStart)
    <3>1. CASE BusyClock
      <4>1. SupervisorStep \/ MachineStep BY <3>1 DEF BusyClock
      <4>2. ProcessorInv' BY <1>1 DEF ConsoleIInv, ProcessorInv
      <4>3. Says' BY <1>1, <2>1, <2>2, <2>8, <4>1, <4>2, KernelStep
      <4>4. ToStart' => ToStart BY <1>1, <2>1, <2>2, <4>1, StartsNoMore
      <4> QED BY <4>3, <4>4
    <3>2. CASE IdleClock
      <4>1. UNCHANGED <<pc, mepc, todo, call, turn, kept>> BY <3>2 DEF IdleClock, cpuVars
      <4>2. Latest' = Latest /\ Place' = Place /\ (Speaking' <=> Speaking)
        BY <2>8, <4>1 DEF Put, Place, InBios, Speaking
      <4>3. Silent => Silent' BY <4>1, <4>2 DEF Silent
      <4>4. ASSUME NEW p \in Messages, Speaks(p) PROVE Speaks(p)' BY <4>1, <4>2, <4>4 DEF Speaks
      <4>5. Says' BY <2>2, <4>2, <4>3, <4>4 DEF Says
      <4>6. ToStart' => ToStart BY <4>1, <4>2 DEF ToStart
      <4> QED BY <4>5, <4>6
    <3> QED BY <1>2, <3>1, <3>2
  <2>10. Once' /\ (GoneA => GoneA') /\ (GoneB => GoneB')
    BY <1>1, <2>2, <2>3, <2>4, <2>5, <2>7, <2>8, <2>9, OnceStep
  <2> QED BY <2>8, <2>9, <2>10
<1>3. CASE UNCHANGED vars
  <2>1. UNCHANGED <<pc, mepc, todo, call, turn, kept, printed, prints, underway, program>>
    BY <1>3 DEF vars, cpuVars, uartVars, rxVars
  <2>2. Latest' = Latest /\ Place' = Place /\ (Speaking' <=> Speaking) /\ (Silent => Silent')
    BY <2>1 DEF Latest, Place, InBios, Speaking, Silent
  <2>3. ASSUME NEW p \in Messages, Speaks(p) PROVE Speaks(p)' BY <2>1, <2>2, <2>3 DEF Speaks
  <2>4. Says => Says' BY <2>2, <2>3 DEF Says
  <2>5. (Ordered => Ordered') /\ (Kernel' <=> Kernel) BY <2>1 DEF Ordered, Kernel
  <2>6. (ToStart' <=> ToStart) BY <2>1, <2>2 DEF ToStart
  <2>7. (Once => Once') /\ (GoneA => GoneA') /\ (GoneB => GoneB')
    BY <2>1, <2>6 DEF Once, Unheard, GoneA, GoneB
  <2> QED BY <1>1, <2>1, <2>4, <2>5, <2>7 DEF TurnsIInv
<1> QED BY <1>2, <1>3 DEF Next, Done

(* With room for two processes, as in kernel.c, its messages come in       *)
(* order and the two take turns, whatever the line's speed and the         *)
(* receiver, and no switch takes a process that has been heard from its    *)
(* loop back to its entry (kernel.c 165-259, kernel.S 168-228).            *)
THEOREM ProcessesTakeTurns == ASSUME PROCS_MAX >= 2 PROVE Spec => TakeTurns
<1>1. ConsoleInit => TurnsIInv
  <2> SUFFICES ASSUME ConsoleInit PROVE TurnsIInv OBVIOUS
  <2>1. pc = "start" /\ underway = <<>> /\ printed = 0 BY DEF ConsoleInit, UartInit
  <2>2. Ordered BY <2>1 DEF Ordered
  <2>3. ~Speaking /\ Place = "start" /\ Latest = 0 BY <2>1 DEF Speaking, Place, InBios, Latest
  <2>4. Silent BY <2>1, <2>3 DEF Silent, Said, KernelPlaces
  <2>5. Once
    <3>1. \A i \in 1..Len(underway) : FALSE BY <2>1
    <3> QED BY <2>1, <3>1, Numbers DEF Once, Unheard
  <2> QED BY <2>2, <2>3, <2>4, <2>5, ConsoleStarts DEF TurnsIInv, Says
<1>2. TurnsIInv /\ [Next]_vars => TurnsIInv' BY TurnsStep
<1>3. TurnsIInv /\ [Next]_vars => [program = "kernel" /\ prints' # prints => printed' \in Follow[printed]]_vars
  BY TurnsStep DEF Kernel
<1>4. Kernel <=> program = "kernel" BY DEF Kernel
<1>5. TurnsIInv /\ Kernel /\ [Next]_vars => Kernel' BY TurnsStep
<1>6. StartsOnce(StartingA, CharA) <=> [](printed = CharA => [](printed # StartingA)) BY DEF StartsOnce
<1>7. StartsOnce(StartingB, CharB) <=> [](printed = CharB => [](printed # StartingB)) BY DEF StartsOnce
<1>8. /\ printed = CharA => GoneA
      /\ GoneA => printed # StartingA
      /\ TurnsIInv /\ Kernel /\ GoneA /\ [Next]_vars => GoneA'
  BY TurnsStep, Numbers DEF GoneA
<1>9. /\ TurnsIInv /\ Kernel /\ printed = CharB => GoneB
      /\ GoneB => printed # StartingB
      /\ TurnsIInv /\ Kernel /\ GoneB /\ [Next]_vars => GoneB'
  <2>1. TurnsIInv /\ Kernel /\ printed = CharB => GoneB BY Numbers DEF TurnsIInv, Once, Unheard, GoneB
  <2>2. GoneB => printed # StartingB BY DEF GoneB
  <2> QED BY <2>1, <2>2, TurnsStep
<1> QED BY <1>1, <1>2, <1>3, <1>4, <1>5, <1>6, <1>7, <1>8, <1>9, PTL DEF Spec, TakeTurns
=============================================================================
