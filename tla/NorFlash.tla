------------------------------ MODULE NorFlash ------------------------------
(***************************************************************************)
(* What a serial NOR flash promises its program: a job (programming a      *)
(* page, erasing a sector or everything, writing the status register) is   *)
(* taken only when writing is enabled and no other one is going on;        *)
(* programming only clears bits, and only within one page; only an erasure *)
(* sets bits, and sets all of a whole sector; every job uses up the        *)
(* permission and keeps the chip busy for a while.  A job whose address    *)
(* lies behind the end of the chip changes nothing.                        *)
(***************************************************************************)
EXTENDS Naturals

CONSTANTS Bit,       \* the bits of a byte
          MEMBYTES, PAGE, SECTOR

Byte   == SUBSET Bit                       \* a byte is the set of its ones
Addr   == 0..(MEMBYTES - 1)
PageOf(a)   == {b \in Addr : b \div PAGE = a \div PAGE}
SectorOf(a) == {b \in Addr : b \div SECTOR = a \div SECTOR}
Job    == {"program", "erase sector", "erase all", "write status"}

VARIABLES content, enabled, busy, asleep, job
norVars == <<content, enabled, busy, asleep, job>>

WriteEnable  == enabled' = TRUE /\ UNCHANGED <<content, busy, asleep, job>>
WriteDisable == enabled' = FALSE /\ UNCHANGED <<content, busy, asleep, job>>
Begin(j) ==
  /\ enabled /\ ~busy /\ ~asleep /\ job = "none"
  /\ job' = j /\ UNCHANGED <<content, enabled, busy, asleep>>

Finish == busy' = TRUE /\ enabled' = FALSE /\ job' = "none" /\ UNCHANGED asleep

Program ==
  /\ job = "program" /\ Finish
  /\ \A b \in Addr : content'[b] \subseteq content[b]
  /\ \A b, c \in Addr : content'[b] # content[b] /\ content'[c] # content[c] => c \in PageOf(b)
  /\ content' = [b \in Addr |-> content'[b]]
EraseSector ==
  /\ job = "erase sector" /\ Finish
  /\ \/ content' = content
     \/ \E a \in Addr : content' = [b \in Addr |-> IF b \in SectorOf(a) THEN Bit ELSE content[b]]
EraseAll    == job = "erase all" /\ Finish /\ content' = [b \in Addr |-> Bit]
WriteStatus == job = "write status" /\ Finish /\ UNCHANGED content

(* The end of a job: nothing is going on, nothing is permitted.            *)
Complete == busy' = FALSE /\ enabled' = FALSE /\ asleep' = FALSE /\ UNCHANGED <<content, job>>

Sleep == ~busy /\ asleep' = TRUE /\ UNCHANGED <<content, enabled, busy, job>>
Wake  == asleep /\ asleep' = FALSE /\ UNCHANGED <<content, enabled, busy, job>>

NorInit == content \in [Addr -> Byte] /\ ~enabled /\ ~busy /\ ~asleep /\ job = "none"
NorNext == \/ WriteEnable \/ WriteDisable \/ \E j \in Job : Begin(j)
           \/ Program \/ EraseSector \/ EraseAll \/ WriteStatus
           \/ Complete \/ Sleep \/ Wake

NorSpec == NorInit /\ [][NorNext]_norVars
=============================================================================
