-------------------------------- MODULE Trap ---------------------------------
(***************************************************************************)
(* Traps, returns and CSR accesses (DecodeUnit.v 296-360, CSR_RegFile.v).  *)
(* A trap or a return changes the CSRs and the privilege while it is in    *)
(* decode; a CSR access reads its register in execute and writes it, every *)
(* one of them, from the memory stage.  Two comparisons in decode keep the *)
(* order of the program; they take an access without a source register, or *)
(* with the immediate 0, for one that does not write.                      *)
(*                                                                         *)
(* Words are sets of bit numbers.  Every instruction here is on the path   *)
(* of the program: what squashed ones do is in Pipeline.tla.               *)
(***************************************************************************)
EXTENDS Integers

CONSTANTS
  CsrId,               \* of CsrNames
  Source,              \* words a source register may hold
  PC,                  \* words D_nextPC may be
  MAXINSTRUCTIONS      \* bound of this instance: instructions decoded

MSTATUS_MASK == {1, 3, 5, 6, 7, 8, 11, 12}          \* of the bits that are ever set
SSTATUS_MASK == {1, 5, 6, 8}
US == {}
SU == {0}
MA == {0, 1}
Plain == {"medeleg", "mideleg", "mtvec", "mepc", "mcause", "mscratch", "stvec", "sepc",
          "scause", "sscratch"}
CsrNames == Plain \cup {"mstatus", "sstatus"}

ASSUME CsrAssumption ==
  /\ CsrId \subseteq CsrNames /\ MAXINSTRUCTIONS \in Nat
  /\ \A w \in Source \cup PC : w \subseteq 0..31

(* Instructions: rs1Id 0 is x0, or the immediate 0.                        *)
CsrAccess ==
  [kind : {"CSR"}, id : CsrId, op : {"RW", "RS", "RC"}, rs1Id : {1}, word : Source] \cup
  [kind : {"CSR"}, id : CsrId, op : {"RW", "RS", "RC"}, rs1Id : {0}, word : {{}}]
Privileged == [kind : {"ECALL", "UNIMP", "MRET", "SRET"}, nextPC : PC]
Other == [kind |-> "other"]
Instr == CsrAccess \cup Privileged \cup {Other}

VARIABLES
  CSR, DD_privilege,
  FD, DE,              \* the instructions in decode and in execute
  EM,                  \* isCSR, csrId, Eresult and isCSRWrite of the memory stage
  inOrder,             \* the CSRs, the privilege and the word read by DE, one at a time
  overtaken,           \* an access without a source has been: see Overtakes
  decoded

trapVars == <<CSR, DD_privilege, FD, DE, EM, inOrder, overtaken, decoded>>

Bubble == [isCSR |-> FALSE]
isCSR(i) == i.kind = "CSR"
isTrap(i) == i.kind \in {"ECALL", "UNIMP"}
isPrivileged(i) == isTrap(i) \/ i.kind \in {"MRET", "SRET"}
-----------------------------------------------------------------------------
ReadCsr(csr, id) ==
  CASE id = "mstatus" -> csr["mstatus"] \cap MSTATUS_MASK
    [] id = "sstatus" -> csr["mstatus"] \cap SSTATUS_MASK
    [] OTHER          -> csr[id]
WriteCsr(csr, id, word) ==
  CASE id = "mstatus" -> [csr EXCEPT !["mstatus"] = word \cap MSTATUS_MASK]
    [] id = "sstatus" -> [csr EXCEPT !["mstatus"] = word \cap SSTATUS_MASK]
    [] OTHER          -> [csr EXCEPT ![id] = word]
csrOut(old, i) ==
  CASE i.op = "RW" -> i.word [] i.op = "RS" -> old \cup i.word [] i.op = "RC" -> old \ i.word

trapCause(i, privilege) ==
  IF i.kind = "ECALL" THEN IF privilege = US THEN 8 ELSE IF privilege = SU THEN 9 ELSE 11
  ELSE 2
CauseWord(c) == CASE c = 2 -> {1} [] c = 8 -> {3} [] c = 9 -> {0, 3} [] c = 11 -> {0, 1, 3}
trapPrivilege(i, csr, privilege) ==
  IF trapCause(i, privilege) \in csr["medeleg"] THEN SU ELSE MA

privilegeSet(i, csr, privilege) ==
  CASE isTrap(i)       -> trapPrivilege(i, csr, privilege)
    [] i.kind = "MRET" -> {b - 11 : b \in csr["mstatus"] \cap {11, 12}}
    [] i.kind = "SRET" -> {b - 8 : b \in csr["mstatus"] \cap {8}}
    [] OTHER           -> privilege

(* A trap keeps the privilege and the enable bit of the mode it goes to;   *)
(* a return writes everything back as it was.                              *)
Moved(word, from, to) == (word \ {to}) \cup {to : b \in word \cap {from}}
mstatusSet(i, csr, privilege) ==
  LET old == csr["mstatus"] IN
  IF ~isTrap(i) THEN old
  ELSE IF trapPrivilege(i, csr, privilege) = MA
  THEN (Moved(old, 3, 7) \ {3, 11, 12}) \cup {b + 11 : b \in privilege}
  ELSE (Moved(old, 1, 5) \ {1, 8}) \cup {b + 8 : b \in privilege \cap {0}}
TrapSet(i, csr, privilege) ==
  LET M == isTrap(i) /\ trapPrivilege(i, csr, privilege) = MA
      S == isTrap(i) /\ ~M
      cause == CauseWord(trapCause(i, privilege))
  IN  [csr EXCEPT !["mstatus"] = mstatusSet(i, csr, privilege),
                  !["mepc"]   = IF M THEN i.nextPC ELSE @, !["mcause"] = IF M THEN cause ELSE @,
                  !["sepc"]   = IF S THEN i.nextPC ELSE @, !["scause"] = IF S THEN cause ELSE @]
-----------------------------------------------------------------------------
ReadsHazard == isPrivileged(FD) /\ isCSR(DE) /\ DE.rs1Id # 0     \* mutant of dataHazard
dataHazard == (isCSR(FD) \/ isPrivileged(FD)) /\ isCSR(DE) /\ DE.rs1Id # 0
NoHazard   == FALSE                                              \* mutant of csrHazard
csrHazard  == isPrivileged(FD) /\ EM.isCSR /\ EM.isCSRWrite

(* stall: the execute stage ("alu") or the memory stage ("memory") is held *)
(* up; or decode is, by the fetch or by an operand ("decode").             *)
Stall == {"no", "alu", "memory", "decode"}
D_stall(stall) == stall # "no" \/ csrHazard \/ dataHazard
E_stall(stall) == stall \in {"alu", "memory"}
csrTrapSetEn(stall) == ~D_stall(stall) /\ isPrivileged(FD)

(* One instruction after the other, each with all it does.                 *)
Alone(i, s) ==
  IF isCSR(i)
  THEN [s EXCEPT !.csr = WriteCsr(@, i.id, csrOut(ReadCsr(@, i.id), i)), !.read = ReadCsr(s.csr, i.id)]
  ELSE IF isPrivileged(i)
  THEN [s EXCEPT !.csr = TrapSet(i, @, s.privilege), !.privilege = privilegeSet(i, s.csr, @)]
  ELSE s

(* An access without a source is overtaken: a trap or a return leaves out  *)
(* its write or is overwritten by what was there before, an access behind  *)
(* it reads too early.                                                     *)
SetByTraps == {"mstatus", "sstatus", "mepc", "mcause", "sepc", "scause"}
Overtakes ==
  \/ /\ isCSR(FD) \/ isPrivileged(FD)
     /\ isCSR(DE) /\ DE.rs1Id = 0 /\ (DE.op = "RW" \/ DE.id = "sstatus")
  \/ /\ isPrivileged(FD)
     /\ \/ isCSR(DE) /\ DE.rs1Id = 0 /\ DE.id \in SetByTraps
        \/ EM.isCSR /\ ~EM.isCSRWrite /\ WriteCsr(CSR, EM.csrId, EM.Eresult) # CSR

TrapInit ==
  /\ CSR = [id \in CsrNames \ {"sstatus"} |-> {}] /\ DD_privilege = MA
  /\ FD \in Instr /\ DE = Other /\ EM = Bubble
  /\ inOrder = [csr |-> CSR, privilege |-> DD_privilege, read |-> {}]
  /\ overtaken = FALSE /\ decoded = 0

TrapClock(stall) ==
  /\ CSR' = IF csrTrapSetEn(stall) THEN TrapSet(FD, CSR, DD_privilege)
            ELSE IF EM.isCSR THEN WriteCsr(CSR, EM.csrId, EM.Eresult) ELSE CSR
  /\ IF E_stall(stall) THEN EM' = IF stall = "alu" THEN Bubble ELSE EM
     ELSE EM' = IF isCSR(DE)
                THEN [isCSR |-> TRUE, csrId |-> DE.id, isCSRWrite |-> DE.rs1Id # 0,
                      Eresult |-> csrOut(ReadCsr(CSR, DE.id), DE)]
                ELSE Bubble
  /\ IF D_stall(stall)
     THEN /\ DE' = IF E_stall(stall) THEN DE ELSE Other
          /\ UNCHANGED <<DD_privilege, FD, inOrder, overtaken, decoded>>
     ELSE /\ decoded < MAXINSTRUCTIONS /\ decoded' = decoded + 1
          /\ DE' = IF isCSR(FD) THEN FD ELSE Other
          /\ DD_privilege' = privilegeSet(FD, CSR, DD_privilege)
          /\ inOrder' = Alone(FD, inOrder)
          /\ overtaken' = (overtaken \/ Overtakes)
          /\ FD' \in Instr

TrapReset ==
  /\ CSR' = [id \in DOMAIN CSR |-> {}] /\ DD_privilege' = MA
  /\ FD' = Other /\ DE' = Other /\ EM' = Bubble
  /\ inOrder' = [csr |-> CSR', privilege |-> MA, read |-> {}]
  /\ overtaken' = FALSE /\ UNCHANGED decoded

TrapNext == TrapReset \/ \E stall \in Stall : TrapClock(stall)
TrapSpec == TrapInit /\ [][TrapNext]_trapVars
-----------------------------------------------------------------------------
(* The CSRs, with the writes under way behind them, and the privilege are  *)
(* those of the program in its order, whatever stalls the stages; only     *)
(* around an access without a source can the order be another              *)
(* (DecodeUnit.v:380-383, ControlUnit.v:26, CSR_RegFile.v 161-199).        *)
Landed == IF EM.isCSR THEN WriteCsr(CSR, EM.csrId, EM.Eresult) ELSE CSR
Settled == IF isCSR(DE) THEN WriteCsr(Landed, DE.id, csrOut(ReadCsr(Landed, DE.id), DE)) ELSE Landed
CsrsInOrder ==
  ~overtaken => Settled = inOrder.csr /\ DD_privilege = inOrder.privilege

(* A CSR access reads what the instructions before it have left, though    *)
(* it reads before the one in front of it has written (ExecuteUnit.v:234,  *)
(* DecodeUnit.v:383).                                                      *)
ReadsInOrder ==
  ~overtaken /\ isCSR(DE) => ReadCsr(CSR, DE.id) = inOrder.read
=============================================================================
