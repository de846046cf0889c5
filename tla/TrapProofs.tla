----------------------------- MODULE TrapProofs ------------------------------
(***************************************************************************)
(* Traps and CSR accesses take effect in the order of the program, but for *)
(* accesses without a source.  The invariant adds to the two properties    *)
(* that an access in execute never sees a write that is still under way.   *)
(***************************************************************************)
EXTENDS Trap, TLAPS

Registers == CsrNames \ {"sstatus"}
WordSet   == SUBSET (0..31)
IsFile(csr) == csr \in [Registers -> WordSet] /\ csr["mstatus"] \subseteq MSTATUS_MASK

TrapTypeOK ==
  /\ IsFile(CSR) /\ DD_privilege \subseteq {0, 1}
  /\ FD \in Instr /\ DE \in CsrAccess \cup {Other}
  /\ EM.isCSR \in BOOLEAN
  /\ EM.isCSR => EM.csrId \in CsrNames /\ EM.Eresult \in WordSet
  /\ inOrder = [csr |-> inOrder.csr, privilege |-> inOrder.privilege, read |-> inOrder.read]
  /\ overtaken \in BOOLEAN
TrapInv ==
  /\ TrapTypeOK
  /\ ~overtaken =>
       /\ isCSR(DE) => Landed = CSR
       /\ Settled = inOrder.csr /\ DD_privilege = inOrder.privilege
       /\ isCSR(DE) => ReadCsr(CSR, DE.id) = inOrder.read

LEMMA AccessShape ==
  ASSUME NEW i \in CsrAccess
  PROVE  /\ isCSR(i) /\ ~isPrivileged(i) /\ i.id \in CsrNames /\ i.word \in WordSet
         /\ i.op \in {"RW", "RS", "RC"} /\ i.rs1Id \in {0, 1}
         /\ i.rs1Id = 0 => i.word = {}
BY CsrAssumption DEF CsrAccess, isCSR, isPrivileged, isTrap, WordSet

LEMMA InstrShape ==
  ASSUME NEW i \in Instr
  PROVE  /\ isCSR(i) => i \in CsrAccess
         /\ isPrivileged(i) => ~isCSR(i) /\ i.nextPC \in WordSet
BY CsrAssumption DEF Instr, CsrAccess, Privileged, Other, isCSR, isPrivileged, isTrap, WordSet

LEMMA Masks == MSTATUS_MASK \in WordSet /\ SSTATUS_MASK \subseteq MSTATUS_MASK
BY DEF MSTATUS_MASK, SSTATUS_MASK, WordSet

LEMMA WriteIsFile ==
  ASSUME NEW csr, IsFile(csr), NEW id \in CsrNames, NEW word \in WordSet
  PROVE  IsFile(WriteCsr(csr, id, word))
<1>1. CASE id = "mstatus"
  <2>1. WriteCsr(csr, id, word) = [csr EXCEPT !["mstatus"] = word \cap MSTATUS_MASK]
    BY <1>1 DEF WriteCsr
  <2>2. word \cap MSTATUS_MASK \in WordSet
    BY DEF WordSet
  <2> QED BY <2>1, <2>2 DEF IsFile, Registers, CsrNames, Plain
<1>2. CASE id = "sstatus"
  <2>1. WriteCsr(csr, id, word) = [csr EXCEPT !["mstatus"] = word \cap SSTATUS_MASK]
    BY <1>2 DEF WriteCsr
  <2>2. word \cap SSTATUS_MASK \in WordSet /\ word \cap SSTATUS_MASK \subseteq MSTATUS_MASK
    BY Masks DEF WordSet
  <2> QED BY <2>1, <2>2 DEF IsFile, Registers, CsrNames, Plain
<1>3. CASE id \notin {"mstatus", "sstatus"}
  <2>1. WriteCsr(csr, id, word) = [csr EXCEPT ![id] = word]
    BY <1>3 DEF WriteCsr
  <2> QED BY <1>3, <2>1 DEF IsFile, Registers
<1> QED BY <1>1, <1>2, <1>3

LEMMA ReadIsWord ==
  ASSUME NEW csr, IsFile(csr), NEW id \in CsrNames
  PROVE  ReadCsr(csr, id) \in WordSet
<1>1. "mstatus" \in Registers /\ (id # "sstatus" => id \in Registers)
  BY DEF Registers, CsrNames, Plain
<1>2. \A r \in Registers : csr[r] \in WordSet
  BY DEF IsFile
<1> QED BY <1>1, <1>2 DEF ReadCsr, WordSet

LEMMA OutIsWord ==
  ASSUME NEW i \in CsrAccess, NEW old \in WordSet PROVE csrOut(old, i) \in WordSet
BY AccessShape DEF csrOut, WordSet

(* Writing twice is writing once ...                                       *)
LEMMA WriteTwice ==
  ASSUME NEW csr, IsFile(csr), NEW id \in CsrNames, NEW word \in WordSet
  PROVE  WriteCsr(WriteCsr(csr, id, word), id, word) = WriteCsr(csr, id, word)
<1>1. CASE id \in {"mstatus", "sstatus"}
  BY <1>1 DEF WriteCsr, IsFile, Registers, CsrNames, Plain
<1>2. CASE id \notin {"mstatus", "sstatus"}
  BY <1>2 DEF WriteCsr, IsFile, Registers
<1> QED BY <1>1, <1>2

(* ... and writing what was there is nothing, except through sstatus.      *)
LEMMA WriteBack ==
  ASSUME NEW csr, IsFile(csr), NEW id \in CsrNames, id # "sstatus",
         NEW csr2, IsFile(csr2), ReadCsr(csr, id) = ReadCsr(csr2, id)
  PROVE  WriteCsr(csr2, id, ReadCsr(csr, id)) = csr2
<1>1. CASE id = "mstatus"
  <2>1. ReadCsr(csr, id) = csr2["mstatus"]
    BY <1>1 DEF ReadCsr, IsFile
  <2>2. csr2["mstatus"] \cap MSTATUS_MASK = csr2["mstatus"]
    BY DEF IsFile
  <2> QED BY <1>1, <2>1, <2>2 DEF WriteCsr, IsFile
<1>2. CASE id # "mstatus"
  <2>1. ReadCsr(csr, id) = csr2[id]
    BY <1>2 DEF ReadCsr
  <2> QED BY <1>2, <2>1 DEF WriteCsr, IsFile
<1> QED BY <1>1, <1>2

(* An access without a source that sets or clears bits reads only.         *)
LEMMA ReadsOnly ==
  ASSUME NEW i \in CsrAccess, i.rs1Id = 0, i.op # "RW", NEW old \in WordSet
  PROVE  csrOut(old, i) = old
<1>1. i.word = {} /\ i.op \in {"RS", "RC"}
  BY AccessShape
<1>2. old \cup {} = old /\ old \ {} = old
  OBVIOUS
<1> QED BY <1>1, <1>2 DEF csrOut
-----------------------------------------------------------------------------
LEMMA TrapPrivilegeIsPrivilege ==
  ASSUME NEW i \in Instr, NEW csr, IsFile(csr), NEW p, p \subseteq {0, 1}
  PROVE  privilegeSet(i, csr, p) \subseteq {0, 1}
<1>1. {b - 11 : b \in csr["mstatus"] \cap {11, 12}} \subseteq {0, 1}
  OBVIOUS
<1>2. {b - 8 : b \in csr["mstatus"] \cap {8}} \subseteq {0, 1}
  OBVIOUS
<1>3. trapPrivilege(i, csr, p) \subseteq {0, 1}
  BY DEF trapPrivilege, SU, MA
<1> QED BY <1>1, <1>2, <1>3 DEF privilegeSet

LEMMA MstatusSetIsMasked ==
  ASSUME NEW i, NEW csr, IsFile(csr), NEW p, p \subseteq {0, 1}
  PROVE  mstatusSet(i, csr, p) \subseteq MSTATUS_MASK
<1> DEFINE old == csr["mstatus"]
<1>1. old \subseteq MSTATUS_MASK
  BY DEF IsFile
<1>2. {b + 11 : b \in p} \subseteq {11, 12} /\ {b + 8 : b \in p \cap {0}} \subseteq {8}
  OBVIOUS
<1>3. Moved(old, 3, 7) \subseteq old \cup {7} /\ Moved(old, 1, 5) \subseteq old \cup {5}
  BY DEF Moved
<1>4. {5, 7, 8, 11, 12} \subseteq MSTATUS_MASK
  BY DEF MSTATUS_MASK
<1> QED BY <1>1, <1>2, <1>3, <1>4 DEF mstatusSet

LEMMA TrapSetIsFile ==
  ASSUME NEW i \in Instr, isPrivileged(i), NEW csr, IsFile(csr), NEW p, p \subseteq {0, 1}
  PROVE  /\ IsFile(TrapSet(i, csr, p))
         /\ \A id \in Registers \ SetByTraps : TrapSet(i, csr, p)[id] = csr[id]
<1>1. mstatusSet(i, csr, p) \in WordSet /\ mstatusSet(i, csr, p) \subseteq MSTATUS_MASK
  BY MstatusSetIsMasked, Masks DEF WordSet
<1>2. i.nextPC \in WordSet
  BY InstrShape
<1>3. CauseWord(trapCause(i, p)) \in WordSet
  BY DEF CauseWord, trapCause, WordSet
<1> DEFINE M == isTrap(i) /\ trapPrivilege(i, csr, p) = MA
           S == isTrap(i) /\ ~M
           c == CauseWord(trapCause(i, p))
           m == mstatusSet(i, csr, p)
           e == IF M THEN i.nextPC ELSE csr["mepc"]
           f == IF M THEN c ELSE csr["mcause"]
           g == IF S THEN i.nextPC ELSE csr["sepc"]
           h == IF S THEN c ELSE csr["scause"]
<1>4. TrapSet(i, csr, p) = [csr EXCEPT !["mstatus"] = m, !["mepc"] = e, !["mcause"] = f,
                                       !["sepc"] = g, !["scause"] = h]
  BY DEF TrapSet, IsFile, Registers, CsrNames, Plain
<1>5. {"mstatus", "mepc", "mcause", "sepc", "scause"} \subseteq Registers
  BY DEF Registers, CsrNames, Plain
<1>6. \A r \in Registers : csr[r] \in WordSet
  BY DEF IsFile
<1>7. e \in WordSet /\ f \in WordSet /\ g \in WordSet /\ h \in WordSet
  BY <1>2, <1>3, <1>5, <1>6
<1> HIDE DEF m, e, f, g, h
<1>8. TrapSet(i, csr, p) \in [Registers -> WordSet] /\ TrapSet(i, csr, p)["mstatus"] = m
  BY <1>1, <1>4, <1>5, <1>7 DEF IsFile, m
<1>9. \A id \in Registers \ SetByTraps : TrapSet(i, csr, p)[id] = csr[id]
  BY <1>4 DEF IsFile, SetByTraps
<1> QED BY <1>1, <1>8, <1>9 DEF IsFile, m
-----------------------------------------------------------------------------
LEMMA FileOfZeros == IsFile([id \in Registers |-> {}])
BY DEF IsFile, Registers, CsrNames, Plain, WordSet

LEMMA TrapInitInv == TrapInit => TrapInv
<1> SUFFICES ASSUME TrapInit PROVE TrapInv
  OBVIOUS
<1>1. CSR = [id \in Registers |-> {}]
  BY DEF TrapInit, Registers
<1>2. TrapTypeOK
  BY <1>1, FileOfZeros DEF TrapInit, TrapTypeOK, Bubble, MA
<1>3. ~isCSR(DE)
  BY DEF TrapInit, isCSR, Other
<1>4. Settled = CSR
  BY <1>3 DEF TrapInit, Settled, Landed, Bubble
<1> QED BY <1>2, <1>3, <1>4 DEF TrapInit, TrapInv

LEMMA TrapResetInv == ASSUME TrapInv, TrapReset PROVE TrapInv'
<1>1. CSR' = [id \in Registers |-> {}]
  BY DEF TrapReset, TrapInv, TrapTypeOK, IsFile
<1>2. Other \in Instr
  BY DEF Instr
<1>3. TrapTypeOK'
  BY <1>1, <1>2, FileOfZeros DEF TrapReset, TrapTypeOK, Bubble, MA
<1>4. ~isCSR(DE)'
  BY DEF TrapReset, isCSR, Other
<1>5. Settled' = CSR'
  BY <1>4 DEF TrapReset, Settled, Landed, Bubble
<1> QED BY <1>3, <1>4, <1>5 DEF TrapReset, TrapInv

(* Where the writes under way go, from one clock to the next.              *)
LEMMA LandedIsFile == ASSUME TrapTypeOK PROVE IsFile(Landed)
BY WriteIsFile DEF TrapTypeOK, Landed

LEMMA EMType ==
  ASSUME TrapTypeOK, NEW stall \in Stall, TrapClock(stall)
  PROVE  EM'.isCSR \in BOOLEAN /\ (EM'.isCSR => EM'.csrId \in CsrNames /\ EM'.Eresult \in WordSet)
<1>1. CASE EM' = EM
  BY <1>1 DEF TrapTypeOK
<1>2. CASE EM' = Bubble
  BY <1>2 DEF Bubble
<1>3. CASE ~E_stall(stall) /\ isCSR(DE)
  <2>1. DE \in CsrAccess
    BY <1>3 DEF TrapTypeOK, Other, isCSR
  <2>2. DE.id \in CsrNames
    BY <2>1, AccessShape
  <2>3. csrOut(ReadCsr(CSR, DE.id), DE) \in WordSet
    BY <2>1, <2>2, ReadIsWord, OutIsWord DEF TrapTypeOK
  <2>4. EM' = [isCSR |-> TRUE, csrId |-> DE.id, isCSRWrite |-> DE.rs1Id # 0,
               Eresult |-> csrOut(ReadCsr(CSR, DE.id), DE)]
    BY <1>3 DEF TrapClock
  <2> QED BY <2>2, <2>3, <2>4
<1> QED BY <1>1, <1>2, <1>3 DEF TrapClock

LEMMA TrapTypeStep ==
  ASSUME TrapTypeOK, NEW stall \in Stall, TrapClock(stall) PROVE TrapTypeOK'
<1>1. IsFile(CSR')
  <2>1. CASE csrTrapSetEn(stall)
    <3>1. isPrivileged(FD) /\ FD \in Instr /\ IsFile(CSR) /\ DD_privilege \subseteq {0, 1}
      BY <2>1 DEF csrTrapSetEn, TrapTypeOK
    <3> QED BY <2>1, <3>1, TrapSetIsFile DEF TrapClock
  <2>2. CASE ~csrTrapSetEn(stall)
    <3>1. CSR' = Landed
      BY <2>2 DEF TrapClock, Landed
    <3> QED BY <3>1, LandedIsFile
  <2> QED BY <2>1, <2>2
<1>2. DD_privilege' \subseteq {0, 1} /\ FD' \in Instr /\ overtaken' \in BOOLEAN
  <2>1. privilegeSet(FD, CSR, DD_privilege) \subseteq {0, 1}
    BY TrapPrivilegeIsPrivilege DEF TrapTypeOK
  <2> QED BY <2>1 DEF TrapClock, TrapTypeOK
<1>3. DE' \in CsrAccess \cup {Other}
  BY InstrShape DEF TrapClock, TrapTypeOK
<1>4. inOrder' = [csr |-> inOrder'.csr, privilege |-> inOrder'.privilege, read |-> inOrder'.read]
  BY DEF TrapClock, TrapTypeOK, Alone
<1> QED BY <1>1, <1>2, <1>3, <1>4, EMType DEF TrapTypeOK

(* The write that comes into the memory stage.                             *)
LEMMA NextLanded ==
  ASSUME TrapInv, ~overtaken, NEW stall \in Stall, TrapClock(stall), ~E_stall(stall),
         CSR' = Landed
  PROVE  Landed' = Settled
<1>1. TrapTypeOK /\ (isCSR(DE) => Landed = CSR)
  BY DEF TrapInv
<1>2. CASE isCSR(DE)
  <2>1. EM' = [isCSR |-> TRUE, csrId |-> DE.id, isCSRWrite |-> DE.rs1Id # 0,
               Eresult |-> csrOut(ReadCsr(CSR, DE.id), DE)]
    BY <1>2 DEF TrapClock
  <2>2. Landed' = WriteCsr(Landed, DE.id, csrOut(ReadCsr(Landed, DE.id), DE))
    BY <1>1, <1>2, <2>1 DEF Landed
  <2> QED BY <1>2, <2>2 DEF Settled
<1>3. CASE ~isCSR(DE)
  BY <1>3 DEF TrapClock, Landed, Settled, Bubble
<1> QED BY <1>2, <1>3

(* What TrapInv says beside the types.                                     *)
InOrder ==
  ~overtaken =>
    /\ isCSR(DE) => Landed = CSR
    /\ Settled = inOrder.csr /\ DD_privilege = inOrder.privilege
    /\ isCSR(DE) => ReadCsr(CSR, DE.id) = inOrder.read

LEMMA StalledInv ==
  ASSUME TrapInv, NEW stall \in Stall, TrapClock(stall), D_stall(stall)
  PROVE  InOrder'
<1> SUFFICES ASSUME ~overtaken'
             PROVE  /\ isCSR(DE)' => Landed' = CSR'
                    /\ Settled' = inOrder'.csr /\ DD_privilege' = inOrder'.privilege
                    /\ isCSR(DE)' => ReadCsr(CSR, DE.id)' = inOrder'.read
  BY DEF InOrder
<1>1. UNCHANGED <<DD_privilege, FD, inOrder, overtaken>> /\ CSR' = Landed
  BY DEF TrapClock, csrTrapSetEn, Landed
<1>2. /\ TrapTypeOK /\ (isCSR(DE) => Landed = CSR)
      /\ Settled = inOrder.csr /\ DD_privilege = inOrder.privilege
      /\ isCSR(DE) => ReadCsr(CSR, DE.id) = inOrder.read
  BY <1>1 DEF TrapInv
<1>3. CASE E_stall(stall)
  <2>1. DE' = DE
    BY <1>3 DEF TrapClock
  <2>2. Landed' = Landed
    <3>1. CASE stall = "alu"
      BY <1>1, <1>3, <3>1 DEF TrapClock, Landed, Bubble
    <3>2. CASE stall # "alu" /\ EM.isCSR
      <4>1. EM' = EM
        BY <1>3, <3>2 DEF TrapClock
      <4>2. Landed = WriteCsr(CSR, EM.csrId, EM.Eresult)
            /\ Landed' = WriteCsr(Landed, EM.csrId, EM.Eresult)
        BY <1>1, <3>2, <4>1 DEF Landed
      <4> QED BY <1>2, <3>2, <4>2, WriteTwice DEF TrapTypeOK
    <3>3. CASE stall # "alu" /\ ~EM.isCSR
      BY <1>1, <1>3, <3>3 DEF TrapClock, Landed
    <3> QED BY <3>1, <3>2, <3>3
  <2>3. Settled' = Settled
    BY <2>1, <2>2 DEF Settled, isCSR
  <2> QED BY <1>1, <1>2, <2>1, <2>2, <2>3 DEF isCSR
<1>4. CASE ~E_stall(stall)
  <2>1. DE' = Other
    BY <1>4 DEF TrapClock
  <2>2. ~isCSR(DE)'
    BY <2>1 DEF isCSR, Other
  <2>3. Landed' = Settled
    BY <1>1, <1>4, NextLanded
  <2>4. Settled' = Landed'
    BY <2>2 DEF Settled
  <2> QED BY <1>1, <1>2, <2>2, <2>3, <2>4
<1> QED BY <1>3, <1>4

(* An instruction that leaves decode and is no trap or return.             *)
LEMMA PlainInv ==
  ASSUME TrapInv, NEW stall \in Stall, TrapClock(stall), ~D_stall(stall), ~isPrivileged(FD)
  PROVE  InOrder'
<1> SUFFICES ASSUME ~overtaken'
             PROVE  /\ isCSR(DE)' => Landed' = CSR'
                    /\ Settled' = inOrder'.csr /\ DD_privilege' = inOrder'.privilege
                    /\ isCSR(DE)' => ReadCsr(CSR, DE.id)' = inOrder'.read
  BY DEF InOrder
<1>0. ~overtaken /\ ~Overtakes
  BY DEF TrapClock
<1>1. /\ TrapTypeOK /\ (isCSR(DE) => Landed = CSR)
      /\ Settled = inOrder.csr /\ DD_privilege = inOrder.privilege
  BY <1>0 DEF TrapInv
<1>2. CSR' = Landed /\ DD_privilege' = DD_privilege /\ inOrder' = Alone(FD, inOrder)
      /\ DE' = (IF isCSR(FD) THEN FD ELSE Other) /\ ~E_stall(stall)
  BY DEF TrapClock, csrTrapSetEn, Landed, privilegeSet, isPrivileged, D_stall, E_stall
<1>3. Landed' = Settled
  BY <1>0, <1>2, NextLanded
<1>4. CASE ~isCSR(FD)
  <2>1. ~isCSR(DE)' /\ inOrder' = inOrder
    BY <1>2, <1>4 DEF isCSR, Other, Alone
  <2>2. Settled' = Landed'
    BY <2>1 DEF Settled
  <2> QED BY <1>1, <1>2, <1>3, <2>1, <2>2
<1>5. CASE isCSR(FD)
  <2>1. DE' = FD /\ isCSR(DE)' /\ FD \in CsrAccess
    BY <1>1, <1>2, <1>5, InstrShape DEF isCSR, TrapTypeOK
  <2>2. Settled = Landed
    <3>1. CASE isCSR(DE)
      <4>1. DE \in CsrAccess
        BY <1>1, <3>1 DEF TrapTypeOK, isCSR, Other
      <4>2. DE.rs1Id = 0 /\ DE.op # "RW" /\ DE.id # "sstatus"
        BY <1>0, <1>5, <3>1 DEF TrapClock, D_stall, dataHazard, Overtakes
      <4>3. DE.id \in CsrNames
        BY <4>1, AccessShape
      <4>4. IsFile(CSR) /\ ReadCsr(CSR, DE.id) \in WordSet
        BY <1>1, <4>3, ReadIsWord DEF TrapTypeOK
      <4>5. csrOut(ReadCsr(CSR, DE.id), DE) = ReadCsr(CSR, DE.id)
        BY <4>1, <4>2, <4>4, ReadsOnly
      <4>6. WriteCsr(CSR, DE.id, ReadCsr(CSR, DE.id)) = CSR
        BY <4>2, <4>3, <4>4, WriteBack
      <4> QED BY <1>1, <3>1, <4>5, <4>6 DEF Settled
    <3>2. CASE ~isCSR(DE)
      BY <3>2 DEF Settled
    <3> QED BY <3>1, <3>2
  <2>3. Landed' = CSR'
    BY <1>2, <1>3, <2>2
  <2>4. CSR' = inOrder.csr
    BY <1>1, <1>2, <2>2
  <2>5. inOrder' = [inOrder EXCEPT
                     !.csr = WriteCsr(inOrder.csr, FD.id, csrOut(ReadCsr(inOrder.csr, FD.id), FD)),
                     !.read = ReadCsr(inOrder.csr, FD.id)]
    BY <1>2, <1>5 DEF Alone
  <2>6. /\ inOrder'.csr = WriteCsr(inOrder.csr, FD.id, csrOut(ReadCsr(inOrder.csr, FD.id), FD))
        /\ inOrder'.read = ReadCsr(inOrder.csr, FD.id) /\ inOrder'.privilege = inOrder.privilege
    BY <1>1, <2>5 DEF TrapTypeOK
  <2>7. Settled' = WriteCsr(Landed', FD.id, csrOut(ReadCsr(Landed', FD.id), FD))
    BY <2>1 DEF Settled
  <2>8. ReadCsr(CSR, DE.id)' = ReadCsr(CSR', FD.id)
    BY <2>1 DEF ReadCsr
  <2> QED BY <1>1, <1>2, <2>3, <2>4, <2>6, <2>7, <2>8
<1> QED BY <1>4, <1>5

(* A trap or a return.                                                     *)
LEMMA PrivilegedInv ==
  ASSUME TrapInv, NEW stall \in Stall, TrapClock(stall), ~D_stall(stall), isPrivileged(FD)
  PROVE  InOrder'
<1> SUFFICES ASSUME ~overtaken'
             PROVE  /\ isCSR(DE)' => Landed' = CSR'
                    /\ Settled' = inOrder'.csr /\ DD_privilege' = inOrder'.privilege
                    /\ isCSR(DE)' => ReadCsr(CSR, DE.id)' = inOrder'.read
  BY DEF InOrder
<1>0. ~overtaken /\ ~Overtakes
  BY DEF TrapClock
<1>1. /\ TrapTypeOK /\ (isCSR(DE) => Landed = CSR)
      /\ Settled = inOrder.csr /\ DD_privilege = inOrder.privilege
  BY <1>0 DEF TrapInv
<1>2. ~isCSR(FD) /\ FD \in Instr
  BY <1>1, InstrShape DEF TrapTypeOK
<1>3. CSR' = TrapSet(FD, CSR, DD_privilege) /\ inOrder' = Alone(FD, inOrder)
      /\ DD_privilege' = privilegeSet(FD, CSR, DD_privilege) /\ DE' = Other /\ ~E_stall(stall)
  BY <1>2 DEF TrapClock, csrTrapSetEn, D_stall, E_stall
<1>4. ~isCSR(DE)'
  BY <1>3 DEF isCSR, Other
<1>5. Landed = CSR
  <2>1. EM.isCSR => ~EM.isCSRWrite
    BY DEF D_stall, csrHazard
  <2>2. EM.isCSR => WriteCsr(CSR, EM.csrId, EM.Eresult) = CSR
    BY <1>0, <2>1 DEF Overtakes
  <2> QED BY <2>2 DEF Landed
<1>6. ASSUME isCSR(DE)
      PROVE  /\ DE.id \in Registers \ SetByTraps
             /\ csrOut(ReadCsr(CSR, DE.id), DE) = CSR[DE.id]
  <2>1. DE \in CsrAccess
    BY <1>1, <1>6 DEF TrapTypeOK, isCSR, Other
  <2>2. DE.rs1Id = 0 /\ DE.op # "RW" /\ DE.id \notin SetByTraps
    BY <1>0, <1>6 DEF TrapClock, D_stall, dataHazard, Overtakes
  <2>3. DE.id \in CsrNames
    BY <2>1, AccessShape
  <2>4. ReadCsr(CSR, DE.id) \in WordSet
    BY <1>1, <2>3, ReadIsWord DEF TrapTypeOK
  <2>5. DE.id \notin {"mstatus", "sstatus"} /\ DE.id \in Registers
    BY <2>2, <2>3 DEF SetByTraps, Registers
  <2>6. csrOut(ReadCsr(CSR, DE.id), DE) = ReadCsr(CSR, DE.id)
    BY <2>1, <2>2, <2>4, ReadsOnly
  <2> QED BY <2>2, <2>5, <2>6 DEF ReadCsr
<1>7. Settled = CSR
  <2>1. CASE isCSR(DE)
    <3>1. Settled = WriteCsr(CSR, DE.id, CSR[DE.id]) /\ DE.id \notin {"mstatus", "sstatus"}
      BY <1>5, <1>6, <2>1 DEF Settled, SetByTraps
    <3>2. Settled = [CSR EXCEPT ![DE.id] = CSR[DE.id]]
      BY <3>1 DEF WriteCsr
    <3> QED BY <1>1, <3>2 DEF TrapTypeOK, IsFile
  <2>2. CASE ~isCSR(DE)
    BY <1>5, <2>2 DEF Settled
  <2> QED BY <2>1, <2>2
<1>8. inOrder' = [inOrder EXCEPT !.csr = TrapSet(FD, CSR, DD_privilege),
                                 !.privilege = privilegeSet(FD, CSR, DD_privilege)]
  BY <1>1, <1>2, <1>3, <1>7 DEF Alone
<1>9. inOrder'.csr = CSR' /\ inOrder'.privilege = DD_privilege'
  BY <1>1, <1>3, <1>8 DEF TrapTypeOK
<1>10. Landed' = CSR'
  <2>1. CASE isCSR(DE)
    <3>1. EM' = [isCSR |-> TRUE, csrId |-> DE.id, isCSRWrite |-> DE.rs1Id # 0,
                 Eresult |-> csrOut(ReadCsr(CSR, DE.id), DE)]
      BY <1>3, <2>1 DEF TrapClock
    <3>2. Landed' = WriteCsr(CSR', DE.id, CSR[DE.id])
      BY <1>6, <2>1, <3>1 DEF Landed
    <3>3. IsFile(CSR') /\ CSR'[DE.id] = CSR[DE.id]
      BY <1>1, <1>2, <1>3, <1>6, <2>1, TrapSetIsFile DEF TrapTypeOK
    <3>4. DE.id \notin {"mstatus", "sstatus"}
      BY <1>6, <2>1 DEF SetByTraps
    <3>5. Landed' = [CSR' EXCEPT ![DE.id] = CSR'[DE.id]]
      BY <3>2, <3>3, <3>4 DEF WriteCsr
    <3> QED BY <3>3, <3>5 DEF IsFile
  <2>2. CASE ~isCSR(DE)
    BY <1>3, <2>2 DEF TrapClock, Landed, Bubble
  <2> QED BY <2>1, <2>2
<1>11. Settled' = Landed'
  BY <1>4 DEF Settled
<1> QED BY <1>4, <1>9, <1>10, <1>11

LEMMA TrapNextInv == TrapInv /\ [TrapNext]_trapVars => TrapInv'
<1> SUFFICES ASSUME TrapInv, [TrapNext]_trapVars PROVE TrapInv'
  OBVIOUS
<1>1. CASE TrapReset
  BY <1>1, TrapResetInv
<1>2. ASSUME NEW stall \in Stall, TrapClock(stall) PROVE TrapInv'
  <2>1. TrapTypeOK'
    BY <1>2, TrapTypeStep DEF TrapInv
  <2>2. InOrder'
    BY <1>2, StalledInv, PlainInv, PrivilegedInv
  <2> QED BY <2>1, <2>2 DEF TrapInv, InOrder
<1>3. CASE UNCHANGED trapVars
  BY <1>3 DEF trapVars, TrapInv, TrapTypeOK, IsFile, Landed, Settled, isCSR, ReadCsr
<1> QED BY <1>1, <1>2, <1>3 DEF TrapNext

(* The CSRs and the privilege are those of the program in its order, for   *)
(* all CSRs, words and numbers of instructions (DecodeUnit.v 296-383,      *)
(* CSR_RegFile.v 161-199).                                                 *)
THEOREM CsrsInOrderAlways == TrapSpec => []CsrsInOrder
<1>1. TrapInv => CsrsInOrder
  BY DEF TrapInv, CsrsInOrder
<1> QED BY <1>1, TrapInitInv, TrapNextInv, PTL DEF TrapSpec

(* ... and so is what a CSR access reads (ExecuteUnit.v:234).              *)
THEOREM ReadsInOrderAlways == TrapSpec => []ReadsInOrder
<1>1. TrapInv => ReadsInOrder
  BY DEF TrapInv, ReadsInOrder
<1> QED BY <1>1, TrapInitInv, TrapNextInv, PTL DEF TrapSpec
=============================================================================
