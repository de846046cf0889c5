----------------------------- MODULE MCPipeline -----------------------------
(***************************************************************************)
(* Pipeline for TLC.                                                       *)
(***************************************************************************)
EXTENDS Pipeline

(* Only the distance between positions matters, only the operands of a     *)
(* division in progress, only results that will be written, not the        *)
(* register that is written at the next edge anyway, and nothing reads the *)
(* history of executions.                                                  *)
Ahead(p) == IF p = Wrong THEN Wrong ELSE (p + Seq - next) % Seq
LiveState ==
  <<Ahead(PC), F_isSplitInstr, FD.instr, Ahead(FD.seq), FD_nop,
    EI, Ahead(DE.seq), IF isControl(EI) THEN DE.predict ELSE FALSE,
    IF EM.wbEnable THEN EM ELSE <<EM.kind, EM.isCSRWrite>>, EM_isFENCE,
    IF MW.wbEnable THEN MW ELSE MW.nop,
    IF MW.wbEnable THEN [rf EXCEPT ![MW.rd] = 0] ELSE rf,
    divSteps, divFinished, IF EI.kind = "DIV" THEN divOperands ELSE 0,
    fenceDone, Ahead(instret)>>

(* Fairness looks at one history more.                                     *)
FairState == <<LiveState, answered>>
=============================================================================
