------------------------------- MODULE Divider -------------------------------
(***************************************************************************)
(* The divider of the execute stage (ExecuteUnit.v 186-234), clock by      *)
(* clock, with the instruction it works for.  One bit of the quotient per  *)
(* clock, from the top; the end is a pulse of one clock, and a stage that  *)
(* is held up in just that clock starts the division again.                *)
(*                                                                         *)
(* Words have W bits and are numbers; Pow2 is the table of powers of two.  *)
(* dataHazard_i is 0 while the stage holds a division (DecodeUnit.v        *)
(* 380-383).  The operands stay as they are while an instruction stays:    *)
(* Pipeline.tla.                                                           *)
(***************************************************************************)
EXTENDS Integers

CONSTANTS W,           \* 32 in the source
          Pow2

ASSUME WidthAssumption ==
  /\ W \in Nat \ {0} /\ Pow2 \in [0..W -> Nat \ {0}] /\ Pow2[0] = 1
  /\ \A i \in 0..W-1 : Pow2[i+1] = 2 * Pow2[i]

Word   == 0..Pow2[W]-1
Op     == {"DIV", "DIVU", "REM", "REMU"}
NoOp   == "none"                                  \* any other instruction, or a bubble

VARIABLES
  op, rs1, rs2,                                   \* DE_isDIV_i and DE_funct3_i, E_rs1, E_rs2
  EE_dividend, EE_divisor, EE_quotient, EE_quotientMsk, EE_divSign,
  EE_divBusy, EE_divFinished

instruction == <<op, rs1, rs2>>
divider == <<EE_dividend, EE_divisor, EE_quotient, EE_quotientMsk, EE_divSign, EE_divBusy,
             EE_divFinished>>
dividerVars == <<instruction, divider>>

Signed     == op \in {"DIV", "REM"}               \* ~DE_funct3_i[0]
Remainder  == op \in {"REM", "REMU"}              \* DE_funct3_i[1]
Negative(x) == x >= Pow2[W-1]
Minus(x)    == IF x = 0 THEN 0 ELSE Pow2[W] - x
Magnitude(x) == IF Signed /\ Negative(x) THEN Minus(x) ELSE x

SetBit(x, bit) == IF (x \div bit) % 2 = 1 THEN x ELSE x + bit
Subtract(x, y) ==
  LET d == x - (y % Pow2[W]) IN IF d < 0 THEN d + Pow2[W] ELSE d

(* Only the two flags have initial values in the source; the builds start  *)
(* the others at 0.                                                        *)
DividerInit ==
  /\ op = NoOp /\ rs1 \in Word /\ rs2 \in Word
  /\ EE_dividend = 0 /\ EE_divisor = 0 /\ EE_quotient = 0 /\ EE_quotientMsk = 0
  /\ EE_divSign = FALSE /\ EE_divBusy = FALSE /\ EE_divFinished = FALSE
-----------------------------------------------------------------------------
aluBusy == EE_divBusy \/ (op # NoOp /\ ~EE_divFinished)

E_divstepDo == EE_divisor <= EE_dividend

(* The sign of a division by zero is that of no result.                    *)
SignOfOperands == Signed /\ IF Remainder THEN Negative(rs1)      \* mutant of SignOfResult
                            ELSE Negative(rs1) # Negative(rs2)
SignOfResult == Signed /\ IF Remainder THEN Negative(rs1)
                          ELSE Negative(rs1) # Negative(rs2) /\ rs2 # 0

Idle ==
  /\ IF op # NoOp /\ ~EE_divFinished
     THEN EE_quotientMsk' = Pow2[W-1] /\ EE_divBusy' = TRUE
     ELSE UNCHANGED <<EE_quotientMsk, EE_divBusy>>
  /\ EE_dividend' = Magnitude(rs1)
  /\ EE_divisor'  = Magnitude(rs2) * Pow2[W-1]
  /\ EE_quotient' = 0
  /\ EE_divSign'  = SignOfResult

Step ==
  /\ EE_dividend' = IF E_divstepDo THEN Subtract(EE_dividend, EE_divisor) ELSE EE_dividend
  /\ EE_quotient' = IF E_divstepDo THEN SetBit(EE_quotient, EE_quotientMsk) ELSE EE_quotient
  /\ EE_divisor' = EE_divisor \div 2
  /\ EE_quotientMsk' = EE_quotientMsk \div 2
  /\ EE_divBusy' = (EE_quotientMsk % 2 = 0)
  /\ UNCHANGED EE_divSign

(* other: something else holds the stage up.                               *)
DividerClock(other) ==
  /\ IF EE_divBusy THEN Step ELSE Idle
  /\ EE_divFinished' = (EE_quotientMsk % 2 = 1)
  /\ IF aluBusy \/ other THEN UNCHANGED instruction
     ELSE \/ op' \in Op /\ rs1' \in Word /\ rs2' \in Word
          \/ op' = NoOp /\ UNCHANGED <<rs1, rs2>>

(* A clock with reset_i: it clears the stage, not the divider.             *)
DividerReset ==
  /\ IF EE_divBusy THEN Step ELSE Idle
  /\ EE_divFinished' = (EE_quotientMsk % 2 = 1)
  /\ op' = NoOp /\ UNCHANGED <<rs1, rs2>>

DividerNext == DividerReset \/ \E other \in BOOLEAN : DividerClock(other)
DividerSpec == DividerInit /\ [][DividerNext]_dividerVars

E_aluOutM ==
  LET out == IF Remainder THEN EE_dividend ELSE EE_quotient
  IN  IF EE_divSign THEN Minus(out) ELSE out
-----------------------------------------------------------------------------
(* What the instruction set asks for: quotients are rounded towards zero,  *)
(* remainders have the sign of the dividend; dividing by zero gives all    *)
(* ones and the dividend; the overflow of the most negative number gives   *)
(* that number, and no remainder.                                          *)
ValueOf(x) == IF Signed /\ Negative(x) THEN x - Pow2[W] ELSE x
AbsOf(v)   == IF v < 0 THEN -v ELSE v
WordOf(v)  == IF v < 0 THEN v + Pow2[W] ELSE v
Overflow   == Signed /\ rs1 = Pow2[W-1] /\ rs2 = Pow2[W] - 1
Specified ==
  LET a == ValueOf(rs1)
      b == ValueOf(rs2)
      q == AbsOf(a) \div AbsOf(b)
      r == AbsOf(a) % AbsOf(b)
  IN  IF rs2 = 0 THEN IF Remainder THEN rs1 ELSE Pow2[W] - 1
      ELSE IF Overflow THEN IF Remainder THEN 0 ELSE rs1
      ELSE IF Remainder THEN WordOf(IF a < 0 THEN -r ELSE r)
      ELSE WordOf(IF (a < 0) # (b < 0) THEN -q ELSE q)

(* A division that leaves the stage has the result of the instruction set, *)
(* for every dividend and divisor, however often it was started again and  *)
(* whatever a reset has left in the divider (ExecuteUnit.v 197-234, 275).  *)
DivisionExact == op # NoOp /\ ~aluBusy => E_aluOutM = Specified

(* While a division goes on: what is left of the dividend and the quotient *)
(* so far make up the dividend, what is left is less than the next step    *)
(* can take away, and the quotient has no bit below that step.             *)
Steps(k) ==
  LET a == Magnitude(rs1)  b == Magnitude(rs2) IN
  /\ EE_quotientMsk = Pow2[k] /\ EE_divisor = b * Pow2[k]
  /\ EE_dividend + EE_quotient * b = a
  /\ b # 0 => EE_dividend < 2 * EE_divisor
  /\ b = 0 => EE_quotient = Pow2[W] - Pow2[k+1]
  /\ EE_quotient % Pow2[k+1] = 0
Ended ==
  LET a == Magnitude(rs1)  b == Magnitude(rs2) IN
  /\ EE_dividend + EE_quotient * b = a
  /\ b # 0 => EE_dividend < b
  /\ b = 0 => EE_quotient = Pow2[W] - 1
DividerTypeOK ==
  /\ op \in Op \cup {NoOp} /\ rs1 \in Word /\ rs2 \in Word
  /\ EE_dividend \in Word /\ EE_divisor \in Nat /\ EE_quotient \in Nat
  /\ EE_quotientMsk \in {0} \cup {Pow2[k] : k \in 0..W-1}
  /\ EE_divSign \in BOOLEAN /\ EE_divBusy \in BOOLEAN /\ EE_divFinished \in BOOLEAN
DividerInv ==
  /\ DividerTypeOK
  /\ EE_divBusy = (EE_quotientMsk # 0) /\ (EE_divBusy => ~EE_divFinished)
  /\ EE_divBusy /\ op # NoOp => EE_divSign = SignOfResult /\ \E k \in 0..W-1 : Steps(k)
  /\ EE_divFinished /\ op # NoOp => EE_divSign = SignOfResult /\ Ended
=============================================================================
