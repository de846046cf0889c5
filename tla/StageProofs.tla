----------------------------- MODULE StageProofs -----------------------------
(***************************************************************************)
(* The units of the execute and the memory stage, for words and bytes of   *)
(* any width.                                                              *)
(*                                                                         *)
(* The divider gives the result of the instruction set.  The invariant     *)
(* that carries the proof is DividerInv; what is not linear in it is moved *)
(* into the lemmas on products and quotients.                              *)
(*                                                                         *)
(* The data port: which data a load gets and how often a store is strobed, *)
(* for every set of addresses and masks, whatever lies at an address, and  *)
(* however long the cache and the flash reader take.                       *)
(*                                                                         *)
(* The load/store unit: what the memory stage does with the data, for      *)
(* bytes of any number of values.                                          *)
(***************************************************************************)
EXTENDS Divider, DataPort, LoadStore, TLAPS

-----------------------------------------------------------------------------
(* The divider.                                                            *)

(* The quotient and the remainder are the only numbers that fit.           *)
LEMMA DivisionUnique ==
  ASSUME NEW a \in Nat, NEW b \in Nat \ {0}, NEW q \in Nat, NEW r \in Nat,
         r < b, r + q * b = a
  PROVE  a \div b = q /\ a % b = r
<1> DEFINE d == a \div b
           s == a % b
<1>1. d \in Nat /\ s \in 0..b-1 /\ a = b * d + s
  OBVIOUS
<1> HIDE DEF d, s
<1>2. ASSUME d < q PROVE FALSE
  <2>1. PICK e \in Nat : q = d + 1 + e
    <3>1. q - d - 1 \in Nat /\ q = d + 1 + (q - d - 1)
      BY <1>1, <1>2
    <3> QED BY <3>1
  <2>2. q * b = d * b + b + e * b /\ e * b \in Nat /\ b * d = d * b /\ d * b \in Nat
    BY <1>1, <2>1
  <2> QED BY <1>1, <2>2
<1>3. ASSUME q < d PROVE FALSE
  <2>1. PICK e \in Nat : d = q + 1 + e
    <3>1. d - q - 1 \in Nat /\ d = q + 1 + (d - q - 1)
      BY <1>1, <1>3
    <3> QED BY <3>1
  <2>2. b * d = q * b + b + e * b /\ e * b \in Nat /\ q * b \in Nat
    BY <1>1, <2>1
  <2> QED BY <1>1, <2>2
<1>4. d = q
  BY <1>1, <1>2, <1>3
<1>5. b * d = q * b /\ q * b \in Nat
  BY <1>4
<1> QED BY <1>1, <1>4, <1>5 DEF d, s

(* A multiple divided by what it is a multiple of.                         *)
LEMMA Multiple ==
  ASSUME NEW m \in Nat, NEW p \in Nat \ {0}
  PROVE  (m * p) \div p = m /\ (m * p) % p = 0
<1>1. m * p \in Nat /\ 0 + m * p = m * p
  OBVIOUS
<1> QED BY <1>1, DivisionUnique

(* ... and a number without remainder is one.                              *)
LEMMA NoRemainder ==
  ASSUME NEW x \in Nat, NEW p \in Nat \ {0}, x % p = 0
  PROVE  \E m \in Nat : x = m * p
<1>1. (x \div p) \in Nat /\ x = p * (x \div p)
  OBVIOUS
<1>2. p * (x \div p) = (x \div p) * p
  BY <1>1
<1> QED BY <1>1, <1>2

(* The powers of two, as far as they are needed.                           *)
LEMMA Powers ==
  /\ W \in Nat \ {0} /\ W-1 \in 0..W-1 /\ W \in 0..W /\ 0 \in 0..W-1
  /\ \A k \in 0..W : Pow2[k] \in Nat \ {0}
  /\ \A k \in 0..W-1 : k \in 0..W /\ k+1 \in 0..W /\ Pow2[k+1] = 2 * Pow2[k]
  /\ Pow2[0] = 1 /\ Pow2[W] = 2 * Pow2[W-1] /\ Pow2[W] \in Nat \ {0} /\ Pow2[W-1] \in Nat \ {0}
<1>1. W \in Nat \ {0} /\ W-1 \in 0..W-1 /\ W \in 0..W /\ 0 \in 0..W-1
  BY WidthAssumption
<1>2. \A k \in 0..W : Pow2[k] \in Nat \ {0}
  BY WidthAssumption
<1>3. \A k \in 0..W-1 : k \in 0..W /\ k+1 \in 0..W /\ Pow2[k+1] = 2 * Pow2[k]
  BY WidthAssumption
<1>4. (W-1)+1 = W
  BY <1>1
<1> QED BY <1>1, <1>2, <1>3, <1>4, WidthAssumption

(* The bits below the mask: the last one has the value one.                *)
LEMMA MaskBits ==
  ASSUME NEW k \in 0..W-1
  PROVE  /\ k = 0 => Pow2[k] % 2 = 1 /\ Pow2[k] \div 2 = 0
         /\ k # 0 => /\ k-1 \in 0..W-1 /\ Pow2[k] = 2 * Pow2[k-1]
                     /\ Pow2[k] % 2 = 0 /\ Pow2[k] \div 2 = Pow2[k-1]
<1>1. CASE k = 0
  BY <1>1, Powers
<1>2. CASE k # 0
  <2>1. k-1 \in 0..W-1 /\ (k-1)+1 = k
    BY <1>2, Powers
  <2>2. Pow2[k] = 2 * Pow2[k-1] /\ Pow2[k-1] \in Nat
    BY <2>1, Powers
  <2> QED BY <1>2, <2>1, <2>2
<1> QED BY <1>1, <1>2

LEMMA MagnitudeIsWord ==
  ASSUME NEW x \in Word PROVE Magnitude(x) \in Word /\ (Magnitude(x) = 0 <=> x = 0)
BY Powers DEF Word, Magnitude, Minus, Negative

LEMMA SubtractIsWord ==
  ASSUME NEW x \in Word, NEW y \in Nat PROVE Subtract(x, y) \in Word
<1>1. y % Pow2[W] \in 0..Pow2[W]-1
  BY Powers
<1> QED BY <1>1, Powers DEF Word, Subtract

(* A word that is large enough loses just what is taken away from it.      *)
LEMMA SubtractExact ==
  ASSUME NEW x \in Word, NEW y \in Nat, y <= x PROVE Subtract(x, y) = x - y
<1>1. y \in Nat /\ Pow2[W] \in Nat \ {0} /\ y < Pow2[W] /\ y + 0 * Pow2[W] = y
  BY Powers DEF Word
<1>2. y % Pow2[W] = y
  BY <1>1, DivisionUnique
<1> QED BY <1>2, Powers DEF Word, Subtract

(* A bit below all bits of a number is added to it.                        *)
LEMMA OrAdds ==
  ASSUME NEW k \in 0..W-1, NEW x \in Nat, x % Pow2[k+1] = 0
  PROVE  SetBit(x, Pow2[k]) = x + Pow2[k] /\ x % Pow2[k] = 0 /\ (x + Pow2[k]) % Pow2[k] = 0
<1> DEFINE p == Pow2[k]
<1>1. p \in Nat \ {0} /\ Pow2[k+1] = 2 * p /\ Pow2[k+1] \in Nat \ {0}
  BY Powers
<1>2. PICK c \in Nat : x = c * Pow2[k+1]
  BY <1>1, NoRemainder
<1> HIDE DEF p
<1>3. x = (2 * c) * p /\ x + p = (2 * c + 1) * p
  BY <1>1, <1>2
<1>4. x \div p = 2 * c /\ x % p = 0
  BY <1>1, <1>3, Multiple
<1>5. (x + p) % p = 0
  <2>1. 2 * c + 1 \in Nat
    OBVIOUS
  <2> QED BY <1>1, <1>3, <2>1, Multiple
<1>6. (2 * c) % 2 = 0
  OBVIOUS
<1>7. SetBit(x, p) = x + p
  BY <1>4, <1>6 DEF SetBit
<1> QED BY <1>4, <1>5, <1>7 DEF p
-----------------------------------------------------------------------------
LEMMA InitInv == DividerInit => DividerInv
<1> SUFFICES ASSUME DividerInit PROVE DividerInv
  OBVIOUS
<1>1. 0 \in Word
  BY Powers DEF Word
<1>2. DividerTypeOK
  BY <1>1 DEF DividerInit, DividerTypeOK
<1> QED BY <1>2 DEF DividerInit, DividerInv

(* The clock that takes in the operands.                                   *)
LEMMA IdleInv ==
  ASSUME DividerInv, ~EE_divBusy, Idle, EE_divFinished' = (EE_quotientMsk % 2 = 1),
         op' \in Op \cup {NoOp}, rs1' \in Word, rs2' \in Word,
         aluBusy => UNCHANGED instruction \/ op' = NoOp
  PROVE  DividerInv'
<1> USE Powers
<1>0. DividerTypeOK /\ EE_quotientMsk = 0
  BY DEF DividerInv
<1>1. EE_divFinished' = FALSE
  <2>1. ~(EE_quotientMsk % 2 = 1)
    BY <1>0
  <2> QED BY <2>1
<1>2. Magnitude(rs1) \in Word /\ Magnitude(rs2) \in Word
  BY <1>0, MagnitudeIsWord DEF DividerTypeOK
<1>3. Magnitude(rs2) * Pow2[W-1] \in Nat
  BY <1>2 DEF Word
<1>4. EE_divSign' \in BOOLEAN
  BY DEF Idle, SignOfResult, Signed, Negative
<1>5. EE_quotientMsk' \in {0} \cup {Pow2[k] : k \in 0..W-1} /\ EE_divBusy' \in BOOLEAN
      /\ EE_divBusy' = (EE_quotientMsk' # 0)
  <2>1. CASE op # NoOp /\ ~EE_divFinished
    <3>1. EE_quotientMsk' = Pow2[W-1] /\ EE_divBusy' = TRUE
      BY <2>1 DEF Idle
    <3> QED BY <3>1
  <2>2. CASE ~(op # NoOp /\ ~EE_divFinished)
    <3>1. EE_quotientMsk' = EE_quotientMsk /\ EE_divBusy' = EE_divBusy
      BY <2>2 DEF Idle
    <3>2. EE_quotientMsk' = 0 /\ EE_divBusy' = FALSE
      BY <1>0, <3>1 DEF DividerTypeOK
    <3> QED BY <3>2
  <2> QED BY <2>1, <2>2
<1>6. DividerTypeOK'
  <2>1. EE_dividend' \in Word /\ EE_divisor' \in Nat /\ EE_quotient' \in Nat
    BY <1>2, <1>3 DEF Idle
  <2> QED BY <1>1, <1>4, <1>5, <2>1 DEF DividerTypeOK
<1>7. ASSUME EE_divBusy', op' # NoOp
      PROVE  EE_divSign' = SignOfResult' /\ \E k \in 0..W-1 : Steps(k)'
  <2>1. op # NoOp /\ ~EE_divFinished /\ EE_quotientMsk' = Pow2[W-1]
    BY <1>7 DEF Idle
  <2>2. op' = op /\ rs1' = rs1 /\ rs2' = rs2
    BY <1>7, <2>1 DEF aluBusy, instruction
  <2>3. EE_divSign' = SignOfResult'
    BY <2>2 DEF Idle, SignOfResult, Signed, Remainder, Negative
  <2>4. Magnitude(rs1)' = Magnitude(rs1) /\ Magnitude(rs2)' = Magnitude(rs2)
    BY <2>2 DEF Magnitude, Signed, Negative, Minus
  <2> DEFINE a == Magnitude(rs1)
             b == Magnitude(rs2)
  <2>5. EE_dividend' = a /\ EE_divisor' = b * Pow2[W-1] /\ EE_quotient' = 0
    BY DEF Idle
  <2> HIDE DEF a, b
  <2>6. a \in Nat /\ a < Pow2[W] /\ b \in Nat /\ a + 0 * b = a
    BY <1>2 DEF a, b, Word
  <2>7. b # 0 => a < 2 * (b * Pow2[W-1])
    <3>1. SUFFICES ASSUME b # 0 PROVE a < 2 * (b * Pow2[W-1])
      OBVIOUS
    <3>2. PICK c \in Nat : b = 1 + c
      <4>1. b - 1 \in Nat /\ b = 1 + (b - 1)
        BY <2>6, <3>1
      <4> QED BY <4>1
    <3>3. b * Pow2[W-1] = Pow2[W-1] + c * Pow2[W-1] /\ c * Pow2[W-1] \in Nat
      BY <3>2
    <3> QED BY <2>6, <3>3
  <2>8. (W-1)+1 = W /\ 0 % Pow2[W] = 0
    OBVIOUS
  <2>9. Steps(W-1)'
    <3>1. Magnitude(rs1)' = a /\ Magnitude(rs2)' = b
      BY <2>4 DEF a, b
    <3>2. EE_dividend' + EE_quotient' * b = a
      BY <2>5, <2>6
    <3>3. b # 0 => EE_dividend' < 2 * EE_divisor'
      BY <2>5, <2>7
    <3>4. EE_quotient' = Pow2[W] - Pow2[(W-1)+1] /\ EE_quotient' % Pow2[(W-1)+1] = 0
      BY <2>5, <2>8
    <3> QED BY <2>1, <2>5, <3>1, <3>2, <3>3, <3>4 DEF Steps
  <2> QED BY <2>3, <2>9
<1> QED BY <1>1, <1>5, <1>6, <1>7 DEF DividerInv

(* One bit of the quotient, with the arithmetic of Steps on its own.       *)
LEMMA StepArithmetic ==
  ASSUME NEW k \in 0..W-1, NEW a \in Word, NEW b \in Word, NEW n \in Word, NEW q \in Nat,
         n + q * b = a, b # 0 => n < 2 * (b * Pow2[k]),
         b = 0 => q = Pow2[W] - Pow2[k+1], q % Pow2[k+1] = 0,
         NEW n2 \in Nat, NEW q2 \in Nat,
         n2 = (IF b * Pow2[k] <= n THEN Subtract(n, b * Pow2[k]) ELSE n),
         q2 = (IF b * Pow2[k] <= n THEN SetBit(q, Pow2[k]) ELSE q)
  PROVE  /\ n2 + q2 * b = a
         /\ b # 0 => n2 < b * Pow2[k]
         /\ b = 0 => q2 = Pow2[W] - Pow2[k]
         /\ q2 % Pow2[k] = 0
<1> DEFINE p == Pow2[k]
           d == b * p
<1>1. p \in Nat \ {0} /\ Pow2[k+1] = 2 * p
  BY Powers
<1>2. b \in Nat /\ n \in Nat /\ a \in Nat /\ Pow2[W] \in Nat
  BY Powers DEF Word
<1>3. SetBit(q, p) = q + p /\ q % p = 0 /\ (q + p) % p = 0
  BY OrAdds
<1>4. d \in Nat
  BY <1>1, <1>2
<1>5. CASE d <= n
  <2>1. n2 = n - d
    BY <1>4, <1>5, SubtractExact
  <2>2. q2 = q + p
    BY <1>3, <1>5
  <2> HIDE DEF p
  <2>3. q2 * b = q * b + d /\ q * b \in Nat
    BY <1>1, <1>2, <2>2
  <2> HIDE DEF d
  <2>4. n2 + q2 * b = a
    <3> DEFINE t == q * b
    <3>1. t \in Nat /\ n + t = a /\ q2 * b = t + d
      BY <2>3
    <3> HIDE DEF t
    <3>2. (n - d) + (t + d) = n + t
      BY <1>2, <1>4, <3>1
    <3> QED BY <2>1, <3>1, <3>2
  <2>5. b # 0 => n2 < d
    BY <1>2, <1>4, <2>1 DEF d, p
  <2>6. b = 0 => q2 = Pow2[W] - p
    <3>1. b = 0 => q = Pow2[W] - 2 * p
      BY <1>1
    <3>2. (Pow2[W] - 2 * p) + p = Pow2[W] - p
      BY <1>1, <1>2
    <3> QED BY <2>2, <3>1, <3>2
  <2> QED BY <1>3, <2>2, <2>4, <2>5, <2>6 DEF d, p
<1>6. CASE n < d
  <2>1. n2 = n /\ q2 = q
    BY <1>2, <1>4, <1>6
  <2>2. b # 0
    <3>1. SUFFICES ASSUME b = 0 PROVE FALSE
      OBVIOUS
    <3>2. d = 0
      BY <1>1, <3>1
    <3> QED BY <1>2, <1>6, <3>2
  <2> QED BY <1>3, <1>6, <2>1, <2>2
<1> QED BY <1>2, <1>4, <1>5, <1>6

(* A clock of the division.                                                *)
LEMMA StepInv ==
  ASSUME DividerInv, EE_divBusy, Step, EE_divFinished' = (EE_quotientMsk % 2 = 1),
         op' = NoOp \/ op' = op, op' \in Op \cup {NoOp}, UNCHANGED <<rs1, rs2>>
  PROVE  DividerInv'
<1>0. DividerTypeOK /\ EE_quotientMsk # 0
  BY DEF DividerInv
<1>1. PICK j \in 0..W-1 : EE_quotientMsk = Pow2[j]
  BY <1>0 DEF DividerTypeOK
<1> DEFINE a == Magnitude(rs1)
           b == Magnitude(rs2)
           Divides == op' # NoOp
<1>2. DividerTypeOK'
  <2>1. EE_dividend' \in Word
    BY <1>0, SubtractIsWord DEF DividerTypeOK, Step
  <2>2. EE_divisor' \in Nat
    BY <1>0 DEF DividerTypeOK, Step
  <2>3. EE_quotient' \in Nat
    BY <1>0, <1>1, Powers DEF DividerTypeOK, Step, SetBit
  <2>4. EE_quotientMsk' \in {0} \cup {Pow2[k] : k \in 0..W-1}
    BY <1>1, MaskBits DEF Step
  <2>5. EE_divSign' \in BOOLEAN /\ EE_divBusy' \in BOOLEAN /\ EE_divFinished' \in BOOLEAN
    BY <1>0 DEF DividerTypeOK, Step
  <2>6. rs1' \in Word /\ rs2' \in Word
    BY <1>0 DEF DividerTypeOK
  <2> QED BY <2>1, <2>2, <2>3, <2>4, <2>5, <2>6 DEF DividerTypeOK
<1>3. EE_divBusy' = (EE_quotientMsk' # 0) /\ (EE_divBusy' => ~EE_divFinished')
  <2>1. CASE j = 0
    <3>1. EE_quotientMsk % 2 = 1 /\ EE_quotientMsk' = 0
      BY <1>1, <2>1, MaskBits DEF Step
    <3>2. EE_divBusy' = FALSE
      <4>1. ~(EE_quotientMsk % 2 = 0)
        BY <3>1
      <4>2. EE_divBusy' = (EE_quotientMsk % 2 = 0)
        BY DEF Step
      <4> QED BY <4>1, <4>2
    <3> QED BY <3>1, <3>2
  <2>2. CASE j # 0
    <3>1. EE_quotientMsk % 2 = 0 /\ EE_quotientMsk' # 0
      BY <1>1, <2>2, MaskBits, Powers DEF Step
    <3>2. EE_divBusy' = TRUE /\ ~EE_divFinished'
      <4>1. EE_quotientMsk % 2 = 0 /\ ~(EE_quotientMsk % 2 = 1)
        BY <3>1
      <4>2. EE_divBusy' = (EE_quotientMsk % 2 = 0)
        BY DEF Step
      <4> QED BY <4>1, <4>2
    <3> QED BY <3>1, <3>2
  <2> QED BY <2>1, <2>2
(* What both ends have in common: the registers after the step.            *)
<1>4. ASSUME Divides
      PROVE  /\ op' = op /\ EE_divSign' = SignOfResult'
             /\ \E k \in 0..W-1 :
                  /\ EE_quotientMsk = Pow2[k] /\ EE_divisor = b * Pow2[k]
                  /\ EE_dividend' + EE_quotient' * b = a
                  /\ b # 0 => EE_dividend' < b * Pow2[k]
                  /\ b = 0 => EE_quotient' = Pow2[W] - Pow2[k]
                  /\ EE_quotient' % Pow2[k] = 0
  <2>1. op' = op /\ op # NoOp
    BY <1>4
  <2>2. PICK k \in 0..W-1 : Steps(k)
    BY <2>1 DEF DividerInv
  <2>3. EE_divSign = SignOfResult
    BY <2>1 DEF DividerInv
  <2>4. EE_divSign' = SignOfResult'
    BY <2>1, <2>3 DEF Step, SignOfResult, Signed, Remainder, Negative
  <2>5. a \in Word /\ b \in Word /\ EE_dividend \in Word /\ EE_quotient \in Nat
    BY <1>0, MagnitudeIsWord DEF DividerTypeOK
  <2>6. EE_dividend' \in Nat /\ EE_quotient' \in Nat
    BY <1>2, Powers DEF DividerTypeOK, Word
  <2> HIDE DEF a, b
  <2>7. /\ EE_quotientMsk = Pow2[k] /\ EE_divisor = b * Pow2[k]
        /\ EE_dividend + EE_quotient * b = a
        /\ b # 0 => EE_dividend < 2 * EE_divisor
        /\ b = 0 => EE_quotient = Pow2[W] - Pow2[k+1]
        /\ EE_quotient % Pow2[k+1] = 0
    BY <2>2 DEF Steps, a, b
  <2>8. /\ EE_dividend' = (IF b * Pow2[k] <= EE_dividend
                            THEN Subtract(EE_dividend, b * Pow2[k]) ELSE EE_dividend)
        /\ EE_quotient' = (IF b * Pow2[k] <= EE_dividend
                            THEN SetBit(EE_quotient, Pow2[k]) ELSE EE_quotient)
    BY <2>7 DEF Step, E_divstepDo
  <2>9. /\ EE_dividend' + EE_quotient' * b = a
        /\ b # 0 => EE_dividend' < b * Pow2[k]
        /\ b = 0 => EE_quotient' = Pow2[W] - Pow2[k]
        /\ EE_quotient' % Pow2[k] = 0
    BY <2>5, <2>6, <2>7, <2>8, StepArithmetic
  <2> QED BY <2>1, <2>4, <2>7, <2>9
<1>5. ASSUME Divides PROVE Magnitude(rs1)' = a /\ Magnitude(rs2)' = b
  BY <1>4, <1>5 DEF Magnitude, Signed, Negative, Minus
<1>6. a \in Nat /\ b \in Nat
  BY <1>0, MagnitudeIsWord, Powers DEF DividerTypeOK, Word
<1>7. ASSUME EE_divBusy', Divides
      PROVE  \E k \in 0..W-1 : Steps(k)'
  <2> HIDE DEF a, b
  <2>1. PICK k \in 0..W-1 :
                  /\ EE_quotientMsk = Pow2[k] /\ EE_divisor = b * Pow2[k]
                  /\ EE_dividend' + EE_quotient' * b = a
                  /\ b # 0 => EE_dividend' < b * Pow2[k]
                  /\ b = 0 => EE_quotient' = Pow2[W] - Pow2[k]
                  /\ EE_quotient' % Pow2[k] = 0
    BY <1>4, <1>7
  <2>2. k # 0
    <3>1. EE_quotientMsk' # 0
      BY <1>3, <1>7
    <3> QED BY <2>1, <3>1, MaskBits DEF Step
  <2>3. k-1 \in 0..W-1 /\ Pow2[k] = 2 * Pow2[k-1] /\ EE_quotientMsk' = Pow2[k-1]
        /\ (k-1)+1 = k /\ Pow2[k-1] \in Nat
    <3>1. k-1 \in 0..W-1 /\ Pow2[k] = 2 * Pow2[k-1] /\ Pow2[k] \div 2 = Pow2[k-1]
      BY <2>2, MaskBits
    <3>2. EE_quotientMsk' = Pow2[k-1]
      BY <2>1, <3>1 DEF Step
    <3>3. (k-1)+1 = k /\ Pow2[k-1] \in Nat
      BY <3>1, Powers
    <3> QED BY <3>1, <3>2, <3>3
  <2> DEFINE e == b * Pow2[k-1]
  <2>4. e \in Nat /\ b * Pow2[k] = 2 * e
    BY <1>6, <2>3
  <2>5. EE_divisor' = e
    <3>1. EE_divisor' = (2 * e) \div 2
      BY <2>1, <2>4 DEF Step
    <3> HIDE DEF e
    <3> QED BY <2>4, <3>1
  <2>6. b # 0 => EE_dividend' < 2 * EE_divisor'
    BY <2>1, <2>4, <2>5
  <2> QED
    <3>1. b = 0 => EE_quotient' = Pow2[W] - Pow2[(k-1)+1]
      BY <2>1, <2>3
    <3>2. EE_quotient' % Pow2[(k-1)+1] = 0
      BY <2>1, <2>3
    <3>3. Steps(k-1)'
      BY <1>5, <1>7, <2>1, <2>3, <2>5, <2>6, <3>1, <3>2 DEF Steps
    <3> QED BY <2>3, <3>3
<1>8. ASSUME EE_divFinished', Divides
      PROVE  Ended'
  <2> HIDE DEF a, b
  <2>1. PICK k \in 0..W-1 :
                  /\ EE_quotientMsk = Pow2[k] /\ EE_divisor = b * Pow2[k]
                  /\ EE_dividend' + EE_quotient' * b = a
                  /\ b # 0 => EE_dividend' < b * Pow2[k]
                  /\ b = 0 => EE_quotient' = Pow2[W] - Pow2[k]
                  /\ EE_quotient' % Pow2[k] = 0
    BY <1>4, <1>8
  <2>2. EE_quotientMsk % 2 = 1
    BY <1>8
  <2>3. Pow2[k] = 1
    BY <2>1, <2>2, MaskBits, Powers
  <2>4. b * 1 = b
    BY <1>6
  <2>5. /\ EE_dividend' + EE_quotient' * b = a
        /\ b # 0 => EE_dividend' < b
        /\ b = 0 => EE_quotient' = Pow2[W] - 1
    BY <2>1, <2>3, <2>4
  <2> QED BY <1>5, <1>8, <2>5 DEF Ended
<1>9. Divides => EE_divSign' = SignOfResult'
  BY <1>4
<1> QED BY <1>2, <1>3, <1>7, <1>8, <1>9 DEF DividerInv

LEMMA NextInv == DividerInv /\ [DividerNext]_dividerVars => DividerInv'
<1> SUFFICES ASSUME DividerInv, [DividerNext]_dividerVars PROVE DividerInv'
  OBVIOUS
<1>0. op \in Op \cup {NoOp} /\ rs1 \in Word /\ rs2 \in Word
  BY DEF DividerInv, DividerTypeOK
<1>1. CASE DividerReset
  <2>1. op' = NoOp /\ rs1' \in Word /\ rs2' \in Word /\ UNCHANGED <<rs1, rs2>>
        /\ EE_divFinished' = (EE_quotientMsk % 2 = 1)
    BY <1>0, <1>1 DEF DividerReset
  <2>2. CASE EE_divBusy
    <3>1. Step
      BY <1>1, <2>2 DEF DividerReset
    <3> QED BY <2>1, <2>2, <3>1, StepInv
  <2>3. CASE ~EE_divBusy
    <3>1. Idle
      BY <1>1, <2>3 DEF DividerReset
    <3> QED BY <2>1, <2>3, <3>1, IdleInv
  <2> QED BY <2>2, <2>3
<1>2. ASSUME NEW other \in BOOLEAN, DividerClock(other) PROVE DividerInv'
  <2>1. op' \in Op \cup {NoOp} /\ rs1' \in Word /\ rs2' \in Word
        /\ EE_divFinished' = (EE_quotientMsk % 2 = 1)
    BY <1>0, <1>2 DEF DividerClock, instruction
  <2>2. aluBusy => UNCHANGED instruction
    BY <1>2 DEF DividerClock
  <2>3. CASE EE_divBusy
    <3>1. Step
      BY <1>2, <2>3 DEF DividerClock
    <3>2. op' = op /\ UNCHANGED <<rs1, rs2>>
      BY <2>2, <2>3 DEF aluBusy, instruction
    <3> QED BY <2>1, <2>3, <3>1, <3>2, StepInv
  <2>4. CASE ~EE_divBusy
    <3>1. Idle
      BY <1>2, <2>4 DEF DividerClock
    <3> QED BY <2>1, <2>2, <2>4, <3>1, IdleInv
  <2> QED BY <2>3, <2>4
<1>3. CASE UNCHANGED dividerVars
  BY <1>3 DEF dividerVars, instruction, divider, DividerInv, DividerTypeOK, Steps, Ended,
     SignOfResult, Signed, Remainder, Magnitude, Negative, Minus
<1> QED BY <1>1, <1>2, <1>3 DEF DividerNext

(* The invariant of the division holds, for words of every width           *)
(* (ExecuteUnit.v 197-223).                                                *)
THEOREM DividerInvariant == DividerSpec => []DividerInv
BY InitInv, NextInv, PTL DEF DividerSpec

(* What the result is, from the magnitudes of the operands.                *)
LEMMA InvExact == DividerInv => DivisionExact
<1> SUFFICES ASSUME DividerInv, op # NoOp, ~aluBusy PROVE E_aluOutM = Specified
  BY DEF DivisionExact
<1>1. EE_divFinished /\ EE_divSign = SignOfResult /\ Ended
  BY DEF DividerInv, aluBusy
<1>2. op \in Op /\ rs1 \in Word /\ rs2 \in Word /\ EE_dividend \in Nat /\ EE_quotient \in Nat
  BY Powers DEF DividerInv, DividerTypeOK, Word
<1> DEFINE a == Magnitude(rs1)
           b == Magnitude(rs2)
           P == Pow2[W]
<1>3. a \in Nat /\ b \in Nat /\ (b = 0 <=> rs2 = 0) /\ P \in Nat \ {0}
  BY <1>2, MagnitudeIsWord, Powers DEF Word
<1>4. AbsOf(ValueOf(rs1)) = a /\ AbsOf(ValueOf(rs2)) = b
  BY <1>2, Powers DEF AbsOf, ValueOf, Magnitude, Minus, Negative, Word
<1>5. EE_dividend + EE_quotient * b = a /\ (b # 0 => EE_dividend < b)
      /\ (b = 0 => EE_quotient = P - 1)
  BY <1>1 DEF Ended
<1>6. CASE rs2 = 0
  <2>1. EE_dividend = a /\ EE_quotient = P - 1
    <3>1. b = 0 /\ EE_quotient * 0 = 0
      BY <1>2, <1>3, <1>6
    <3> QED BY <1>2, <1>3, <1>5, <3>1
  <2>2. CASE Remainder
    <3>1. EE_divSign <=> Signed /\ Negative(rs1)
      BY <1>1, <2>2 DEF SignOfResult
    <3>2. E_aluOutM = IF Signed /\ Negative(rs1) THEN Minus(a) ELSE a
      BY <2>1, <2>2, <3>1 DEF E_aluOutM
    <3>3. E_aluOutM = rs1
      BY <1>2, <3>2, Powers DEF Magnitude, Minus, Negative, Word
    <3> QED BY <1>6, <2>2, <3>3 DEF Specified
  <2>3. CASE ~Remainder
    <3>1. ~EE_divSign
      BY <1>1, <1>6, <2>3 DEF SignOfResult
    <3>2. E_aluOutM = P - 1
      BY <2>1, <2>3, <3>1 DEF E_aluOutM
    <3> QED BY <1>6, <2>3, <3>2 DEF Specified
  <2> QED BY <2>2, <2>3
<1>7. CASE rs2 # 0
  <2>1. a \div b = EE_quotient /\ a % b = EE_dividend
    BY <1>2, <1>3, <1>5, <1>7, DivisionUnique
  <2>2. ValueOf(rs1) < 0 <=> Signed /\ Negative(rs1)
    BY <1>2, Powers DEF ValueOf, Negative, Word
  <2>3. ValueOf(rs2) < 0 <=> Signed /\ Negative(rs2)
    BY <1>2, Powers DEF ValueOf, Negative, Word
  <2>4. \A x \in Nat : WordOf(-x) = Minus(x) /\ WordOf(x) = x
    BY Powers DEF WordOf, Minus
  <2>5. CASE Remainder
    <3>1. EE_divSign <=> Signed /\ Negative(rs1)
      BY <1>1, <2>5 DEF SignOfResult
    <3>2. E_aluOutM = WordOf(IF ValueOf(rs1) < 0 THEN -EE_dividend ELSE EE_dividend)
      BY <1>2, <2>2, <2>4, <2>5, <3>1 DEF E_aluOutM
    <3>3. Overflow => E_aluOutM = 0
      <4>1. SUFFICES ASSUME Overflow PROVE EE_dividend = 0
        BY <1>2, <2>4, <3>2
      <4>2. b = 1
        BY <4>1, Powers DEF Overflow, Magnitude, Minus, Negative
      <4> QED BY <1>2, <1>5, <4>2
    <3> QED BY <1>4, <1>7, <2>1, <2>5, <3>2, <3>3 DEF Specified
  <2>6. CASE ~Remainder
    <3>1. EE_divSign <=> Signed /\ Negative(rs1) # Negative(rs2)
      BY <1>1, <1>7, <2>6 DEF SignOfResult
    <3>2. E_aluOutM = WordOf(IF (ValueOf(rs1) < 0) # (ValueOf(rs2) < 0)
                             THEN -EE_quotient ELSE EE_quotient)
      <4>1. EE_divSign <=> ((ValueOf(rs1) < 0) # (ValueOf(rs2) < 0))
        <5>1. CASE Signed
          <6>1. (ValueOf(rs1) < 0) = Negative(rs1) /\ (ValueOf(rs2) < 0) = Negative(rs2)
            BY <2>2, <2>3, <5>1 DEF Negative
          <6>2. EE_divSign <=> Negative(rs1) # Negative(rs2)
            BY <3>1, <5>1
          <6> QED BY <6>1, <6>2
        <5>2. CASE ~Signed
          BY <2>2, <2>3, <3>1, <5>2
        <5> QED BY <5>1, <5>2
      <4>2. E_aluOutM = IF EE_divSign THEN Minus(EE_quotient) ELSE EE_quotient
        BY <2>6 DEF E_aluOutM
      <4>3. WordOf(-EE_quotient) = Minus(EE_quotient) /\ WordOf(EE_quotient) = EE_quotient
        BY <1>2, <2>4
      <4> QED BY <4>1, <4>2, <4>3
    <3>3. Overflow => E_aluOutM = rs1
      <4>1. SUFFICES ASSUME Overflow PROVE E_aluOutM = rs1
        OBVIOUS
      <4>2. b = 1 /\ a = rs1 /\ Signed /\ Negative(rs1) /\ Negative(rs2)
        <5>1. Signed /\ rs1 = Pow2[W-1] /\ rs2 = Pow2[W] - 1
          BY <4>1 DEF Overflow
        <5>2. Negative(rs1) /\ Negative(rs2)
          BY <5>1, Powers DEF Negative
        <5>3. Minus(rs1) = rs1 /\ Minus(rs2) = 1
          <6> DEFINE h == Pow2[W-1]
          <6>1. h \in Nat \ {0} /\ Pow2[W] = 2 * h /\ rs1 = h /\ rs2 = 2 * h - 1
            BY <5>1, Powers
          <6> HIDE DEF h
          <6>2. rs1 # 0 /\ rs2 # 0 /\ Pow2[W] - rs1 = rs1 /\ Pow2[W] - rs2 = 1
            BY <6>1
          <6> QED BY <6>2 DEF Minus
        <5> QED BY <5>1, <5>2, <5>3 DEF Magnitude
      <4>3. EE_quotient = a
        BY <1>2, <1>3, <1>5, <4>2
      <4>4. ~EE_divSign
        BY <3>1, <4>2
      <4> QED BY <2>6, <4>2, <4>3, <4>4 DEF E_aluOutM
    <3> QED BY <1>4, <1>7, <2>1, <2>6, <3>2, <3>3 DEF Specified
  <2> QED BY <2>5, <2>6
<1> QED BY <1>6, <1>7

(* Every division that leaves the stage has the result of the instruction  *)
(* set, division by zero and overflow included, for words of every width   *)
(* (ExecuteUnit.v 186-234).                                                *)
THEOREM DivisionExactAlways == DividerSpec => []DivisionExact
<1>1. DividerSpec => []DividerInv
  BY DividerInvariant
<1> QED BY <1>1, InvExact, PTL

-----------------------------------------------------------------------------
(* The data port.                                                          *)

(* Only a load that waits for the flash keeps the reader busy; execute     *)
(* does not read while the memory stage writes.                            *)
OneAtATime ==
  /\ Writes(M) => ~Reads(E)
  /\ flashBusy => Reads(E) /\ PartOf(E.addr) = "flash"
  /\ Writes(E) => E.mask # {}
  /\ Writes(M) => M.mask # {}

(* What the last strobe has selected is what a read in the clock before    *)
(* has asked for, strobed or not.                                          *)
Selected(a) ==
  PartOf(a) # "memory" =>
    /\ isFlashR <=> PartOf(a) = "flash"
    /\ isUARTR <=> PartOf(a) \in {"uartData", "uartCtrl"}
    /\ PartOf(a) = "flash" => flashOut = <<"flash", a>>
PrevSelected == prevRden => Selected(prevAddr)

(* A load is in the memory stage for one clock, behind the one in which    *)
(* execute read.                                                           *)
LoadJustRead ==
  M.kind = "load" =>
    /\ prevRden /\ prevAddr = M.addr
    /\ PartOf(M.addr) = "memory" /\ behind # "fence" => cacheOut = <<"memory", M.addr>>

(* So is a store to a device, which nothing keeps waiting.                 *)
StoreJustCame ==
  Writes(M) /\ PartOf(M.addr) # "memory" =>
    /\ taken = 0
    /\ prevAddr = M.addr /\ prevWren = M.mask <=> behind = "same"

Bools == prevRden \in BOOLEAN /\ isFlashR \in BOOLEAN /\ isUARTR \in BOOLEAN /\ flashBusy \in BOOLEAN
PortInv == Bools /\ OneAtATime /\ PrevSelected /\ LoadJustRead /\ StoreJustCame

LEMMA PortStarts == PortInit => PortInv
BY DEF PortInit, PortInv, Bools, OneAtATime, PrevSelected, LoadJustRead, StoreJustCame, Others,
       Reads, Writes

LEMMA ResetKeeps == PortReset => PortInv'
BY DEF PortReset, PortInv, Bools, OneAtATime, PrevSelected, LoadJustRead, StoreJustCame, Others,
       Reads, Writes

(* While execute reads, the port shows its address; while it does not,     *)
(* that of the memory stage.                                               *)
LEMMA Select ==
  ASSUME PortInv, NEW answer \in BOOLEAN, NEW other \in BOOLEAN, NEW ended \in BOOLEAN,
         PortClock(answer, other, ended)
  PROVE  PrevSelected'
<1>. SUFFICES ASSUME prevRden', PartOf(prevAddr') # "memory"  PROVE  Selected(prevAddr)'
  BY DEF PrevSelected, Selected
<1>1. rden /\ prevAddr' = addr /\ isIO
  BY DEF PortClock, isIO
<1>2. CASE loadStrobe
  BY <1>1, <1>2 DEF PortClock, Selected, toFlash, toUART
<1>3. CASE ~loadStrobe
  <2>1. prevRden /\ addr = prevAddr
    BY <1>1, <1>3 DEF PortInv, Bools, loadStrobe
  <2>2. UNCHANGED <<isFlashR, isUARTR, flashOut>>
    BY <1>3 DEF PortClock
  <2>. QED  BY <1>1, <2>1, <2>2 DEF PortInv, PrevSelected, Selected
<1>. QED  BY <1>2, <1>3

LEMMA Moved ==
  ASSUME PortInv, NEW answer \in BOOLEAN, NEW other \in BOOLEAN, NEW ended \in BOOLEAN,
         PortClock(answer, other, ended), ~M_busy(answer)
  PROVE  \/ /\ ~validReady(answer) \/ other
            /\ E' = E /\ ~Reads(M') /\ ~Writes(M')
         \/ /\ validReady(answer) /\ M' = E
            /\ Writes(E) => ~Reads(E')
            /\ Writes(E') => E'.mask # {}
<1>1. CASE other \/ ~validReady(answer)
  <2>1. E' = E /\ M' = [kind |-> "nop", addr |-> M.addr]
    BY <1>1 DEF PortClock, Advance
  <2>. QED  BY <1>1, <2>1 DEF Reads, Writes
<1>2. CASE ~(other \/ ~validReady(answer))
  <2>1. M' = E /\ E' \in Others \cup {i \in Moves : ~portHazard(i)}
    BY <1>2 DEF PortClock, Advance
  <2>. QED  BY <1>2, <2>1, PartAssumption DEF portHazard, Others, Moves, Reads, Writes
<1>. QED  BY <1>1, <1>2

LEMMA Behind ==
  ASSUME NEW answer \in BOOLEAN, NEW other \in BOOLEAN, NEW ended \in BOOLEAN,
         PortClock(answer, other, ended), ~M_busy(answer)
  PROVE  /\ taken' = 0
         /\ behind' = IF M.kind = "fence" THEN "fence" ELSE IF Repeats(E, M) THEN "same" ELSE "other"
BY Zenon DEF PortClock, Advance

LEMMA OneKept ==
  ASSUME PortInv, NEW answer \in BOOLEAN, NEW other \in BOOLEAN, NEW ended \in BOOLEAN,
         PortClock(answer, other, ended)
  PROVE  OneAtATime' /\ Bools'
<1>1. Bools'
  <2>1. prevRden' \in BOOLEAN
    <3>1. (prevRden' = TRUE) \/ (prevRden' = FALSE)
      BY DEF PortClock, rden, Reads
    <3>. QED  BY <3>1
  <2>2. isFlashR' \in BOOLEAN /\ isUARTR' \in BOOLEAN
    <3>1. CASE isIO /\ loadStrobe
      <4>1. isFlashR' = toFlash /\ isUARTR' = toUART
        BY <3>1 DEF PortClock
      <4>. QED  BY <4>1 DEF toFlash, toUART
    <3>2. CASE ~(isIO /\ loadStrobe)
      BY <3>2, Zenon DEF PortClock, PortInv, Bools
    <3>. QED  BY <3>1, <3>2
  <2>3. flashBusy' \in BOOLEAN
    <3>1. CASE toFlash /\ loadStrobe
      BY <3>1, Zenon DEF PortClock
    <3>2. CASE ~(toFlash /\ loadStrobe)
      BY <3>2, Zenon DEF PortClock
    <3>. QED  BY <3>1, <3>2
  <2>. QED  BY <2>1, <2>2, <2>3 DEF Bools
<1>2. flashBusy' => Reads(E) /\ PartOf(E.addr) = "flash" /\ ~validReady(answer)
  BY DEF PortInv, OneAtATime, Bools, PortClock, loadStrobe, rden, addr, toFlash, isIO, validReady, readerReady
<1>3. CASE M_busy(answer)
  BY <1>1, <1>2, <1>3 DEF PortInv, OneAtATime, PortClock, Advance
<1>4. CASE ~M_busy(answer)
  <2>1. flashBusy' => E' = E
    BY <1>2, <1>4, Moved
  <2>. QED  BY <1>1, <1>2, <1>4, <2>1, Moved DEF PortInv, OneAtATime, Reads, Writes
<1>. QED  BY <1>3, <1>4

LEMMA LoadKept ==
  ASSUME PortInv, NEW answer \in BOOLEAN, NEW other \in BOOLEAN, NEW ended \in BOOLEAN,
         PortClock(answer, other, ended)
  PROVE  LoadJustRead'
<1>. SUFFICES ASSUME M'.kind = "load"  PROVE  LoadJustRead'
  BY DEF LoadJustRead
<1>1. ~M_busy(answer)
  BY DEF PortClock, Advance, M_busy
<1>2. M' = E /\ validReady(answer) /\ Reads(E)
  BY <1>1, Moved DEF Reads
<1>3. prevRden' /\ prevAddr' = M'.addr
  BY <1>2 DEF PortClock, rden, addr
<1>4. ASSUME PartOf(M'.addr) = "memory", behind' # "fence"
      PROVE  cacheOut' = <<"memory", M'.addr>>
  <2>1. ~flush
    BY <1>1, <1>4, Behind DEF flush
  <2>2. rden /\ addr = M'.addr /\ ~isIO
    BY <1>2, <1>4 DEF rden, addr, isIO
  <2>3. DCacheRden /\ DCacheValidReady(answer)
    BY <1>2, <2>2 DEF DCacheRden, validReady
  <2>. QED  BY <2>1, <2>2, <2>3 DEF PortClock
<1>. QED  BY <1>3, <1>4 DEF LoadJustRead

(* A store to a device moves on in the clock in which it came.             *)
LEMMA DeviceReady ==
  ASSUME PortInv, NEW answer \in BOOLEAN, Writes(M), PartOf(M.addr) # "memory"
  PROVE  ~M_busy(answer)
BY DEF PortInv, OneAtATime, M_busy, validReady, isIO, toFlash, addr, rden, readerReady, loadStrobe

LEMMA StoreKept ==
  ASSUME PortInv, NEW answer \in BOOLEAN, NEW other \in BOOLEAN, NEW ended \in BOOLEAN,
         PortClock(answer, other, ended)
  PROVE  StoreJustCame'
<1>. SUFFICES ASSUME Writes(M'), PartOf(M'.addr) # "memory"  PROVE  StoreJustCame'
  BY DEF StoreJustCame, Writes
<1>1. ~M_busy(answer)
  BY DeviceReady DEF PortClock, Advance, Writes
<1>2. M' = E
  BY <1>1, Moved DEF Writes
<1>3. taken' = 0 /\ (behind' = "same" <=> Repeats(E, M))
  BY <1>1, Behind DEF Repeats, Writes
<1>4. E.mask # {}
  BY <1>2 DEF PortInv, OneAtATime
<1>5. CASE Reads(E)
  <2>1. ~Writes(M)
    BY <1>5 DEF PortInv, OneAtATime
  <2>2. prevWren' = {}
    BY <2>1 DEF PortClock, wren, NoMask
  <2>. QED  BY <1>2, <1>3, <1>4, <2>1, <2>2 DEF StoreJustCame, Repeats
<1>6. CASE ~Reads(E)
  <2>1. prevAddr' = M.addr /\ prevWren' = (IF Writes(M) THEN M.mask ELSE {})
    BY <1>6 DEF PortClock, addr, wren, NoMask, rden
  <2>. QED  BY <1>2, <1>3, <1>4, <2>1 DEF StoreJustCame, Repeats
<1>. QED  BY <1>5, <1>6

THEOREM PortInvariant == PortSpec => []PortInv
<1>1. PortInv /\ [PortNext]_portVars => PortInv'
  <2>. SUFFICES ASSUME PortInv, [PortNext]_portVars  PROVE  PortInv'
    OBVIOUS
  <2>1. CASE PortReset
    BY <2>1, ResetKeeps
  <2>2. ASSUME NEW answer \in BOOLEAN, NEW other \in BOOLEAN, NEW ended \in BOOLEAN,
               PortClock(answer, other, ended)
        PROVE  PortInv'
    BY <2>2, OneKept, Select, LoadKept, StoreKept DEF PortInv
  <2>3. CASE UNCHANGED portVars
    BY <2>3 DEF portVars, PortInv, Bools, OneAtATime, PrevSelected, Selected, LoadJustRead,
                StoreJustCame
  <2>. QED  BY <2>1, <2>2, <2>3 DEF PortNext
<1>. QED  BY <1>1, PortStarts, PTL DEF PortSpec

(* LoadsOwnData holds in every state: a load gets the data of its own      *)
(* address but where Astray says otherwise (DataMem.v:79).                 *)
THEOREM LoadsOwnDataAlways == PortSpec => []LoadsOwnData
<1>1. PortInv => LoadsOwnData
  <2>. SUFFICES ASSUME PortInv, M.kind = "load", ~Astray  PROVE  rdata = Answer(M.addr)
    BY DEF LoadsOwnData
  <2>1. Selected(M.addr)
    BY DEF PortInv, LoadJustRead, PrevSelected
  <2>2. /\ (PartOf(addr) = "memory") <=> (PartOf(M.addr) = "memory")
        /\ (PartOf(addr) = "uartData") <=> (PartOf(M.addr) = "uartData")
    BY DEF addr, rden, Astray
  <2>3. CASE PartOf(M.addr) = "memory"
    BY <2>2, <2>3 DEF Astray, PortInv, LoadJustRead, rdata, isIO, Answer
  <2>4. CASE PartOf(M.addr) # "memory"
    BY <2>1, <2>2, <2>4 DEF Selected, rdata, isIO, IO_rData, Answer
  <2>. QED  BY <2>3, <2>4
<1>. QED  BY <1>1, PortInvariant, PTL

(* StrobedOnce holds in every state: a device sees a store once, and not   *)
(* at all if it repeats the one before it (DataMem.v:66).                  *)
THEOREM StrobedOnceAlways == PortSpec => []StrobedOnce
<1>1. PortInv => StrobedOnce
  <2>. SUFFICES ASSUME PortInv, Writes(M), PartOf(M.addr) # "memory"
                PROVE  /\ addr = M.addr
                       /\ taken + (IF IO_wstrb THEN 1 ELSE 0) = IF behind = "same" THEN 0 ELSE 1
    BY DEF StrobedOnce
  <2>1. addr = M.addr /\ wren = M.mask /\ M.mask # {}
    BY DEF PortInv, OneAtATime, addr, rden, wren
  <2>2. taken = 0 /\ (prevAddr = M.addr /\ prevWren = M.mask <=> behind = "same")
    BY DEF PortInv, StoreJustCame
  <2>3. IO_wstrb <=> behind # "same"
    BY <2>1, <2>2 DEF IO_wstrb, storeStrobe, isIO, NoMask
  <2>. QED  BY <2>1, <2>2, <2>3
<1>. QED  BY <1>1, PortInvariant, PTL
-----------------------------------------------------------------------------
(* The memory stage: what an access is.                                    *)

LEMMA ByteFacts == BASE \in Nat /\ BASE > 0 /\ Byte0 \subseteq Nat
BY BaseAssumption DEF Byte0

LEMMA AccessFields ==
  ASSUME NEW x \in Access
  PROVE  /\ x.kind \in {"LOAD", "STORE", "AMO", "LR", "SC"} /\ x.size \in Sizes
         /\ x.addr \in 0..7 /\ x.addr % x.size = 0
         /\ x.unsigned \in BOOLEAN /\ x.amo \in AmoOp /\ x.rs2 \in Double
         /\ x.kind \in {"AMO", "LR", "SC"} => x.size = 4 /\ ~x.unsigned
<1>1. Operand \subseteq Double BY BaseAssumption
<1> USE DEF AccessOf, Aligned, Sizes, AmoOp
<1>2. CASE x \in AccessOf({"AMO"}, 4, {FALSE}, AmoOp) BY <1>1, <1>2
<1>3. CASE x \in AccessOf({"LR", "SC"}, 4, {FALSE}, {"ADD"}) BY <1>1, <1>3
<1>4. ASSUME NEW n \in Sizes, x \in AccessOf({"LOAD"}, n, BOOLEAN, {"ADD"})
      PROVE  /\ x.kind = "LOAD" /\ x.size = n /\ x.addr \in 0..7 /\ x.addr % n = 0
             /\ x.unsigned \in BOOLEAN /\ x.amo = "ADD" /\ x.rs2 \in Operand
  BY <1>4
<1>5. ASSUME NEW n \in Sizes, x \in AccessOf({"STORE"}, n, {FALSE}, {"ADD"})
      PROVE  /\ x.kind = "STORE" /\ x.size = n /\ x.addr \in 0..7 /\ x.addr % n = 0
             /\ x.unsigned = FALSE /\ x.amo = "ADD" /\ x.rs2 \in Operand
  BY <1>5
<1> HIDE DEF AccessOf, Aligned, Sizes, AmoOp
<1>6. CASE \E n \in Sizes :
           x \in AccessOf({"LOAD"}, n, BOOLEAN, {"ADD"}) \/ x \in AccessOf({"STORE"}, n, {FALSE}, {"ADD"})
  <2>1. PICK n \in Sizes :
           x \in AccessOf({"LOAD"}, n, BOOLEAN, {"ADD"}) \/ x \in AccessOf({"STORE"}, n, {FALSE}, {"ADD"})
    BY <1>6
  <2>2. /\ x.kind \in {"LOAD", "STORE"} /\ x.size = n /\ x.addr \in 0..7 /\ x.addr % n = 0
        /\ x.unsigned \in BOOLEAN /\ x.amo = "ADD" /\ x.rs2 \in Operand
    BY <1>4, <1>5, <2>1
  <2> QED BY <1>1, <2>2 DEF AmoOp
<1> QED BY <1>2, <1>3, <1>6 DEF Access

(* The fifteen aligned places. *)
LEMMA Places ==
  ASSUME NEW x \in Access
  PROVE  \/ x.size = 8 /\ x.addr = 0
         \/ x.size = 4 /\ x.addr \in {0, 4}
         \/ x.size = 2 /\ x.addr \in {0, 2, 4, 6}
         \/ x.size = 1 /\ x.addr \in 0..7
BY AccessFields DEF Sizes

Word0 == [0..3 -> Byte0]

LEMMA WordBytes ==
  ASSUME DMem \in Double, NEW x \in Access
  PROVE  M_memWord(x) \in Word0 /\ M_memHalf(x) \in [0..1 -> Byte0] /\ M_memByte(x) \in Byte0
<1>1. x.addr \in 0..7 BY AccessFields
<1>2. M_memWord(x) \in Word0 BY <1>1 DEF M_memWord, Double, Word0
<1>3. M_memHalf(x) \in [0..1 -> Byte0] BY <1>1, <1>2 DEF M_memHalf, Word0
<1>4. M_memByte(x) \in Byte0 BY <1>1, <1>3 DEF M_memByte
<1> QED BY <1>2, <1>3, <1>4

(* Numbers of several digits compare as their digits do. *)
Digit(a, x) == a + BASE * x

LEMMA Digitwise ==
  ASSUME NEW a \in Byte0, NEW b \in Byte0, NEW x \in Int, NEW y \in Int
  PROVE  /\ Digit(a, x) \in Int /\ (x \in Nat => Digit(a, x) \in Nat)
         /\ Digit(a, x) < Digit(b, y) <=> x < y \/ (x = y /\ a < b)
         /\ Digit(a, x) = Digit(b, y) <=> x = y /\ a = b
<1> DEFINE p == BASE * x  q == BASE * y
<1>1. p \in Int /\ q \in Int /\ a \in Nat /\ b \in Nat /\ a < BASE /\ b < BASE /\ BASE \in Nat
  BY ByteFacts DEF Byte0
<1>2. x < y => p + BASE <= q
  <2> SUFFICES ASSUME x < y PROVE p + BASE <= q OBVIOUS
  <2>1. y - x - 1 \in Nat OBVIOUS
  <2>2. BASE * (y - x - 1) \in Nat BY <1>1, <2>1
  <2>3. BASE * (y - x - 1) = q - p - BASE BY <1>1
  <2> QED BY <1>1, <2>2, <2>3
<1>3. y < x => q + BASE <= p
  <2> SUFFICES ASSUME y < x PROVE q + BASE <= p OBVIOUS
  <2>1. x - y - 1 \in Nat OBVIOUS
  <2>2. BASE * (x - y - 1) \in Nat BY <1>1, <2>1
  <2>3. BASE * (x - y - 1) = p - q - BASE BY <1>1
  <2> QED BY <1>1, <2>2, <2>3
<1>4. x = y => p = q OBVIOUS
<1>5. x \in Nat => p \in Nat BY <1>1
<1>6. Digit(a, x) = a + p /\ Digit(b, y) = b + q BY DEF Digit
<1> HIDE DEF p, q
<1>7. CASE x < y BY <1>1, <1>2, <1>5, <1>6, <1>7
<1>8. CASE y < x BY <1>1, <1>3, <1>5, <1>6, <1>8
<1>9. CASE x = y BY <1>1, <1>4, <1>5, <1>6, <1>9
<1> QED BY <1>7, <1>8, <1>9

LEMMA ValueDigits ==
  ASSUME NEW w \in Word0
  PROVE  /\ w[0] \in Byte0 /\ w[1] \in Byte0 /\ w[2] \in Byte0 /\ w[3] \in Byte0
         /\ Digit(w[2], w[3]) \in Nat /\ Digit(w[1], Digit(w[2], w[3])) \in Nat
         /\ Value(w) \in Nat /\ Value(w) = Digit(w[0], Digit(w[1], Digit(w[2], w[3])))
<1>1. w[0] \in Byte0 /\ w[1] \in Byte0 /\ w[2] \in Byte0 /\ w[3] \in Byte0 BY DEF Word0
<1>2. w[3] \in Nat /\ w[3] \in Int BY <1>1, ByteFacts DEF Byte0
<1>3. Digit(w[2], w[3]) \in Nat BY <1>1, <1>2, Digitwise
<1>4. Digit(w[1], Digit(w[2], w[3])) \in Nat BY <1>1, <1>2, <1>3, Digitwise
<1>5. Digit(w[0], Digit(w[1], Digit(w[2], w[3]))) \in Nat BY <1>1, <1>2, <1>4, Digitwise
<1>6. Value(w) = Digit(w[0], Digit(w[1], Digit(w[2], w[3]))) BY DEF Value, Digit
<1> QED BY <1>1, <1>3, <1>4, <1>5, <1>6

LEMMA ValueBelow ==
  ASSUME NEW w \in Word0
  PROVE  Value(w) < BASE * (BASE * (BASE * BASE)) /\ BASE * (BASE * (BASE * BASE)) \in Nat
<1>1. 0 \in Byte0 /\ BASE \in Nat /\ BASE \in Int /\ w[3] \in Int /\ w[3] < BASE
  BY ValueDigits, ByteFacts DEF Byte0
<1>2. /\ Digit(0, BASE) \in Nat /\ Digit(0, BASE) \in Int
      /\ Digit(w[2], w[3]) < Digit(0, BASE) /\ Digit(w[2], w[3]) \in Int
  BY <1>1, Digitwise, ValueDigits
<1>3. /\ Digit(0, Digit(0, BASE)) \in Nat /\ Digit(0, Digit(0, BASE)) \in Int
      /\ Digit(w[1], Digit(w[2], w[3])) < Digit(0, Digit(0, BASE)) /\ Digit(w[1], Digit(w[2], w[3])) \in Int
  BY <1>1, <1>2, Digitwise, ValueDigits
<1>4. Digit(0, Digit(0, Digit(0, BASE))) \in Nat /\ Value(w) < Digit(0, Digit(0, Digit(0, BASE)))
  BY <1>1, <1>3, Digitwise, ValueDigits
<1>5. \A n \in Nat : Digit(0, n) = BASE * n BY <1>1 DEF Digit
<1>6. Digit(0, Digit(0, Digit(0, BASE))) = BASE * (BASE * (BASE * BASE)) BY <1>1, <1>2, <1>3, <1>5
<1> QED BY <1>4, <1>6

(* Different words have different values. *)
LEMMA ValueIsOneToOne ==
  ASSUME NEW w \in Word0, NEW r \in Word0, Value(w) = Value(r)
  PROVE  w = r
<1>1. \A n \in Nat : n \in Int OBVIOUS
<1>2. w[0] = r[0] /\ Digit(w[1], Digit(w[2], w[3])) = Digit(r[1], Digit(r[2], r[3]))
  BY <1>1, ValueDigits, Digitwise
<1>3. w[1] = r[1] /\ Digit(w[2], w[3]) = Digit(r[2], r[3]) BY <1>1, <1>2, ValueDigits, Digitwise
<1>4. w[3] \in Int /\ r[3] \in Int BY ValueDigits, ByteFacts DEF Byte0
<1>5. w[2] = r[2] /\ w[3] = r[3] BY <1>3, <1>4, ValueDigits, Digitwise
<1> QED BY <1>2, <1>3, <1>5 DEF Word0

LEMMA BytesType == ASSUME NEW n \in Nat PROVE Bytes(n) \in Word0
<1>1. \A i \in 0..3 : Weight[i] \in Nat /\ Weight[i] > 0
  <2>1. BASE * BASE \in Nat /\ BASE * BASE > 0 BY ByteFacts
  <2>2. BASE * BASE * BASE \in Nat /\ BASE * BASE * BASE > 0 BY <2>1, ByteFacts
  <2> QED BY <2>1, <2>2, ByteFacts DEF Weight
<1>2. ASSUME NEW i \in 0..3 PROVE (n \div Weight[i]) % BASE \in Byte0
  <2>1. n \div Weight[i] \in Nat BY <1>1
  <2> QED BY <2>1, ByteFacts DEF Byte0
<1> QED BY <1>2 DEF Bytes, Word0

LEMMA AmoType ==
  ASSUME DMem \in Double, NEW x \in Access
  PROVE  Low(x.rs2) \in Word0 /\ M_amoOut(x) \in Word0
<1> DEFINE w == M_memWord(x)  r == Low(x.rs2)
<1>1. w \in Word0 BY WordBytes
<1>2. r \in Word0 BY AccessFields DEF Low, Double, Word0
<1> HIDE DEF w, r
<1>3. Bytes(Value(w) + Value(r)) \in Word0
  <2>1. Value(w) \in Nat /\ Value(r) \in Nat BY <1>1, <1>2, ValueDigits
  <2>2. Value(w) + Value(r) \in Nat BY <2>1
  <2> QED BY <2>2, BytesType
<1>4. \A a, b \in Byte0 : ByteXor(a, b) \in Byte0 /\ ByteOr(a, b) \in Byte0 /\ ByteAnd(a, b) \in Byte0
  BY BaseAssumption
<1>5. /\ [i \in 0..3 |-> ByteXor(w[i], r[i])] \in Word0
      /\ [i \in 0..3 |-> ByteOr(w[i], r[i])] \in Word0
      /\ [i \in 0..3 |-> ByteAnd(w[i], r[i])] \in Word0
  BY <1>1, <1>2, <1>4 DEF Word0
<1>6. M_amoOut(x) \in {w, r, Bytes(Value(w) + Value(r)), [i \in 0..3 |-> ByteXor(w[i], r[i])],
                       [i \in 0..3 |-> ByteOr(w[i], r[i])], [i \in 0..3 |-> ByteAnd(w[i], r[i])]}
  BY DEF M_amoOut, w, r
<1>7. r = Low(x.rs2) BY DEF r
<1> QED BY <1>1, <1>2, <1>3, <1>5, <1>6, <1>7

LEMMA StoreDataType ==
  ASSUME DMem \in Double, NEW x \in Access
  PROVE  M_storeData(x) \in Double /\ Written(x) \in Double
<1>1. x.rs2 \in [0..7 -> Byte0] /\ M_amoOut(x) \in [0..3 -> Byte0]
  BY AccessFields, AmoType DEF Double, Word0
<1>2. ASSUME NEW i \in 0..7 PROVE M_storeData(x)[i] \in Byte0
  <2>1. i % 4 \in 0..3 /\ i % 2 \in 0..1 /\ i \in 0..7 /\ 0 \in 0..7 BY <1>2
  <2> HIDE DEF Byte0
  <2>2. M_amoOut(x)[i % 4] \in Byte0 BY <1>1, <2>1
  <2>3. x.rs2[0] \in Byte0 /\ x.rs2[i % 2] \in Byte0 /\ x.rs2[i % 4] \in Byte0 /\ x.rs2[i] \in Byte0
    BY <1>1, <2>1
  <2> QED BY <2>2, <2>3 DEF M_storeData
<1>3. M_storeData(x) \in Double BY <1>2 DEF M_storeData, Double
<1>4. \A i \in 0..7 : Written(x)[i] \in Byte0 BY <1>3 DEF Written, Double
<1> QED BY <1>3, <1>4 DEF Written, Double
-----------------------------------------------------------------------------
(* The reservation: the word is as it was read, as long as it counts.      *)

Reserved == [i \in 0..3 |-> DMem[MM_reservedAddress + i]]

MemoryInv ==
  /\ DMem \in Double
  /\ EM_access = Nop \/ EM_access \in Access
  /\ MM_reservedAddress \in {0, 4} /\ MM_reservedChanged \in BOOLEAN
  /\ loaded \in {NoWord, Reserved}

(* A write that neither starts at the reserved address nor reaches the     *)
(* reserved word leaves it alone.                                          *)
LEMMA ReservedKept ==
  ASSUME MemoryInv, NEW x \in Access, ~BreaksIt(x), ~Unseen(x)
  PROVE  [i \in 0..3 |-> Written(x)[MM_reservedAddress + i]] = Reserved
<1>1. \A i \in 0..3 : MM_reservedAddress + i \in ReservedWord /\ MM_reservedAddress + i \in 0..7
  BY DEF MemoryInv, ReservedWord
<1>2. DMemWMask(x) \cap ReservedWord = {}
  <2>1. CASE M_addressReserved(x)
    BY <2>1, AccessFields DEF BreaksIt, DMemWMask, M_storeEnable
  <2>2. CASE ~M_addressReserved(x) BY <2>2 DEF Unseen
  <2> QED BY <2>1, <2>2
<1>3. \A i \in 0..3 : Written(x)[MM_reservedAddress + i] = DMem[MM_reservedAddress + i]
  BY <1>1, <1>2 DEF Written
<1> QED BY <1>3 DEF Reserved

LEMMA LoadedWord ==
  ASSUME MemoryInv, NEW x \in Access, x.size = 4
  PROVE  x.addr \in {0, 4} /\ M_memWord(x) = [i \in 0..3 |-> DMem[x.addr + i]]
<1>1. x.addr \in {0, 4} BY Places
<1> QED BY <1>1 DEF M_memWord

THEOREM MemoryInvariant == LoadStoreSpec => []MemoryInv
<1>1. ASSUME LoadStoreInit PROVE MemoryInv
  <2>1. \A i \in 0..3 : MM_reservedAddress + i = i BY <1>1 DEF LoadStoreInit
  <2>2. loaded = Reserved BY <1>1, <2>1 DEF LoadStoreInit, Reserved
  <2> QED BY <1>1, <2>2 DEF LoadStoreInit, MemoryInv
<1>2. ASSUME MemoryInv, [LoadStoreNext]_loadStoreVars PROVE MemoryInv'
  <2>1. CASE EnterStage
    BY <1>2, <2>1 DEF MemoryInv, EnterStage, Reserved
  <2>2. CASE LeaveStage
    <3> DEFINE x == EM_access
    <3>1. x \in Access BY <1>2, <2>2 DEF MemoryInv, LeaveStage, Nop
    <3>2. /\ DMem' = Written(x) /\ EM_access' = Nop
          /\ IF x.kind = "LR" THEN MM_reservedAddress' = x.addr /\ MM_reservedChanged' = FALSE
             ELSE /\ MM_reservedChanged' = (MM_reservedChanged \/ BreaksIt(x))
                  /\ UNCHANGED MM_reservedAddress
          /\ loaded' = IF x.kind = "LR" THEN M_memWord(x)
                       ELSE IF MM_reservedChanged' \/ Unseen(x) THEN NoWord ELSE loaded
      BY <2>2 DEF LeaveStage, Forget
    <3> HIDE DEF x
    <3>3. DMem' \in Double BY <1>2, <3>1, <3>2, StoreDataType DEF MemoryInv
    <3>4. BreaksIt(x) \in BOOLEAN BY DEF BreaksIt
    <3>5. Reserved' = [i \in 0..3 |-> Written(x)[MM_reservedAddress' + i]] BY <3>2 DEF Reserved
    <3>6. CASE x.kind = "LR"
      <4>1. x.size = 4 BY <3>1, <3>6, AccessFields
      <4>2. MM_reservedAddress' \in {0, 4} /\ loaded' = [i \in 0..3 |-> DMem[x.addr + i]]
        BY <1>2, <3>1, <3>2, <3>6, <4>1, LoadedWord
      <4>3. Written(x) = DMem
        BY <1>2, <3>6 DEF Written, DMemWMask, M_storeEnable, MemoryInv, Double
      <4>4. Reserved' = [i \in 0..3 |-> DMem[x.addr + i]] BY <3>2, <3>5, <3>6, <4>3
      <4> QED BY <3>2, <3>3, <3>6, <4>2, <4>4 DEF MemoryInv
    <3>7. CASE x.kind # "LR"
      <4>1. MM_reservedAddress' = MM_reservedAddress /\ MM_reservedChanged' \in BOOLEAN
        BY <1>2, <3>2, <3>4, <3>7 DEF MemoryInv
      <4>2. loaded' \in {NoWord, Reserved'}
        <5>1. CASE MM_reservedChanged' \/ Unseen(x) BY <3>2, <3>7, <5>1
        <5>2. CASE ~MM_reservedChanged' /\ ~Unseen(x)
          <6>1. ~BreaksIt(x) /\ loaded' = loaded BY <3>2, <3>7, <5>2
          <6>2. Reserved' = Reserved BY <1>2, <3>1, <3>5, <4>1, <5>2, <6>1, ReservedKept
          <6> QED BY <1>2, <6>1, <6>2 DEF MemoryInv
        <5> QED BY <5>1, <5>2
      <4> QED BY <1>2, <3>2, <3>3, <4>1, <4>2 DEF MemoryInv
    <3> QED BY <3>6, <3>7
  <2>3. CASE UNCHANGED loadStoreVars
    BY <1>2, <2>3 DEF MemoryInv, loadStoreVars, Reserved
  <2>. QED  BY <1>2, <2>1, <2>2, <2>3 DEF LoadStoreNext
<1>. QED  BY <1>1, <1>2, PTL DEF LoadStoreSpec

(* ScFindsLoaded holds in every state: no store, atomic or other SC of the *)
(* reserved address comes between an LR and an SC that succeeds            *)
(* (MemoryUnit.v 66-83).                                                   *)
THEOREM ScFindsLoadedAlways == LoadStoreSpec => []ScFindsLoaded
<1>1. MemoryInv => ScFindsLoaded
  <2> SUFFICES ASSUME MemoryInv, EM_access.kind = "SC", M_scWriteable(EM_access)
               PROVE  loaded \in {NoWord, M_memWord(EM_access)}
    BY DEF ScFindsLoaded
  <2>1. EM_access \in Access BY DEF MemoryInv, Nop
  <2>2. EM_access.size = 4 /\ EM_access.addr = MM_reservedAddress
    BY <2>1, AccessFields DEF M_scWriteable, M_addressReserved
  <2>3. Reserved = M_memWord(EM_access) BY <2>1, <2>2, LoadedWord DEF Reserved
  <2> QED BY <2>3 DEF MemoryInv
<1>. QED  BY <1>1, MemoryInvariant, PTL

-----------------------------------------------------------------------------
(* What an access does, byte by byte.                                      *)

(* The signed comparison looks at the sign bits first and at the           *)
(* difference of the unsigned values only when they agree.                 *)
LEMMA SignedCompare ==
  ASSUME NEW w \in Word0, NEW r \in Word0
  PROVE  /\ SignedOf(w) \in Int /\ SignedOf(r) \in Int
         /\ M_amoLT(w, r) <=> SignedOf(w) < SignedOf(r)
         /\ M_amoLTU(w, r) <=> Value(w) < Value(r)
         /\ SignedOf(w) = SignedOf(r) => Value(w) = Value(r)
<1> DEFINE p == BASE * (BASE * (BASE * BASE))
<1>1. Value(w) \in Nat /\ Value(r) \in Nat /\ p \in Nat /\ Value(w) < p /\ Value(r) < p
  BY ValueDigits, ValueBelow
<1>2. /\ SignedOf(w) = IF Top(w[3]) THEN Value(w) - p ELSE Value(w)
      /\ SignedOf(r) = IF Top(r[3]) THEN Value(r) - p ELSE Value(r)
  BY <1>1 DEF SignedOf
<1> HIDE DEF p
<1>3. M_amoLTU(w, r) <=> Value(w) < Value(r) BY <1>1 DEF M_amoLTU
<1>4. Top(w[3]) \in BOOLEAN /\ Top(r[3]) \in BOOLEAN BY DEF Top
<1>5. CASE Top(w[3]) = Top(r[3]) BY <1>1, <1>2, <1>3, <1>4, <1>5 DEF M_amoLT
<1>6. CASE Top(w[3]) # Top(r[3]) BY <1>1, <1>2, <1>3, <1>4, <1>6 DEF M_amoLT
<1> QED BY <1>5, <1>6

(* Of two equal operands, either is the smaller and the larger. *)
LEMMA AmoAsSpecified ==
  ASSUME NEW w \in Word0, NEW r \in Word0
  PROVE  /\ (IF M_amoLT(w, r) THEN w ELSE r) = IF SignedOf(w) <= SignedOf(r) THEN w ELSE r
         /\ (IF ~M_amoLT(w, r) THEN w ELSE r) = IF SignedOf(w) >= SignedOf(r) THEN w ELSE r
         /\ (IF M_amoLTU(w, r) THEN w ELSE r) = IF Value(w) <= Value(r) THEN w ELSE r
         /\ (IF ~M_amoLTU(w, r) THEN w ELSE r) = IF Value(w) >= Value(r) THEN w ELSE r
<1>1. Value(w) \in Nat /\ Value(r) \in Nat BY ValueDigits
<1>2. SignedOf(w) = SignedOf(r) => w = r BY SignedCompare, ValueIsOneToOne
<1>3. Value(w) = Value(r) => w = r BY ValueIsOneToOne
<1> QED BY <1>1, <1>2, <1>3, SignedCompare

LEMMA AmoExact ==
  ASSUME DMem \in Double, NEW x \in Access
  PROVE  M_amoOut(x) = AmoSpecified(x.amo, M_memWord(x), Low(x.rs2))
<1> DEFINE w == M_memWord(x)  r == Low(x.rs2)
<1>1. w \in Word0 /\ r \in Word0 BY WordBytes, AmoType
<1>2. x.amo \in AmoOp BY AccessFields
<1> HIDE DEF w, r
<1>3. /\ (IF M_amoLT(w, r) THEN w ELSE r) = IF SignedOf(w) <= SignedOf(r) THEN w ELSE r
      /\ (IF ~M_amoLT(w, r) THEN w ELSE r) = IF SignedOf(w) >= SignedOf(r) THEN w ELSE r
      /\ (IF M_amoLTU(w, r) THEN w ELSE r) = IF Value(w) <= Value(r) THEN w ELSE r
      /\ (IF ~M_amoLTU(w, r) THEN w ELSE r) = IF Value(w) >= Value(r) THEN w ELSE r
  BY <1>1, AmoAsSpecified
<1>4. M_amoOut(x) = AmoSpecified(x.amo, w, r)
  BY <1>2, <1>3 DEF M_amoOut, AmoSpecified, AmoOp, w, r
<1> QED BY <1>4 DEF w, r

(* The mask names the bytes of the access, and the operand is repeated so  *)
(* that each of them finds its own.                                        *)
LEMMA MaskExact ==
  ASSUME NEW x \in Access, NEW i \in 0..7
  PROVE  i \in M_storeMask(x) <=> i - x.addr \in 0..x.size-1
<1>1. CASE x.size = 8 /\ x.addr = 0 BY <1>1 DEF M_storeMask
<1>2. CASE x.size = 4 /\ x.addr \in {0, 4} BY <1>2 DEF M_storeMask
<1>3. CASE x.size = 2 /\ x.addr \in {0, 2, 4, 6} BY <1>3 DEF M_storeMask
<1>4. CASE x.size = 1 /\ x.addr \in 0..7 BY <1>4 DEF M_storeMask
<1> QED BY <1>1, <1>2, <1>3, <1>4, Places

LEMMA DataExact ==
  ASSUME DMem \in Double, NEW x \in Access, NEW i \in 0..7, i - x.addr \in 0..x.size-1
  PROVE  M_storeData(x)[i] =
           (IF x.kind = "AMO" THEN AmoSpecified(x.amo, At(x.addr, 4), Low(x.rs2)) ELSE x.rs2)[i - x.addr]
<1>1. CASE x.kind = "AMO"
  <2>1. x.size = 4 /\ x.addr \in {0, 4} BY <1>1, AccessFields, Places
  <2>2. M_memWord(x) = At(x.addr, 4) BY <2>1 DEF M_memWord, At
  <2>3. i % 4 = i - x.addr BY <2>1
  <2> QED BY <1>1, <2>2, <2>3, AmoExact DEF M_storeData
<1>2. CASE x.kind # "AMO"
  <2>1. M_storeData(x)[i] = IF x.addr % 2 = 1 THEN x.rs2[0]
                            ELSE IF x.addr % 4 >= 2 THEN x.rs2[i % 2]
                            ELSE IF x.addr >= 4 THEN x.rs2[i % 4]
                            ELSE x.rs2[i]
    BY <1>2 DEF M_storeData
  <2>2. CASE x.size = 8 /\ x.addr = 0 BY <1>2, <2>1, <2>2
  <2>3. CASE x.size = 4 /\ x.addr \in {0, 4} BY <1>2, <2>1, <2>3
  <2>4. CASE x.size = 2 /\ x.addr \in {0, 2, 4, 6} BY <1>2, <2>1, <2>4
  <2>5. CASE x.size = 1 /\ x.addr \in 0..7 BY <1>2, <2>1, <2>5
  <2> QED BY <2>2, <2>3, <2>4, <2>5, Places
<1> QED BY <1>1, <1>2

LEMMA WriteExact ==
  ASSUME DMem \in Double, NEW x \in Access
  PROVE  Written(x) = MemorySpecified(x)
<1>1. ASSUME NEW i \in 0..7 PROVE Written(x)[i] = MemorySpecified(x)[i]
  <2>1. CASE M_storeEnable(x) /\ i - x.addr \in 0..x.size-1
    BY <1>1, <2>1, MaskExact, DataExact DEF Written, MemorySpecified, DMemWMask
  <2>2. CASE ~(M_storeEnable(x) /\ i - x.addr \in 0..x.size-1)
    BY <1>1, <2>2, MaskExact DEF Written, MemorySpecified, DMemWMask
  <2> QED BY <2>1, <2>2
<1> QED BY <1>1 DEF Written, MemorySpecified

LEMMA ReadExact ==
  ASSUME DMem \in Double, NEW x \in Access
  PROVE  M_Mdata(x) = LoadSpecified(x)
<1> DEFINE read == At(x.addr, x.size)
<1>1. LoadSpecified(x) = [i \in 0..7 |-> IF i < x.size THEN read[i] ELSE IF i >= 4 THEN BASE - 1
                                         ELSE Fill(~x.unsigned /\ Top(read[x.size-1]))]
  BY DEF LoadSpecified
<1>2. CASE x.size = 8 /\ x.addr = 0
  <2>1. \A i \in 0..7 : i < x.size /\ read[i] = DMem[i] BY <1>2 DEF At
  <2>2. M_Mdata(x) = DMem BY <1>2 DEF M_Mdata
  <2> HIDE DEF read
  <2> QED BY <1>1, <2>1, <2>2 DEF Double
<1>3. CASE x.size = 4 /\ x.addr \in {0, 4}
  <2>1. \A i \in 0..3 : read[i] = M_memWord(x)[i] BY <1>3 DEF At, M_memWord
  <2> HIDE DEF read
  <2> QED BY <1>1, <1>3, <2>1 DEF M_Mdata
<1>4. CASE x.size = 2 /\ x.addr \in {0, 2, 4, 6}
  <2>1. \A i \in 0..1 : read[i] = M_memHalf(x)[i] BY <1>4 DEF At, M_memHalf, M_memWord
  <2>2. M_loadSign(x) = (~x.unsigned /\ Top(read[x.size-1])) BY <1>4, <2>1 DEF M_loadSign
  <2> HIDE DEF read
  <2> QED BY <1>1, <1>4, <2>1, <2>2 DEF M_Mdata
<1>5. CASE x.size = 1 /\ x.addr \in 0..7
  <2>1. read[0] = M_memByte(x) BY <1>5 DEF At, M_memByte, M_memHalf, M_memWord
  <2>2. M_loadSign(x) = (~x.unsigned /\ Top(read[x.size-1])) BY <1>5, <2>1 DEF M_loadSign
  <2> HIDE DEF read
  <2> QED BY <1>1, <1>5, <2>1, <2>2 DEF M_Mdata
<1> QED BY <1>2, <1>3, <1>4, <1>5, Places

(* AccessExact holds in every state, for bytes of any width: what the unit *)
(* writes and hands back is what the instruction set says                  *)
(* (MemoryUnit.v 53-57, 84-190, 197-227).                                  *)
THEOREM AccessExactAlways == LoadStoreSpec => []AccessExact
<1>1. ASSUME MemoryInv PROVE AccessExact
  <2>1. EM_access.kind # "nop" => EM_access \in Access BY <1>1 DEF MemoryInv, Nop
  <2>2. EM_access.kind # "nop" => Written(EM_access) = MemorySpecified(EM_access)
    BY <1>1, <2>1, WriteExact DEF MemoryInv
  <2>3. EM_access.kind \in {"LOAD", "LR", "AMO"} => M_wbData(EM_access) = LoadSpecified(EM_access)
    BY <1>1, <2>1, ReadExact DEF MemoryInv, M_wbData
  <2> QED BY <2>2, <2>3 DEF AccessExact
<1>. QED  BY <1>1, MemoryInvariant, PTL
=============================================================================
