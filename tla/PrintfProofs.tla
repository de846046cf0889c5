---------------------------- MODULE PrintfProofs ----------------------------
(***************************************************************************)
(* The formatter of printf.c, for every format and all arguments that go   *)
(* with it, every size of its buffers and every width of the integer types *)
(* up to 64 bits: the contract of its entry points (OutputContract), and   *)
(* the text of an integer, character or string directive, which is that of *)
(* the C standard wherever the code does not depart from it by name        *)
(* (TextAsSpecified).  The library's rules for induction take a predicate, *)
(* which the provers cannot be given; here induction is on the set of the  *)
(* numbers that have the property (LeastNumber, AllUpTo), and a recursive  *)
(* function is built from one on less (ChainExists).                       *)
(***************************************************************************)
EXTENDS PrintedText, SequenceTheorems, WellFoundedInduction, TLAPS

LEMMA LeastNumber ==
  ASSUME NEW S \in SUBSET Nat, S # {}
  PROVE  \E m \in S : \A j \in S : m <= j
<1>1. \E x \in S : \A y \in S : ~(<<y, x>> \in OpToRel(<, Nat))
  BY NatLessThanWellFounded, WFMin
<1>2. \A x, y \in Nat : <<y, x>> \in OpToRel(<, Nat) <=> y < x
  BY DEF OpToRel
<1>3. \A x, y \in Nat : ~(y < x) => x <= y OBVIOUS
<1> QED BY <1>1, <1>2, <1>3

LEMMA AllUpTo ==
  ASSUME NEW n \in Nat, NEW T \in SUBSET (0..n), 0 \in T, \A k \in 1..n : k - 1 \in T => k \in T
  PROVE  T = 0..n
<1> DEFINE Bad == (0..n) \ T
<1> SUFFICES ASSUME Bad # {} PROVE FALSE OBVIOUS
<1>1. PICK m \in Bad : \A j \in Bad : m <= j
  <2>1. Bad \in SUBSET Nat OBVIOUS
  <2> QED BY <2>1, LeastNumber
<1>2. m \in 1..n /\ m - 1 \in 0..n /\ ~(m <= m - 1) BY <1>1
<1>3. m - 1 \in T BY <1>1, <1>2
<1> QED BY <1>1, <1>2, <1>3

(* A function on 0..n from its first value and the step F.                 *)
Chain(f, S, F, a, n) ==
  f \in [0..n -> S] /\ f[0] = a /\ \A k \in 1..n : f[k] = F[<<k, f[k-1]>>]

LEMMA ChainExists ==
  ASSUME NEW S, NEW a \in S, NEW n \in Nat, NEW F \in [(1..n) \X S -> S]
  PROVE  \E f : Chain(f, S, F, a, n)
<1> DEFINE T == {m \in 0..n : \E f : Chain(f, S, F, a, m)}
<1>1. 0 \in T
  <2> DEFINE f == [k \in 0..0 |-> a]
  <2>1. f \in [0..0 -> S] /\ f[0] = a OBVIOUS
  <2>2. Chain(f, S, F, a, 0) BY <2>1 DEF Chain
  <2> QED BY <2>2
<1>2. ASSUME NEW m \in 1..n, m - 1 \in T PROVE m \in T
  <2>1. m - 1 \in Nat /\ m \in Nat /\ m \in 0..n BY <1>2
  <2>2. PICK f : Chain(f, S, F, a, m - 1) BY <1>2
  <2> DEFINE g == [k \in 0..m |-> IF k = m THEN F[<<m, f[m-1]>>] ELSE f[k]]
  <2>3. f \in [0..m-1 -> S] /\ f[0] = a /\ \A k \in 1..m-1 : f[k] = F[<<k, f[k-1]>>] BY <2>2 DEF Chain
  <2>4. f[m-1] \in S BY <2>1, <2>3
  <2>5. F[<<m, f[m-1]>>] \in S BY <2>4
  <2>6. g \in [0..m -> S]
    <3>1. \A k \in 0..m : k # m => k \in 0..m-1 BY <2>1
    <3> QED BY <2>3, <2>5, <3>1
  <2>7. g[0] = a BY <2>1, <2>3
  <2>8. ASSUME NEW k \in 1..m PROVE g[k] = F[<<k, g[k-1]>>]
    <3>1. k \in 0..m /\ k - 1 \in 0..m-1 /\ k - 1 # m /\ k - 1 \in 0..m /\ (k # m => k \in 1..m-1) BY <2>1
    <3>2. g[k-1] = f[k-1] BY <3>1
    <3>3. g[k] = (IF k = m THEN F[<<m, f[m-1]>>] ELSE f[k]) BY <3>1
    <3> HIDE DEF g
    <3>4. CASE k = m BY <3>2, <3>3, <3>4
    <3>5. CASE k # m BY <2>3, <3>1, <3>2, <3>3, <3>5
    <3> QED BY <3>4, <3>5
  <2> HIDE DEF g
  <2>9. Chain(g, S, F, a, m) BY <2>6, <2>7, <2>8 DEF Chain
  <2> QED BY <2>1, <2>9
<1>3. T = 0..n
  <2> HIDE DEF T
  <2>1. T \in SUBSET (0..n) BY DEF T
  <2> QED BY <1>1, <1>2, <2>1, AllUpTo
<1> QED BY <1>3

-----------------------------------------------------------------------------
(* The recursive operators of Printf.tla.                                  *)
LEMMA ProductPositive ==
  ASSUME NEW a \in Nat \ {0}, NEW b \in Nat \ {0}
  PROVE  a * b \in Nat \ {0}
OBVIOUS

Powers(p, b, e) ==
  p \in [0..e -> Nat \ {0}] /\ p[0] = 1 /\ (\A k \in 1..e : p[k] = b * p[k-1]) /\ Pow(b, e) = p[e]

LEMMA PowSteps ==
  ASSUME NEW b \in Nat \ {0}, NEW e \in Nat
  PROVE  \E p : Powers(p, b, e)
<1> DEFINE S == Nat \ {0}
           F == [q \in (1..e) \X S |-> b * q[2]]
           p == CHOOSE g : g = [k \in 0..e |-> IF k = 0 THEN 1 ELSE b * g[k-1]]
           T == {k \in 0..e : p[k] \in S}
<1>1. F \in [(1..e) \X S -> S]
  <2>1. \A q \in (1..e) \X S : q[2] \in S OBVIOUS
  <2>2. \A q \in (1..e) \X S : b * q[2] \in S BY <2>1, ProductPositive
  <2> QED BY <2>2
<1>2. PICK f : Chain(f, S, F, 1, e)
  <2>1. 1 \in S OBVIOUS
  <2> HIDE DEF F, S
  <2> QED BY <1>1, <2>1, ChainExists
<1>3. f \in [0..e -> S] /\ f[0] = 1 /\ \A k \in 1..e : f[k] = F[<<k, f[k-1]>>] BY <1>2 DEF Chain
<1>4. \A k \in 1..e : f[k] = b * f[k-1]
  <2>1. \A k \in 1..e : k - 1 \in 0..e OBVIOUS
  <2> QED BY <1>3, <2>1
<1>5. f = [k \in 0..e |-> IF k = 0 THEN 1 ELSE b * f[k-1]]
  <2>1. \A k \in 0..e : f[k] = IF k = 0 THEN 1 ELSE b * f[k-1] BY <1>3, <1>4
  <2> QED BY <1>3, <2>1
<1>6. p = [k \in 0..e |-> IF k = 0 THEN 1 ELSE b * p[k-1]] BY <1>5
<1> HIDE DEF p
<1>7. p[0] = 1 /\ \A k \in 1..e : p[k] = b * p[k-1]
  <2>1. 0 \in 0..e /\ \A k \in 1..e : k \in 0..e /\ k # 0 OBVIOUS
  <2> QED BY <1>6, <2>1
<1>8. 0 \in T /\ \A k \in 1..e : k - 1 \in T => k \in T BY <1>7, ProductPositive
<1>9. T = 0..e
  <2> HIDE DEF T
  <2>1. T \in SUBSET (0..e) BY DEF T
  <2> QED BY <1>8, <2>1, AllUpTo
<1>10. Pow(b, e) = p[e] BY DEF Pow, p
<1>11. DOMAIN p = 0..e BY <1>6
<1>12. p \in [0..e -> S] BY <1>6, <1>9, <1>11
<1>13. Powers(p, b, e) BY <1>7, <1>10, <1>12 DEF Powers
<1> QED BY <1>13

LEMMA PowType ==
  ASSUME NEW b \in Nat \ {0}, NEW e \in Nat
  PROVE  Pow(b, e) \in Nat \ {0}
<1>1. PICK p : Powers(p, b, e) BY PowSteps
<1> QED BY <1>1 DEF Powers

LEMMA DivMod ==
  /\ \A a \in Nat, b \in Nat \ {0} : a \div b \in Nat
  /\ \A a \in Int, b \in Nat \ {0} : a % b \in 0..b-1
OBVIOUS

LEMMA DigitChars ==
  /\ \A d \in 0..15 : DigitChar[d+1] \in Char /\ UpperChar[d+1] \in Char
  /\ Decimal \subseteq Char
<1>1. \A d \in 0..15 : d + 1 \in 1..16 OBVIOUS
<1>2. \A i \in 1..16 : DigitChar[i] \in Char /\ UpperChar[i] \in Char BY Zenon DEF Char
<1>3. \A i \in 1..10 : i \in 1..16 OBVIOUS
<1> QED BY <1>1, <1>2, <1>3 DEF Decimal

(* What is left of a number, digit by digit, ends at the last digit.       *)
LetterOf(d, fs) == IF "UPPERCASE" \in fs THEN UpperChar[d+1] ELSE DigitChar[d+1]
DigitLoop(left, n, v, base) ==
  /\ left \in [0..MAX_DIGITS -> Nat] /\ left[0] = v
  /\ \A k \in 1..MAX_DIGITS : left[k] = left[k-1] \div base
  /\ n \in 1..MAX_DIGITS /\ (n = MAX_DIGITS \/ left[n] = 0) /\ \A j \in 1..n-1 : left[j] # 0

LEMMA DigitSteps ==
  ASSUME NEW v \in Nat, NEW base \in 1..16, NEW fs
  PROVE  \E left, n : /\ DigitLoop(left, n, v, base)
                     /\ Digits(v, base, fs) = [i \in 1..n |-> LetterOf(left[i-1] % base, fs)]
<1> DEFINE M == MAX_DIGITS
           F == [q \in (1..M) \X Nat |-> q[2] \div base]
           left == CHOOSE g : g = [k \in 0..M |-> IF k = 0 THEN v ELSE g[k-1] \div base]
           T == {k \in 0..M : left[k] \in Nat}
           Ends(k) == (k = M \/ left[k] = 0) /\ \A j \in 1..k-1 : left[j] # 0
           n == CHOOSE k \in 1..M : Ends(k)
<1>0. M \in Nat /\ M >= 1 /\ base \in Nat \ {0} BY DEF MAX_DIGITS
<1> HIDE DEF M
<1>1. F \in [(1..M) \X Nat -> Nat]
  <2>1. \A q \in (1..M) \X Nat : q[2] \in Nat OBVIOUS
  <2>2. \A q \in (1..M) \X Nat : q[2] \div base \in Nat BY Zenon, <1>0, <2>1, DivMod
  <2> QED BY <2>2
<1>2. PICK f : Chain(f, Nat, F, v, M)
  <2> HIDE DEF F
  <2> QED BY <1>0, <1>1, ChainExists
<1>3. f \in [0..M -> Nat] /\ f[0] = v /\ \A k \in 1..M : f[k] = F[<<k, f[k-1]>>] BY <1>2 DEF Chain
<1>4. \A k \in 1..M : f[k] = f[k-1] \div base
  <2>1. \A k \in 1..M : k - 1 \in 0..M BY <1>0
  <2> QED BY <1>3, <2>1
<1>5. f = [k \in 0..M |-> IF k = 0 THEN v ELSE f[k-1] \div base]
  <2>1. \A k \in 0..M : f[k] = IF k = 0 THEN v ELSE f[k-1] \div base BY <1>0, <1>3, <1>4
  <2> QED BY <1>3, <2>1
<1>6. left = [k \in 0..M |-> IF k = 0 THEN v ELSE left[k-1] \div base] BY <1>5
<1> HIDE DEF left
<1>7. left[0] = v /\ \A k \in 1..M : left[k] = left[k-1] \div base
  <2>1. 0 \in 0..M /\ \A k \in 1..M : k \in 0..M /\ k # 0 BY <1>0
  <2> QED BY <1>6, <2>1
<1>8. T = 0..M
  <2>0. 0 \in T BY <1>0, <1>7
  <2>1. ASSUME NEW k \in 1..M, k - 1 \in T PROVE k \in T
    <3>1. left[k-1] \in Nat /\ k \in 0..M BY <1>0, <2>1
    <3>2. left[k-1] \div base \in Nat BY Zenon, <1>0, <3>1, DivMod
    <3> QED BY <1>7, <3>1, <3>2
  <2> HIDE DEF T
  <2>2. T \in SUBSET (0..M) BY DEF T
  <2> QED BY <1>0, <2>0, <2>1, <2>2, AllUpTo
<1>9. \A k \in 0..M : left[k] \in Nat BY <1>8
<1>10. n \in 1..M /\ Ends(n)
  <2> DEFINE Ok == {k \in 1..M : k = M \/ left[k] = 0}
  <2>1. Ok \in SUBSET Nat /\ M \in Ok BY <1>0
  <2>2. PICK k \in Ok : \A j \in Ok : k <= j
    <3> HIDE DEF Ok
    <3> QED BY <2>1, LeastNumber
  <2>3. \A j \in 1..k-1 : j \in 1..M /\ ~(k <= j) BY <1>0
  <2>4. Ends(k) BY <2>2, <2>3
  <2>5. k \in 1..M OBVIOUS
  <2> HIDE DEF Ends
  <2> QED BY <2>4, <2>5
<1> HIDE DEF n
<1>11. Digits(v, base, fs) = [i \in 1..n |-> LetterOf(left[i-1] % base, fs)]
  BY DEF Digits, left, n, M, LetterOf
<1>12. left \in [0..M -> Nat]
  <2>1. DOMAIN left = 0..M BY <1>6
  <2> QED BY <1>6, <1>9, <2>1
<1>13. DigitLoop(left, n, v, base) BY <1>7, <1>10, <1>12 DEF DigitLoop, M
<1> QED BY <1>11, <1>13

LEMMA DigitsType ==
  ASSUME NEW v \in Nat, NEW base \in 1..16, NEW fs
  PROVE  Digits(v, base, fs) \in Seq(Char)
<1>1. PICK left, n : /\ DigitLoop(left, n, v, base)
                     /\ Digits(v, base, fs) = [i \in 1..n |-> LetterOf(left[i-1] % base, fs)]
  BY DigitSteps
<1>0. left \in [0..MAX_DIGITS -> Nat] /\ n \in 1..MAX_DIGITS BY <1>1 DEF DigitLoop
<1>2. n \in Nat /\ base \in Nat \ {0} BY <1>0 DEF MAX_DIGITS
<1>3. ASSUME NEW i \in 1..n PROVE LetterOf(left[i-1] % base, fs) \in Char
  <2>0. i - 1 \in 0..MAX_DIGITS BY <1>0 DEF MAX_DIGITS
  <2>1. left[i-1] \in Int BY <1>0, <2>0
  <2>2. left[i-1] % base \in 0..base-1 BY Zenon, <1>2, <2>1, DivMod
  <2>3. left[i-1] % base \in 0..15 BY <2>2
  <2> QED BY <2>3, DigitChars DEF LetterOf
<1>4. [i \in 1..n |-> LetterOf(left[i-1] % base, fs)] \in Seq(Char) BY <1>2, <1>3
<1> QED BY <1>1, <1>4

(* The digits in front of the format, and their number.                    *)
LEMMA LeadingType ==
  ASSUME format \in Seq(Char)
  PROVE  Leading \in 0..Len(format) /\ \A i \in 1..Leading : format[i] \in Decimal
<1> DEFINE L == Len(format)
           Stop(n) == n = L \/ format[n+1] \notin Decimal
           Fine(n) == /\ \A i \in 1..n : format[i] \in Decimal
                      /\ Stop(n)
           T == {n \in 0..L : Stop(n)}
<1>1. L \in Nat BY LenProperties
<1> HIDE DEF L
<1>2. T \in SUBSET Nat /\ L \in T BY <1>1
<1>3. PICK m \in T : \A j \in T : m <= j
  <2> HIDE DEF T
  <2> QED BY <1>2, LeastNumber
<1>4. ASSUME NEW i \in 1..m PROVE format[i] \in Decimal
  <2>1. i - 1 \in 0..L /\ ~(m <= i - 1) /\ (i - 1) + 1 = i BY <1>1
  <2>2. ~Stop(i - 1) BY <1>3, <2>1
  <2> QED BY <2>1, <2>2
<1>5. Fine(m) /\ m \in 0..L BY <1>4
<1>6. Leading = CHOOSE n \in 0..L : Fine(n) BY DEF Leading, L
<1> HIDE DEF Fine
<1>7. Leading \in 0..L /\ Fine(Leading) BY <1>5, <1>6
<1> QED BY <1>7 DEF L, Fine

Reads(value) ==
  /\ value[0] = 0 /\ \A k \in 1..Leading : value[k] = 10 * value[k-1] + DigitValue(format[k])
  /\ \A k \in 0..Leading : value[k] \in Nat
  /\ Atoi = <<value[Leading], Leading>>

LEMMA AtoiSteps ==
  ASSUME format \in Seq(Char)
  PROVE  \E value : Reads(value)
<1> DEFINE N == Leading
           F == [q \in (1..N) \X Nat |-> 10 * q[2] + DigitValue(format[q[1]])]
           value == CHOOSE g : g = [k \in 0..N |-> IF k = 0 THEN 0
                                                   ELSE 10 * g[k-1] + DigitValue(format[k])]
           T == {k \in 0..N : value[k] \in Nat}
<1>0. N \in Nat /\ \A i \in 1..N : format[i] \in Decimal
  <2>1. Len(format) \in Nat BY LenProperties
  <2> QED BY <2>1, LeadingType
<1> HIDE DEF N
<1>d. \A i \in 1..N : DigitValue(format[i]) \in Nat
  <2> SUFFICES ASSUME NEW i \in 1..N PROVE DigitValue(format[i]) \in Nat OBVIOUS
  <2>1. \E j \in 1..10 : DigitChar[j] = format[i] BY <1>0 DEF Decimal
  <2> DEFINE j == CHOOSE j \in 1..10 : DigitChar[j] = format[i]
  <2>2. j \in 1..10 BY <2>1
  <2>3. DigitValue(format[i]) = j - 1 BY DEF DigitValue
  <2> HIDE DEF j
  <2> QED BY <2>2, <2>3
<1>1. F \in [(1..N) \X Nat -> Nat]
  <2>1. \A q \in (1..N) \X Nat : q[1] \in 1..N /\ q[2] \in Nat OBVIOUS
  <2>2. \A q \in (1..N) \X Nat : 10 * q[2] + DigitValue(format[q[1]]) \in Nat BY <1>d, <2>1
  <2> QED BY <2>2
<1>2. PICK f : Chain(f, Nat, F, 0, N)
  <2> HIDE DEF F
  <2> QED BY <1>0, <1>1, ChainExists
<1>3. f \in [0..N -> Nat] /\ f[0] = 0 /\ \A k \in 1..N : f[k] = F[<<k, f[k-1]>>] BY <1>2 DEF Chain
<1>4. \A k \in 1..N : f[k] = 10 * f[k-1] + DigitValue(format[k])
  <2>1. \A k \in 1..N : k - 1 \in 0..N BY <1>0
  <2> QED BY <1>3, <2>1
<1>5. f = [k \in 0..N |-> IF k = 0 THEN 0 ELSE 10 * f[k-1] + DigitValue(format[k])]
  <2>1. \A k \in 0..N : f[k] = IF k = 0 THEN 0 ELSE 10 * f[k-1] + DigitValue(format[k])
    BY <1>0, <1>3, <1>4
  <2> QED BY <1>3, <2>1
<1>6. value = [k \in 0..N |-> IF k = 0 THEN 0 ELSE 10 * value[k-1] + DigitValue(format[k])] BY <1>5
<1> HIDE DEF value
<1>7. value[0] = 0 /\ \A k \in 1..N : value[k] = 10 * value[k-1] + DigitValue(format[k])
  <2>1. 0 \in 0..N /\ \A k \in 1..N : k \in 0..N /\ k # 0 BY <1>0
  <2> QED BY <1>6, <2>1
<1>8. T = 0..N
  <2>1. 0 \in T BY <1>0, <1>7
  <2>2. ASSUME NEW k \in 1..N, k - 1 \in T PROVE k \in T
    <3>1. value[k-1] \in Nat /\ k \in 0..N /\ DigitValue(format[k]) \in Nat BY <1>0, <1>d, <2>2
    <3> QED BY <1>7, <3>1
  <2> HIDE DEF T
  <2>3. T \in SUBSET (0..N) BY DEF T
  <2> QED BY <1>0, <2>1, <2>2, <2>3, AllUpTo
<1>10. Atoi = <<value[N], N>> BY DEF Atoi, value, N
<1>11. Reads(value)
  <2>1. \A k \in 0..N : value[k] \in Nat BY <1>8
  <2> QED BY <1>7, <1>10, <2>1 DEF Reads, N
<1> QED BY <1>11

LEMMA AtoiType ==
  ASSUME format \in Seq(Char)
  PROVE  Atoi[1] \in Nat /\ Atoi[2] \in Nat
<1>1. PICK value : Reads(value) BY AtoiSteps
<1>2. Leading \in Nat
  <2>1. Len(format) \in Nat BY LenProperties
  <2> QED BY <2>1, LeadingType
<1>3. value[Leading] \in Nat BY <1>1, <1>2 DEF Reads
<1> QED BY <1>1, <1>2, <1>3 DEF Reads

(* What the console shows is built character by character.                 *)
Shows(p, s) ==
  /\ p \in [0..Len(s) -> Seq(Char)] /\ p[0] = <<>>
  /\ \A k \in 1..Len(s) : p[k] = IF s[k] = NUL THEN p[k-1] ELSE Append(p[k-1], s[k])
  /\ Visible(s) = p[Len(s)]

LEMMA VisibleSteps ==
  ASSUME NEW s \in Seq(Char)
  PROVE  \E p : Shows(p, s)
<1> DEFINE N == Len(s)
           S == Seq(Char)
           F == [q \in (1..N) \X S |-> IF s[q[1]] = NUL THEN q[2] ELSE Append(q[2], s[q[1]])]
           p == CHOOSE g : g = [k \in 0..N |-> IF k = 0 THEN <<>> ELSE IF s[k] = NUL THEN g[k-1]
                                               ELSE Append(g[k-1], s[k])]
           T == {k \in 0..N : p[k] \in S}
<1>0. N \in Nat /\ <<>> \in S /\ \A i \in 1..N : s[i] \in Char BY LenProperties
<1>d. \A c \in S, i \in 1..N : Append(c, s[i]) \in S BY <1>0
<1> HIDE DEF N, S
<1>1. F \in [(1..N) \X S -> S]
  <2>1. \A q \in (1..N) \X S : q[1] \in 1..N /\ q[2] \in S OBVIOUS
  <2> QED BY <1>d, <2>1
<1>2. PICK f : Chain(f, S, F, <<>>, N)
  <2> HIDE DEF F
  <2> QED BY <1>0, <1>1, ChainExists
<1>3. f \in [0..N -> S] /\ f[0] = <<>> /\ \A k \in 1..N : f[k] = F[<<k, f[k-1]>>] BY <1>2 DEF Chain
<1>4. \A k \in 1..N : f[k] = IF s[k] = NUL THEN f[k-1] ELSE Append(f[k-1], s[k])
  <2>1. \A k \in 1..N : k - 1 \in 0..N BY <1>0
  <2> QED BY <1>3, <2>1
<1>5. f = [k \in 0..N |-> IF k = 0 THEN <<>> ELSE IF s[k] = NUL THEN f[k-1] ELSE Append(f[k-1], s[k])]
  <2>1. \A k \in 0..N : f[k] = IF k = 0 THEN <<>> ELSE IF s[k] = NUL THEN f[k-1] ELSE Append(f[k-1], s[k])
    <3> SUFFICES ASSUME NEW k \in 0..N
                 PROVE  f[k] = IF k = 0 THEN <<>> ELSE IF s[k] = NUL THEN f[k-1] ELSE Append(f[k-1], s[k])
      OBVIOUS
    <3>1. CASE k = 0 BY <1>3, <3>1
    <3>2. CASE k # 0
      <4>1. k \in 1..N BY <1>0, <3>2
      <4> QED BY Zenon, <1>4, <3>2, <4>1
    <3> QED BY <3>1, <3>2
  <2> QED BY <1>3, <2>1
<1>6. p = [k \in 0..N |-> IF k = 0 THEN <<>> ELSE IF s[k] = NUL THEN p[k-1] ELSE Append(p[k-1], s[k])]
  BY <1>5
<1> HIDE DEF p
<1>7. p[0] = <<>> /\ \A k \in 1..N : p[k] = IF s[k] = NUL THEN p[k-1] ELSE Append(p[k-1], s[k])
  <2>1. 0 \in 0..N /\ \A k \in 1..N : k \in 0..N /\ k # 0 BY <1>0
  <2> QED BY <1>6, <2>1
<1>8. T = 0..N
  <2>1. 0 \in T BY <1>0, <1>7
  <2>2. ASSUME NEW k \in 1..N, k - 1 \in T PROVE k \in T
    <3>1. p[k-1] \in S /\ k \in 0..N BY <1>0, <2>2
    <3> QED BY <1>7, <1>d, <3>1
  <2> HIDE DEF T
  <2>3. T \in SUBSET (0..N) BY DEF T
  <2> QED BY <1>0, <2>1, <2>2, <2>3, AllUpTo
<1>9. p \in [0..N -> S] BY <1>6, <1>8
<1>10. Visible(s) = p[N] BY DEF Visible, p, N
<1> QED BY <1>7, <1>9, <1>10 DEF Shows, N, S

LEMMA VisibleType ==
  ASSUME NEW s \in Seq(Char)
  PROVE  Visible(s) \in Seq(Char)
<1>1. PICK p : Shows(p, s) BY VisibleSteps
<1>2. Len(s) \in 0..Len(s) BY LenProperties
<1> QED BY <1>1, <1>2 DEF Shows

LEMMA VisibleEmpty == Visible(<<>>) = <<>>
<1>1. PICK p : Shows(p, <<>>) BY VisibleSteps, EmptySeq
<1>2. Len(<<>>) = 0 OBVIOUS
<1> QED BY <1>1, <1>2 DEF Shows

LEMMA AppendConcat ==
  ASSUME NEW a \in Seq(Char), NEW b \in Seq(Char), NEW c \in Char
  PROVE  Append(a \o b, c) = a \o Append(b, c)
<1>1. <<c>> \in Seq(Char) /\ Append(b, c) = b \o <<c>> /\ a \o b \in Seq(Char) BY AppendProperties, ConcatProperties
<1>2. Append(a \o b, c) = (a \o b) \o <<c>> BY <1>1, AppendProperties
<1> QED BY <1>1, <1>2, ConcatAssociative

LEMMA VisibleConcat ==
  ASSUME NEW s \in Seq(Char), NEW t \in Seq(Char)
  PROVE  Visible(s \o t) = Visible(s) \o Visible(t)
<1> DEFINE u == s \o t
           m == Len(s)
           n == Len(t)
<1>1. /\ u \in Seq(Char) /\ m \in Nat /\ n \in Nat /\ Len(u) = m + n
      /\ \A i \in 1..m : u[i] = s[i]
      /\ \A i \in 1..n : u[m+i] = t[i] /\ t[i] \in Char
  <2>1. m \in Nat /\ n \in Nat /\ \A i \in 1..n : t[i] \in Char BY LenProperties
  <2>2. /\ u \in Seq(Char) /\ Len(u) = m + n
        /\ \A i \in 1..m+n : u[i] = IF i <= m THEN s[i] ELSE t[i - m]
    BY ConcatProperties
  <2> HIDE DEF u, m, n
  <2>3. \A i \in 1..m : i \in 1..m+n /\ i <= m BY <2>1
  <2>4. \A i \in 1..n : m + i \in 1..m+n /\ ~(m + i <= m) /\ (m + i) - m = i BY <2>1
  <2> QED BY <2>1, <2>2, <2>3, <2>4
<1>2. PICK p : Shows(p, s) BY VisibleSteps
<1>3. PICK q : Shows(q, t) BY VisibleSteps
<1>4. PICK r : Shows(r, u)
  <2> HIDE DEF u
  <2> QED BY <1>1, VisibleSteps
<1>5. /\ p \in [0..m -> Seq(Char)] /\ p[0] = <<>> /\ Visible(s) = p[m]
      /\ \A k \in 1..m : p[k] = IF s[k] = NUL THEN p[k-1] ELSE Append(p[k-1], s[k])
  BY <1>2 DEF Shows
<1>6. /\ q \in [0..n -> Seq(Char)] /\ q[0] = <<>> /\ Visible(t) = q[n]
      /\ \A k \in 1..n : q[k] = IF t[k] = NUL THEN q[k-1] ELSE Append(q[k-1], t[k])
  BY <1>3 DEF Shows
<1>7. /\ r[0] = <<>> /\ Visible(u) = r[m+n]
      /\ \A k \in 1..m+n : r[k] = IF u[k] = NUL THEN r[k-1] ELSE Append(r[k-1], u[k])
  BY <1>1, <1>4 DEF Shows
<1> HIDE DEF u, m, n
<1> DEFINE T == {k \in 0..m : r[k] = p[k]}
           U == {k \in 0..n : r[m+k] = p[m] \o q[k]}
<1>8. T = 0..m
  <2>1. 0 \in T BY <1>1, <1>5, <1>7
  <2>2. ASSUME NEW k \in 1..m, k - 1 \in T PROVE k \in T
    <3>1. k \in 0..m /\ k \in 1..m+n /\ r[k-1] = p[k-1] /\ u[k] = s[k] BY <1>1, <2>2
    <3> QED BY <1>5, <1>7, <3>1
  <2> HIDE DEF T
  <2>3. T \in SUBSET (0..m) BY DEF T
  <2> QED BY <1>1, <2>1, <2>2, <2>3, AllUpTo
<1>9. r[m] = p[m] /\ p[m] \in Seq(Char) BY <1>1, <1>5, <1>8
<1>10. U = 0..n
  <2>1. 0 \in U
    <3>1. m + 0 = m /\ 0 \in 0..n BY <1>1
    <3>2. p[m] \o <<>> = p[m] BY <1>9, ConcatEmptySeq
    <3> QED BY <1>6, <1>9, <3>1, <3>2
  <2>2. ASSUME NEW k \in 1..n, k - 1 \in U PROVE k \in U
    <3>1. k \in 0..n /\ k - 1 \in 0..n /\ m + k \in 1..m+n /\ (m + k) - 1 = m + (k - 1) BY <1>1
    <3>2. u[m+k] = t[k] /\ t[k] \in Char /\ q[k-1] \in Seq(Char) BY <1>1, <1>6, <3>1
    <3>3. r[(m + k) - 1] = p[m] \o q[k-1] BY <2>2, <3>1
    <3>4. r[m+k] = IF t[k] = NUL THEN p[m] \o q[k-1] ELSE Append(p[m] \o q[k-1], t[k])
      BY <1>7, <3>1, <3>2, <3>3
    <3>5. Append(p[m] \o q[k-1], t[k]) = p[m] \o Append(q[k-1], t[k]) BY <1>9, <3>2, AppendConcat
    <3>6. r[m+k] = p[m] \o q[k] BY <1>6, <3>4, <3>5
    <3> QED BY <3>1, <3>6
  <2> HIDE DEF U
  <2>3. U \in SUBSET (0..n) BY DEF U
  <2> QED BY <1>1, <2>1, <2>2, <2>3, AllUpTo
<1>11. r[m+n] = p[m] \o q[n]
  <2>1. n \in 0..n BY <1>1
  <2>2. n \in U BY Zenon, <1>10, <2>1
  <2> QED BY <2>2
<1>12. Visible(u) = Visible(s) \o Visible(t) BY <1>5, <1>6, <1>7, <1>11
<1> QED BY <1>12 DEF u

-----------------------------------------------------------------------------
(* Every conversion puts out characters.                                   *)
LEMMA Letters ==
  {"0", "a", "b", "e", "f", "E", " ", "+", "-", ".", "x", "X", "i", "n", "\n", NUL} \subseteq Char
<1>1. DigitChar[1] = "0" /\ DigitChar[11] = "a" /\ DigitChar[12] = "b" /\ DigitChar[15] = "e"
      /\ DigitChar[16] = "f"
  BY DEF DigitChar
<1>2. UpperChar[15] = "E" BY DEF UpperChar, DigitChar
<1>3. \A i \in {1, 11, 12, 15, 16} : i \in 1..16 OBVIOUS
<1>4. \A i \in 1..16 : DigitChar[i] \in Char /\ UpperChar[i] \in Char BY Zenon DEF Char
<1>5. {"0", "a", "b", "e", "f", "E"} \subseteq Char
  <2>1. "0" \in Char /\ "a" \in Char /\ "b" \in Char BY <1>1, <1>3, <1>4
  <2>2. "e" \in Char /\ "f" \in Char /\ "E" \in Char BY <1>1, <1>2, <1>3, <1>4
  <2> QED BY <2>1, <2>2
<1>6. {" ", "+", "-", ".", "x", "X", "i", "n", "\n", NUL} \subseteq Char BY DEF Char
<1> QED BY <1>5, <1>6

LEMMA RepeatType ==
  ASSUME NEW c \in Char, NEW n \in Int
  PROVE  Repeat(c, n) \in Seq(Char) /\ Len(Repeat(c, n)) = IF n < 0 THEN 0 ELSE n
<1> DEFINE m == IF n < 0 THEN 0 ELSE n
<1>1. m \in Nat OBVIOUS
<1>2. Repeat(c, n) = [i \in 1..m |-> c] BY DEF Repeat
<1> HIDE DEF m
<1>3. [i \in 1..m |-> c] \in Seq(Char) /\ Len([i \in 1..m |-> c]) = m BY <1>1
<1> QED BY <1>2, <1>3 DEF m

LEMMA FitType ==
  ASSUME NEW s \in Seq(Char), NEW size \in Nat
  PROVE  /\ Fit(s, size) \in Seq(Char) /\ Len(Fit(s, size)) \in Nat
         /\ Len(Fit(s, size)) <= Len(s) /\ Len(Fit(s, size)) <= size
<1> DEFINE n == Least(Len(s), size)
<1>1. Len(s) \in Nat /\ n \in Nat /\ n <= Len(s) /\ n <= size BY LenProperties DEF Least
<1>2. \A i \in 1..n : s[i] \in Char BY <1>1, ElementOfSeq
<1>3. Fit(s, size) = SubSeq(s, 1, n) BY DEF Fit
<1> HIDE DEF n
<1>4. SubSeq(s, 1, n) \in Seq(Char) /\ Len(SubSeq(s, 1, n)) = IF 1 <= n THEN n - 1 + 1 ELSE 0
  BY <1>1, <1>2, SubSeqProperties
<1> QED BY <1>1, <1>3, <1>4

LEMMA BackwardsType ==
  ASSUME NEW s \in Seq(Char)
  PROVE  Backwards(s) \in Seq(Char)
<1> DEFINE n == Len(s)
<1>1. n \in Nat BY LenProperties
<1>2. \A i \in 1..n : n + 1 - i \in 1..n BY <1>1
<1>3. \A i \in 1..n : s[n + 1 - i] \in Char BY <1>1, <1>2, ElementOfSeq
<1>4. Backwards(s) = [i \in 1..n |-> s[n + 1 - i]] BY DEF Backwards
<1> HIDE DEF n
<1>5. [i \in 1..n |-> s[n + 1 - i]] \in Seq(Char) BY <1>1, <1>3
<1> QED BY <1>4, <1>5

LEMMA RestType ==
  ASSUME NEW S, NEW s \in Seq(S), NEW n \in Nat
  PROVE  Rest(s, n) \in Seq(S)
<1>1. Len(s) \in Nat BY LenProperties
<1>2. \A i \in n + 1..Len(s) : i \in 1..Len(s) BY <1>1
<1>3. \A i \in n + 1..Len(s) : s[i] \in S BY <1>2, ElementOfSeq
<1>4. n + 1 \in Int /\ Len(s) \in Int BY <1>1
<1> QED BY <1>3, <1>4, SubSeqProperties DEF Rest

LEMMA PadType ==
  ASSUME NEW n \in Int
  PROVE  Pad(n) \in Seq(Char)
BY RepeatType, Letters DEF Pad

LEMMA OutRevType ==
  ASSUME NEW s \in Seq(Char), NEW w \in Int, NEW fs
  PROVE  OutRev(s, w, fs) \in Seq(Char)
<1>1. w - Len(s) \in Int /\ <<>> \in Seq(Char) BY LenProperties
<1> DEFINE front == IF fs \cap {"LEFT", "ZEROPAD"} = {} THEN Pad(w - Len(s)) ELSE <<>>
           back  == IF "LEFT" \in fs THEN Pad(w - Len(s)) ELSE <<>>
<1>2. front \in Seq(Char) /\ back \in Seq(Char) BY <1>1, PadType
<1>3. Backwards(s) \in Seq(Char) BY BackwardsType
<1>4. OutRev(s, w, fs) = front \o Backwards(s) \o back BY DEF OutRev
<1> HIDE DEF front, back
<1> QED BY <1>2, <1>3, <1>4, ConcatProperties

LEMMA ShortText ==
  /\ \A c \in Char : <<c>> \in Seq(Char)
  /\ \A c, d \in Char : <<c, d>> \in Seq(Char)
OBVIOUS

LEMMA SignType == \A negative, fs : Sign(negative, fs) \in Seq(Char)
<1>1. "-" \in Char /\ "+" \in Char /\ " " \in Char BY Letters
<1>2. {<<>>, <<"-">>, <<"+">>, <<" ">>} \subseteq Seq(Char) BY <1>1, ShortText, EmptySeq
<1>3. \A negative, fs : Sign(negative, fs) \in {<<>>, <<"-">>, <<"+">>, <<" ">>} BY DEF Sign
<1> QED BY <1>2, <1>3

LEMMA FieldWidthType ==
  ASSUME NEW negative, NEW w \in Int, NEW fs
  PROVE  FieldWidth(negative, w, fs) \in Int
BY DEF FieldWidth

LEMMA HashType ==
  ASSUME NEW s \in Seq(Char), NEW base, NEW prec, NEW w, NEW fs
  PROVE  Hash(s, base, prec, w, fs) \in Seq(Char)
<1> DEFINE n    == Len(s)
           kept == IF "PRECISION" \in fs \/ n = 0 \/ n \notin {prec, w} THEN n
                   ELSE IF n > 1 /\ base = 16 THEN n - 2 ELSE n - 1
           mark == CASE base = 16 -> IF "UPPERCASE" \in fs THEN <<"X", "0">> ELSE <<"x", "0">>
                     [] base = 2  -> <<"b", "0">>
                     [] OTHER     -> <<"0">>
<1>1. n \in Nat BY LenProperties
<1>2. kept \in Int /\ kept <= n BY <1>1
<1>3. mark \in Seq(Char)
  <2>0. "X" \in Char /\ "x" \in Char /\ "0" \in Char /\ "b" \in Char BY Letters
  <2>1. {<<"X", "0">>, <<"x", "0">>, <<"b", "0">>, <<"0">>} \subseteq Seq(Char) BY <2>0, ShortText
  <2>2. mark \in {<<"X", "0">>, <<"x", "0">>, <<"b", "0">>, <<"0">>} OBVIOUS
  <2> HIDE DEF mark
  <2> QED BY <2>1, <2>2
<1>4. Hash(s, base, prec, w, fs) = SubSeq(s, 1, kept) \o mark BY DEF Hash
<1> HIDE DEF kept, mark
<1>5. SubSeq(s, 1, kept) \in Seq(Char)
  <2>1. \A i \in 1..kept : i \in 1..n BY <1>1, <1>2
  <2>2. \A i \in 1..kept : s[i] \in Char BY <2>1, ElementOfSeq
  <2> QED BY <1>2, <2>2, SubSeqProperties
<1> QED BY <1>3, <1>4, <1>5, ConcatProperties

LEMMA BufferSizes ==
  /\ NTOA_BUFFER_SIZE \in Nat /\ FTOA_BUFFER_SIZE \in Nat /\ DEFAULT_FLOAT_PRECISION \in Nat
  /\ MAX_FLOAT \in Nat /\ MAX_PRECISION \in Nat
BY SizeAssumption

LEMMA NtoaFormatType ==
  ASSUME NEW s \in Seq(Char), NEW negative, NEW base, NEW prec \in Int, NEW width_ \in Int, NEW fs
  PROVE  NtoaFormat(s, negative, base, prec, width_, fs) \in Seq(Char)
<1> DEFINE w       == FieldWidth(negative, width_, fs)
           room(t) == Fit(t, NTOA_BUFFER_SIZE)
           zeros   == IF "LEFT" \in fs THEN 0
                      ELSE IF "ZEROPAD" \in fs /\ w > prec THEN w ELSE prec
           padded  == room(s \o Repeat("0", zeros - Len(s)))
           hashed  == IF "HASH" \in fs THEN room(Hash(padded, base, prec, w, fs)) ELSE padded
           signed  == room(hashed \o Sign(negative, fs))
<1>1. w \in Int BY FieldWidthType
<1> HIDE DEF w
<1>2. zeros \in Int /\ Len(s) \in Nat BY <1>1, LenProperties
<1> HIDE DEF zeros
<1>3. \A t \in Seq(Char) : room(t) \in Seq(Char)
  <2> SUFFICES ASSUME NEW t \in Seq(Char) PROVE Fit(t, NTOA_BUFFER_SIZE) \in Seq(Char) OBVIOUS
  <2> QED BY BufferSizes, FitType
<1>4. padded \in Seq(Char)
  <2>0. "0" \in Char BY Letters
  <2>1. zeros - Len(s) \in Int BY <1>2
  <2>2. Repeat("0", zeros - Len(s)) \in Seq(Char) BY <2>0, <2>1, RepeatType
  <2>3. s \o Repeat("0", zeros - Len(s)) \in Seq(Char) BY <2>2, ConcatProperties
  <2> HIDE DEF room
  <2> QED BY <1>3, <2>3
<1> HIDE DEF padded
<1>5. hashed \in Seq(Char)
  <2>1. Hash(padded, base, prec, w, fs) \in Seq(Char) BY <1>4, HashType
  <2> HIDE DEF room
  <2> QED BY <1>3, <1>4, <2>1
<1> HIDE DEF hashed
<1>6. signed \in Seq(Char)
  <2>1. Sign(negative, fs) \in Seq(Char) BY SignType
  <2>2. hashed \o Sign(negative, fs) \in Seq(Char) BY <1>5, <2>1, ConcatProperties
  <2> HIDE DEF room
  <2> QED BY <1>3, <2>2
<1>7. NtoaFormat(s, negative, base, prec, width_, fs) = OutRev(signed, w, fs)
  BY DEF NtoaFormat, hashed, padded, zeros, w
<1> HIDE DEF signed
<1> QED BY <1>1, <1>6, <1>7, OutRevType

LEMMA NtoaLongType ==
  ASSUME NEW v \in Nat, NEW negative, NEW base \in 1..16, NEW prec \in Int, NEW width_ \in Int, NEW fs
  PROVE  NtoaLong(v, negative, base, prec, width_, fs) \in Seq(Char)
<1> DEFINE s  == IF "PRECISION" \in fs /\ v = 0 THEN <<>> ELSE Fit(Digits(v, base, fs), NTOA_BUFFER_SIZE)
           gs == IF v = 0 THEN fs \ {"HASH"} ELSE fs
<1>1. Digits(v, base, fs) \in Seq(Char) BY DigitsType
<1>2. Fit(Digits(v, base, fs), NTOA_BUFFER_SIZE) \in Seq(Char) BY <1>1, BufferSizes, FitType
<1>3. s \in Seq(Char) BY <1>2
<1>4. NtoaLong(v, negative, base, prec, width_, fs) = NtoaFormat(s, negative, base, prec, width_, gs)
  BY DEF NtoaLong
<1> HIDE DEF s, gs
<1> QED BY <1>3, <1>4, NtoaFormatType

LEMMA AbsType == \A n \in Int : Abs(n) \in Nat
BY DEF Abs

LEMMA SpecialType ==
  ASSUME NEW x \in Argument, IsSpecial(x), NEW w \in Int, NEW fs
  PROVE  Special(x, w, fs) \in Seq(Char)
<1> DEFINE s == CASE x.kind = "nan"  -> <<"n", "a", "n">>
                  [] x.kind = "-inf" -> <<"f", "n", "i", "-">>
                  [] x.kind = "inf"  -> <<"f", "n", "i">> \o (IF "PLUS" \in fs THEN <<"+">> ELSE <<>>)
           t == IF "PLUS" \in fs THEN <<"+">> ELSE <<>>
<1>1. "n" \in Char /\ "a" \in Char /\ "f" \in Char /\ "i" \in Char /\ "-" \in Char /\ "+" \in Char
  BY Letters
<1>2. <<"n", "a", "n">> \in Seq(Char) /\ <<"f", "n", "i", "-">> \in Seq(Char) /\ <<"f", "n", "i">> \in Seq(Char)
  BY <1>1
<1>3. t \in Seq(Char) BY <1>1, ShortText, EmptySeq
<1>4. x.kind \in {"nan", "-inf", "inf"} BY DEF IsSpecial, Argument
<1>5. s \in Seq(Char)
  <2>1. CASE x.kind = "nan" BY <1>2, <2>1
  <2>2. CASE x.kind = "-inf" BY <1>2, <2>2
  <2>3. CASE x.kind = "inf"
    <3>1. s = <<"f", "n", "i">> \o t BY <2>3
    <3> HIDE DEF s, t
    <3> QED BY <1>2, <1>3, <3>1, ConcatProperties
  <2> QED BY <1>4, <2>1, <2>2, <2>3
<1>6. Special(x, w, fs) = OutRev(s, w, fs) BY DEF Special
<1> HIDE DEF s
<1> QED BY <1>5, <1>6, OutRevType

LEMMA RoundedType ==
  ASSUME NEW x, x.n \in Int, x.d \in Nat \ {0}, NEW prec \in Nat
  PROVE  Rounded(x, prec).whole \in Nat /\ Rounded(x, prec).frac \in Nat
<1> DEFINE v     == Abs(x.n)
           scale == Pow(10, prec)
           whole == v \div x.d
           tmp   == (v % x.d) * scale
           frac  == tmp \div x.d
           diff  == 2 * (tmp % x.d)
           carry == diff > x.d /\ frac + 1 >= scale
           near  == IF carry THEN 0
                    ELSE IF diff > x.d \/ (diff = x.d /\ (frac = 0 \/ Odd(frac))) THEN frac + 1
                    ELSE frac
           up    == IF carry THEN whole + 1 ELSE whole
           half  == 2 * (v - up * x.d) >= x.d /\ Odd(up)
<1>1. v \in Nat /\ scale \in Nat
  <2>1. Pow(10, prec) \in Nat \ {0} BY PowType
  <2> QED BY <2>1, AbsType
<1> HIDE DEF v, scale
<1>2. whole \in Nat BY Zenon, <1>1, DivMod
<1>3. v % x.d \in Nat
  <2>1. v \in Int BY <1>1
  <2>2. v % x.d \in 0..x.d-1 BY Zenon, <2>1, DivMod
  <2> QED BY <2>2
<1>4. tmp \in Nat
  <2> DEFINE r == v % x.d
  <2>1. r \in Nat BY <1>3
  <2> HIDE DEF r
  <2>2. r * scale \in Nat BY <1>1, <2>1
  <2> QED BY <2>2 DEF r
<1> HIDE DEF tmp, whole
<1>5. frac \in Nat BY Zenon, <1>4, DivMod
<1> HIDE DEF frac, diff
<1>6. near \in Nat BY <1>5
<1>7. up \in Nat BY <1>2
<1>8. Rounded(x, prec) = IF prec = 0 THEN [whole |-> IF half THEN up + 1 ELSE up, frac |-> 0]
                         ELSE [whole |-> up, frac |-> near]
  BY DEF Rounded, v, scale, whole, tmp, frac, diff
<1> HIDE DEF near, up, half
<1>9. CASE prec = 0 BY <1>7, <1>8, <1>9
<1>10. CASE prec # 0 BY <1>6, <1>7, <1>8, <1>10
<1> QED BY <1>9, <1>10

LEMMA FractionType ==
  ASSUME NEW frac \in Nat, NEW prec \in Int, NEW lead \in Seq(Char)
  PROVE  Fraction(frac, prec, lead) \in Seq(Char)
<1> DEFINE written == Fit(lead \o Digits(frac, 10, {}), FTOA_BUFFER_SIZE)
           missing == prec - (Len(written) - Len(lead))
           zeros   == IF missing >= 0 THEN missing ELSE FTOA_BUFFER_SIZE
<1>1. written \in Seq(Char)
  <2>1. Digits(frac, 10, {}) \in Seq(Char) BY DigitsType
  <2>2. lead \o Digits(frac, 10, {}) \in Seq(Char) BY <2>1, ConcatProperties
  <2> QED BY <2>2, BufferSizes, FitType
<1>2. Len(written) \in Nat /\ Len(lead) \in Nat
  <2> HIDE DEF written
  <2> QED BY <1>1, LenProperties
<1> HIDE DEF written
<1>3. missing \in Int BY <1>2
<1> HIDE DEF missing
<1>4. zeros \in Int BY <1>3, BufferSizes
<1>5. Fraction(frac, prec, lead) = written \o Repeat("0", zeros) BY DEF Fraction, missing, written
<1> HIDE DEF zeros
<1>6. "0" \in Char BY Letters
<1>7. Repeat("0", zeros) \in Seq(Char) BY <1>4, <1>6, RepeatType
<1> QED BY <1>1, <1>5, <1>7, ConcatProperties

LEMMA FixedType ==
  ASSUME NEW x, x.n \in Int, x.d \in Nat \ {0}, NEW p \in Nat, NEW width_ \in Int, NEW fs
  PROVE  Fixed(x, p, width_, fs) \in Seq(Char)
<1> DEFINE want     == IF "PRECISION" \in fs THEN p ELSE DEFAULT_FLOAT_PRECISION
           room(s)  == Fit(s, FTOA_BUFFER_SIZE)
           lead     == room(Repeat("0", want - MAX_PRECISION))
           prec     == want - Len(lead)
           r        == Rounded(x, prec)
           negative == x.n < 0
           w        == FieldWidth(negative, width_, fs)
           point    == IF prec = 0 THEN lead
                       ELSE room(room(Fraction(r.frac, prec, lead)) \o <<".">>)
           number   == room(point \o Digits(r.whole, 10, {}))
           padded   == IF "ZEROPAD" \in fs /\ "LEFT" \notin fs
                       THEN room(number \o Repeat("0", w - Len(number))) ELSE number
           signed   == room(padded \o Sign(negative, fs))
<1>0. "0" \in Char /\ "." \in Char BY Letters
<1>1. \A t \in Seq(Char) : room(t) \in Seq(Char) /\ Len(room(t)) \in Nat /\ Len(room(t)) <= Len(t)
  <2> SUFFICES ASSUME NEW t \in Seq(Char)
               PROVE  /\ Fit(t, FTOA_BUFFER_SIZE) \in Seq(Char) /\ Len(Fit(t, FTOA_BUFFER_SIZE)) \in Nat
                      /\ Len(Fit(t, FTOA_BUFFER_SIZE)) <= Len(t)
    OBVIOUS
  <2> QED BY BufferSizes, FitType
<1>2. want \in Nat BY BufferSizes
<1> HIDE DEF want
<1>3. lead \in Seq(Char) /\ prec \in Nat
  <2> DEFINE z == want - MAX_PRECISION
             zs == Repeat("0", z)
  <2>1. z \in Int /\ z <= want BY <1>2, BufferSizes
  <2> HIDE DEF z
  <2>2. zs \in Seq(Char) /\ Len(zs) = IF z < 0 THEN 0 ELSE z BY <1>0, <2>1, RepeatType
  <2> HIDE DEF zs, room
  <2>3. lead = room(zs) BY DEF zs, z
  <2>4. lead \in Seq(Char) /\ Len(lead) \in Nat /\ Len(lead) <= Len(zs) BY <1>1, <2>2, <2>3
  <2> HIDE DEF lead
  <2> QED BY <1>2, <2>1, <2>2, <2>4
<1> HIDE DEF lead, prec
<1>4. r.whole \in Nat /\ r.frac \in Nat BY <1>3, RoundedType
<1> HIDE DEF r
<1>5. w \in Int BY FieldWidthType
<1> HIDE DEF w
<1>6. point \in Seq(Char)
  <2>1. Fraction(r.frac, prec, lead) \in Seq(Char) BY <1>3, <1>4, FractionType
  <2>2. room(Fraction(r.frac, prec, lead)) \in Seq(Char)
    <3> HIDE DEF room
    <3> QED BY <1>1, <2>1
  <2>3. <<".">> \in Seq(Char) BY <1>0, ShortText
  <2> HIDE DEF room
  <2>4. room(Fraction(r.frac, prec, lead)) \o <<".">> \in Seq(Char) BY <2>2, <2>3, ConcatProperties
  <2> QED BY <1>1, <1>3, <2>4
<1> HIDE DEF point
<1>7. number \in Seq(Char) /\ Len(number) \in Nat
  <2>1. Digits(r.whole, 10, {}) \in Seq(Char) BY <1>4, DigitsType
  <2>2. point \o Digits(r.whole, 10, {}) \in Seq(Char) BY <1>6, <2>1, ConcatProperties
  <2> HIDE DEF room
  <2> QED BY <1>1, <2>2
<1> HIDE DEF number
<1>8. padded \in Seq(Char)
  <2>1. w - Len(number) \in Int BY <1>5, <1>7
  <2>2. Repeat("0", w - Len(number)) \in Seq(Char) BY <1>0, <2>1, RepeatType
  <2>3. number \o Repeat("0", w - Len(number)) \in Seq(Char) BY <1>7, <2>2, ConcatProperties
  <2> HIDE DEF room
  <2> QED BY <1>1, <1>7, <2>3
<1> HIDE DEF padded
<1>9. signed \in Seq(Char)
  <2>1. Sign(negative, fs) \in Seq(Char) BY SignType
  <2>2. padded \o Sign(negative, fs) \in Seq(Char) BY <1>8, <2>1, ConcatProperties
  <2> HIDE DEF room
  <2> QED BY <1>1, <2>2
<1>10. Fixed(x, p, width_, fs) = OutRev(signed, w, fs)
  BY DEF Fixed, padded, number, point, w, r, prec, lead, want
<1> HIDE DEF signed
<1> QED BY <1>5, <1>9, <1>10, OutRevType

LEMMA OverType ==
  ASSUME NEW x \in Argument, NEW b \in Nat \ {0}, NEW e \in Int
  PROVE  Over(x, b, e) \in Argument
<1>1. x.n \in Int /\ x.d \in Nat \ {0} BY DEF Argument
<1>2. CASE e >= 0
  <2>1. Pow(b, e) \in Nat \ {0} BY <1>2, PowType
  <2> DEFINE d == x.d * Pow(b, e)
  <2>2. d \in Nat \ {0} BY <1>1, <2>1, ProductPositive
  <2>3. Over(x, b, e) = [x EXCEPT !.d = d] BY <1>2 DEF Over
  <2> HIDE DEF d
  <2> QED BY <2>2, <2>3 DEF Argument
<1>3. CASE e < 0
  <2>1. -e \in Nat BY <1>3
  <2>2. Pow(b, -e) \in Nat \ {0} BY <2>1, PowType
  <2> DEFINE n == x.n * Pow(b, -e)
  <2>3. n \in Int BY <1>1, <2>2
  <2>4. Over(x, b, e) = [x EXCEPT !.n = n] BY <1>3 DEF Over
  <2> HIDE DEF n
  <2> QED BY <2>3, <2>4 DEF Argument
<1> QED BY <1>2, <1>3

LEMMA ScaledType ==
  ASSUME NEW x \in Argument, NEW e \in Int
  PROVE  Scaled(x, e) \in Argument
BY OverType DEF Scaled

LEMMA TruncatedType ==
  ASSUME NEW n \in Int, NEW d \in Nat \ {0}
  PROVE  Truncated(n, d) \in Int
<1>1. CASE n >= 0
  <2>1. n \in Nat BY <1>1
  <2>2. n \div d \in Nat BY Zenon, <2>1, DivMod
  <2>3. Truncated(n, d) = n \div d BY Zenon, <1>1 DEF Truncated
  <2> QED BY <2>2, <2>3
<1>2. CASE ~(n >= 0)
  <2>1. -n \in Nat BY <1>2
  <2>2. (-n) \div d \in Nat BY Zenon, <2>1, DivMod
  <2>3. Truncated(n, d) = -((-n) \div d) BY Zenon, <1>2 DEF Truncated
  <2> QED BY <2>2, <2>3
<1> QED BY <1>1, <1>2

InReach(x) == x.n # 0 => \E k \in EXPONENTS : Normal(Over(x, 2, k), 2)

LEMMA EstimateType ==
  ASSUME NEW x \in Argument, x.n # 0, InReach(x)
  PROVE  Estimate(x) \in Int
<1> DEFINE k == Exp2(x)
           m == Over(x, 2, k)
           num(n, d) == 2 * d * (17609 + k * 30103) + 28953 * (2 * Abs(n) - 3 * d)
           den(d) == 2 * d * 100000
<1>1. k \in Int
  <2>1. \E j \in EXPONENTS : Normal(Over(x, 2, j), 2) BY DEF InReach
  <2>2. k \in EXPONENTS BY Zenon, <2>1 DEF Exp2
  <2> QED BY <2>2, SizeAssumption
<1> HIDE DEF k
<1>2. m.n \in Int /\ m.d \in Nat \ {0}
  <2>1. m \in Argument BY <1>1, OverType
  <2> QED BY <2>1 DEF Argument
<1>3. Estimate(x) = Truncated(num(m.n, m.d), den(m.d)) BY DEF Estimate, k
<1> HIDE DEF m
<1>4. den(m.d) \in Nat \ {0} BY <1>2
<1>5. num(m.n, m.d) \in Int
  <2>1. Abs(m.n) \in Nat BY <1>2, AbsType
  <2>2. 17609 + k * 30103 \in Int /\ 2 * m.d \in Int BY <1>1, <1>2
  <2>3. 2 * m.d * (17609 + k * 30103) \in Int BY <2>2
  <2>4. 28953 * (2 * Abs(m.n) - 3 * m.d) \in Int BY <1>2, <2>1
  <2> QED BY <2>3, <2>4
<1> HIDE DEF num, den
<1> QED BY <1>3, <1>4, <1>5, TruncatedType

LEMMA ExponentType ==
  ASSUME NEW x \in Argument, InReach(x)
  PROVE  Exponent(x) \in Int
<1>1. CASE x.n = 0 BY <1>1 DEF Exponent, ZERO_EXPONENT
<1>2. CASE x.n # 0
  <2>1. Estimate(x) \in Int BY <1>2, EstimateType
  <2>2. Exponent(x) \in {Estimate(x), Estimate(x) - 1} BY <1>2 DEF Exponent
  <2> QED BY <2>1, <2>2
<1> QED BY <1>1, <1>2

LEMMA EtoaType ==
  ASSUME NEW x \in Argument, InReach(x), NEW p \in Nat, NEW width_ \in Int, NEW fs
  PROVE  Etoa(x, p, width_, fs) \in Seq(Char)
<1> DEFINE want     == IF "PRECISION" \in fs THEN p ELSE DEFAULT_FLOAT_PRECISION
           e        == Exponent(x)
           adapt    == "ADAPT_EXP" \in fs
           fallback == adapt /\ x.n # 0 /\ \E k \in ADAPT_EXP : Normal(Scaled(x, k), 10)
           prec     == IF fallback THEN IF want > e THEN want - e - 1 ELSE 0
                       ELSE IF adapt /\ want > 0 /\ "PRECISION" \in fs THEN want - 1 ELSE want
           minwidth == IF fallback THEN 0 ELSE IF Abs(e) < 100 THEN 4 ELSE 5
           fwidth   == IF width_ <= minwidth \/ (minwidth > 0 /\ "LEFT" \in fs) THEN 0
                       ELSE width_ - minwidth
           fflags   == (fs \ {"ADAPT_EXP"}) \cup (IF fallback THEN {"PRECISION"} ELSE {})
           y        == IF fallback \/ x.n = 0 THEN x ELSE Scaled(x, e)
           mantissa == Fixed(y, prec, fwidth, fflags)
           letter   == IF "UPPERCASE" \in fs THEN "E" ELSE "e"
           exponent == NtoaLong(Abs(e), e < 0, 10, 0, minwidth - 1, {"ZEROPAD", "PLUS"})
           number   == mantissa \o <<letter>> \o exponent
           back     == IF "LEFT" \in fs THEN Pad(width_ - Len(number)) ELSE <<>>
<1>1. e \in Int /\ Abs(e) \in Nat BY ExponentType, AbsType
<1>2. want \in Nat BY BufferSizes
<1>3. Etoa(x, p, width_, fs) = IF IsSpecial(x) THEN Special(x, width_, fs)
                               ELSE IF fallback THEN mantissa ELSE number \o back
  BY DEF Etoa
<1> HIDE DEF e, want, fallback, adapt
<1>4. prec \in Nat BY <1>1, <1>2
<1>5. minwidth \in Int BY DEF minwidth
<1> HIDE DEF minwidth
<1>6. fwidth \in Int BY <1>5
<1>7. y.n \in Int /\ y.d \in Nat \ {0}
  <2>1. y \in Argument BY <1>1, ScaledType
  <2> HIDE DEF y
  <2> QED BY <2>1 DEF Argument
<1> HIDE DEF prec, fwidth, fflags, y
<1>8. mantissa \in Seq(Char) BY <1>4, <1>6, <1>7, FixedType
<1>9. <<letter>> \in Seq(Char)
  <2>1. "E" \in Char /\ "e" \in Char BY Letters
  <2> QED BY <2>1, ShortText
<1>10. exponent \in Seq(Char)
  <2>1. minwidth - 1 \in Int BY <1>5
  <2> QED BY <1>1, <2>1, NtoaLongType
<1> HIDE DEF mantissa, letter, exponent
<1>11. number \in Seq(Char) /\ Len(number) \in Nat
  <2>1. mantissa \o <<letter>> \in Seq(Char) BY <1>8, <1>9, ConcatProperties
  <2>2. number \in Seq(Char) BY <1>10, <2>1, ConcatProperties
  <2> HIDE DEF number
  <2> QED BY <2>2, LenProperties
<1> HIDE DEF number
<1>12. back \in Seq(Char)
  <2>1. width_ - Len(number) \in Int BY <1>11
  <2> QED BY <2>1, PadType, EmptySeq
<1> HIDE DEF back
<1>13. number \o back \in Seq(Char) BY <1>11, <1>12, ConcatProperties
<1>14. IsSpecial(x) => Special(x, width_, fs) \in Seq(Char) BY SpecialType
<1> QED BY <1>3, <1>8, <1>13, <1>14

LEMMA FtoaType ==
  ASSUME NEW x \in Argument, InReach(x), NEW p \in Nat, NEW width_ \in Int, NEW fs
  PROVE  Ftoa(x, p, width_, fs) \in Seq(Char)
<1>1. x.n \in Int /\ x.d \in Nat \ {0} BY DEF Argument
<1>2. Fixed(x, p, width_, fs) \in Seq(Char) BY <1>1, FixedType
<1>3. Etoa(x, p, width_, fs) \in Seq(Char) BY EtoaType
<1>4. IsSpecial(x) => Special(x, width_, fs) \in Seq(Char) BY SpecialType
<1> QED BY <1>2, <1>3, <1>4 DEF Ftoa

LEMMA WordTypes ==
  ASSUME NEW n \in Int, NEW bits \in Nat \ {0}
  PROVE  Unsigned(n, bits) \in Nat /\ Signed(n, bits) \in Int
<1> DEFINE u == Unsigned(n, bits)
           P == Pow(2, bits)
<1>1. P \in Nat \ {0} BY PowType
<1>2. u \in Nat
  <2> HIDE DEF P
  <2>1. n % P \in 0..P-1 BY Zenon, <1>1, DivMod
  <2>2. n % P \in Nat BY <1>1, <2>1
  <2> QED BY <2>2 DEF Unsigned, P
<1>3. Signed(n, bits) = IF u < Pow(2, bits - 1) THEN u ELSE u - P BY DEF Signed
<1> HIDE DEF u, P
<1>4. Signed(n, bits) \in Int BY <1>1, <1>2, <1>3
<1> QED BY <1>2, <1>4 DEF u

LEMMA PaddedType ==
  ASSUME NEW s \in Seq(Char), width \in Int
  PROVE  Padded(s) \in Seq(Char)
<1>1. width - Len(s) \in Int BY LenProperties
<1>2. Pad(width - Len(s)) \in Seq(Char) BY <1>1, PadType
<1>3. s \o Pad(width - Len(s)) \in Seq(Char) /\ Pad(width - Len(s)) \o s \in Seq(Char)
  BY <1>2, ConcatProperties
<1> QED BY <1>3 DEF Padded

-----------------------------------------------------------------------------
(* What the program owes its formatter: an argument for every * and every  *)
(* conversion of the format, and for sprintf a buffer that holds the text  *)
(* and its terminator.                                                     *)
TakesArgument ==
  \/ at \in {"flags", "precision value"} /\ Sees({"*"})
  \/ /\ at = "specifier"
     /\ Sees({"d", "i", "u", "x", "X", "o", "b", "f", "F", "e", "E", "g", "G", "c", "s", "p"})
CallerContract ==
  /\ TakesArgument => va # <<>>
  /\ call.fn = "sprintf" /\ call.size > 0 => idx < call.size

(* The call, and what is left of its format and of its arguments.          *)
Reached == {x \in Argument : InReach(x)}
Reading ==
  /\ call \in Call /\ out = Output(call)
  /\ maxlen = IF call.fn \in {"snprintf", "vsnprintf"} THEN call.count ELSE UNLIMITED
  /\ format \in Seq(Char) /\ va \in Seq(Reached)
  /\ flags \subseteq Flag /\ width \in Nat /\ precision \in Nat /\ result \in Int
  /\ at \in {"text", "flags", "precision", "precision value", "length", "specifier", "puts", "returned"}
  /\ at = "puts" => call.fn = "puts" /\ emitted = <<>>

(* The text so far, and what there is of it in the buffer or the console.  *)
TextAt(i) == IF i < Written THEN emitted[i+1] ELSE "?"
Showing ==
  /\ emitted \in Seq(Char) /\ idx = Len(emitted) /\ console \in Seq(Char)
  /\ buffer \in [0..call.size-1 -> Char \cup {"?"}]
  /\ out \in {"_out_char", "_out_fct"} => console = Visible(emitted)
Filling ==
  at # "returned" /\ out = "_out_buffer" => \A i \in 0..call.size-1 : buffer[i] = TextAt(i)
Ended ==
  at = "returned" =>
    /\ result = Len(emitted)
    /\ out = "_out_buffer" =>
         \A i \in 0..call.size-1 :
           buffer[i] = IF maxlen > 0 /\ i = TerminatorAt THEN NUL ELSE TextAt(i)
FormatterInv == Reading /\ Showing /\ Filling /\ Ended

LEMMA CallFacts ==
  ASSUME Reading
  PROVE  /\ call.fn \in {"printf", "vprintf", "puts", "fctprintf", "sprintf", "snprintf", "vsnprintf"}
         /\ call.size \in Nat /\ call.count \in Nat /\ (call.size > 0 => call.count <= call.size)
         /\ maxlen \in Nat
         /\ out = "_out_buffer" <=> call.fn \in {"sprintf", "snprintf", "vsnprintf"} /\ call.size > 0
         /\ out \in {"_out_buffer", "_out_char", "_out_fct", "_out_null"}
<1>1. /\ call.fn \in {"printf", "vprintf", "puts", "fctprintf", "sprintf", "snprintf", "vsnprintf"}
      /\ call.size \in Nat /\ call.count \in Nat /\ (call.size > 0 => call.count <= call.size)
  BY CallAssumption DEF Reading
<1>2. maxlen \in Nat BY <1>1, SizeAssumption DEF Reading
<1>3. out = Output(call) BY DEF Reading
<1>4. out = "_out_buffer" <=> call.fn \in {"sprintf", "snprintf", "vsnprintf"} /\ call.size > 0
  BY <1>1, <1>3 DEF Output
<1>5. out \in {"_out_buffer", "_out_char", "_out_fct", "_out_null"} BY <1>3 DEF Output
<1> QED BY <1>1, <1>2, <1>4, <1>5

LEMMA InitFormatter == Init => FormatterInv
<1> SUFFICES ASSUME Init PROVE FormatterInv OBVIOUS
<1>1. /\ call.format \in Seq(Char) /\ call.va \in Seq(Argument) /\ call.size \in Nat
      /\ \A i \in 1..Len(call.va) : InReach(call.va[i])
  BY CallAssumption DEF Init, InReach
<1>2. call.va \in Seq(Reached)
  <2>1. /\ Len(call.va) \in Nat /\ DOMAIN call.va = 1..Len(call.va)
        /\ call.va \in [1..Len(call.va) -> Argument]
    BY <1>1, LenProperties
  <2>2. call.va \in [1..Len(call.va) -> Reached] BY <1>1, <2>1 DEF Reached
  <2> QED BY <2>1, <2>2
<1>3. Reading BY <1>1, <1>2 DEF Init, Reading
<1>4. Showing
  <2>1. <<>> \in Seq(Char) /\ Len(<<>>) = 0 BY EmptySeq
  <2>2. buffer \in [0..call.size-1 -> Char \cup {"?"}] BY DEF Init
  <2> QED BY <2>1, <2>2, VisibleEmpty DEF Init, Showing
<1>5. Filling
  <2>1. maxlen \in Nat /\ idx = 0 BY <1>3, CallFacts DEF Init
  <2>2. Written = 0 BY <2>1 DEF Written, Least
  <2>3. \A i \in 0..call.size-1 : ~(i < 0) /\ buffer[i] = "?" BY <1>1 DEF Init
  <2> QED BY <2>2, <2>3 DEF Filling, TextAt
<1>6. Ended BY DEF Init, Ended
<1> QED BY <1>3, <1>4, <1>5, <1>6 DEF FormatterInv

(* Text put out lands where the text so far ends, up to the limit.         *)
LEMMA EmitKeeps ==
  ASSUME FormatterInv, at # "returned", NEW s \in Seq(Char), Emit(s), Frame
  PROVE  /\ Showing' /\ idx' = idx + Len(s)
         /\ out = "_out_buffer" => \A i \in 0..call.size-1 : buffer'[i] = TextAt(i)'
<1>1. /\ emitted \in Seq(Char) /\ idx = Len(emitted) /\ console \in Seq(Char)
      /\ buffer \in [0..call.size-1 -> Char \cup {"?"}]
      /\ out \in {"_out_char", "_out_fct"} => console = Visible(emitted)
      /\ out = "_out_buffer" => \A i \in 0..call.size-1 : buffer[i] = TextAt(i)
  BY DEF FormatterInv, Showing, Filling
<1>2. /\ call' = call /\ out' = out /\ maxlen' = maxlen
      /\ buffer' = Store(s, idx) /\ console' = Show(s) /\ emitted' = emitted \o s /\ idx' = idx + Len(s)
  BY DEF Frame, Emit
<1>3. /\ maxlen \in Nat /\ call.size \in Nat BY CallFacts DEF FormatterInv
<1>4. /\ emitted' \in Seq(Char) /\ Len(emitted') = idx + Len(s) /\ idx \in Nat /\ Len(s) \in Nat
      /\ \A i \in 1..idx + Len(s) : emitted'[i] = IF i <= idx THEN emitted[i] ELSE s[i - idx]
  BY <1>1, <1>2, ConcatProperties, LenProperties
<1>5. console' \in Seq(Char) /\ (out \in {"_out_char", "_out_fct"} => console' = Visible(emitted'))
  <2>1. Visible(s) \in Seq(Char) /\ Visible(emitted \o s) = Visible(emitted) \o Visible(s)
    BY <1>1, VisibleType, VisibleConcat
  <2>2. CASE out \in {"_out_char", "_out_fct"}
    <3>1. console' = console \o Visible(s) BY <1>2, <2>2 DEF Show
    <3>2. console \o Visible(s) \in Seq(Char) BY <1>1, <2>1, ConcatProperties
    <3> QED BY <1>1, <1>2, <2>1, <2>2, <3>1, <3>2
  <2>3. CASE out \notin {"_out_char", "_out_fct"} BY <1>1, <1>2, <2>3 DEF Show
  <2> QED BY <2>2, <2>3
<1>6. \A i \in 1..Len(s) : s[i] \in Char BY ElementOfSeq
<1>7. CASE out # "_out_buffer"
  <2>1. buffer' = buffer BY <1>2, <1>7 DEF Store
  <2> QED BY <1>1, <1>2, <1>4, <1>5, <1>7, <2>1 DEF Showing
<1>8. CASE out = "_out_buffer"
  <2> DEFINE D == 0..call.size-1
             put(i) == IF i \in idx..idx+Len(s)-1 /\ i < maxlen THEN s[i-idx+1] ELSE buffer[i]
  <2>1. buffer' = [i \in D |-> put(i)] BY <1>1, <1>2, <1>8 DEF Store
  <2>2. ASSUME NEW i \in D PROVE put(i) \in Char \cup {"?"}
    <3>1. CASE i \in idx..idx+Len(s)-1 /\ i < maxlen
      <4>1. i - idx + 1 \in 1..Len(s) BY <1>4, <3>1
      <4> QED BY <1>6, <3>1, <4>1
    <3>2. CASE ~(i \in idx..idx+Len(s)-1 /\ i < maxlen) BY <1>1, <3>2
    <3> QED BY <3>1, <3>2
  <2>3. ASSUME NEW i \in D PROVE put(i) = TextAt(i)'
    <3>1. i \in Nat /\ buffer[i] = TextAt(i) BY <1>1, <1>3, <1>8
    <3>2. TextAt(i)' = IF i < Least(idx + Len(s), maxlen) THEN emitted'[i+1] ELSE "?"
      BY <1>2 DEF TextAt, Written
    <3>3. TextAt(i) = IF i < Least(idx, maxlen) THEN emitted[i+1] ELSE "?" BY DEF TextAt, Written
    <3>4. CASE i < idx
      <4>1. i + 1 \in 1..idx + Len(s) /\ i + 1 <= idx /\ i \notin idx..idx+Len(s)-1 BY <1>4, <3>1, <3>4
      <4>2. put(i) = buffer[i] /\ emitted'[i+1] = emitted[i+1] BY <1>4, <4>1
      <4>3. i < Least(idx + Len(s), maxlen) <=> i < Least(idx, maxlen) BY <1>3, <1>4, <3>1, <3>4 DEF Least
      <4> HIDE DEF put
      <4> QED BY <3>1, <3>2, <3>3, <4>2, <4>3
    <3>5. CASE idx <= i /\ i < idx + Len(s)
      <4>1. i + 1 \in 1..idx + Len(s) /\ ~(i + 1 <= idx) /\ i + 1 - idx = i - idx + 1
            /\ i \in idx..idx+Len(s)-1
        BY <1>4, <3>1, <3>5
      <4>2. emitted'[i+1] = s[i - idx + 1] BY <1>4, <4>1
      <4>3. ~(i < Least(idx, maxlen)) /\ (i < Least(idx + Len(s), maxlen) <=> i < maxlen)
        BY <1>3, <1>4, <3>1, <3>5 DEF Least
      <4>4. put(i) = IF i < maxlen THEN s[i - idx + 1] ELSE buffer[i] BY <4>1
      <4> HIDE DEF put
      <4> QED BY <3>1, <3>2, <3>3, <4>2, <4>3, <4>4
    <3>6. CASE i >= idx + Len(s)
      <4>1. i \notin idx..idx+Len(s)-1 BY <1>4, <3>1, <3>6
      <4>2. ~(i < Least(idx, maxlen)) /\ ~(i < Least(idx + Len(s), maxlen)) BY <1>3, <1>4, <3>1, <3>6 DEF Least
      <4>3. put(i) = buffer[i] BY <4>1
      <4> HIDE DEF put
      <4> QED BY <3>1, <3>2, <3>3, <4>2, <4>3
    <3> QED BY <1>4, <3>1, <3>4, <3>5, <3>6
  <2> HIDE DEF put
  <2>4. buffer' \in [D -> Char \cup {"?"}] /\ \A i \in D : buffer'[i] = TextAt(i)' BY <2>1, <2>2, <2>3
  <2> QED BY <1>2, <1>4, <1>5, <2>4 DEF Showing
<1> QED BY <1>7, <1>8

(* A step over the format changes nothing that is shown.                   *)
LEMMA SilentKeeps ==
  ASSUME FormatterInv, at # "returned", Silent, at' # "returned"
  PROVE  Showing' /\ Filling' /\ Ended'
<1>1. /\ call' = call /\ out' = out /\ maxlen' = maxlen
      /\ idx' = idx /\ buffer' = buffer /\ console' = console /\ emitted' = emitted
  BY DEF Silent, Frame
<1>2. Showing' BY <1>1 DEF FormatterInv, Showing
<1>3. \A i : TextAt(i)' = TextAt(i) BY <1>1 DEF TextAt, Written
<1>4. Filling' BY <1>1, <1>3 DEF FormatterInv, Filling
<1> QED BY <1>2, <1>4 DEF Ended

LEMMA FormatFacts ==
  ASSUME Reading, format # <<>>
  PROVE  Head(format) \in Char /\ Tail(format) \in Seq(Char)
BY HeadTailProperties DEF Reading

LEMMA ArgumentFacts ==
  ASSUME Reading, va # <<>>
  PROVE  /\ Head(va) \in Argument /\ InReach(Head(va)) /\ Tail(va) \in Seq(Reached)
         /\ Head(va).n \in Int /\ Head(va).s \in Seq(Char)
<1>1. va \in Seq(Reached) BY DEF Reading
<1>2. Head(va) \in Reached /\ Tail(va) \in Seq(Reached) BY <1>1, HeadTailProperties
<1>3. Head(va) \in Argument /\ InReach(Head(va)) BY <1>2 DEF Reached
<1> QED BY <1>2, <1>3 DEF Argument

(* The steps over one field of the format.                                 *)
LEMMA PercentKeeps == FormatterInv /\ Percent => FormatterInv'
<1> SUFFICES ASSUME FormatterInv, Percent PROVE FormatterInv' OBVIOUS
<1>1. at = "text" /\ at' = "flags" /\ format # <<>> /\ Silent BY DEF Percent, Sees
<1>2. Showing' /\ Filling' /\ Ended' BY <1>1, SilentKeeps
<1>3. Reading /\ Tail(format) \in Seq(Char) BY <1>1, FormatFacts DEF FormatterInv
<1>4. Reading' BY <1>3 DEF Percent, Reading, Silent, Frame
<1> QED BY <1>2, <1>4 DEF FormatterInv

LEMMA ReadFlagKeeps == FormatterInv /\ ReadFlag => FormatterInv'
<1> SUFFICES ASSUME FormatterInv, ReadFlag PROVE FormatterInv' OBVIOUS
<1>1. at = "flags" /\ at' = "flags" /\ format # <<>> /\ Silent /\ Head(format) \in DOMAIN FlagOf
  BY DEF ReadFlag, Sees
<1>2. Showing' /\ Filling' /\ Ended' BY <1>1, SilentKeeps
<1>3. Reading /\ Tail(format) \in Seq(Char) BY <1>1, FormatFacts DEF FormatterInv
<1>4. \A c \in DOMAIN FlagOf : FlagOf[c] \in Flag BY DEF FlagOf, Flag
<1>5. flags' \subseteq Flag BY <1>1, <1>3, <1>4 DEF ReadFlag, Reading
<1>6. Reading' BY <1>3, <1>5 DEF ReadFlag, Reading, Silent, Frame
<1> QED BY <1>2, <1>6 DEF FormatterInv

LEMMA ReadWidthKeeps == FormatterInv /\ CallerContract /\ ReadWidth => FormatterInv'
<1> SUFFICES ASSUME FormatterInv, CallerContract, ReadWidth PROVE FormatterInv' OBVIOUS
<1>1. at = "flags" /\ at' = "precision" /\ Silent /\ precision' = precision BY DEF ReadWidth
<1>2. Showing' /\ Filling' /\ Ended' BY <1>1, SilentKeeps
<1>3. Reading BY DEF FormatterInv
<1>4. format \in Seq(Char) /\ va \in Seq(Reached) /\ flags \subseteq Flag /\ width \in Nat
  BY <1>3 DEF Reading
<1>5. format' \in Seq(Char) /\ va' \in Seq(Reached) /\ flags' \subseteq Flag /\ width' \in Nat
  <2>1. CASE Sees(Decimal) /\ width' = Atoi[1] /\ format' = Rest(format, Atoi[2])
             /\ va' = va /\ flags' = flags
    <3>1. Atoi[1] \in Nat /\ Atoi[2] \in Nat BY <1>4, AtoiType
    <3>2. Rest(format, Atoi[2]) \in Seq(Char) BY <1>4, <3>1, RestType
    <3> QED BY <1>4, <2>1, <3>1, <3>2
  <2>2. CASE Sees({"*"}) /\ width' = StarWidth /\ format' = Tail(format) /\ va' = Tail(va)
             /\ flags' = flags \cup (IF Head(va).n < 0 THEN {"LEFT"} ELSE {})
    <3>1. va # <<>> /\ format # <<>> BY <1>1, <2>2 DEF CallerContract, TakesArgument, Sees
    <3>2. Tail(va) \in Seq(Reached) /\ Head(va).n \in Int BY <1>3, <3>1, ArgumentFacts
    <3>3. StarWidth \in Nat BY <3>2, AbsType DEF StarWidth
    <3>4. Tail(format) \in Seq(Char) BY <1>3, <3>1, FormatFacts
    <3>5. "LEFT" \in Flag BY DEF Flag
    <3>6. flags' \subseteq Flag BY <1>4, <2>2, <3>5
    <3> QED BY <2>2, <3>2, <3>3, <3>4, <3>6
  <2>3. CASE format' = format /\ va' = va /\ flags' = flags /\ width' = width BY <1>4, <2>3
  <2> QED BY <2>1, <2>2, <2>3 DEF ReadWidth
<1>6. Reading' BY <1>1, <1>3, <1>5 DEF Reading, Silent, Frame
<1> QED BY <1>2, <1>6 DEF FormatterInv

LEMMA ReadPrecisionKeeps == FormatterInv /\ ReadPrecision => FormatterInv'
<1> SUFFICES ASSUME FormatterInv, ReadPrecision PROVE FormatterInv' OBVIOUS
<1>1. at = "precision" /\ at' \in {"precision value", "length"} /\ Silent
      /\ va' = va /\ width' = width /\ precision' = precision
  BY DEF ReadPrecision
<1>2. Showing' /\ Filling' /\ Ended' BY <1>1, SilentKeeps
<1>3. Reading BY DEF FormatterInv
<1>4. format' \in Seq(Char) /\ flags' \subseteq Flag
  <2>1. CASE Sees({"."}) /\ format' = Tail(format) /\ flags' = flags \cup {"PRECISION"}
    <3>1. Tail(format) \in Seq(Char) BY <1>3, <2>1, FormatFacts DEF Sees
    <3>2. "PRECISION" \in Flag BY DEF Flag
    <3> QED BY <1>3, <2>1, <3>1, <3>2 DEF Reading
  <2>2. CASE format' = format /\ flags' = flags BY <1>3, <2>2 DEF Reading
  <2> QED BY <2>1, <2>2 DEF ReadPrecision
<1>5. Reading' BY <1>1, <1>3, <1>4 DEF Reading, Silent, Frame
<1> QED BY <1>2, <1>5 DEF FormatterInv

LEMMA ReadPrecisionValueKeeps == FormatterInv /\ CallerContract /\ ReadPrecisionValue => FormatterInv'
<1> SUFFICES ASSUME FormatterInv, CallerContract, ReadPrecisionValue PROVE FormatterInv' OBVIOUS
<1>1. at = "precision value" /\ at' = "length" /\ Silent /\ flags' = flags /\ width' = width
  BY DEF ReadPrecisionValue
<1>2. Showing' /\ Filling' /\ Ended' BY <1>1, SilentKeeps
<1>3. Reading BY DEF FormatterInv
<1>4. format \in Seq(Char) /\ va \in Seq(Reached) /\ precision \in Nat BY <1>3 DEF Reading
<1>5. format' \in Seq(Char) /\ va' \in Seq(Reached) /\ precision' \in Nat
  <2>1. CASE Sees(Decimal) /\ precision' = Atoi[1] /\ format' = Rest(format, Atoi[2]) /\ va' = va
    <3>1. Atoi[1] \in Nat /\ Atoi[2] \in Nat BY <1>4, AtoiType
    <3>2. Rest(format, Atoi[2]) \in Seq(Char) BY <1>4, <3>1, RestType
    <3> QED BY <1>4, <2>1, <3>1, <3>2
  <2>2. CASE Sees({"*"}) /\ precision' = (IF Head(va).n > 0 THEN Head(va).n ELSE 0)
             /\ format' = Tail(format) /\ va' = Tail(va)
    <3>1. va # <<>> /\ format # <<>> BY <1>1, <2>2 DEF CallerContract, TakesArgument, Sees
    <3>2. Tail(va) \in Seq(Reached) /\ Head(va).n \in Int BY <1>3, <3>1, ArgumentFacts
    <3>3. precision' \in Nat BY <2>2, <3>2
    <3>4. Tail(format) \in Seq(Char) BY <1>3, <3>1, FormatFacts
    <3> QED BY <2>2, <3>2, <3>3, <3>4
  <2>3. CASE format' = format /\ va' = va /\ precision' = precision BY <1>4, <2>3
  <2> QED BY <2>1, <2>2, <2>3 DEF ReadPrecisionValue
<1>6. Reading' BY <1>1, <1>3, <1>5 DEF Reading, Silent, Frame
<1> QED BY <1>2, <1>6 DEF FormatterInv

LEMMA LengthType ==
  ASSUME NEW s
  PROVE  Length(s)[1] \subseteq Flag /\ Length(s)[2] \in Nat
<1>1. {"LONG", "LONG_LONG", "SHORT", "CHAR"} \subseteq Flag BY DEF Flag
<1>2. Length(s) \in {<<{"LONG", "LONG_LONG"}, 2>>, <<{"SHORT", "CHAR"}, 2>>, <<{"SHORT"}, 1>>,
                     <<{"LONG_LONG"}, 1>>, <<{"LONG"}, 1>>}
  BY DEF Length
<1> QED BY <1>1, <1>2

LEMMA ReadLengthKeeps == FormatterInv /\ ReadLength => FormatterInv'
<1> SUFFICES ASSUME FormatterInv, ReadLength PROVE FormatterInv' OBVIOUS
<1>1. at = "length" /\ at' = "specifier" /\ Silent /\ va' = va /\ width' = width /\ precision' = precision
  BY DEF ReadLength
<1>2. Showing' /\ Filling' /\ Ended' BY <1>1, SilentKeeps
<1>3. Reading BY DEF FormatterInv
<1>4. format \in Seq(Char) /\ flags \subseteq Flag BY <1>3 DEF Reading
<1>5. format' \in Seq(Char) /\ flags' \subseteq Flag
  <2>1. Length(format)[1] \subseteq Flag /\ Length(format)[2] \in Nat BY LengthType
  <2>2. CASE flags' = flags \cup Length(format)[1] /\ format' = Rest(format, Length(format)[2])
    <3>1. Rest(format, Length(format)[2]) \in Seq(Char) BY <1>4, <2>1, RestType
    <3> QED BY <1>4, <2>1, <2>2, <3>1
  <2>3. CASE format' = format /\ flags' = flags BY <1>4, <2>3
  <2> QED BY <2>2, <2>3 DEF ReadLength
<1>6. Reading' BY <1>1, <1>3, <1>5 DEF Reading, Silent, Frame
<1> QED BY <1>2, <1>6 DEF FormatterInv

(* The steps that put text out.                                            *)
LEMMA ConvertKeeps ==
  ASSUME FormatterInv, at = "specifier", format # <<>>, NEW s \in Seq(Char), NEW n \in Nat, Convert(s, n)
  PROVE  FormatterInv'
<1>1. /\ at' = "text" /\ Emit(s) /\ Frame /\ UNCHANGED directive /\ result' = result
      /\ format' = Tail(format) /\ va' = Rest(va, n)
  BY DEF Convert
<1>2. Showing' /\ (out = "_out_buffer" => \A i \in 0..call.size-1 : buffer'[i] = TextAt(i)')
  BY <1>1, EmitKeeps
<1>3. call' = call /\ out' = out /\ maxlen' = maxlen BY <1>1 DEF Frame
<1>4. Filling' BY <1>2, <1>3 DEF Filling
<1>5. Ended' BY <1>1 DEF Ended
<1>6. Tail(format) \in Seq(Char) BY FormatFacts DEF FormatterInv
<1>7. Rest(va, n) \in Seq(Reached) BY RestType DEF FormatterInv, Reading
<1>8. Reading' BY <1>1, <1>3, <1>6, <1>7 DEF FormatterInv, Reading, directive
<1> QED BY <1>2, <1>4, <1>5, <1>8 DEF FormatterInv

LEMMA SpecifierFacts ==
  ASSUME FormatterInv, CallerContract, at = "specifier",
         Sees({"d", "i", "u", "x", "X", "o", "b", "f", "F", "e", "E", "g", "G", "c", "s", "p"})
  PROVE  /\ format # <<>> /\ Head(va) \in Argument /\ InReach(Head(va))
         /\ Head(va).n \in Int /\ Head(va).s \in Seq(Char)
         /\ width \in Nat /\ width \in Int /\ precision \in Nat /\ precision \in Int
<1>1. va # <<>> /\ format # <<>> BY DEF CallerContract, TakesArgument, Sees
<1>2. Reading /\ width \in Nat /\ precision \in Nat BY DEF FormatterInv, Reading
<1> QED BY <1>1, <1>2, ArgumentFacts

LEMMA IntegerKeeps == FormatterInv /\ CallerContract /\ Integer => FormatterInv'
<1> SUFFICES ASSUME FormatterInv, CallerContract, Integer PROVE FormatterInv' OBVIOUS
<1> DEFINE c == Head(format)
           v == ArgValue(c)
           s == NtoaLong(Abs(v), v < 0, Base(c), precision, width, IntegerFlags(c))
<1>1. at = "specifier" /\ Sees({"d", "i", "u", "x", "X", "o", "b"}) /\ Convert(s, 1) BY DEF Integer
<1>2. /\ format # <<>> /\ Head(va).n \in Int /\ width \in Int /\ precision \in Int
  <2>1. Sees({"d", "i", "u", "x", "X", "o", "b", "f", "F", "e", "E", "g", "G", "c", "s", "p"})
    BY <1>1 DEF Sees
  <2> QED BY <1>1, <2>1, SpecifierFacts
<1>3. ArgBits \in Nat \ {0} BY SizeAssumption DEF ArgBits, MAX_DIGITS
<1>4. v \in Int
  <2>1. Unsigned(Head(va).n, ArgBits) \in Nat /\ Signed(Head(va).n, ArgBits) \in Int
    BY <1>2, <1>3, WordTypes
  <2>2. Unsigned(Head(va).n, ArgBits) \in Int BY <2>1
  <2> QED BY <2>1, <2>2 DEF ArgValue
<1>5. Base(c) \in 1..16 BY DEF Base
<1> HIDE DEF c, v
<1>6. Abs(v) \in Nat BY <1>4, AbsType
<1>7. s \in Seq(Char) BY <1>2, <1>5, <1>6, NtoaLongType
<1> HIDE DEF s
<1> QED BY <1>1, <1>2, <1>7, ConvertKeeps

LEMMA FloatKeeps == FormatterInv /\ CallerContract /\ Float => FormatterInv'
<1> SUFFICES ASSUME FormatterInv, CallerContract, Float PROVE FormatterInv' OBVIOUS
<1> DEFINE fs == IF Head(format) = "F" THEN flags \cup {"UPPERCASE"} ELSE flags
           s  == Ftoa(Head(va), precision, width, fs)
<1>1. at = "specifier" /\ Sees({"f", "F"}) /\ Convert(s, 1) BY DEF Float
<1>2. /\ format # <<>> /\ Head(va) \in Argument /\ InReach(Head(va)) /\ width \in Int /\ precision \in Nat
  <2>1. Sees({"d", "i", "u", "x", "X", "o", "b", "f", "F", "e", "E", "g", "G", "c", "s", "p"})
    BY <1>1 DEF Sees
  <2> QED BY <1>1, <2>1, SpecifierFacts
<1> HIDE DEF fs
<1>3. s \in Seq(Char) BY <1>2, FtoaType
<1> HIDE DEF s
<1> QED BY <1>1, <1>2, <1>3, ConvertKeeps

LEMMA ExponentialKeeps == FormatterInv /\ CallerContract /\ Exponential => FormatterInv'
<1> SUFFICES ASSUME FormatterInv, CallerContract, Exponential PROVE FormatterInv' OBVIOUS
<1> DEFINE fs == flags \cup (IF Sees({"g", "G"}) THEN {"ADAPT_EXP"} ELSE {})
                       \cup (IF Sees({"E", "G"}) THEN {"UPPERCASE"} ELSE {})
           s  == Etoa(Head(va), precision, width, fs)
<1>1. at = "specifier" /\ Sees({"e", "E", "g", "G"}) /\ Convert(s, 1) BY DEF Exponential
<1>2. /\ format # <<>> /\ Head(va) \in Argument /\ InReach(Head(va)) /\ width \in Int /\ precision \in Nat
  <2>1. Sees({"d", "i", "u", "x", "X", "o", "b", "f", "F", "e", "E", "g", "G", "c", "s", "p"})
    BY <1>1 DEF Sees
  <2> QED BY <1>1, <2>1, SpecifierFacts
<1> HIDE DEF fs
<1>3. s \in Seq(Char) BY <1>2, EtoaType
<1> HIDE DEF s
<1> QED BY <1>1, <1>2, <1>3, ConvertKeeps

LEMMA CharacterKeeps == FormatterInv /\ CallerContract /\ Character => FormatterInv'
<1> SUFFICES ASSUME FormatterInv, CallerContract, Character PROVE FormatterInv' OBVIOUS
<1>1. at = "specifier" /\ Sees({"c"}) /\ Convert(Padded(Head(va).s), 1) BY DEF Character
<1>2. format # <<>> /\ Head(va).s \in Seq(Char) /\ width \in Int
  <2>1. Sees({"d", "i", "u", "x", "X", "o", "b", "f", "F", "e", "E", "g", "G", "c", "s", "p"})
    BY <1>1 DEF Sees
  <2> QED BY <1>1, <2>1, SpecifierFacts
<1>3. Padded(Head(va).s) \in Seq(Char) BY <1>2, PaddedType
<1> QED BY <1>1, <1>2, <1>3, ConvertKeeps

LEMMA StringKeeps == FormatterInv /\ CallerContract /\ String => FormatterInv'
<1> SUFFICES ASSUME FormatterInv, CallerContract, String PROVE FormatterInv' OBVIOUS
<1> DEFINE s == IF "PRECISION" \in flags THEN Fit(Head(va).s, precision) ELSE Head(va).s
<1>1. at = "specifier" /\ Sees({"s"}) /\ Convert(Padded(s), 1) BY DEF String
<1>2. format # <<>> /\ Head(va).s \in Seq(Char) /\ width \in Int /\ precision \in Nat
  <2>1. Sees({"d", "i", "u", "x", "X", "o", "b", "f", "F", "e", "E", "g", "G", "c", "s", "p"})
    BY <1>1 DEF Sees
  <2> QED BY <1>1, <2>1, SpecifierFacts
<1>3. Fit(Head(va).s, precision) \in Seq(Char) BY <1>2, FitType
<1>4. s \in Seq(Char) BY <1>2, <1>3
<1> HIDE DEF s
<1>5. Padded(s) \in Seq(Char) BY <1>2, <1>4, PaddedType
<1> QED BY <1>1, <1>2, <1>5, ConvertKeeps

LEMMA PointerKeeps == FormatterInv /\ CallerContract /\ Pointer => FormatterInv'
<1> SUFFICES ASSUME FormatterInv, CallerContract, Pointer PROVE FormatterInv' OBVIOUS
<1> DEFINE w == Bits.int \div 4
           v == Unsigned(Head(va).n, Bits.int)
           s == NtoaLong(v, FALSE, 16, precision, w, flags \cup {"ZEROPAD", "UPPERCASE"})
<1>1. at = "specifier" /\ Sees({"p"}) /\ Convert(s, 1) BY DEF Pointer
<1>2. format # <<>> /\ Head(va).n \in Int /\ precision \in Int
  <2>1. Sees({"d", "i", "u", "x", "X", "o", "b", "f", "F", "e", "E", "g", "G", "c", "s", "p"})
    BY <1>1 DEF Sees
  <2> QED BY <1>1, <2>1, SpecifierFacts
<1>3. Bits.int \in Nat \ {0} BY SizeAssumption DEF MAX_DIGITS
<1>4. v \in Nat BY <1>2, <1>3, WordTypes
<1>5. w \in Int
  <2>1. 4 \in Nat \ {0} OBVIOUS
  <2>2. w \in Nat BY Zenon, <1>3, <2>1, DivMod
  <2> HIDE DEF w
  <2> QED BY <2>2
<1> HIDE DEF v, w
<1>6. s \in Seq(Char)
  <2>1. 16 \in 1..16 OBVIOUS
  <2> QED BY Zenon, <1>2, <1>4, <1>5, <2>1, NtoaLongType
<1> HIDE DEF s
<1> QED BY <1>1, <1>2, <1>6, ConvertKeeps

LEMMA OtherKeeps == FormatterInv /\ Other => FormatterInv'
<1> SUFFICES ASSUME FormatterInv, Other PROVE FormatterInv' OBVIOUS
<1>1. at = "specifier" /\ format # <<>> /\ Convert(<<Head(format)>>, 0) BY DEF Other
<1>2. <<Head(format)>> \in Seq(Char) BY <1>1, FormatFacts, ShortText DEF FormatterInv
<1> QED BY <1>1, <1>2, ConvertKeeps

LEMMA LiteralKeeps == FormatterInv /\ Literal => FormatterInv'
<1> SUFFICES ASSUME FormatterInv, Literal PROVE FormatterInv' OBVIOUS
<1> DEFINE s == <<Head(format)>>
<1>1. /\ at = "text" /\ at' = "text" /\ format # <<>> /\ Emit(s) /\ Frame /\ UNCHANGED directive
      /\ result' = result /\ format' = Tail(format) /\ va' = va
  BY DEF Literal
<1>2. s \in Seq(Char) /\ Tail(format) \in Seq(Char) BY <1>1, FormatFacts, ShortText DEF FormatterInv
<1> HIDE DEF s
<1>3. Showing' /\ (out = "_out_buffer" => \A i \in 0..call.size-1 : buffer'[i] = TextAt(i)')
  BY <1>1, <1>2, EmitKeeps
<1>4. call' = call /\ out' = out /\ maxlen' = maxlen BY <1>1 DEF Frame
<1>5. Filling' BY <1>3, <1>4 DEF Filling
<1>6. Ended' BY <1>1 DEF Ended
<1>7. Reading' BY <1>1, <1>2, <1>4 DEF FormatterInv, Reading, directive
<1> QED BY <1>3, <1>5, <1>6, <1>7 DEF FormatterInv

(* The terminator falls into the caller's buffer, not behind the text.     *)
LEMMA TerminatorPlace ==
  ASSUME FormatterInv, CallerContract, out = "_out_buffer", maxlen > 0
  PROVE  /\ TerminatorAt \in 0..call.size-1 /\ TerminatorAt < maxlen /\ TerminatorAt <= idx
         /\ TerminatorAt \in Nat
<1>1. Reading /\ Showing BY DEF FormatterInv
<1>2. /\ call.fn \in {"sprintf", "snprintf", "vsnprintf"} /\ call.size > 0
      /\ call.size \in Nat /\ call.count \in Nat /\ call.count <= call.size /\ maxlen \in Nat
  BY <1>1, CallFacts
<1>3. idx \in Nat BY <1>1, LenProperties DEF Showing
<1>4. CASE call.fn = "sprintf"
  <2>1. idx < call.size BY <1>2, <1>4 DEF CallerContract
  <2> QED BY <1>2, <1>3, <2>1 DEF TerminatorAt, Least
<1>5. CASE call.fn \in {"snprintf", "vsnprintf"}
  <2>1. maxlen = call.count BY <1>1, <1>5 DEF Reading
  <2> QED BY <1>2, <1>3, <2>1 DEF TerminatorAt, Least
<1> QED BY <1>2, <1>4, <1>5

LEMMA TerminateKeeps == FormatterInv /\ CallerContract /\ Terminate => FormatterInv'
<1> SUFFICES ASSUME FormatterInv, CallerContract, Terminate PROVE FormatterInv' OBVIOUS
<1>1. /\ at = "text" /\ at' = "returned" /\ result' = idx
      /\ buffer' = IF maxlen = 0 THEN buffer ELSE Store(<<NUL>>, TerminatorAt)
      /\ format' = format /\ va' = va /\ directive' = directive
      /\ idx' = idx /\ console' = console /\ emitted' = emitted
      /\ call' = call /\ out' = out /\ maxlen' = maxlen
  BY DEF Terminate, Frame
<1>2. Reading /\ Showing /\ Filling BY DEF FormatterInv
<1>3. idx \in Nat /\ maxlen \in Nat /\ idx = Len(emitted) /\ call.size \in Nat
  BY <1>2, CallFacts, LenProperties DEF Showing
<1>4. buffer \in [0..call.size-1 -> Char \cup {"?"}] BY <1>2 DEF Showing
<1>5. Reading' BY <1>1, <1>2, <1>3 DEF Reading, directive
<1>6. \A i : TextAt(i)' = TextAt(i) BY <1>1 DEF TextAt, Written
<1>7. TerminatorAt' = TerminatorAt BY <1>1 DEF TerminatorAt
<1>8. /\ buffer' \in [0..call.size-1 -> Char \cup {"?"}]
      /\ out = "_out_buffer" =>
           \A i \in 0..call.size-1 :
             buffer'[i] = IF maxlen > 0 /\ i = TerminatorAt THEN NUL ELSE TextAt(i)
  <2>1. CASE out # "_out_buffer"
    <3>1. buffer' = buffer BY <1>1, <2>1 DEF Store
    <3> QED BY <1>4, <2>1, <3>1
  <2>2. CASE out = "_out_buffer" /\ maxlen = 0
    <3>1. \A i \in 0..call.size-1 : buffer[i] = TextAt(i) BY <1>1, <1>2, <2>2 DEF Filling
    <3> QED BY <1>1, <1>4, <2>2, <3>1
  <2>3. CASE out = "_out_buffer" /\ maxlen > 0
    <3> DEFINE t == TerminatorAt
    <3>1. \A i \in 0..call.size-1 : buffer[i] = TextAt(i) BY <1>1, <1>2, <2>3 DEF Filling
    <3>2. t \in Nat /\ t < maxlen BY <2>3, TerminatorPlace
    <3>3. buffer' = Store(<<NUL>>, t) BY <1>1, <1>3, <2>3
    <3> HIDE DEF t
    <3>4. Len(<<NUL>>) = 1 /\ <<NUL>>[1] = NUL OBVIOUS
    <3>5. NUL \in Char BY DEF Char
    <3>6. ASSUME NEW i \in 0..call.size-1
          PROVE  /\ i \in t..t+1-1 /\ i < maxlen <=> i = t
                 /\ i = t => i - t + 1 = 1
      BY <1>3, <3>2
    <3>7. buffer' = [i \in 0..call.size-1 |-> IF i = t THEN NUL ELSE buffer[i]]
      <4>1. buffer' = [i \in 0..call.size-1 |->
                         IF i \in t..t+Len(<<NUL>>)-1 /\ i < maxlen THEN <<NUL>>[i-t+1] ELSE buffer[i]]
        BY <1>4, <2>3, <3>3 DEF Store
      <4> QED BY <3>4, <3>6, <4>1
    <3>8. buffer' \in [0..call.size-1 -> Char \cup {"?"}] BY <1>4, <3>5, <3>7
    <3>9. \A i \in 0..call.size-1 : buffer'[i] = IF i = t THEN NUL ELSE TextAt(i) BY <3>1, <3>7
    <3> QED BY <2>3, <3>8, <3>9 DEF t
  <2> QED BY <1>3, <2>1, <2>2, <2>3
<1>9. Showing' BY <1>1, <1>2, <1>8 DEF Showing
<1>10. Filling' BY <1>1 DEF Filling
<1>11. Ended' BY <1>1, <1>3, <1>6, <1>7, <1>8 DEF Ended
<1> QED BY <1>5, <1>9, <1>10, <1>11 DEF FormatterInv

LEMMA PutsKeeps == FormatterInv /\ Puts => FormatterInv'
<1> SUFFICES ASSUME FormatterInv, Puts PROVE FormatterInv' OBVIOUS
<1> DEFINE s == format \o <<"\n">>
<1>1. /\ at = "puts" /\ at' = "returned" /\ result' = Len(format) + 1 /\ Emit(s) /\ Frame
      /\ format' = format /\ va' = va /\ UNCHANGED directive
  BY DEF Puts
<1>2. Reading BY DEF FormatterInv
<1>3. format \in Seq(Char) /\ emitted = <<>> /\ call.fn = "puts" BY <1>1, <1>2 DEF Reading
<1>4. <<"\n">> \in Seq(Char) /\ Len(<<"\n">>) = 1
  <2>1. "\n" \in Char BY DEF Char
  <2> QED BY <2>1, ShortText
<1>5. s \in Seq(Char) /\ Len(s) = Len(format) + 1 BY <1>3, <1>4, ConcatProperties
<1> HIDE DEF s
<1>6. Showing' BY <1>1, <1>5, EmitKeeps
<1>7. call' = call /\ out' = out /\ maxlen' = maxlen /\ emitted' = emitted \o s BY <1>1 DEF Frame, Emit
<1>8. emitted' = s BY <1>3, <1>5, <1>7, ConcatProperties
<1>9. result' \in Int /\ result' = Len(emitted') BY <1>1, <1>3, <1>5, <1>8, LenProperties
<1>10. Reading' BY <1>1, <1>2, <1>7, <1>9 DEF Reading, directive
<1>11. Filling' BY <1>1 DEF Filling
<1>12. Ended'
  <2>1. out # "_out_buffer" BY <1>2, <1>3, CallFacts
  <2> QED BY <1>7, <1>9, <2>1 DEF Ended
<1> QED BY <1>6, <1>10, <1>11, <1>12 DEF FormatterInv

LEMMA StutterKeeps == FormatterInv /\ UNCHANGED vars => FormatterInv'
<1> SUFFICES ASSUME FormatterInv, UNCHANGED vars PROVE FormatterInv' OBVIOUS
<1>1. /\ call' = call /\ out' = out /\ maxlen' = maxlen /\ format' = format /\ va' = va
      /\ flags' = flags /\ width' = width /\ precision' = precision /\ at' = at /\ result' = result
      /\ idx' = idx /\ buffer' = buffer /\ console' = console /\ emitted' = emitted
  BY DEF vars, directive
<1>2. Reading' BY <1>1 DEF FormatterInv, Reading
<1>3. Showing' BY <1>1 DEF FormatterInv, Showing
<1>4. \A i : TextAt(i)' = TextAt(i) BY <1>1 DEF TextAt, Written
<1>5. Filling' BY <1>1, <1>4 DEF FormatterInv, Filling
<1>6. TerminatorAt' = TerminatorAt BY <1>1 DEF TerminatorAt
<1>7. Ended' BY <1>1, <1>4, <1>6 DEF FormatterInv, Ended
<1> QED BY <1>2, <1>3, <1>5, <1>7 DEF FormatterInv

LEMMA StepFormatter == FormatterInv /\ CallerContract /\ [Next]_vars => FormatterInv'
<1> SUFFICES ASSUME FormatterInv, CallerContract, [Next]_vars PROVE FormatterInv' OBVIOUS
<1>1. CASE Literal BY <1>1, LiteralKeeps
<1>2. CASE Percent BY <1>2, PercentKeeps
<1>3. CASE ReadFlag BY <1>3, ReadFlagKeeps
<1>4. CASE ReadWidth BY <1>4, ReadWidthKeeps
<1>5. CASE ReadPrecision BY <1>5, ReadPrecisionKeeps
<1>6. CASE ReadPrecisionValue BY <1>6, ReadPrecisionValueKeeps
<1>7. CASE ReadLength BY <1>7, ReadLengthKeeps
<1>8. CASE Integer BY <1>8, IntegerKeeps
<1>9. CASE Float BY <1>9, FloatKeeps
<1>10. CASE Exponential BY <1>10, ExponentialKeeps
<1>11. CASE Character BY <1>11, CharacterKeeps
<1>12. CASE String BY <1>12, StringKeeps
<1>13. CASE Pointer BY <1>13, PointerKeeps
<1>14. CASE Other BY <1>14, OtherKeeps
<1>15. CASE Terminate BY <1>15, TerminateKeeps
<1>16. CASE Puts BY <1>16, PutsKeeps
<1>17. CASE Done BY <1>17, StutterKeeps DEF Done
<1>18. CASE UNCHANGED vars BY <1>18, StutterKeeps
<1> QED
  BY <1>1, <1>2, <1>3, <1>4, <1>5, <1>6, <1>7, <1>8, <1>9, <1>10, <1>11, <1>12, <1>13, <1>14,
     <1>15, <1>16, <1>17, <1>18
  DEF Next

(* What the invariant says of the buffer is what the contract promises.    *)
LEMMA FormatterContract == FormatterInv /\ CallerContract => OutputContract
<1> SUFFICES ASSUME FormatterInv, CallerContract PROVE OutputContract OBVIOUS
<1> DEFINE D == 0..call.size-1
<1>1. Reading /\ Showing /\ Filling /\ Ended BY DEF FormatterInv
<1>2. /\ idx \in Nat /\ idx = Len(emitted) /\ emitted \in Seq(Char) /\ maxlen \in Nat /\ call.size \in Nat
      /\ out \in {"_out_buffer", "_out_char", "_out_fct", "_out_null"}
      /\ buffer \in [D -> Char \cup {"?"}] /\ DOMAIN buffer = D
  BY <1>1, CallFacts, LenProperties DEF Showing
<1>3. TypeOK
  <2>1. format \in Seq(Char) BY <1>1 DEF Reading
  <2>2. /\ \A i \in 1..Len(format) : format[i] \in Char
        /\ \A i \in 1..idx : emitted[i] \in Char
    BY <1>2, <2>1, ElementOfSeq
  <2> QED BY <1>1, <1>2, <2>2 DEF Reading, TypeOK
<1> HIDE DEF D
<1>4. Written \in Nat /\ Written <= idx /\ Written <= maxlen /\ (Written = idx \/ Written = maxlen)
  BY <1>2 DEF Written, Least
<1>5. ASSUME out = "_out_buffer", NEW i \in DOMAIN buffer
      PROVE  \/ i < Written - 1 /\ buffer[i] = emitted[i+1]
             \/ i = Written - 1 /\ buffer[i] \in {emitted[i+1], IF at = "returned" THEN NUL ELSE emitted[i+1]}
             \/ i = Written /\ at = "returned" /\ i < maxlen /\ buffer[i] = NUL
             \/ i >= Written /\ buffer[i] = "?"
  <2>1. i \in Nat BY <1>2, <1>5 DEF D
  <2>2. CASE at # "returned" \/ maxlen = 0 \/ i # TerminatorAt
    <3>1. buffer[i] = TextAt(i) BY <1>1, <1>2, <1>5, <2>2 DEF Filling, Ended, D
    <3>2. CASE i < Written
      <4>1. buffer[i] = emitted[i+1] BY <3>1, <3>2 DEF TextAt
      <4>2. i < Written - 1 \/ i = Written - 1 BY <1>4, <2>1, <3>2
      <4> QED BY <4>1, <4>2
    <3>3. CASE i >= Written
      <4>1. ~(i < Written) BY <1>4, <2>1, <3>3
      <4> QED BY <3>1, <3>3, <4>1 DEF TextAt
    <3> QED BY <1>4, <2>1, <3>2, <3>3
  <2>3. CASE at = "returned" /\ maxlen > 0 /\ i = TerminatorAt
    <3>1. buffer[i] = NUL BY <1>1, <1>2, <1>5, <2>3 DEF Ended, D
    <3>2. i < maxlen /\ (i = Written \/ i = Written - 1)
      BY <1>2, <2>3 DEF TerminatorAt, Written, Least
    <3> QED BY <2>3, <3>1, <3>2
  <2> QED BY <1>2, <2>2, <2>3
<1>6. ASSUME out = "_out_buffer", at = "returned", maxlen > 0
      PROVE  buffer[Least(result, maxlen - 1)] = NUL
  <2>1. result = idx BY <1>1, <1>2, <1>6 DEF Ended
  <2>2. Least(result, maxlen - 1) = TerminatorAt BY <2>1 DEF TerminatorAt
  <2>3. TerminatorAt \in 0..call.size-1 BY <1>6, TerminatorPlace
  <2>4. buffer[TerminatorAt] = NUL BY <1>1, <1>6, <2>3 DEF Ended
  <2> QED BY <2>2, <2>4
<1>7. out \in {"_out_char", "_out_fct"} => console = Visible(emitted) BY <1>1 DEF Showing
<1>8. at = "returned" => result = Len(emitted) BY <1>1 DEF Ended
<1> QED BY <1>3, <1>5, <1>6, <1>7, <1>8 DEF OutputContract

-----------------------------------------------------------------------------
(* The inductive invariant: whatever the sizes of the source and whatever  *)
(* the calls, as long as the program keeps its side of the contract.       *)
THEOREM FormatterInvariant == Spec /\ []CallerContract => []FormatterInv
BY InitFormatter, StepFormatter, PTL DEF Spec

(* The contract of printf.c's entry points, for the programs that bring    *)
(* the arguments their formats ask for (and sprintf the room): the buffer  *)
(* holds the text as far as it is allowed to, the terminator where the     *)
(* call returns, nothing behind; the console the text without its NULs;    *)
(* and the call returns the length of the text.                            *)
THEOREM OutputContractAlways == Spec /\ []CallerContract => []OutputContract
BY FormatterInvariant, FormatterContract, PTL

-----------------------------------------------------------------------------
(* The digits of a number, last digit first, are its numeral.              *)
LEMMA Halved ==
  ASSUME NEW a \in Nat, NEW base \in 2..16, NEW P \in Nat, a < 2 * P
  PROVE  a \div base < P
<1> DEFINE q == a \div base
<1>1. q \in Nat /\ base * q <= a OBVIOUS
<1> HIDE DEF q
<1>2. base * q >= 2 * q
  <2>1. base - 2 \in Nat OBVIOUS
  <2>2. (base - 2) * q >= 0 BY <1>1, <2>1
  <2>3. (base - 2) * q = base * q - 2 * q BY <1>1
  <2>4. base * q \in Int /\ 2 * q \in Int BY <1>1
  <2> QED BY <2>2, <2>3, <2>4
<1>3. base * q \in Int BY <1>1
<1>4. q < P BY <1>1, <1>2, <1>3
<1> QED BY <1>4 DEF q

(* No digit is left of a number of 64 bits.                                *)
LEMMA NothingLeft ==
  ASSUME NEW v \in Nat, NEW base \in 2..16, v < Pow(2, MAX_DIGITS), NEW left, NEW n,
         DigitLoop(left, n, v, base)
  PROVE  left[MAX_DIGITS] = 0 /\ left[n] = 0
<1> DEFINE M == MAX_DIGITS
<1>0. M \in Nat /\ 2 \in Nat \ {0} BY DEF MAX_DIGITS
<1>1. PICK p : Powers(p, 2, M)
  <2> HIDE DEF M
  <2> QED BY <1>0, PowSteps
<1>2. /\ p \in [0..M -> Nat \ {0}] /\ p[0] = 1 /\ (\A k \in 1..M : p[k] = 2 * p[k-1]) /\ v < p[M]
  BY <1>1 DEF Powers
<1>3. /\ left \in [0..M -> Nat] /\ left[0] = v /\ \A k \in 1..M : left[k] = left[k-1] \div base
      /\ n = M \/ left[n] = 0
  BY DEF DigitLoop
<1> DEFINE T == {k \in 0..M : left[k] < p[M-k]}
<1> HIDE DEF M
<1>4. 0 \in T
  <2>1. M - 0 = M /\ 0 \in 0..M BY <1>0
  <2> QED BY <1>2, <1>3, <2>1
<1>5. ASSUME NEW k \in 1..M, k - 1 \in T PROVE k \in T
  <2>1. k - 1 \in 0..M /\ M - k \in 0..M /\ M - (k - 1) \in 1..M /\ (M - (k - 1)) - 1 = M - k /\ k \in 0..M
    BY <1>0
  <2>2. left[k-1] < p[M-(k-1)] BY <1>5
  <2>3. p[M-(k-1)] = 2 * p[M-k] BY <1>2, <2>1
  <2>4. left[k-1] \in Nat /\ p[M-k] \in Nat BY <1>2, <1>3, <2>1
  <2>5. left[k-1] < 2 * p[M-k] BY <2>2, <2>3
  <2>6. left[k-1] \div base < p[M-k] BY Zenon, <2>4, <2>5, Halved
  <2>7. left[k] < p[M-k] BY <1>3, <2>6
  <2> QED BY <2>1, <2>7
<1>6. T = 0..M
  <2> HIDE DEF T
  <2>1. T \in SUBSET (0..M) BY DEF T
  <2> QED BY <1>0, <1>4, <1>5, <2>1, AllUpTo
<1>7. left[M] < 1
  <2>1. M \in T BY <1>0, <1>6
  <2>2. left[M] < p[M-M] BY <2>1
  <2>3. M - M = 0 BY <1>0
  <2> QED BY <1>2, <2>2, <2>3
<1>8. left[M] \in Nat BY <1>0, <1>3
<1> QED BY <1>3, <1>7, <1>8 DEF M

(* One digit more: the last digit, and those of the number without it.     *)
LEMMA LastDigit ==
  ASSUME NEW v \in Nat, NEW base \in 2..16, NEW fs, v < base
  PROVE  Digits(v, base, fs) = <<LetterOf(v % base, fs)>>
<1>0. base \in 1..16 OBVIOUS
<1>1. PICK left, n : /\ DigitLoop(left, n, v, base)
                     /\ Digits(v, base, fs) = [i \in 1..n |-> LetterOf(left[i-1] % base, fs)]
  BY <1>0, DigitSteps
<1>2. /\ left[0] = v /\ n \in 1..64 /\ left[1] = left[0] \div base /\ \A j \in 1..n-1 : left[j] # 0
  <2>1. 1 \in 1..MAX_DIGITS /\ 1 - 1 = 0 BY DEF MAX_DIGITS
  <2> QED BY <1>1, <2>1 DEF DigitLoop, MAX_DIGITS
<1>3. v \div base = 0 OBVIOUS
<1>4. n = 1
  <2>1. n # 1 => 1 \in 1..n-1 BY <1>2
  <2> QED BY <1>2, <1>3, <2>1
<1>5. \A i \in 1..1 : i - 1 = 0 OBVIOUS
<1>6. Digits(v, base, fs) = [i \in 1..1 |-> LetterOf(v % base, fs)] BY <1>1, <1>2, <1>4, <1>5
<1> QED BY <1>6

LEMMA MoreDigits ==
  ASSUME NEW v \in Nat, NEW base \in 2..16, NEW fs, v >= base, v < Pow(2, MAX_DIGITS)
  PROVE  /\ v \div base \in 1..v-1 /\ v \div base < Pow(2, MAX_DIGITS)
         /\ Digits(v, base, fs) = <<LetterOf(v % base, fs)>> \o Digits(v \div base, base, fs)
<1> DEFINE M == MAX_DIGITS
           w == v \div base
<1>0. M \in Nat /\ M >= 2 /\ base \in 1..16 BY DEF MAX_DIGITS
<1>1. w \in 1..v-1
  <2>1. v < 2 * v OBVIOUS
  <2>2. v \div base < v BY Zenon, <2>1, Halved
  <2>3. v \div base >= 1 OBVIOUS
  <2>4. v \div base \in Int OBVIOUS
  <2> QED BY <2>2, <2>3, <2>4
<1> HIDE DEF w
<1>2. w < Pow(2, M)
  <2>1. Pow(2, M) \in Nat
    <3>1. 2 \in Nat \ {0} OBVIOUS
    <3> HIDE DEF M
    <3> QED BY <1>0, <3>1, PowType
  <2> HIDE DEF M
  <2>2. v < Pow(2, M) BY DEF M
  <2> QED BY <1>1, <2>1, <2>2
<1>3. w \in Nat BY <1>1
<1>4. PICK left, n : /\ DigitLoop(left, n, v, base)
                     /\ Digits(v, base, fs) = [i \in 1..n |-> LetterOf(left[i-1] % base, fs)]
  BY <1>0, DigitSteps
<1>5. PICK more, m : /\ DigitLoop(more, m, w, base)
                     /\ Digits(w, base, fs) = [i \in 1..m |-> LetterOf(more[i-1] % base, fs)]
  BY <1>0, <1>3, DigitSteps
<1>6. left[M] = 0 /\ left[n] = 0
  <2>1. DigitLoop(left, n, v, base) BY <1>4
  <2> HIDE DEF M
  <2>2. left[MAX_DIGITS] = 0 /\ left[n] = 0 BY Zenon, <2>1, NothingLeft
  <2> QED BY <2>2 DEF M
<1>7. /\ left[0] = v /\ \A k \in 1..M : left[k] = left[k-1] \div base
      /\ n \in 1..M /\ \A j \in 1..n-1 : left[j] # 0
  BY <1>4 DEF DigitLoop
<1>8. /\ more[0] = w /\ \A k \in 1..M : more[k] = more[k-1] \div base
      /\ m \in 1..M /\ (m = M \/ more[m] = 0) /\ \A j \in 1..m-1 : more[j] # 0
  BY <1>5 DEF DigitLoop
<1> HIDE DEF M
<1>9. left[1] = w
  <2>1. 1 \in 1..M /\ 1 - 1 = 0 BY <1>0
  <2> QED BY <1>7, <2>1 DEF w
<1>10. \A k \in 0..M-1 : more[k] = left[k+1]
  <2> DEFINE T == {k \in 0..M-1 : more[k] = left[k+1]}
  <2>1. 0 \in T
    <3>1. 0 \in 0..M-1 /\ 0 + 1 = 1 BY <1>0
    <3> QED BY <1>8, <1>9, <3>1
  <2>2. ASSUME NEW k \in 1..M-1, k - 1 \in T PROVE k \in T
    <3>1. k \in 1..M /\ k + 1 \in 1..M /\ (k + 1) - 1 = k /\ (k - 1) + 1 = k /\ k \in 0..M-1 BY <1>0
    <3>2. more[k-1] = left[k] BY <2>2, <3>1
    <3>3. more[k] = left[k] \div base BY <1>8, <3>1, <3>2
    <3>4. left[k+1] = left[k] \div base BY <1>7, <3>1
    <3> QED BY <3>1, <3>3, <3>4
  <2>3. T = 0..M-1
    <3> HIDE DEF T
    <3>1. T \in SUBSET (0..M-1) BY DEF T
    <3>2. M - 1 \in Nat BY <1>0
    <3> QED BY <2>1, <2>2, <3>1, <3>2, AllUpTo
  <2> QED BY <2>3
<1>11. n >= 2 /\ more[n-1] = 0
  <2>1. n # 1 BY <1>1, <1>6, <1>9
  <2>2. n >= 2 /\ n - 1 \in 0..M-1 /\ (n - 1) + 1 = n BY <1>0, <1>7, <2>1
  <2> QED BY <1>6, <1>10, <2>2
<1>12. m = n - 1
  <2>1. ~(n - 1 < m)
    <3>1. n - 1 < m => n - 1 \in 1..m-1 BY <1>7, <1>8, <1>11
    <3> QED BY <1>8, <1>11, <3>1
  <2>2. ~(m < n - 1)
    <3> SUFFICES ASSUME m < n - 1 PROVE FALSE OBVIOUS
    <3>0. n \in 1..M /\ m \in 1..M BY <1>7, <1>8
    <3>1. m \in 0..M-1 /\ m # M /\ m + 1 \in 1..n-1 BY <1>0, <3>0
    <3>2. more[m] = 0 BY <1>8, <3>1
    <3>3. left[m+1] = 0 BY <1>10, <3>1, <3>2
    <3> QED BY <1>7, <3>1, <3>3
  <2> QED BY <1>7, <1>8, <2>1, <2>2
<1> DEFINE s == Digits(v, base, fs)
           t == Digits(w, base, fs)
           c == LetterOf(v % base, fs)
<1>13. /\ s = [i \in 1..n |-> LetterOf(left[i-1] % base, fs)]
       /\ t = [i \in 1..n-1 |-> LetterOf(left[i] % base, fs)]
  <2>1. \A i \in 1..n-1 : i - 1 \in 0..M-1 /\ (i - 1) + 1 = i BY <1>0, <1>7
  <2>2. \A i \in 1..n-1 : more[i-1] = left[i] BY <1>10, <2>1
  <2> QED BY <1>4, <1>5, <1>12, <2>2
<1>14. n \in Nat /\ n >= 2 BY <1>0, <1>7, <1>11
<1>15. s \in Seq(Char) /\ t \in Seq(Char) BY <1>0, <1>3, DigitsType
<1>16. Len(s) = n /\ Len(t) = n - 1 BY <1>13, <1>14
<1>17. s[1] = c
  <2>1. 1 \in 1..n /\ 1 - 1 = 0 BY <1>14
  <2> QED BY <1>7, <1>13, <2>1
<1>18. \A i \in 2..n : s[i] = t[i-1]
  <2>1. \A i \in 2..n : i \in 1..n /\ i - 1 \in 1..n-1 BY <1>14
  <2> QED BY <1>13, <2>1
<1>19. c \in Char
  <2>1. 1 \in 1..Len(s) BY <1>14, <1>16
  <2> QED BY <1>15, <1>17, <2>1, ElementOfSeq
<1> HIDE DEF s, t, c
<1>20. s = <<c>> \o t
  <2>1. <<c>> \in Seq(Char) /\ Len(<<c>>) = 1 /\ <<c>>[1] = c BY <1>19
  <2> DEFINE u == <<c>> \o t
  <2>2. u \in Seq(Char) /\ Len(u) = n /\ \A i \in 1..n : u[i] = IF i <= 1 THEN <<c>>[i] ELSE t[i - 1]
    BY <1>14, <1>15, <1>16, <2>1, ConcatProperties
  <2> HIDE DEF u
  <2>3. \A i \in 1..n : s[i] = u[i]
    <3> SUFFICES ASSUME NEW i \in 1..n PROVE s[i] = u[i] OBVIOUS
    <3>1. CASE i = 1
      <4>1. 1 \in 1..n /\ 1 <= 1 BY <1>14
      <4> QED BY <1>17, <2>1, <2>2, <3>1, <4>1
    <3>2. CASE i # 1
      <4>1. i \in 2..n /\ ~(i <= 1) BY <1>14, <3>2
      <4> QED BY <1>18, <2>2, <4>1
    <3> QED BY <3>1, <3>2
  <2>4. s = u BY <1>15, <1>16, <2>2, <2>3, SeqEqual
  <2> QED BY <2>4 DEF u
<1> QED BY <1>1, <1>2, <1>20 DEF M, s, t, c, w

LEMMA BackwardsParts ==
  ASSUME NEW s \in Seq(Char)
  PROVE  /\ Backwards(s) \in Seq(Char) /\ Len(Backwards(s)) = Len(s)
         /\ \A i \in 1..Len(s) : Backwards(s)[i] = s[Len(s) + 1 - i]
<1> DEFINE n == Len(s)
<1>1. n \in Nat BY LenProperties
<1>2. Backwards(s) = [i \in 1..n |-> s[n + 1 - i]] BY DEF Backwards
<1>3. Backwards(s) \in Seq(Char) BY BackwardsType
<1> HIDE DEF n
<1>4. Len(Backwards(s)) = n BY <1>1, <1>2
<1> QED BY <1>2, <1>3, <1>4 DEF n

LEMMA BackwardsConcat ==
  ASSUME NEW s \in Seq(Char), NEW t \in Seq(Char)
  PROVE  Backwards(s \o t) = Backwards(t) \o Backwards(s)
<1> DEFINE m == Len(s)
           n == Len(t)
           u == s \o t
           x == Backwards(u)
           y == Backwards(t) \o Backwards(s)
<1>1. m \in Nat /\ n \in Nat BY LenProperties
<1>2. u \in Seq(Char) /\ Len(u) = m + n /\ \A i \in 1..m + n : u[i] = IF i <= m THEN s[i] ELSE t[i - m]
  BY ConcatProperties
<1> HIDE DEF u
<1>3. x \in Seq(Char) /\ Len(x) = m + n /\ \A i \in 1..m + n : x[i] = u[m + n + 1 - i]
  <2>1. x \in Seq(Char) /\ Len(x) = Len(u) /\ \A i \in 1..Len(u) : x[i] = u[Len(u) + 1 - i]
    BY <1>2, BackwardsParts
  <2> HIDE DEF x, m, n
  <2> QED BY <1>2, <2>1
<1>4. /\ Backwards(s) \in Seq(Char) /\ Len(Backwards(s)) = m
      /\ \A i \in 1..m : Backwards(s)[i] = s[m + 1 - i]
      /\ Backwards(t) \in Seq(Char) /\ Len(Backwards(t)) = n
      /\ \A i \in 1..n : Backwards(t)[i] = t[n + 1 - i]
  BY BackwardsParts
<1> HIDE DEF x, m, n
<1>5. /\ y \in Seq(Char) /\ Len(y) = n + m
      /\ \A i \in 1..n + m : y[i] = IF i <= n THEN Backwards(t)[i] ELSE Backwards(s)[i - n]
  <2> DEFINE a == Backwards(t)
             b == Backwards(s)
  <2>1. a \in Seq(Char) /\ b \in Seq(Char) /\ Len(a) = n /\ Len(b) = m /\ y = a \o b BY <1>4
  <2> HIDE DEF a, b, y
  <2>2. /\ a \o b \in Seq(Char) /\ Len(a \o b) = n + m
        /\ \A i \in 1..n + m : (a \o b)[i] = IF i <= n THEN a[i] ELSE b[i - n]
    BY <2>1, ConcatProperties
  <2> QED BY <2>1, <2>2 DEF a, b
<1> HIDE DEF y
<1>6. ASSUME NEW i \in 1..m + n PROVE x[i] = y[i]
  <2>1. m + n + 1 - i \in 1..m + n /\ i \in 1..n + m BY <1>1
  <2>2. CASE i <= n
    <3>1. i \in 1..n /\ ~(m + n + 1 - i <= m) /\ (m + n + 1 - i) - m = n + 1 - i BY <1>1, <2>2
    <3>2. x[i] = t[n + 1 - i] BY <1>2, <1>3, <2>1, <3>1
    <3> QED BY <1>4, <1>5, <2>1, <2>2, <3>1, <3>2
  <2>3. CASE ~(i <= n)
    <3>1. i - n \in 1..m /\ m + n + 1 - i <= m /\ m + 1 - (i - n) = m + n + 1 - i BY <1>1, <2>3
    <3>2. x[i] = s[m + n + 1 - i] BY <1>2, <1>3, <2>1, <3>1
    <3> QED BY <1>4, <1>5, <2>1, <2>3, <3>1, <3>2
  <2> QED BY <2>2, <2>3
<1>7. Len(x) = Len(y) /\ \A i \in 1..Len(x) : x[i] = y[i]
  <2>1. Len(x) = m + n /\ Len(y) = n + m /\ n + m = m + n BY <1>1, <1>3, <1>5
  <2> QED BY <1>6, <2>1
<1>8. x = y BY <1>3, <1>5, <1>7, SeqEqual
<1> QED BY <1>8 DEF x, y, u

LEMMA BackwardsOne == \A c \in Char : Backwards(<<c>>) = <<c>>
<1> SUFFICES ASSUME NEW c \in Char PROVE Backwards(<<c>>) = <<c>> OBVIOUS
<1>1. <<c>> \in Seq(Char) /\ Len(<<c>>) = 1 OBVIOUS
<1>2. Backwards(<<c>>) \in Seq(Char) /\ Len(Backwards(<<c>>)) = 1
      /\ \A i \in 1..1 : Backwards(<<c>>)[i] = <<c>>[1 + 1 - i]
  BY <1>1, BackwardsParts
<1>3. \A i \in 1..1 : Backwards(<<c>>)[i] = <<c>>[i]
  <2>1. \A i \in 1..1 : 1 + 1 - i = i OBVIOUS
  <2> QED BY <1>2, <2>1
<1> QED BY <1>1, <1>2, <1>3, SeqEqual

Letters16(fs) == IF "UPPERCASE" \in fs THEN UpperChar ELSE DigitChar

(* For every number of 64 bits and every base: the loop of _ntoa_long and  *)
(* _out_rev put out the numeral of the standard, digit by digit the same.  *)
THEOREM DigitsAreNumeral ==
  ASSUME NEW v \in Nat, v < Pow(2, MAX_DIGITS), NEW base \in 2..16, NEW fs
  PROVE  Backwards(Digits(v, base, fs)) = Numeral(v, base, Letters16(fs))
<1> DEFINE L == Letters16(fs)
           out_(n) == Backwards(Digits(n, base, fs))
           g == [n \in 0..v |-> out_(n)]
           Step(f, n) == IF n < base THEN <<L[(n % base) + 1]>>
                         ELSE f[n \div base] \o <<L[(n % base) + 1]>>
           text == CHOOSE f : f = [n \in 0..v |-> Step(f, n)]
<1>0. base \in 1..16 /\ \A n \in 0..v : n \in Nat /\ n < Pow(2, MAX_DIGITS)
  <2> DEFINE P == Pow(2, MAX_DIGITS)
  <2>1. P \in Nat
    <3>1. 2 \in Nat \ {0} /\ MAX_DIGITS \in Nat BY DEF MAX_DIGITS
    <3> QED BY <3>1, PowType
  <2>2. v < P OBVIOUS
  <2> HIDE DEF P
  <2>3. base \in 1..16 /\ \A n \in 0..v : n \in Nat /\ n < P BY <2>1, <2>2
  <2> QED BY <2>3 DEF P
<1>1. \A d \in 0..15 : LetterOf(d, fs) = L[d + 1] /\ LetterOf(d, fs) \in Char
  BY DigitChars DEF LetterOf, Letters16
<1>2. ASSUME NEW n \in 0..v
      PROVE  /\ n < base => out_(n) = <<L[(n % base) + 1]>>
             /\ ~(n < base) => n \div base \in 0..n-1 /\ out_(n) = out_(n \div base) \o <<L[(n % base) + 1]>>
  <2> DEFINE c == LetterOf(n % base, fs)
             m == n \div base
  <2>1. n \in Nat /\ n < Pow(2, MAX_DIGITS) BY <1>0
  <2>2. n % base \in 0..15
    <3>1. n \in Int /\ base \in Nat \ {0} BY <2>1
    <3>2. n % base \in 0..base-1 BY Zenon, <3>1, DivMod
    <3> QED BY <3>2
  <2>3. c = L[(n % base) + 1] /\ c \in Char /\ <<c>> \in Seq(Char)
    <3>1. c = L[(n % base) + 1] /\ c \in Char BY <1>1, <2>2
    <3> QED BY <3>1, ShortText
  <2>4. CASE n < base
    <3>1. Digits(n, base, fs) = <<c>> BY <2>1, <2>4, LastDigit
    <3>2. out_(n) = <<c>> BY Zenon, <2>3, <3>1, BackwardsOne
    <3> QED BY <2>3, <2>4, <3>2
  <2>5. CASE ~(n < base)
    <3>1. n >= base BY <2>1, <2>5
    <3>2. /\ m \in 1..n-1 /\ Digits(n, base, fs) = <<c>> \o Digits(m, base, fs)
      BY Zenon, <2>1, <3>1, MoreDigits
    <3>3. Digits(m, base, fs) \in Seq(Char)
      <4>1. m \in Nat BY <3>2
      <4> QED BY <1>0, <4>1, DigitsType
    <3> HIDE DEF c, m
    <3>4. out_(n) = out_(m) \o Backwards(<<c>>) BY <2>3, <3>2, <3>3, BackwardsConcat
    <3>5. out_(n) = out_(m) \o <<c>> BY <2>3, <3>4, BackwardsOne
    <3>6. m \in 0..n-1 BY <3>2
    <3> QED BY <2>3, <2>5, <3>5, <3>6 DEF m
  <2> QED BY <2>4, <2>5
<1> HIDE DEF L, out_
<1>3. g = [n \in 0..v |-> Step(g, n)]
  <2>1. ASSUME NEW n \in 0..v PROVE out_(n) = Step(g, n)
    <3>1. ~(n < base) => n \div base \in 0..v /\ g[n \div base] = out_(n \div base)
      <4> DEFINE m == n \div base
      <4>1. ~(n < base) => m \in 0..n-1 BY <1>2
      <4> HIDE DEF m
      <4>2. ~(n < base) => m \in 0..v BY <4>1
      <4> QED BY <4>2 DEF m
    <3> QED BY <1>2, <3>1
  <2> QED BY <2>1
<1>4. text = [n \in 0..v |-> Step(text, n)] BY <1>3
<1>5. Numeral(v, base, L) = text[v] BY DEF Numeral
<1> HIDE DEF text, g
<1>6. ASSUME text[v] # g[v] PROVE FALSE
  <2> DEFINE Bad == {n \in 0..v : text[n] # g[n]}
  <2>1. Bad \in SUBSET Nat /\ v \in Bad BY <1>6
  <2>2. PICK n \in Bad : \A j \in Bad : n <= j
    <3> HIDE DEF Bad
    <3> QED BY <2>1, LeastNumber
  <2>3. text[n] = Step(text, n) /\ g[n] = Step(g, n) BY <1>3, <1>4
  <2> DEFINE m == n \div base
  <2>4. ~(n < base) => m \in 0..n-1 BY <1>2
  <2>5. ~(n < base) => text[m] = g[m]
    <3> HIDE DEF m
    <3>1. ~(n < base) => m \in 0..v /\ ~(n <= m) BY <2>4
    <3> QED BY <2>2, <3>1
  <2> QED BY <2>3, <2>5
<1>7. g[v] = out_(v)
  <2>1. v \in 0..v OBVIOUS
  <2> QED BY <2>1 DEF g
<1> QED BY <1>5, <1>6, <1>7 DEF L, out_

-----------------------------------------------------------------------------
(* The text of an integer.                                                 *)
LEMMA FitAll ==
  ASSUME NEW s \in Seq(Char), NEW size \in Nat, Len(s) <= size
  PROVE  Fit(s, size) = s
<1>1. Len(s) \in Nat BY LenProperties
<1>2. Least(Len(s), size) = Len(s) BY <1>1 DEF Least
<1>3. Fit(s, size) = SubSeq(s, 1, Len(s)) BY <1>2 DEF Fit
<1>4. SubSeq(s, 1, Len(s)) = s
  <2> DEFINE t == SubSeq(s, 1, Len(s))
  <2>1. t \in Seq(Char) /\ Len(t) = Len(s) /\ \A i \in 1..Len(s) : t[i] = s[i]
    BY <1>1
  <2> HIDE DEF t
  <2> QED BY <2>1, SeqEqual DEF t
<1> QED BY <1>3, <1>4

LEMMA Front ==
  ASSUME NEW s \in Seq(Char), NEW t \in Seq(Char)
  PROVE  SubSeq(s \o t, 1, Len(s)) = s
<1> DEFINE u == s \o t
           x == SubSeq(u, 1, Len(s))
<1>1. Len(s) \in Nat /\ Len(t) \in Nat BY LenProperties
<1>2. u \in Seq(Char) /\ Len(u) = Len(s) + Len(t)
      /\ \A i \in 1..Len(s) + Len(t) : u[i] = IF i <= Len(s) THEN s[i] ELSE t[i - Len(s)]
  BY ConcatProperties
<1> HIDE DEF u
<1>3. \A i \in 1..Len(s) : i \in 1..Len(u) /\ u[i] = s[i] BY <1>1, <1>2
<1>4. \A i \in 1..Len(s) : u[i] \in Char BY <1>2, <1>3, ElementOfSeq
<1>5. x = [i \in 1..Len(s) |-> u[i]] BY <1>1, <1>2
<1> HIDE DEF x
<1>6. x \in Seq(Char) /\ Len(x) = Len(s) /\ \A i \in 1..Len(s) : x[i] = s[i] BY <1>1, <1>3, <1>4, <1>5
<1>7. x = s BY <1>6, SeqEqual
<1> QED BY <1>7 DEF x, u

LEMMA RepeatNothing ==
  ASSUME NEW c \in Char, NEW n \in Int, n <= 0
  PROVE  Repeat(c, n) = <<>>
<1>1. Repeat(c, n) \in Seq(Char) /\ Len(Repeat(c, n)) = IF n < 0 THEN 0 ELSE n BY RepeatType
<1>2. Len(Repeat(c, n)) = 0 BY <1>1
<1> QED BY <1>1, <1>2, EmptySeq

LEMMA RepeatAt ==
  ASSUME NEW c \in Char, NEW n \in Nat
  PROVE  /\ Repeat(c, n) \in Seq(Char) /\ Len(Repeat(c, n)) = n
         /\ \A i \in 1..n : Repeat(c, n)[i] = c
<1>1. Repeat(c, n) \in Seq(Char) /\ Len(Repeat(c, n)) = n BY RepeatType
<1>2. Repeat(c, n) = [i \in 1..n |-> c] BY DEF Repeat
<1> QED BY <1>1, <1>2

LEMMA BackwardsRepeat ==
  ASSUME NEW c \in Char, NEW n \in Int
  PROVE  Backwards(Repeat(c, n)) = Repeat(c, n)
<1> DEFINE m == IF n < 0 THEN 0 ELSE n
           s == Repeat(c, m)
<1>1. m \in Nat /\ (n < 0 => m = 0) /\ (~(n < 0) => m = n) OBVIOUS
<1>2. Repeat(c, n) = s BY DEF Repeat
<1> HIDE DEF m
<1>3. s \in Seq(Char) /\ Len(s) = m /\ \A i \in 1..m : s[i] = c BY <1>1, RepeatAt
<1> HIDE DEF s
<1>4. /\ Backwards(s) \in Seq(Char) /\ Len(Backwards(s)) = m
      /\ \A i \in 1..m : Backwards(s)[i] = s[m + 1 - i]
  BY <1>3, BackwardsParts
<1>5. \A i \in 1..m : m + 1 - i \in 1..m BY <1>1
<1>6. Backwards(s) = s BY <1>3, <1>4, <1>5, SeqEqual
<1> QED BY <1>2, <1>6

LEMMA RepeatSum ==
  ASSUME NEW c \in Char, NEW m \in Nat, NEW n \in Nat
  PROVE  Repeat(c, m) \o Repeat(c, n) = Repeat(c, m + n)
<1> DEFINE s == Repeat(c, m)
           t == Repeat(c, n)
           u == s \o t
           x == Repeat(c, m + n)
<1>1. s \in Seq(Char) /\ Len(s) = m /\ \A i \in 1..m : s[i] = c BY RepeatAt
<1>2. t \in Seq(Char) /\ Len(t) = n /\ \A i \in 1..n : t[i] = c BY RepeatAt
<1>3. m + n \in Nat OBVIOUS
<1>4. x \in Seq(Char) /\ Len(x) = m + n /\ \A i \in 1..m + n : x[i] = c BY <1>3, RepeatAt
<1> HIDE DEF s, t, x
<1>5. u \in Seq(Char) /\ Len(u) = m + n /\ \A i \in 1..m + n : u[i] = IF i <= m THEN s[i] ELSE t[i - m]
  BY <1>1, <1>2, ConcatProperties
<1> HIDE DEF u
<1>6. \A i \in 1..m + n : u[i] = c
  <2>1. \A i \in 1..m + n : (i <= m => i \in 1..m) /\ (~(i <= m) => i - m \in 1..n) OBVIOUS
  <2> QED BY <1>1, <1>2, <1>5, <2>1
<1>7. u = x BY <1>4, <1>5, <1>6, SeqEqual
<1> QED BY <1>7 DEF u, s, t, x

LEMMA ConcatEmpty == \A s \in Seq(Char) : <<>> \o s = s /\ s \o <<>> = s
BY ConcatProperties, EmptySeq

LEMMA BackwardsEmpty == Backwards(<<>>) = <<>>
<1>1. <<>> \in Seq(Char) /\ Len(<<>>) = 0 BY EmptySeq
<1>2. Backwards(<<>>) \in Seq(Char) /\ Len(Backwards(<<>>)) = 0 BY <1>1, BackwardsParts
<1> QED BY <1>2, EmptySeq

LEMMA OutRevCases ==
  ASSUME NEW s \in Seq(Char), NEW w \in Int, NEW fs
  PROVE  /\ "LEFT" \in fs => OutRev(s, w, fs) = Backwards(s) \o Pad(w - Len(s))
         /\ "LEFT" \notin fs /\ "ZEROPAD" \notin fs => OutRev(s, w, fs) = Pad(w - Len(s)) \o Backwards(s)
         /\ "LEFT" \notin fs /\ "ZEROPAD" \in fs => OutRev(s, w, fs) = Backwards(s)
<1> DEFINE b == Backwards(s)
           p == Pad(w - Len(s))
<1>1. w - Len(s) \in Int BY LenProperties
<1>2. b \in Seq(Char) /\ p \in Seq(Char) BY <1>1, BackwardsType, PadType
<1>3. OutRev(s, w, fs) = (IF fs \cap {"LEFT", "ZEROPAD"} = {} THEN p ELSE <<>>) \o b
                         \o (IF "LEFT" \in fs THEN p ELSE <<>>)
  BY DEF OutRev
<1> HIDE DEF b, p
<1>4. CASE "LEFT" \in fs
  <2>1. fs \cap {"LEFT", "ZEROPAD"} # {} BY <1>4
  <2>2. OutRev(s, w, fs) = (<<>> \o b) \o p BY <1>3, <1>4, <2>1
  <2> QED BY <1>2, <1>4, <2>2, ConcatEmpty DEF b, p
<1>5. CASE "LEFT" \notin fs /\ "ZEROPAD" \notin fs
  <2>1. fs \cap {"LEFT", "ZEROPAD"} = {} BY <1>5
  <2>2. OutRev(s, w, fs) = (p \o b) \o <<>> BY <1>3, <1>5, <2>1
  <2>3. p \o b \in Seq(Char) BY <1>2, ConcatProperties
  <2> QED BY <1>5, <2>2, <2>3, ConcatEmpty DEF b, p
<1>6. CASE "LEFT" \notin fs /\ "ZEROPAD" \in fs
  <2>1. fs \cap {"LEFT", "ZEROPAD"} # {} BY <1>6
  <2>2. OutRev(s, w, fs) = (<<>> \o b) \o <<>> BY <1>3, <1>6, <2>1
  <2> QED BY <1>2, <1>6, <2>2, ConcatEmpty DEF b, p
<1> QED BY <1>4, <1>5, <1>6

LEMMA SignFacts ==
  ASSUME NEW negative, NEW fs
  PROVE  /\ Sign(negative, fs) \in Seq(Char) /\ Backwards(Sign(negative, fs)) = Sign(negative, fs)
         /\ Len(Sign(negative, fs)) = IF negative \/ fs \cap {"PLUS", "SPACE"} # {} THEN 1 ELSE 0
         /\ negative \/ fs \cap {"PLUS", "SPACE"} # {} \/ Sign(negative, fs) = <<>>
<1> DEFINE s == Sign(negative, fs)
<1>1. "-" \in Char /\ "+" \in Char /\ " " \in Char BY Letters
<1>2. \A c \in Char : <<c>> \in Seq(Char) /\ Len(<<c>>) = 1 /\ Backwards(<<c>>) = <<c>>
  <2>1. \A c \in Char : <<c>> \in Seq(Char) /\ Len(<<c>>) = 1 OBVIOUS
  <2>2. \A c \in Char : Backwards(<<c>>) = <<c>> BY BackwardsOne
  <2> QED BY Zenon, <2>1, <2>2
<1>3. CASE negative
  <2>1. s = <<"-">> BY <1>3 DEF Sign
  <2> HIDE DEF s
  <2> QED BY <1>1, <1>2, <1>3, <2>1 DEF s
<1>4. CASE ~negative /\ "PLUS" \in fs
  <2>1. s = <<"+">> BY <1>4 DEF Sign
  <2>2. fs \cap {"PLUS", "SPACE"} # {} BY <1>4
  <2> HIDE DEF s
  <2> QED BY <1>1, <1>2, <2>1, <2>2 DEF s
<1>5. CASE ~negative /\ "PLUS" \notin fs /\ "SPACE" \in fs
  <2>1. s = <<" ">> BY <1>5 DEF Sign
  <2>2. fs \cap {"PLUS", "SPACE"} # {} BY <1>5
  <2> HIDE DEF s
  <2> QED BY <1>1, <1>2, <2>1, <2>2 DEF s
<1>6. CASE ~negative /\ "PLUS" \notin fs /\ "SPACE" \notin fs
  <2>1. s = <<>> BY <1>6 DEF Sign
  <2>2. fs \cap {"PLUS", "SPACE"} = {} BY <1>6
  <2>3. <<>> \in Seq(Char) /\ Len(<<>>) = 0 BY EmptySeq
  <2> HIDE DEF s
  <2> QED BY <1>6, <2>1, <2>2, <2>3, BackwardsEmpty DEF s
<1> QED BY <1>3, <1>4, <1>5, <1>6

(* A number that fits the scratch buffer comes through whole.              *)
Zeros(prec, w, fs) ==
  IF "LEFT" \in fs THEN 0 ELSE IF "ZEROPAD" \in fs /\ w > prec THEN w ELSE prec
PaddedWith(s, zeros) == s \o Repeat("0", zeros - Len(s))

Marked(p, base, prec, w, fs) == IF "HASH" \in fs THEN Hash(p, base, prec, w, fs) ELSE p

Buffered(s, negative, prec, w, fs) == PaddedWith(s, Zeros(prec, FieldWidth(negative, w, fs), fs))
InBuffer(s, negative, base, prec, w, fs) ==
  Marked(Buffered(s, negative, prec, w, fs), base, prec, FieldWidth(negative, w, fs), fs)

LEMMA FormatText ==
  ASSUME NEW s \in Seq(Char), NEW negative, NEW base, NEW prec \in Int, NEW w \in Int, NEW fs,
         Len(Buffered(s, negative, prec, w, fs)) <= NTOA_BUFFER_SIZE,
         Len(InBuffer(s, negative, base, prec, w, fs)) + Len(Sign(negative, fs)) <= NTOA_BUFFER_SIZE
  PROVE  NtoaFormat(s, negative, base, prec, w, fs)
           = OutRev(InBuffer(s, negative, base, prec, w, fs) \o Sign(negative, fs),
                    FieldWidth(negative, w, fs), fs)
<1> DEFINE fw == FieldWidth(negative, w, fs)
           p  == Buffered(s, negative, prec, w, fs)
           h  == InBuffer(s, negative, base, prec, w, fs)
           B       == NTOA_BUFFER_SIZE
           room(t) == Fit(t, B)
           sign    == Sign(negative, fs)
           hashed  == IF "HASH" \in fs THEN room(Hash(room(p), base, prec, fw, fs)) ELSE room(p)
<1>1. B \in Nat BY BufferSizes
<1>2. "0" \in Char BY Letters
<1>3. fw \in Int BY FieldWidthType
<1>4. p \in Seq(Char)
  <2>1. Zeros(prec, fw, fs) \in Int BY <1>3 DEF Zeros
  <2>2. Zeros(prec, fw, fs) - Len(s) \in Int BY <2>1, LenProperties
  <2>3. Repeat("0", Zeros(prec, fw, fs) - Len(s)) \in Seq(Char) BY <1>2, <2>2, RepeatType
  <2> QED BY <2>3, ConcatProperties DEF PaddedWith, Buffered
<1>5. h \in Seq(Char)
  <2> HIDE DEF p
  <2> QED BY <1>4, HashType DEF Marked, InBuffer, p
<1>6. sign \in Seq(Char) /\ Len(sign) \in Nat BY SignFacts, LenProperties
<1>7. NtoaFormat(s, negative, base, prec, w, fs) = OutRev(room(hashed \o sign), fw, fs)
  BY DEF NtoaFormat, Buffered, PaddedWith, Zeros
<1>0. Len(p) <= B /\ Len(h) + Len(sign) <= B OBVIOUS
<1> HIDE DEF B, sign, fw, p, h
<1>8. room(p) = p BY <1>0, <1>1, <1>4, FitAll
<1>9. hashed = h
  <2>1. Len(h) \in Nat BY <1>5, LenProperties
  <2>2. Len(h) <= B BY <1>0, <1>1, <1>6, <2>1
  <2>3. room(h) = h BY <1>1, <1>5, <2>2, FitAll
  <2>4. h = IF "HASH" \in fs THEN Hash(p, base, prec, fw, fs) ELSE p BY DEF h, p, fw, InBuffer, Marked
  <2> HIDE DEF room
  <2> QED BY <1>8, <2>3, <2>4
<1>10. h \o sign \in Seq(Char) /\ Len(h \o sign) <= B BY <1>0, <1>5, <1>6, ConcatProperties
<1>11. room(h \o sign) = h \o sign BY <1>1, <1>10, FitAll
<1> HIDE DEF room, hashed
<1> QED BY <1>7, <1>9, <1>11 DEF sign, fw, h

(* The digits in the scratch buffer: none for a 0 with a precision.        *)
ScratchDigits(v, base, fs) == IF "PRECISION" \in fs /\ v = 0 THEN <<>> ELSE Digits(v, base, fs)
NumeralOf(v, base, p, fs) == IF v = 0 /\ p = 0 THEN <<>> ELSE Numeral(v, base, Letters16(fs))

LEMMA DigitsOf ==
  ASSUME NEW v \in Nat, v < Pow(2, MAX_DIGITS), NEW base \in 2..16, NEW p \in Int, NEW fs,
         "PRECISION" \in fs <=> p >= 0,
         NEW d, d = ScratchDigits(v, base, fs), NEW num, num = NumeralOf(v, base, p, fs)
  PROVE  /\ d \in Seq(Char) /\ num \in Seq(Char)
         /\ ~(v = 0 /\ p >= 0) => Backwards(d) = num /\ Len(d) = Len(num) /\ Len(num) >= 1
         /\ v = 0 /\ p >= 0 => d = <<>> /\ num = IF p = 0 THEN <<>> ELSE <<"0">>
<1> DEFINE x == Digits(v, base, fs)
           y == Numeral(v, base, Letters16(fs))
<1>0. base \in 1..16 OBVIOUS
<1>1. Backwards(x) = y BY Zenon, DigitsAreNumeral
<1>2. x \in Seq(Char) BY <1>0, DigitsType
<1>3. Len(x) >= 1
  <2>1. PICK left, n : DigitLoop(left, n, v, base) /\ x = [i \in 1..n |-> LetterOf(left[i-1] % base, fs)]
    BY <1>0, DigitSteps
  <2> HIDE DEF x
  <2>4. n \in 1..MAX_DIGITS BY <2>1 DEF DigitLoop
  <2>2. n \in Nat /\ n >= 1 BY <2>4 DEF MAX_DIGITS
  <2>3. Len(x) = n BY <2>1, <2>2
  <2> QED BY <2>2, <2>3
<1>4. v = 0 => x = <<"0">>
  <2> SUFFICES ASSUME v = 0 PROVE x = <<"0">> OBVIOUS
  <2>1. v < base /\ v % base = 0 OBVIOUS
  <2>2. x = <<LetterOf(v % base, fs)>> BY <2>1, LastDigit
  <2>3. LetterOf(0, fs) = "0"
    <3>1. DigitChar[1] = "0" /\ UpperChar[1] = "0" BY DEF DigitChar, UpperChar
    <3>2. 0 + 1 = 1 OBVIOUS
    <3> QED BY <3>1, <3>2 DEF LetterOf
  <2> HIDE DEF x
  <2> QED BY <2>1, <2>2, <2>3
<1> HIDE DEF x, y
<1>5. y \in Seq(Char) /\ Len(y) = Len(x) BY <1>1, <1>2, BackwardsParts
<1>6. d = IF p >= 0 /\ v = 0 THEN <<>> ELSE x BY DEF ScratchDigits, x
<1>7. num = IF v = 0 /\ p = 0 THEN <<>> ELSE y BY DEF NumeralOf, y
<1>8. v = 0 => y = <<"0">>
  <2>1. "0" \in Char BY Letters
  <2>2. Backwards(<<"0">>) = <<"0">> BY Zenon, <2>1, BackwardsOne
  <2> QED BY <1>1, <1>4, <2>2
<1>9. d \in Seq(Char) /\ num \in Seq(Char) BY <1>2, <1>5, <1>6, <1>7, EmptySeq
<1>10. CASE v = 0 /\ p >= 0 BY <1>6, <1>7, <1>8, <1>9, <1>10
<1>11. CASE ~(v = 0 /\ p >= 0)
  <2>1. d = x /\ num = y BY <1>6, <1>7, <1>11
  <2> QED BY <1>1, <1>3, <1>5, <1>9, <1>11, <2>1
<1> QED BY <1>10, <1>11

LEMMA PaddedBack ==
  ASSUME NEW d \in Seq(Char), NEW z \in Int
  PROVE  /\ PaddedWith(d, z) \in Seq(Char)
         /\ Backwards(PaddedWith(d, z)) = Repeat("0", z - Len(d)) \o Backwards(d)
         /\ Len(PaddedWith(d, z)) = IF z > Len(d) THEN z ELSE Len(d)
         /\ z <= Len(d) => PaddedWith(d, z) = d
<1> DEFINE n == z - Len(d)
           r == Repeat("0", n)
<1>1. "0" \in Char BY Letters
<1>2. Len(d) \in Nat /\ n \in Int BY LenProperties
<1>3. r \in Seq(Char) /\ Len(r) = IF n < 0 THEN 0 ELSE n BY <1>1, <1>2, RepeatType
<1>4. Backwards(r) = r BY <1>1, <1>2, BackwardsRepeat
<1>5. PaddedWith(d, z) = d \o r BY DEF PaddedWith
<1>6. n <= 0 => r = <<>> BY <1>1, <1>2, RepeatNothing
<1> HIDE DEF r
<1>7. d \o r \in Seq(Char) /\ Len(d \o r) = Len(d) + Len(r) BY <1>3, ConcatProperties
<1>8. Backwards(d \o r) = r \o Backwards(d) BY <1>3, <1>4, BackwardsConcat
<1>9. Len(d) + Len(r) = IF z > Len(d) THEN z ELSE Len(d) BY <1>2, <1>3
<1>10. z <= Len(d) => d \o r = d
  <2>1. z <= Len(d) => n <= 0 BY <1>2
  <2> QED BY <1>6, <2>1, ConcatEmpty
<1> QED BY <1>5, <1>7, <1>8, <1>9, <1>10 DEF r

(* The zeros of a precision, in front of the number.                       *)
ExactText(num, p) == Repeat("0", p - Len(num)) \o num

LEMMA ExactFacts ==
  ASSUME NEW num \in Seq(Char), NEW p \in Int
  PROVE  /\ ExactText(num, p) \in Seq(Char)
         /\ Len(ExactText(num, p)) = IF p > Len(num) THEN p ELSE Len(num)
         /\ p <= Len(num) => ExactText(num, p) = num
<1> DEFINE n == p - Len(num)
           r == Repeat("0", n)
<1>1. "0" \in Char BY Letters
<1>2. Len(num) \in Nat /\ n \in Int BY LenProperties
<1>3. r \in Seq(Char) /\ Len(r) = IF n < 0 THEN 0 ELSE n BY <1>1, <1>2, RepeatType
<1>4. ExactText(num, p) = r \o num BY DEF ExactText
<1>5. n <= 0 => r = <<>> BY <1>1, <1>2, RepeatNothing
<1> HIDE DEF r
<1>6. r \o num \in Seq(Char) /\ Len(r \o num) = Len(r) + Len(num) BY <1>3, ConcatProperties
<1>7. Len(r) + Len(num) = IF p > Len(num) THEN p ELSE Len(num) BY <1>2, <1>3
<1>8. p <= Len(num) => r \o num = num
  <2>1. p <= Len(num) => n <= 0 BY <1>2
  <2> QED BY <1>5, <2>1, ConcatEmpty
<1> QED BY <1>4, <1>6, <1>7, <1>8

LEMMA ExactPadding ==
  ASSUME NEW v \in Nat, v < Pow(2, MAX_DIGITS), NEW base \in 2..16, NEW p \in Int, NEW fs,
         "PRECISION" \in fs <=> p >= 0,
         NEW d, d = ScratchDigits(v, base, fs), NEW num, num = NumeralOf(v, base, p, fs),
         NEW z \in Int, \/ z = IF p >= 0 THEN p ELSE 0
                        \/ z = 0 /\ p <= IF v = 0 THEN 0 ELSE Len(num)
  PROVE  Backwards(PaddedWith(d, z)) = ExactText(num, p)
<1>1. /\ d \in Seq(Char) /\ num \in Seq(Char)
      /\ ~(v = 0 /\ p >= 0) => Backwards(d) = num /\ Len(d) = Len(num) /\ Len(num) >= 1
      /\ v = 0 /\ p >= 0 => d = <<>> /\ num = IF p = 0 THEN <<>> ELSE <<"0">>
  BY DigitsOf
<1>2. Backwards(PaddedWith(d, z)) = Repeat("0", z - Len(d)) \o Backwards(d) BY <1>1, PaddedBack
<1>3. "0" \in Char /\ <<"0">> \in Seq(Char) /\ Len(<<"0">>) = 1 BY Letters, ShortText
<1>4. Len(d) \in Nat /\ Len(num) \in Nat BY <1>1, LenProperties
<1>5. CASE ~(v = 0 /\ p >= 0)
  <2>1. Backwards(d) = num /\ Len(d) = Len(num) /\ Len(num) >= 1 BY <1>1, <1>5
  <2>2. CASE z = p BY <1>2, <2>1, <2>2 DEF ExactText
  <2>3. CASE z # p
    <3>1. z = 0 /\ p <= Len(num) /\ z - Len(d) \in Int /\ z - Len(d) <= 0 BY <1>4, <1>5, <2>1, <2>3
    <3>2. Repeat("0", z - Len(d)) = <<>> BY <1>3, <3>1, RepeatNothing
    <3>3. ExactText(num, p) = num BY <1>1, <3>1, ExactFacts
    <3> QED BY <1>1, <1>2, <2>1, <3>2, <3>3, ConcatEmpty
  <2> QED BY <2>2, <2>3
<1>6. CASE v = 0 /\ p = 0
  <2>1. d = <<>> /\ num = <<>> /\ z = 0 BY <1>1, <1>6
  <2>2. Len(d) = 0 /\ Backwards(d) = num BY <2>1, BackwardsEmpty, EmptySeq
  <2>3. Len(num) = 0 BY <2>1, <2>2
  <2> QED BY <1>2, <1>6, <2>1, <2>2, <2>3 DEF ExactText
<1>7. CASE v = 0 /\ p > 0
  <2>1. d = <<>> /\ num = <<"0">> BY <1>1, <1>7
  <2>2. z = p BY <1>7
  <2>3. Len(d) = 0 /\ Backwards(d) = <<>> /\ Len(num) = 1 BY <1>3, <2>1, BackwardsEmpty, EmptySeq
  <2>4. z - Len(d) = p /\ p - Len(num) = p - 1 /\ p \in Nat /\ p - 1 \in Nat /\ p - 1 + 1 = p /\ 1 \in Nat
    <3>1. p \in Nat /\ p - 1 \in Nat /\ p - 0 = p BY <1>7
    <3> QED BY <2>2, <2>3, <3>1
  <2>5. Repeat("0", p) \in Seq(Char) BY <1>3, <2>4, RepeatAt
  <2>6. Backwards(PaddedWith(d, z)) = Repeat("0", p) BY <1>2, <2>3, <2>4, <2>5, ConcatEmpty
  <2>7. Repeat("0", 1) = <<"0">>
    <3>1. /\ Repeat("0", 1) \in Seq(Char) /\ Len(Repeat("0", 1)) = 1
          /\ \A i \in 1..1 : Repeat("0", 1)[i] = "0"
      BY <1>3, <2>4, RepeatAt
    <3>2. \A i \in 1..1 : <<"0">>[i] = "0" OBVIOUS
    <3> QED BY <1>3, <3>1, <3>2, SeqEqual
  <2>8. Repeat("0", p - 1) \o Repeat("0", 1) = Repeat("0", p - 1 + 1) BY Zenon, <1>3, <2>4, RepeatSum
  <2>9. Repeat("0", p - 1) \o <<"0">> = Repeat("0", p) BY <2>4, <2>7, <2>8
  <2>10. ExactText(num, p) = Repeat("0", p - 1) \o <<"0">> BY <2>1, <2>4 DEF ExactText
  <2> QED BY <2>6, <2>9, <2>10
<1> QED BY <1>5, <1>6, <1>7

(* A text in its field, and what _out_rev makes of a reversed text whose   *)
(* zeros are already there.                                                *)
Spread(s, w, fs) == IF "LEFT" \in fs THEN s \o Pad(w - Len(s)) ELSE Pad(w - Len(s)) \o s

LEMMA PadNothing ==
  ASSUME NEW n \in Int, n <= 0
  PROVE  Pad(n) = <<>>
<1>1. " " \in Char BY Letters
<1> QED BY <1>1, RepeatNothing DEF Pad

LEMMA Spreads ==
  ASSUME NEW h \in Seq(Char), NEW x \in Seq(Char), NEW w \in Int, NEW fs,
         "LEFT" \notin fs /\ "ZEROPAD" \in fs => w <= Len(h) + Len(x)
  PROVE  OutRev(h \o x, w, fs) = Spread(Backwards(x) \o Backwards(h), w, fs)
<1> DEFINE s == h \o x
           t == Backwards(x) \o Backwards(h)
<1>1. s \in Seq(Char) /\ Len(s) = Len(h) + Len(x) BY ConcatProperties
<1>2. Backwards(s) = t BY BackwardsConcat
<1>3. t \in Seq(Char) /\ Len(t) = Len(s)
  <2>1. Backwards(s) \in Seq(Char) /\ Len(Backwards(s)) = Len(s) BY <1>1, BackwardsParts
  <2> HIDE DEF s, t
  <2> QED BY <1>2, <2>1
<1> HIDE DEF s, t
<1>4. CASE "LEFT" \in fs
  <2>1. OutRev(s, w, fs) = Backwards(s) \o Pad(w - Len(s)) BY <1>1, <1>4, OutRevCases
  <2> QED BY <1>2, <1>3, <1>4, <2>1 DEF Spread, s, t
<1>5. CASE "LEFT" \notin fs /\ "ZEROPAD" \notin fs
  <2>1. OutRev(s, w, fs) = Pad(w - Len(s)) \o Backwards(s) BY <1>1, <1>5, OutRevCases
  <2> QED BY <1>2, <1>3, <1>5, <2>1 DEF Spread, s, t
<1>6. CASE "LEFT" \notin fs /\ "ZEROPAD" \in fs
  <2>1. OutRev(s, w, fs) = Backwards(s) BY <1>1, <1>6, OutRevCases
  <2>2. w - Len(t) \in Int /\ w - Len(t) <= 0
    <3>1. Len(s) \in Nat BY <1>1, LenProperties
    <3>2. w <= Len(s) BY <1>1, <1>6
    <3> QED BY <1>3, <3>1, <3>2
  <2>3. Pad(w - Len(t)) = <<>> BY <2>2, PadNothing
  <2>4. Pad(w - Len(t)) \o t = t BY <1>3, <2>3, ConcatEmpty
  <2>5. Spread(t, w, fs) = t BY <1>6, <2>4 DEF Spread
  <2> QED BY <1>2, <2>1, <2>5 DEF s, t
<1> QED BY <1>4, <1>5, <1>6

(* The prefix of a base, as it stands in the buffer and in the text.       *)
MarkOf(base, fs) ==
  CASE base = 16 -> IF "UPPERCASE" \in fs THEN <<"X", "0">> ELSE <<"x", "0">>
    [] base = 2  -> <<"b", "0">>
    [] OTHER     -> <<"0">>
PrefixOf(base, fs) ==
  CASE base = 16 -> IF "UPPERCASE" \in fs THEN <<"0", "X">> ELSE <<"0", "x">>
    [] base = 2  -> <<"0", "b">>
    [] OTHER     -> <<"0">>

LEMMA BackwardsTwo == \A c, d \in Char : Backwards(<<c, d>>) = <<d, c>>
<1> SUFFICES ASSUME NEW c \in Char, NEW d \in Char PROVE Backwards(<<c, d>>) = <<d, c>> OBVIOUS
<1>1. <<c, d>> \in Seq(Char) /\ Len(<<c, d>>) = 2 /\ <<d, c>> \in Seq(Char) /\ Len(<<d, c>>) = 2 OBVIOUS
<1>2. Backwards(<<c, d>>) \in Seq(Char) /\ Len(Backwards(<<c, d>>)) = 2
      /\ \A i \in 1..2 : Backwards(<<c, d>>)[i] = <<c, d>>[2 + 1 - i]
  BY <1>1, BackwardsParts
<1>3. \A i \in 1..2 : <<c, d>>[2 + 1 - i] = <<d, c>>[i]
  <2>1. 1..2 = {1, 2} /\ 2 + 1 - 1 = 2 /\ 2 + 1 - 2 = 1 OBVIOUS
  <2>2. <<c, d>>[1] = c /\ <<c, d>>[2] = d /\ <<d, c>>[1] = d /\ <<d, c>>[2] = c OBVIOUS
  <2> QED BY <2>1, <2>2
<1> QED BY <1>1, <1>2, <1>3, SeqEqual

LEMMA MarkFacts ==
  ASSUME NEW base, NEW fs
  PROVE  /\ MarkOf(base, fs) \in Seq(Char) /\ Backwards(MarkOf(base, fs)) = PrefixOf(base, fs)
         /\ PrefixOf(base, fs) \in Seq(Char) /\ Len(PrefixOf(base, fs)) = Len(MarkOf(base, fs))
         /\ Len(MarkOf(base, fs)) = IF base \in {2, 16} THEN 2 ELSE 1
<1> DEFINE m == MarkOf(base, fs)
           q == PrefixOf(base, fs)
<1>1. "X" \in Char /\ "x" \in Char /\ "0" \in Char /\ "b" \in Char BY Letters
<1>2. \A c, d \in Char : <<c, d>> \in Seq(Char) /\ Len(<<c, d>>) = 2 OBVIOUS
<1>3. \A c \in Char : <<c>> \in Seq(Char) /\ Len(<<c>>) = 1 OBVIOUS
<1>4. CASE base = 16 /\ "UPPERCASE" \in fs
  <2>1. m = <<"X", "0">> /\ q = <<"0", "X">> BY <1>4 DEF MarkOf, PrefixOf
  <2> HIDE DEF m, q
  <2>2. Backwards(m) = q BY Zenon, <1>1, <2>1, BackwardsTwo
  <2> QED BY <1>1, <1>2, <1>4, <2>1, <2>2 DEF m, q
<1>5. CASE base = 16 /\ "UPPERCASE" \notin fs
  <2>1. m = <<"x", "0">> /\ q = <<"0", "x">> BY <1>5 DEF MarkOf, PrefixOf
  <2> HIDE DEF m, q
  <2>2. Backwards(m) = q BY Zenon, <1>1, <2>1, BackwardsTwo
  <2> QED BY <1>1, <1>2, <1>5, <2>1, <2>2 DEF m, q
<1>6. CASE base = 2
  <2>1. m = <<"b", "0">> /\ q = <<"0", "b">> BY <1>6 DEF MarkOf, PrefixOf
  <2> HIDE DEF m, q
  <2>2. Backwards(m) = q BY Zenon, <1>1, <2>1, BackwardsTwo
  <2> QED BY <1>1, <1>2, <1>6, <2>1, <2>2 DEF m, q
<1>7. CASE base \notin {2, 16}
  <2>1. m = <<"0">> /\ q = <<"0">> BY <1>7 DEF MarkOf, PrefixOf
  <2> HIDE DEF m, q
  <2>2. Backwards(m) = q BY Zenon, <1>1, <2>1, BackwardsOne
  <2> QED BY <1>1, <1>3, <1>7, <2>1, <2>2 DEF m, q
<1> QED BY <1>4, <1>5, <1>6, <1>7
(* The field of an integer: sign or prefix, zeros of a zero-padded field,  *)
(* zeros of the precision, numeral.                                        *)
FieldText(num, front, p, w, fs) ==
  LET fill == IF "ZEROPAD" \in fs /\ "LEFT" \notin fs /\ p < 0
              THEN Repeat("0", w - Len(front) - Len(ExactText(num, p))) ELSE <<>>
  IN  Spread(front \o fill \o ExactText(num, p), w, fs)
Room(n, p, w, fs) ==
  LET zeros == IF "LEFT" \in fs THEN 0 ELSE IF "ZEROPAD" \in fs /\ p < 0 THEN w ELSE p
  IN  IF zeros > n THEN zeros ELSE n

LEMMA Unfilled ==
  ASSUME NEW num \in Seq(Char), NEW front \in Seq(Char), NEW p \in Int, NEW w \in Int, NEW fs,
         ~("ZEROPAD" \in fs /\ "LEFT" \notin fs /\ p < 0)
  PROVE  FieldText(num, front, p, w, fs) = Spread(front \o ExactText(num, p), w, fs)
<1>1. FieldText(num, front, p, w, fs) = Spread(front \o <<>> \o ExactText(num, p), w, fs)
  BY DEF FieldText
<1>2. front \o <<>> = front BY ConcatEmpty
<1> QED BY <1>1, <1>2

LEMMA ZeroFilled ==
  ASSUME NEW num \in Seq(Char), NEW front \in Seq(Char), NEW p \in Int, NEW w \in Int, NEW fs,
         "ZEROPAD" \in fs, "LEFT" \notin fs, p < 0
  PROVE  FieldText(num, front, p, w, fs)
           = Spread(front \o (Repeat("0", w - Len(front) - Len(num)) \o num), w, fs)
<1> DEFINE r == Repeat("0", w - Len(front) - Len(num))
<1>1. Len(num) \in Nat /\ Len(front) \in Nat BY LenProperties
<1>2. ExactText(num, p) = num
  <2>1. p <= Len(num) BY <1>1
  <2> QED BY <2>1, ExactFacts
<1>3. FieldText(num, front, p, w, fs) = Spread(front \o r \o num, w, fs)
  BY <1>2 DEF FieldText
<1>4. r \in Seq(Char)
  <2>1. w - Len(front) - Len(num) \in Int BY <1>1
  <2>2. "0" \in Char BY Letters
  <2> QED BY <2>1, <2>2, RepeatType
<1> HIDE DEF r
<1>5. front \o r \o num = front \o (r \o num) BY <1>4, ConcatAssociative
<1> QED BY <1>3, <1>5 DEF r

(* A conversion as _vsnprintf hands it to _ntoa_long (p is -1 where no     *)
(* precision is given), for which "-" turns off no zeros.                  *)
AsAsked(v, base, p, w, fs) ==
  /\ v \in Nat /\ v < Pow(2, MAX_DIGITS) /\ base \in 2..16 /\ p \in Int /\ w \in Nat
  /\ "PRECISION" \in fs <=> p >= 0
  /\ p >= 0 => "ZEROPAD" \notin fs
  /\ "LEFT" \in fs => p <= IF v = 0 THEN 0 ELSE Len(NumeralOf(v, base, p, fs))
Fits(v, base, p, w, fs, front) ==
  Room(Len(NumeralOf(v, base, p, fs)), p, w, fs) + Len(front) <= NTOA_BUFFER_SIZE
Given(p) == IF p >= 0 THEN p ELSE 0

LEMMA AskedFacts ==
  ASSUME NEW v, NEW base, NEW p, NEW w, NEW fs, AsAsked(v, base, p, w, fs),
         NEW d, d = ScratchDigits(v, base, fs), NEW num, num = NumeralOf(v, base, p, fs)
  PROVE  /\ d \in Seq(Char) /\ num \in Seq(Char)
         /\ Len(num) \in Nat /\ Len(d) \in Nat /\ Len(d) <= Len(num)
         /\ p < 0 => Backwards(d) = num /\ Len(d) = Len(num) /\ Len(num) >= 1
<1>0. /\ v \in Nat /\ v < Pow(2, MAX_DIGITS) /\ base \in 2..16 /\ p \in Int
      /\ "PRECISION" \in fs <=> p >= 0
  BY DEF AsAsked
<1>1. /\ d \in Seq(Char) /\ num \in Seq(Char)
      /\ ~(v = 0 /\ p >= 0) => Backwards(d) = num /\ Len(d) = Len(num) /\ Len(num) >= 1
      /\ v = 0 /\ p >= 0 => d = <<>> /\ num = IF p = 0 THEN <<>> ELSE <<"0">>
  BY SMTT(30), <1>0, DigitsOf
<1>2. Len(num) \in Nat /\ Len(d) \in Nat BY <1>1, LenProperties
<1>3. v = 0 /\ p >= 0 => Len(d) = 0 BY <1>1, EmptySeq
<1>4. p < 0 => ~(p >= 0) BY <1>0
<1> QED BY <1>1, <1>2, <1>3, <1>4

(* The zeros in the buffer, and the room they take.                        *)
LEMMA SignPlace ==
  ASSUME NEW negative, NEW w \in Nat, NEW fs
  PROVE  /\ Len(Sign(negative, fs)) \in 0..1
         /\ FieldWidth(negative, w, fs) =
              IF w > 0 /\ "ZEROPAD" \in fs /\ "LEFT" \notin fs THEN w - Len(Sign(negative, fs)) ELSE w
<1> DEFINE n == Len(Sign(negative, fs))
<1>1. n = IF negative \/ fs \cap {"PLUS", "SPACE"} # {} THEN 1 ELSE 0 BY SignFacts
<1> HIDE DEF n
<1>2. CASE negative \/ fs \cap {"PLUS", "SPACE"} # {}
  <2>1. n = 1 BY <1>1, <1>2
  <2> QED BY <1>2, <2>1 DEF FieldWidth, n
<1>3. CASE ~(negative \/ fs \cap {"PLUS", "SPACE"} # {})
  <2>1. n = 0 /\ w - 0 = w BY <1>1, <1>3
  <2> QED BY <1>3, <2>1 DEF FieldWidth, n
<1> QED BY <1>2, <1>3

LEMMA PaddingRoom ==
  ASSUME NEW v, NEW base, NEW p, NEW w, NEW fs, AsAsked(v, base, p, w, fs),
         NEW fw \in Int, fw <= w,
         NEW d, d = ScratchDigits(v, base, fs), NEW num, num = NumeralOf(v, base, p, fs),
         NEW z, z = Zeros(Given(p), fw, fs), NEW h, h = PaddedWith(d, z)
  PROVE  /\ z = IF "LEFT" \in fs THEN 0 ELSE IF "ZEROPAD" \in fs /\ fw > Given(p) THEN fw ELSE Given(p)
         /\ z \in Int /\ h \in Seq(Char) /\ Backwards(h) = Repeat("0", z - Len(d)) \o Backwards(d)
         /\ Len(h) = IF z > Len(d) THEN z ELSE Len(d)
         /\ Len(h) <= Room(Len(num), p, w, fs) /\ Room(Len(num), p, w, fs) \in Nat
<1>1. p \in Int /\ w \in Nat /\ Given(p) = IF p >= 0 THEN p ELSE 0 BY DEF AsAsked, Given
<1>2. /\ d \in Seq(Char) /\ num \in Seq(Char)
      /\ Len(num) \in Nat /\ Len(d) \in Nat /\ Len(d) <= Len(num)
  BY AskedFacts
<1> DEFINE N    == Len(num)
           R    == Room(N, p, w, fs)
           q    == Given(p)
           left == "LEFT" \in fs
           zp   == "ZEROPAD" \in fs
<1>3. z = IF left THEN 0 ELSE IF zp /\ fw > q THEN fw ELSE q BY DEF Zeros
<1>4. R = LET zeros == IF left THEN 0 ELSE IF zp /\ p < 0 THEN w ELSE p
          IN  IF zeros > N THEN zeros ELSE N
  BY DEF Room
<1>5. p >= 0 => ~zp BY DEF AsAsked
<1> HIDE DEF N, R, q, left, zp
<1>6. N \in Nat /\ Len(d) <= N /\ q = IF p >= 0 THEN p ELSE 0 BY <1>1, <1>2 DEF N, q
<1>7. z \in Int BY <1>1, <1>3, <1>6
<1>8. z <= R /\ N <= R /\ R \in Nat BY <1>1, <1>3, <1>4, <1>5, <1>6
<1>9. /\ h \in Seq(Char) /\ Backwards(h) = Repeat("0", z - Len(d)) \o Backwards(d)
      /\ Len(h) = IF z > Len(d) THEN z ELSE Len(d)
  BY <1>2, <1>7, PaddedBack
<1>10. Len(h) <= R BY <1>2, <1>6, <1>7, <1>8, <1>9
<1> QED BY <1>3, <1>7, <1>8, <1>9, <1>10 DEF N, R, q, left, zp

(* A number without a prefix.                                              *)
LEMMA UnmarkedText ==
  ASSUME NEW v, NEW negative, NEW base, NEW p, NEW w, NEW fs,
         AsAsked(v, base, p, w, fs), "HASH" \notin fs,
         Fits(v, base, p, w, fs, Sign(negative, fs))
  PROVE  NtoaFormat(ScratchDigits(v, base, fs), negative, base, Given(p), w, fs)
           = FieldText(NumeralOf(v, base, p, fs), Sign(negative, fs), p, w, fs)
<1> DEFINE d    == ScratchDigits(v, base, fs)
           num  == NumeralOf(v, base, p, fs)
           q    == Given(p)
           sign == Sign(negative, fs)
           fw   == FieldWidth(negative, w, fs)
           z    == Zeros(q, fw, fs)
           h    == PaddedWith(d, z)
           N    == Len(num)
<1>0. p \in Int /\ w \in Nat /\ q = IF p >= 0 THEN p ELSE 0 BY DEF AsAsked, Given
<1>1. /\ d \in Seq(Char) /\ num \in Seq(Char)
      /\ Len(num) \in Nat /\ Len(d) \in Nat /\ Len(d) <= Len(num)
      /\ p < 0 => Backwards(d) = num /\ Len(d) = Len(num) /\ Len(num) >= 1
  BY AskedFacts
<1>2. sign \in Seq(Char) /\ Backwards(sign) = sign BY SignFacts
<1>3. N \in Nat /\ Len(d) \in Nat /\ Len(d) <= N BY <1>1
<1>4. /\ Len(sign) \in 0..1
      /\ fw = IF w > 0 /\ "ZEROPAD" \in fs /\ "LEFT" \notin fs THEN w - Len(sign) ELSE w
  BY <1>0, SignPlace
<1> HIDE DEF d, num, q, sign, fw
<1>5. Len(sign) \in 0..1 BY <1>4
<1>6. fw \in Int /\ fw <= w /\ q \in Int BY <1>0, <1>4, <1>5
<1>7. /\ z = IF "LEFT" \in fs THEN 0 ELSE IF "ZEROPAD" \in fs /\ fw > q THEN fw ELSE q
      /\ z \in Int /\ h \in Seq(Char) /\ Backwards(h) = Repeat("0", z - Len(d)) \o Backwards(d)
      /\ Len(h) = IF z > Len(d) THEN z ELSE Len(d)
      /\ Len(h) <= Room(Len(num), p, w, fs) /\ Room(Len(num), p, w, fs) \in Nat
  BY <1>6, PaddingRoom DEF d, num, q
<1> HIDE DEF z, h, N
<1>8. z \in Int BY <1>7
<1>9. /\ h \in Seq(Char) /\ Backwards(h) = Repeat("0", z - Len(d)) \o Backwards(d)
      /\ Len(h) = IF z > Len(d) THEN z ELSE Len(d)
  BY <1>7
<1>10. Len(h) <= NTOA_BUFFER_SIZE /\ Len(h) + Len(sign) <= NTOA_BUFFER_SIZE
  <2>1. Room(Len(num), p, w, fs) + Len(sign) <= NTOA_BUFFER_SIZE BY DEF Fits, num, sign
  <2>2. Len(h) \in Nat BY <1>9, LenProperties
  <2>3. NTOA_BUFFER_SIZE \in Nat BY BufferSizes
  <2> QED BY <1>5, <1>7, <2>1, <2>2, <2>3
<1>11. NtoaFormat(d, negative, base, q, w, fs) = OutRev(h \o sign, fw, fs)
  <2> DEFINE b == Buffered(d, negative, q, w, fs)
             k == InBuffer(d, negative, base, q, w, fs)
  <2>1. b = h BY DEF Buffered, h, z, fw
  <2>2. k = h BY <2>1 DEF InBuffer, Marked
  <2> HIDE DEF b, k
  <2>3. d \in Seq(Char) /\ q \in Int /\ w \in Int BY <1>0, <1>1, <1>6
  <2>4. Len(b) <= NTOA_BUFFER_SIZE /\ Len(k) + Len(Sign(negative, fs)) <= NTOA_BUFFER_SIZE
    BY <1>10, <2>1, <2>2 DEF sign
  <2>5. NtoaFormat(d, negative, base, q, w, fs) = OutRev(k \o Sign(negative, fs), FieldWidth(negative, w, fs), fs)
    BY <2>3, <2>4, FormatText DEF b, k
  <2> QED BY <2>2, <2>5 DEF sign, fw
<1>12. CASE ~("ZEROPAD" \in fs /\ "LEFT" \notin fs)
  <2>1. fw = w BY <1>4, <1>12
  <2>2. /\ v \in Nat /\ v < Pow(2, MAX_DIGITS) /\ base \in 2..16
        /\ "PRECISION" \in fs <=> p >= 0
    BY DEF AsAsked
  <2>3. z = q \/ (z = 0 /\ p <= IF v = 0 THEN 0 ELSE Len(num))
    <3>1. CASE "LEFT" \in fs BY <1>7, <3>1 DEF AsAsked, num
    <3>2. CASE "LEFT" \notin fs
      <4>1. z = q BY <1>7, <1>12, <3>2
      <4> QED BY <4>1
    <3> QED BY <3>1, <3>2
  <2>4. Backwards(h) = ExactText(num, p)
    <3>1. d = ScratchDigits(v, base, fs) /\ num = NumeralOf(v, base, p, fs) BY DEF d, num
    <3> QED BY <1>0, <1>8, <2>2, <2>3, <3>1, ExactPadding DEF h
  <2>5. OutRev(h \o sign, w, fs) = Spread(Backwards(sign) \o Backwards(h), w, fs)
    <3>1. w \in Int BY <1>0
    <3>2. "LEFT" \notin fs /\ "ZEROPAD" \in fs => w <= Len(h) + Len(sign) BY <1>12
    <3> QED BY Zenon, <1>2, <1>9, <3>1, <3>2, Spreads
  <2>6. FieldText(num, sign, p, w, fs) = Spread(sign \o ExactText(num, p), w, fs)
    BY <1>0, <1>1, <1>2, <1>12, Unfilled
  <2> QED BY <1>2, <1>11, <2>1, <2>4, <2>5, <2>6 DEF sign, d, num, q
<1>13. CASE "ZEROPAD" \in fs /\ "LEFT" \notin fs
  <2>1. p < 0 /\ q = 0 /\ Len(d) = N /\ Backwards(d) = num
    <3>1. ~(p >= 0) BY <1>13 DEF AsAsked
    <3> QED BY <1>0, <1>1, <3>1 DEF N
  <2>2. z = IF fw > 0 THEN fw ELSE 0 BY <1>7, <1>13, <2>1
  <2>3. fw = IF w > 0 THEN w - Len(sign) ELSE w BY <1>4, <1>13
  <2>4. fw <= Len(h) /\ w <= Len(h) + Len(sign) BY <1>0, <1>3, <1>5, <1>6, <1>9, <2>1, <2>2, <2>3
  <2>5. Repeat("0", z - Len(d)) = Repeat("0", w - Len(sign) - N)
    <3>1. "0" \in Char BY Letters
    <3>2. CASE w > 0
      <4> DEFINE a == Len(sign)
      <4>1. a \in 0..1 /\ fw = w - a BY <1>5, <2>3, <3>2
      <4> HIDE DEF a
      <4>2. fw >= 0 BY <1>0, <4>1, <3>2
      <4>3. z = w - a BY <1>6, <2>2, <4>1, <4>2
      <4>4. z - N = w - a - N BY <4>3
      <4>5. z - Len(d) = w - Len(sign) - N BY <2>1, <4>4 DEF a
      <4> QED BY <4>5
    <3>3. CASE ~(w > 0)
      <4>1. /\ z - Len(d) \in Int /\ z - Len(d) <= 0
            /\ w - Len(sign) - N \in Int /\ w - Len(sign) - N <= 0
        BY <1>0, <1>3, <1>5, <2>1, <2>2, <2>3, <3>3
      <4> QED BY <3>1, <4>1, RepeatNothing
    <3> QED BY <3>2, <3>3
  <2> DEFINE body == Repeat("0", w - Len(sign) - N) \o num
  <2>6. Backwards(h) = body BY <1>9, <2>1, <2>5
  <2>7. OutRev(h \o sign, fw, fs) = Spread(sign \o body, fw, fs)
    <3>1. fw <= Len(h) + Len(sign) BY <1>5, <1>6, <1>9, <2>4, LenProperties
    <3> HIDE DEF body
    <3>2. "LEFT" \notin fs /\ "ZEROPAD" \in fs => fw <= Len(h) + Len(sign) BY <3>1
    <3>3. OutRev(h \o sign, fw, fs) = Spread(Backwards(sign) \o Backwards(h), fw, fs)
      <4>1. h \in Seq(Char) /\ sign \in Seq(Char) /\ fw \in Int BY <1>2, <1>6, <1>9
      <4> QED BY Zenon, <3>2, <4>1, Spreads
    <3> QED BY <1>2, <2>6, <3>3
  <2>8. FieldText(num, sign, p, w, fs) = Spread(sign \o body, w, fs)
    <3>1. w \in Int BY <1>0
    <3>2. num \in Seq(Char) /\ sign \in Seq(Char) /\ p \in Int /\ p < 0 BY <1>0, <1>1, <1>2, <2>1
    <3>3. FieldText(num, sign, p, w, fs)
            = Spread(sign \o (Repeat("0", w - Len(sign) - Len(num)) \o num), w, fs)
      BY <1>13, <3>1, <3>2, ZeroFilled
    <3> QED BY <3>3 DEF N, body
  <2>9. sign \o body \in Seq(Char) /\ Len(sign \o body) = Len(sign) + Len(h)
    <3>1. body \in Seq(Char) /\ Len(body) = Len(h) BY <1>9, <2>6, BackwardsParts
    <3> HIDE DEF body
    <3>2. sign \in Seq(Char) BY <1>2
    <3>3. sign \o body \in Seq(Char) /\ Len(sign \o body) = Len(sign) + Len(body)
      BY <3>1, <3>2, ConcatProperties
    <3> QED BY <3>1, <3>3
  <2> HIDE DEF body
  <2>10. \A f \in {fw, w} : Pad(f - Len(sign \o body)) = <<>>
    <3>1. \A f \in {fw, w} : f - Len(sign \o body) \in Int /\ f - Len(sign \o body) <= 0
      BY SMTT(30), <1>0, <1>5, <1>6, <1>9, <2>4, <2>9, LenProperties
    <3> QED BY <3>1, PadNothing
  <2>11. Spread(sign \o body, fw, fs) = Spread(sign \o body, w, fs)
    BY <2>10 DEF Spread
  <2> QED BY <1>11, <2>7, <2>8, <2>11 DEF sign, d, num, q
<1> QED BY <1>12, <1>13

(* "handle hash": which digits give way to the prefix.                     *)
LEMMA HashWhole ==
  ASSUME NEW s \in Seq(Char), NEW base, NEW prec, NEW w, NEW fs,
         "PRECISION" \in fs \/ Len(s) \notin {prec, w}
  PROVE  Hash(s, base, prec, w, fs) = s \o MarkOf(base, fs)
<1>1. Len(s) \in Nat BY LenProperties
<1>2. Hash(s, base, prec, w, fs) = SubSeq(s, 1, Len(s)) \o MarkOf(base, fs) BY DEF Hash, MarkOf
<1>3. SubSeq(s, 1, Len(s)) = s
  <2>1. s \o <<>> = s /\ <<>> \in Seq(Char) BY ConcatEmpty, EmptySeq
  <2>2. SubSeq(s \o <<>>, 1, Len(s)) = s BY <2>1, Front
  <2> QED BY <2>1, <2>2
<1> QED BY <1>2, <1>3

CanGiveWay(d, base, w, fs) ==
  /\ d \in Seq(Char) /\ base \in {8, 16} /\ w \in Nat /\ w > 1
  /\ "PRECISION" \notin fs /\ w - Len(MarkOf(base, fs)) >= Len(d)

LEMMA HashCut ==
  ASSUME NEW d, NEW base, NEW prec, NEW w, NEW fs, CanGiveWay(d, base, w, fs)
  PROVE  Hash(PaddedWith(d, w), base, prec, w, fs)
           = PaddedWith(d, w - Len(MarkOf(base, fs))) \o MarkOf(base, fs)
<1> DEFINE mark == MarkOf(base, fs)
           m    == w - Len(mark)
           s    == PaddedWith(d, w)
           g    == PaddedWith(d, m)
           r    == Repeat("0", w - m)
<1>0. /\ d \in Seq(Char) /\ base \in {8, 16} /\ w \in Nat /\ w > 1
      /\ "PRECISION" \notin fs /\ m >= Len(d)
  BY DEF CanGiveWay
<1>1. Len(mark) = IF base = 16 THEN 2 ELSE 1
  <2>1. Len(mark) = IF base \in {2, 16} THEN 2 ELSE 1 BY MarkFacts
  <2> HIDE DEF mark
  <2> QED BY <1>0, <2>1
<1>2. Len(d) \in Nat BY <1>0, LenProperties
<1>3. "0" \in Char BY Letters
<1> HIDE DEF mark, m
<1>4. m = w - Len(mark) /\ m >= Len(d) BY <1>0 DEF mark, m
<1>5. w - m \in Nat /\ w > Len(d) /\ w \in Int /\ m \in Int BY <1>0, <1>1, <1>2, <1>4
<1>6. /\ s \in Seq(Char) /\ Len(s) = IF w > Len(d) THEN w ELSE Len(d)
      /\ g \in Seq(Char) /\ Len(g) = IF m > Len(d) THEN m ELSE Len(d)
  BY <1>0, <1>5, PaddedBack
<1>7. r \in Seq(Char) BY <1>3, <1>5, RepeatAt
<1>8. s = g \o r
  <2> DEFINE i == m - Len(d)
             j == w - m
             k == w - Len(d)
  <2>1. i \in Nat /\ j \in Nat /\ i + j = k BY <1>2, <1>4, <1>5
  <2>2. s = d \o Repeat("0", k) /\ g = d \o Repeat("0", i) /\ r = Repeat("0", j) BY DEF PaddedWith
  <2> HIDE DEF i, j, k, s, g, r
  <2>3. Repeat("0", i) \o Repeat("0", j) = Repeat("0", i + j) BY <1>3, <2>1, RepeatSum
  <2>4. Repeat("0", i) \in Seq(Char) /\ Repeat("0", j) \in Seq(Char) BY <1>3, <2>1, RepeatAt
  <2>5. (d \o Repeat("0", i)) \o Repeat("0", j) = d \o (Repeat("0", i) \o Repeat("0", j))
    BY SMTT(30), <1>0, <2>4, ConcatAssociative
  <2> QED BY <2>1, <2>2, <2>3, <2>5
<1> HIDE DEF s, g, r
<1>9. Len(s) = w /\ Len(g) = m BY <1>2, <1>4, <1>5, <1>6
<1>10. SubSeq(s, 1, m) = g BY <1>6, <1>7, <1>8, <1>9, Front
<1>11. Hash(s, base, prec, w, fs) = SubSeq(s, 1, m) \o mark
  <2>1. CASE base = 16
    <3>1. m = w - 2 /\ w # 0 BY <1>0, <1>1, <1>4, <2>1
    <3> QED BY <1>0, <1>9, <2>1, <3>1 DEF Hash, MarkOf, mark
  <2>2. CASE base = 8
    <3>1. m = w - 1 /\ w # 0 BY <1>0, <1>1, <1>4, <2>2
    <3> QED BY <1>0, <1>9, <2>2, <3>1 DEF Hash, MarkOf, mark
  <2> QED BY <1>0, <2>1, <2>2
<1> QED BY <1>10, <1>11 DEF s, g, m, mark

(* A number with a prefix, where the field is not just full.               *)
NotJustFull(n, base, p, w, fs) ==
  p < 0 => /\ n # w
           /\ "ZEROPAD" \in fs /\ "LEFT" \notin fs =>
                ~(w - n = 1 /\ base = 16) /\ ~(w > n /\ base = 2)

NoSign(negative, fs) == Sign(negative, fs) = <<>>

LEMMA MarkedText ==
  ASSUME NEW v, NEW negative, NEW base, NEW p, NEW w, NEW fs,
         AsAsked(v, base, p, w, fs), "HASH" \in fs, v # 0, base \in {2, 8, 16},
         NoSign(negative, fs), Fits(v, base, p, w, fs, PrefixOf(base, fs)),
         NotJustFull(Len(NumeralOf(v, base, p, fs)), base, p, w, fs)
  PROVE  NtoaFormat(ScratchDigits(v, base, fs), negative, base, Given(p), w, fs)
           = FieldText(NumeralOf(v, base, p, fs), PrefixOf(base, fs), p, w, fs)
<1> DEFINE d      == ScratchDigits(v, base, fs)
           num    == NumeralOf(v, base, p, fs)
           q      == Given(p)
           mark   == MarkOf(base, fs)
           prefix == PrefixOf(base, fs)
           z      == Zeros(q, w, fs)
           h      == PaddedWith(d, z)
           N      == Len(num)
           k      == Hash(h, base, q, w, fs)
<1>0. p \in Int /\ w \in Nat /\ q = IF p >= 0 THEN p ELSE 0 BY DEF AsAsked, Given
<1>1. /\ d \in Seq(Char) /\ num \in Seq(Char) /\ N \in Nat
      /\ Backwards(d) = num /\ Len(d) = N /\ N >= 1
  <2>1. /\ v \in Nat /\ v < Pow(2, MAX_DIGITS) /\ base \in 2..16 /\ p \in Int
        /\ "PRECISION" \in fs <=> p >= 0
    BY DEF AsAsked
  <2>2. d = ScratchDigits(v, base, fs) /\ num = NumeralOf(v, base, p, fs) OBVIOUS
  <2> HIDE DEF d, num
  <2>3. /\ d \in Seq(Char) /\ num \in Seq(Char)
        /\ ~(v = 0 /\ p >= 0) => Backwards(d) = num /\ Len(d) = Len(num) /\ Len(num) >= 1
    BY <2>1, <2>2, DigitsOf
  <2> QED BY <2>3, LenProperties
<1>2. /\ mark \in Seq(Char) /\ prefix \in Seq(Char) /\ Backwards(mark) = prefix
      /\ Len(prefix) = Len(mark) /\ Len(mark) \in 1..2
      /\ Len(mark) = IF base = 8 THEN 1 ELSE 2
  <2>1. /\ mark \in Seq(Char) /\ prefix \in Seq(Char) /\ Backwards(mark) = prefix
        /\ Len(prefix) = Len(mark) /\ Len(mark) = IF base \in {2, 16} THEN 2 ELSE 1
    BY MarkFacts
  <2> HIDE DEF mark, prefix
  <2> QED BY <2>1
<1>3. FieldWidth(negative, w, fs) = w
  <2>1. Len(Sign(negative, fs)) = 0 BY EmptySeq DEF NoSign
  <2>2. w - 0 = w BY <1>0
  <2> QED BY <1>0, <2>1, <2>2, SignPlace
<1> HIDE DEF d, num, q, mark, prefix
<1>4. /\ z = IF "LEFT" \in fs THEN 0 ELSE IF "ZEROPAD" \in fs /\ w > q THEN w ELSE q
      /\ z \in Int /\ h \in Seq(Char) /\ Backwards(h) = Repeat("0", z - Len(d)) \o Backwards(d)
      /\ Len(h) = IF z > Len(d) THEN z ELSE Len(d)
      /\ Len(h) <= Room(Len(num), p, w, fs) /\ Room(Len(num), p, w, fs) \in Nat
  <2>1. w \in Int /\ w <= w BY <1>0
  <2> QED BY SMTT(30), <2>1, PaddingRoom DEF d, num, q
<1> HIDE DEF z, h
<1>5. Len(h) \in Nat /\ NTOA_BUFFER_SIZE \in Nat BY <1>4, LenProperties, BufferSizes
<1>6. Len(h) + Len(mark) <= NTOA_BUFFER_SIZE /\ Len(h) <= NTOA_BUFFER_SIZE
  <2>1. Room(Len(num), p, w, fs) + Len(prefix) <= NTOA_BUFFER_SIZE BY DEF Fits, num, prefix
  <2> DEFINE R == Room(Len(num), p, w, fs)
             m == Len(mark)
             n == Len(h)
             B == NTOA_BUFFER_SIZE
  <2>2. n <= R /\ R \in Nat BY <1>4
  <2>3. m \in Nat /\ R + m <= B BY <1>2, <2>1
  <2>4. n \in Nat /\ B \in Nat BY <1>5
  <2> HIDE DEF R, m, n, B
  <2>5. n + m <= B /\ n <= B BY <2>2, <2>3, <2>4
  <2> QED BY <2>5 DEF n, m, B
<1> HIDE DEF k
<1>7. ASSUME NEW g \in Seq(Char), k = g \o mark, Len(g) <= Len(h),
             "LEFT" \notin fs /\ "ZEROPAD" \in fs => w <= Len(g) + Len(mark)
      PROVE  NtoaFormat(d, negative, base, q, w, fs) = Spread(prefix \o Backwards(g), w, fs)
  <2>1. k \in Seq(Char) /\ Len(k) = Len(g) + Len(mark)
    <3>1. g \in Seq(Char) /\ mark \in Seq(Char) /\ k = g \o mark BY <1>2, <1>7
    <3> QED BY <3>1, ConcatProperties
  <2>2. Len(k) + Len(Sign(negative, fs)) <= NTOA_BUFFER_SIZE
    <3>1. Len(g) \in Nat /\ Len(Sign(negative, fs)) = 0 BY LenProperties, EmptySeq DEF NoSign
    <3> QED BY <1>2, <1>5, <1>6, <1>7, <2>1, <3>1
  <2>3. NtoaFormat(d, negative, base, q, w, fs) = OutRev(k \o Sign(negative, fs), w, fs)
    <3> DEFINE b == Buffered(d, negative, q, w, fs)
               i == InBuffer(d, negative, base, q, w, fs)
    <3>1. b = h BY <1>3 DEF Buffered, h, z
    <3>2. i = k BY <1>3, <3>1 DEF InBuffer, Marked, k
    <3> HIDE DEF b, i
    <3>3. d \in Seq(Char) /\ q \in Int /\ w \in Int BY <1>0, <1>1
    <3>4. Len(b) <= NTOA_BUFFER_SIZE /\ Len(i) + Len(Sign(negative, fs)) <= NTOA_BUFFER_SIZE
      BY <1>6, <2>2, <3>1, <3>2
    <3>5. NtoaFormat(d, negative, base, q, w, fs) = OutRev(i \o Sign(negative, fs), FieldWidth(negative, w, fs), fs)
      BY <3>3, <3>4, FormatText DEF b, i
    <3> QED BY <1>3, <3>2, <3>5
  <2>5. k \o Sign(negative, fs) = g \o mark
    <3>1. Sign(negative, fs) = <<>> BY DEF NoSign
    <3> QED BY <1>7, <2>1, <3>1, ConcatEmpty
  <2>6. OutRev(g \o mark, w, fs) = Spread(Backwards(mark) \o Backwards(g), w, fs)
    <3>1. w \in Int BY <1>0
    <3> QED BY <1>2, <1>7, <3>1, Spreads
  <2> QED BY <1>2, <2>3, <2>5, <2>6
<1>8. CASE ~("ZEROPAD" \in fs /\ "LEFT" \notin fs /\ p < 0)
  <2>1. ~("ZEROPAD" \in fs /\ "LEFT" \notin fs)
    <3>1. p >= 0 => "ZEROPAD" \notin fs BY DEF AsAsked
    <3>2. p >= 0 \/ p < 0 BY <1>0
    <3> QED BY <1>8, <3>1, <3>2
  <2>2. z = q \/ (z = 0 /\ p <= IF v = 0 THEN 0 ELSE Len(num))
    <3>1. CASE "LEFT" \in fs BY <1>4, <3>1 DEF AsAsked, num
    <3>2. CASE "LEFT" \notin fs
      <4>1. z = q BY <1>4, <2>1, <3>2
      <4> QED BY <4>1
    <3> QED BY <3>1, <3>2
  <2>3. Backwards(h) = ExactText(num, p)
    <3>1. d = ScratchDigits(v, base, fs) /\ num = NumeralOf(v, base, p, fs) BY DEF d, num
    <3>2. /\ v \in Nat /\ v < Pow(2, MAX_DIGITS) /\ base \in 2..16
          /\ "PRECISION" \in fs <=> p >= 0
      BY DEF AsAsked
    <3> QED BY SMTT(30), <1>0, <1>4, <2>2, <3>1, <3>2, ExactPadding DEF h
  <2>4. k = h \o mark
    <3>1. "PRECISION" \in fs \/ Len(h) \notin {q, w}
      <4>1. CASE p >= 0 BY <4>1 DEF AsAsked
      <4>2. CASE p < 0
        <5>1. z = 0
          <6>1. q = 0 BY <1>0, <4>2
          <6> QED BY <2>2, <6>1
        <5>2. Len(h) = N BY <1>1, <1>4, <5>1
        <5>3. N # w BY <4>2 DEF NotJustFull, num
        <5>4. q = 0 BY <1>0, <4>2
        <5> QED BY <1>1, <5>2, <5>3, <5>4
      <4> QED BY <1>0, <4>1, <4>2
    <3> QED BY <1>4, <3>1, HashWhole DEF k, mark
  <2>5. NtoaFormat(d, negative, base, q, w, fs) = Spread(prefix \o Backwards(h), w, fs)
    <3>1. h \in Seq(Char) /\ Len(h) <= Len(h) BY <1>4, <1>5
    <3> QED BY <1>7, <2>1, <2>4, <3>1
  <2>6. FieldText(num, prefix, p, w, fs) = Spread(prefix \o ExactText(num, p), w, fs)
    BY <1>0, <1>1, <1>2, <1>8, Unfilled
  <2> QED BY <2>3, <2>5, <2>6 DEF d, num, q, prefix
<1>9. CASE "ZEROPAD" \in fs /\ "LEFT" \notin fs /\ p < 0
  <2>1. q = 0 /\ z = w
    <3>1. q = 0 BY <1>0, <1>9
    <3>2. z = IF w > 0 THEN w ELSE 0 BY <1>4, <1>9, <3>1
    <3> QED BY <1>0, <3>1, <3>2
  <2>2. "PRECISION" \notin fs
    <3>1. ~(p >= 0) BY <1>0, <1>9
    <3> QED BY <3>1 DEF AsAsked
  <2>3. N # w /\ ~(w - N = 1 /\ base = 16) /\ ~(w > N /\ base = 2) BY <1>9 DEF NotJustFull, num
  <2> DEFINE m == Len(mark)
  <2>4. FieldText(num, prefix, p, w, fs) = Spread(prefix \o (Repeat("0", w - m - N) \o num), w, fs)
    <3>1. w \in Int BY <1>0
    <3>2. FieldText(num, prefix, p, w, fs)
            = Spread(prefix \o (Repeat("0", w - Len(prefix) - Len(num)) \o num), w, fs)
      <4>1. num \in Seq(Char) /\ prefix \in Seq(Char) /\ p \in Int /\ p < 0 BY <1>0, <1>1, <1>2, <1>9
      <4> QED BY <1>9, <3>1, <4>1, ZeroFilled
    <3> QED BY <1>2, <3>2 DEF N
  <2>5. CASE w < N
    <3>1. h = d
      <4>1. z \in Int /\ z <= Len(d) BY <1>0, <1>1, <2>1, <2>5
      <4> QED BY <1>1, <4>1, PaddedBack DEF h
    <3>2. k = d \o mark
      <4>1. Len(d) \notin {q, w} BY <1>1, <2>1, <2>5
      <4> QED BY <1>1, <3>1, <4>1, HashWhole DEF k, mark
    <3>3. Len(d) <= Len(h) /\ w <= Len(d) + Len(mark) BY <1>0, <1>1, <1>2, <2>5, <3>1
    <3>4. NtoaFormat(d, negative, base, q, w, fs) = Spread(prefix \o Backwards(d), w, fs)
      BY <1>1, <1>7, <3>2, <3>3
    <3>5. w - m - N \in Int /\ w - m - N <= 0 BY <1>0, <1>1, <1>2, <2>5
    <3>6. "0" \in Char BY Letters
    <3>7. Repeat("0", w - m - N) \o num = num
      <4>1. Repeat("0", w - m - N) = <<>> BY <3>5, <3>6, RepeatNothing
      <4> QED BY <1>1, <4>1, ConcatEmpty
    <3> QED BY <1>1, <2>4, <3>4, <3>7 DEF d, num, q, prefix
  <2>6. CASE w > N
    <3>1. base \in {8, 16} BY <2>3, <2>6
    <3>2. w - m \in Nat /\ w - m >= Len(d) /\ w > 1
      <4>1. base = 8 => m = 1 BY <1>2
      <4>2. base = 16 => m = 2 BY <1>2
      <4> HIDE DEF m
      <4> QED BY <1>0, <1>1, <2>3, <2>6, <3>1, <4>1, <4>2
    <3> DEFINE c == w - m
               g == PaddedWith(d, c)
    <3>3. c \in Nat /\ c >= Len(d) /\ c = w - Len(MarkOf(base, fs)) BY <3>2 DEF mark
    <3> HIDE DEF c
    <3>4. k = g \o mark
      <4>1. w \in Nat /\ w > 1 /\ h = PaddedWith(d, w) BY <1>0, <2>1, <3>2 DEF h
      <4>2. d \in Seq(Char) BY <1>1
      <4>3. Hash(PaddedWith(d, w), base, q, w, fs) = g \o MarkOf(base, fs)
        <5>1. w - Len(MarkOf(base, fs)) >= Len(d) BY <3>3
        <5> HIDE DEF g
        <5>2. Hash(PaddedWith(d, w), base, q, w, fs)
                = PaddedWith(d, w - Len(MarkOf(base, fs))) \o MarkOf(base, fs)
          <6>1. w \in Nat /\ w > 1 BY <4>1
          <6>2. CanGiveWay(d, base, w, fs) BY <2>2, <3>1, <4>2, <5>1, <6>1 DEF CanGiveWay
          <6> QED BY <6>2, HashCut
        <5> QED BY <3>3, <5>2 DEF g
      <4> QED BY <4>1, <4>3 DEF k, mark
    <3>5. /\ g \in Seq(Char) /\ Backwards(g) = Repeat("0", c - Len(d)) \o Backwards(d)
          /\ Len(g) = IF c > Len(d) THEN c ELSE Len(d)
      <4>1. c \in Int /\ d \in Seq(Char) BY <1>1, <3>3
      <4> QED BY <4>1, PaddedBack
    <3> HIDE DEF g
    <3>6. Len(g) <= Len(h) /\ w <= Len(g) + Len(mark)
      <4>1. Len(g) = c BY <1>1, <3>3, <3>5
      <4>2. Len(h) = w BY <1>0, <1>1, <1>4, <2>1, <2>6
      <4>3. m \in Nat /\ c = w - m BY <1>2 DEF c
      <4> HIDE DEF m
      <4>4. c <= w /\ w <= c + m BY <1>0, <4>3
      <4> QED BY <4>1, <4>2, <4>4 DEF m
    <3>7. NtoaFormat(d, negative, base, q, w, fs) = Spread(prefix \o Backwards(g), w, fs)
      BY <1>7, <3>4, <3>5, <3>6
    <3> QED BY <1>1, <2>4, <3>5, <3>7 DEF d, num, q, prefix, c
  <2> QED BY <1>0, <1>1, <2>3, <2>5, <2>6
<1> QED BY <1>8, <1>9

LEMMA DigitsOfZero ==
  ASSUME NEW base \in 2..16, NEW fs
  PROVE  Digits(0, base, fs) = <<"0">> /\ Numeral(0, base, Letters16(fs)) = <<"0">>
<1>1. 0 \in Nat /\ 0 < base /\ 0 % base = 0 OBVIOUS
<1>2. 0 < Pow(2, MAX_DIGITS)
  <2>1. 2 \in Nat \ {0} /\ MAX_DIGITS \in Nat BY DEF MAX_DIGITS
  <2>2. Pow(2, MAX_DIGITS) \in Nat \ {0} BY <2>1, PowType
  <2> QED BY <2>2
<1>3. LetterOf(0, fs) = "0"
  <2>1. DigitChar[1] = "0" /\ UpperChar[1] = "0" BY DEF DigitChar, UpperChar
  <2>2. 0 + 1 = 1 OBVIOUS
  <2> QED BY <2>1, <2>2 DEF LetterOf
<1>4. Digits(0, base, fs) = <<LetterOf(0 % base, fs)>> BY Zenon, <1>1, <1>2, LastDigit
<1>5. Digits(0, base, fs) = <<"0">> BY <1>1, <1>3, <1>4
<1>6. Backwards(Digits(0, base, fs)) = Numeral(0, base, Letters16(fs)) BY Zenon, <1>1, <1>2, DigitsAreNumeral
<1>7. Backwards(<<"0">>) = <<"0">>
  <2>1. "0" \in Char BY Letters
  <2> QED BY Zenon, <2>1, BackwardsOne
<1> QED BY <1>5, <1>6, <1>7

Hashless(fs, gs) == gs = fs \ {"HASH"}

LEMMA ZeroWithoutHash ==
  ASSUME NEW base, NEW p, NEW w, NEW fs, AsAsked(0, base, p, w, fs),
         NEW gs, Hashless(fs, gs), NEW negative, NEW front, NEW num
  PROVE  /\ ScratchDigits(0, base, gs) = ScratchDigits(0, base, fs)
         /\ NumeralOf(0, base, p, gs) = NumeralOf(0, base, p, fs)
         /\ AsAsked(0, base, p, w, gs) /\ Sign(negative, gs) = Sign(negative, fs)
         /\ Fits(0, base, p, w, fs, front) => Fits(0, base, p, w, gs, front)
         /\ FieldText(num, front, p, w, gs) = FieldText(num, front, p, w, fs)
<1>1. base \in 2..16 BY DEF AsAsked
<1>2. /\ Digits(0, base, gs) = Digits(0, base, fs)
      /\ Numeral(0, base, Letters16(gs)) = Numeral(0, base, Letters16(fs))
  BY <1>1, DigitsOfZero
<1>3. \A f \in {"LEFT", "ZEROPAD", "PRECISION", "PLUS", "SPACE", "UPPERCASE"} : f \in gs <=> f \in fs BY DEF Hashless
<1>4. gs \cap {"PLUS", "SPACE"} = fs \cap {"PLUS", "SPACE"} BY DEF Hashless
<1>5. ScratchDigits(0, base, gs) = ScratchDigits(0, base, fs) BY <1>2, <1>3 DEF ScratchDigits
<1>6. NumeralOf(0, base, p, gs) = NumeralOf(0, base, p, fs) BY <1>2 DEF NumeralOf
<1>7. AsAsked(0, base, p, w, gs)
  <2>1. /\ 0 \in Nat /\ 0 < Pow(2, MAX_DIGITS) /\ base \in 2..16 /\ p \in Int /\ w \in Nat
        /\ "PRECISION" \in fs <=> p >= 0
        /\ p >= 0 => "ZEROPAD" \notin fs
        /\ "LEFT" \in fs => p <= 0
    BY DEF AsAsked
  <2> DEFINE given == p >= 0
             none  == p <= 0
             small == 0 < Pow(2, MAX_DIGITS)
  <2>2. /\ 0 \in Nat /\ small /\ base \in 2..16 /\ p \in Int /\ w \in Nat
        /\ "PRECISION" \in fs <=> given
        /\ given => "ZEROPAD" \notin fs
        /\ "LEFT" \in fs => none
    BY <2>1
  <2> HIDE DEF given, none, small
  <2>3. /\ 0 \in Nat /\ small /\ base \in 2..16 /\ p \in Int /\ w \in Nat
        /\ "PRECISION" \in gs <=> given
        /\ given => "ZEROPAD" \notin gs
        /\ "LEFT" \in gs => none
    BY <1>3, <2>2
  <2> QED BY <2>3 DEF AsAsked, given, none, small
<1>8. Sign(negative, gs) = Sign(negative, fs) BY <1>3 DEF Sign
<1>9. \A n : Room(n, p, w, gs) = Room(n, p, w, fs) BY <1>3 DEF Room
<1>10. Fits(0, base, p, w, fs, front) => Fits(0, base, p, w, gs, front) BY <1>6, <1>9 DEF Fits
<1>11. \A s : Spread(s, w, gs) = Spread(s, w, fs) BY <1>3 DEF Spread
<1>12. FieldText(num, front, p, w, gs) = FieldText(num, front, p, w, fs) BY <1>3, <1>11 DEF FieldText
<1> QED BY <1>5, <1>6, <1>7, <1>8, <1>10, <1>12

PrefixFor(v, base, fs) == IF "HASH" \in fs /\ v # 0 THEN PrefixOf(base, fs) ELSE <<>>

FrontOf(v, negative, base, fs) == Sign(negative, fs) \o PrefixFor(v, base, fs)
InPlace(v, negative, base, p, w, fs) ==
  "HASH" \in fs /\ v # 0 => /\ base \in {2, 8, 16} /\ NoSign(negative, fs)
                            /\ NotJustFull(Len(NumeralOf(v, base, p, fs)), base, p, w, fs)

(* _ntoa_long puts out the text of the standard.                           *)
LEMMA IntegerText ==
  ASSUME NEW v, NEW negative, NEW base, NEW p, NEW w, NEW fs,
         AsAsked(v, base, p, w, fs), InPlace(v, negative, base, p, w, fs),
         Fits(v, base, p, w, fs, FrontOf(v, negative, base, fs))
  PROVE  NtoaLong(v, negative, base, Given(p), w, fs)
           = FieldText(NumeralOf(v, base, p, fs), FrontOf(v, negative, base, fs), p, w, fs)
<1> DEFINE d   == ScratchDigits(v, base, fs)
           num == NumeralOf(v, base, p, fs)
           gs  == IF v = 0 THEN fs \ {"HASH"} ELSE fs
           front == FrontOf(v, negative, base, fs)
<1>0. front = Sign(negative, fs) \o PrefixFor(v, base, fs) /\ Fits(v, base, p, w, fs, front) BY DEF FrontOf
<1> HIDE DEF front
<1>1. /\ d \in Seq(Char) /\ num \in Seq(Char)
      /\ Len(num) \in Nat /\ Len(d) \in Nat /\ Len(d) <= Len(num)
  BY AskedFacts
<1>2. front \in Seq(Char) /\ Len(front) \in Nat
  <2>1. Sign(negative, fs) \in Seq(Char) BY SignType
  <2>2. PrefixFor(v, base, fs) \in Seq(Char) BY MarkFacts, EmptySeq DEF PrefixFor
  <2>3. front \in Seq(Char) BY <1>0, <2>1, <2>2, ConcatProperties
  <2> QED BY <2>3, LenProperties
<1> HIDE DEF d, num
<1>3. Len(d) <= NTOA_BUFFER_SIZE
  <2>1. Room(Len(num), p, w, fs) + Len(front) <= NTOA_BUFFER_SIZE BY <1>0 DEF Fits, num
  <2>2. p \in Int /\ w \in Nat BY DEF AsAsked
  <2>3. Room(Len(num), p, w, fs) \in Int /\ Len(num) <= Room(Len(num), p, w, fs) BY <1>1, <2>2 DEF Room
  <2>4. NTOA_BUFFER_SIZE \in Nat BY BufferSizes
  <2> DEFINE R == Room(Len(num), p, w, fs)
  <2> HIDE DEF R
  <2> QED BY <1>1, <1>2, <2>1, <2>3, <2>4 DEF R
<1>4. NtoaLong(v, negative, base, Given(p), w, fs) = NtoaFormat(d, negative, base, Given(p), w, gs)
  <2> DEFINE x == Fit(Digits(v, base, fs), NTOA_BUFFER_SIZE)
             y == IF "PRECISION" \in fs /\ v = 0 THEN <<>> ELSE x
  <2>1. y = d
    <3>1. CASE "PRECISION" \in fs /\ v = 0 BY <3>1 DEF d, ScratchDigits
    <3>2. CASE ~("PRECISION" \in fs /\ v = 0)
      <4>1. d = Digits(v, base, fs) BY <3>2 DEF d, ScratchDigits
      <4>2. Fit(d, NTOA_BUFFER_SIZE) = d BY <1>1, <1>3, BufferSizes, FitAll
      <4> QED BY <3>2, <4>1, <4>2
    <3> QED BY <3>1, <3>2
  <2>2. NtoaLong(v, negative, base, Given(p), w, fs) = NtoaFormat(y, negative, base, Given(p), w, gs)
    BY DEF NtoaLong
  <2> QED BY <2>1, <2>2
<1>5. CASE "HASH" \in fs /\ v # 0
  <2>1. gs = fs /\ PrefixFor(v, base, fs) = PrefixOf(base, fs) BY <1>5 DEF PrefixFor
  <2>2. base \in {2, 8, 16} /\ NoSign(negative, fs) /\ NotJustFull(Len(NumeralOf(v, base, p, fs)), base, p, w, fs)
    BY <1>5 DEF InPlace
  <2>3. front = PrefixOf(base, fs)
    <3>1. PrefixOf(base, fs) \in Seq(Char) BY MarkFacts
    <3>2. Sign(negative, fs) = <<>> BY <2>2 DEF NoSign
    <3> QED BY <1>0, <2>1, <3>1, <3>2, ConcatEmpty
  <2>4. Fits(v, base, p, w, fs, PrefixOf(base, fs)) BY <1>0, <2>3
  <2>5. NtoaFormat(d, negative, base, Given(p), w, fs) = FieldText(num, PrefixOf(base, fs), p, w, fs)
    BY <1>5, <2>2, <2>4, MarkedText DEF d, num
  <2> QED BY <1>4, <2>1, <2>3, <2>5 DEF num, front
<1>6. CASE ~("HASH" \in fs /\ v # 0)
  <2>1. front = Sign(negative, fs)
    <3>1. PrefixFor(v, base, fs) = <<>> BY <1>6 DEF PrefixFor
    <3>2. Sign(negative, fs) \in Seq(Char) BY SignType
    <3> QED BY <1>0, <3>1, <3>2, ConcatEmpty
  <2>2. /\ d = ScratchDigits(v, base, gs) /\ num = NumeralOf(v, base, p, gs)
        /\ AsAsked(v, base, p, w, gs) /\ Sign(negative, gs) = Sign(negative, fs)
        /\ Fits(v, base, p, w, gs, front)
        /\ FieldText(num, front, p, w, gs) = FieldText(num, front, p, w, fs)
        /\ "HASH" \notin gs
    <3>1. CASE v = 0
      <4>1. Hashless(fs, gs) /\ "HASH" \notin gs BY <3>1 DEF Hashless
      <4> HIDE DEF gs
      <4>2. AsAsked(0, base, p, w, fs) /\ Fits(0, base, p, w, fs, front) BY <1>0, <3>1
      <4>3. /\ ScratchDigits(0, base, gs) = ScratchDigits(0, base, fs)
            /\ NumeralOf(0, base, p, gs) = NumeralOf(0, base, p, fs)
            /\ AsAsked(0, base, p, w, gs) /\ Sign(negative, gs) = Sign(negative, fs)
            /\ Fits(0, base, p, w, gs, front)
            /\ FieldText(num, front, p, w, gs) = FieldText(num, front, p, w, fs)
        BY <4>1, <4>2, ZeroWithoutHash
      <4> QED BY <3>1, <4>1, <4>3 DEF d, num
    <3>2. CASE v # 0
      <4>1. gs = fs /\ "HASH" \notin gs BY <1>6, <3>2
      <4> QED BY <1>0, <4>1 DEF d, num
    <3> QED BY <3>1, <3>2
  <2> HIDE DEF gs
  <2>3. NtoaFormat(d, negative, base, Given(p), w, gs) = FieldText(num, front, p, w, gs)
    BY <2>1, <2>2, UnmarkedText
  <2> QED BY <1>4, <2>2, <2>3 DEF num, front
<1> QED BY <1>5, <1>6

(* Words.                                                                  *)
LEMMA PowMono ==
  ASSUME NEW n \in Nat, NEW m \in 0..n
  PROVE  Pow(2, m) <= Pow(2, n)
<1>0. 2 \in Nat \ {0} /\ m \in Nat OBVIOUS
<1>1. PICK p : Powers(p, 2, n) BY <1>0, PowSteps
<1>2. PICK q : Powers(q, 2, m) BY <1>0, PowSteps
<1>3. p \in [0..n -> Nat \ {0}] /\ p[0] = 1 /\ (\A k \in 1..n : p[k] = 2 * p[k-1]) /\ Pow(2, n) = p[n]
  BY <1>1 DEF Powers
<1>4. q \in [0..m -> Nat \ {0}] /\ q[0] = 1 /\ (\A k \in 1..m : q[k] = 2 * q[k-1]) /\ Pow(2, m) = q[m]
  BY <1>2 DEF Powers
<1> DEFINE T == {k \in 0..m : q[k] = p[k]}
           U == {k \in 0..n : k >= m => p[m] <= p[k]}
<1>5. T = 0..m
  <2>1. 0 \in T BY <1>3, <1>4
  <2>2. ASSUME NEW k \in 1..m, k - 1 \in T PROVE k \in T
    <3>1. k \in 1..n /\ k \in 0..m /\ q[k-1] = p[k-1] BY <2>2
    <3> QED BY <1>3, <1>4, <3>1
  <2>3. T \in SUBSET (0..m) OBVIOUS
  <2> HIDE DEF T
  <2> QED BY <1>0, <2>1, <2>2, <2>3, AllUpTo
<1>6. U = 0..n
  <2>1. 0 \in U BY <1>3
  <2>2. ASSUME NEW k \in 1..n, k - 1 \in U PROVE k \in U
    <3>1. k \in 0..n /\ k - 1 \in 0..n /\ p[k] = 2 * p[k-1] BY <1>3
    <3>2. p[k] \in Nat /\ p[k-1] \in Nat /\ p[m] \in Nat BY <1>3, <3>1
    <3>3. k >= m => p[m] <= p[k]
      <4>1. CASE k = m BY <3>2, <4>1
      <4>2. CASE k # m
        <5>1. k >= m => k - 1 >= m BY <4>2
        <5>2. k >= m => p[m] <= p[k-1] BY <2>2, <5>1
        <5> QED BY <3>1, <3>2, <5>2
      <4> QED BY <4>1, <4>2
    <3> QED BY <3>1, <3>3
  <2>3. U \in SUBSET (0..n) OBVIOUS
  <2> HIDE DEF U
  <2> QED BY <2>1, <2>2, <2>3, AllUpTo
<1>7. q[m] = p[m]
  <2>1. m \in T BY <1>5
  <2> QED BY <2>1
<1>8. p[m] <= p[n]
  <2>1. n \in U /\ n >= m BY <1>6
  <2> QED BY <2>1
<1> QED BY <1>3, <1>4, <1>7, <1>8

LEMMA WordRange ==
  ASSUME NEW n \in Int, NEW bits \in 1..MAX_DIGITS
  PROVE  /\ Unsigned(n, bits) \in Nat /\ Signed(n, bits) \in Int
         /\ Signed(n, bits) >= 0 => Signed(n, bits) = Unsigned(n, bits)
         /\ Abs(Unsigned(n, bits)) \in Nat /\ Abs(Unsigned(n, bits)) < Pow(2, MAX_DIGITS)
         /\ Abs(Signed(n, bits)) \in Nat /\ Abs(Signed(n, bits)) < Pow(2, MAX_DIGITS)
<1> DEFINE P == Pow(2, bits)
           H == Pow(2, bits - 1)
           M == Pow(2, MAX_DIGITS)
           u == Unsigned(n, bits)
           s == Signed(n, bits)
<1>0. 2 \in Nat \ {0} /\ bits \in Nat /\ bits - 1 \in Nat /\ MAX_DIGITS \in Nat /\ bits \in 0..MAX_DIGITS
  BY DEF MAX_DIGITS
<1>1. P \in Nat \ {0} /\ H \in Nat \ {0} /\ M \in Nat \ {0} BY <1>0, PowType
<1>2. P <= M BY <1>0, PowMono
<1>3. u = n % P /\ s = IF u < H THEN u ELSE u - P BY DEF Unsigned, Signed
<1> HIDE DEF P, H, M, u, s
<1>4. n % P \in 0..P-1 BY Zenon, <1>1, DivMod
<1>5. u \in Nat /\ u < P BY <1>1, <1>3, <1>4
<1>6. s \in Int /\ (s >= 0 => s = u) BY <1>1, <1>3, <1>5
<1>7. Abs(u) = u BY <1>5 DEF Abs
<1>8. Abs(s) \in Nat /\ Abs(s) < M BY <1>1, <1>2, <1>3, <1>5 DEF Abs
<1>9. u < M BY <1>1, <1>2, <1>5
<1> QED BY <1>5, <1>6, <1>7, <1>8, <1>9 DEF u, s, M

(* Reading a decimal numeral in the format.                                *)
LEMMA DigitValues ==
  ASSUME NEW d \in 0..9
  PROVE  DigitChar[d+1] \in Decimal /\ DigitValue(DigitChar[d+1]) = d /\ (d # 0 => DigitChar[d+1] # "0")
<1>1. \A i, j \in 1..10 : DigitChar[i] = DigitChar[j] => i = j BY DEF DigitChar
<1>2. d + 1 \in 1..10 /\ d + 1 - 1 = d OBVIOUS
<1>3. DigitChar[d+1] \in Decimal BY <1>2 DEF Decimal
<1> DEFINE c == DigitChar[d+1]
           i == CHOOSE i \in 1..10 : DigitChar[i] = c
<1>4. i \in 1..10 /\ DigitChar[i] = c BY <1>2
<1>5. i = d + 1 BY <1>1, <1>2, <1>4
<1>6. DigitValue(c) = i - 1 BY DEF DigitValue
<1>7. d # 0 => c # "0"
  <2>1. DigitChar[1] = "0" /\ 1 \in 1..10 BY DEF DigitChar
  <2> QED BY <1>1, <1>2, <2>1
<1> HIDE DEF c, i
<1>8. DigitValue(c) = d BY <1>2, <1>5, <1>6
<1> QED BY <1>3, <1>7, <1>8 DEF c

Number(n) == Numeral(n, 10, DigitChar)

LEMMA NumberParts ==
  ASSUME NEW n \in Nat, n < Pow(2, MAX_DIGITS)
  PROVE  /\ Number(n) \in Seq(Char) /\ n % 10 \in 0..9
         /\ n < 10 => Number(n) = <<DigitChar[(n % 10) + 1]>> /\ n % 10 = n
         /\ n >= 10 => /\ n \div 10 \in 1..n-1 /\ n \div 10 < Pow(2, MAX_DIGITS)
                       /\ n = 10 * (n \div 10) + (n % 10)
                       /\ Number(n) = Number(n \div 10) \o <<DigitChar[(n % 10) + 1]>>
<1> DEFINE fs == {}
           ds(k) == Digits(k, 10, fs)
           c == LetterOf(n % 10, fs)
           m == n \div 10
           M == Pow(2, MAX_DIGITS)
<1>0. 10 \in 2..16 /\ 10 \in 1..16 /\ n % 10 \in 0..9 /\ n \in Nat /\ n < M OBVIOUS
<1>1. \A k \in Nat : k < M => Backwards(ds(k)) = Number(k) /\ ds(k) \in Seq(Char)
  <2> SUFFICES ASSUME NEW k \in Nat, k < M PROVE Backwards(ds(k)) = Number(k) /\ ds(k) \in Seq(Char) OBVIOUS
  <2>1. Letters16(fs) = DigitChar BY DEF Letters16
  <2>2. Backwards(ds(k)) = Numeral(k, 10, Letters16(fs))
    <3> HIDE DEF fs
    <3> QED BY Zenon, <1>0, DigitsAreNumeral
  <2>3. ds(k) \in Seq(Char)
    <3> HIDE DEF fs
    <3> QED BY <1>0, DigitsType
  <2> QED BY <2>1, <2>2, <2>3 DEF Number
<1>2. c = DigitChar[(n % 10) + 1] /\ c \in Char
  <2>1. c = DigitChar[(n % 10) + 1] BY DEF LetterOf
  <2>2. n % 10 \in 0..15 BY <1>0
  <2> QED BY <2>1, <2>2, DigitChars
<1> HIDE DEF fs, ds, c, M
<1>3. Backwards(<<c>>) = <<c>> /\ <<c>> \in Seq(Char) BY <1>2, BackwardsOne, ShortText
<1>4. Number(n) \in Seq(Char) BY <1>0, <1>1, BackwardsType
<1>5. n < 10 => Number(n) = <<c>> /\ n % 10 = n
  <2> SUFFICES ASSUME n < 10 PROVE Number(n) = <<c>> /\ n % 10 = n OBVIOUS
  <2>1. ds(n) = <<c>> BY Zenon, <1>0, LastDigit DEF ds, c
  <2>2. n % 10 = n OBVIOUS
  <2> QED BY <1>0, <1>1, <1>3, <2>1, <2>2
<1>6. n >= 10 => /\ m \in 1..n-1 /\ m < M /\ n = 10 * m + (n % 10)
                 /\ Number(n) = Number(m) \o <<c>>
  <2> SUFFICES ASSUME n >= 10 PROVE /\ m \in 1..n-1 /\ m < M /\ n = 10 * m + (n % 10)
                                    /\ Number(n) = Number(m) \o <<c>>
    OBVIOUS
  <2>1. m \in 1..n-1 /\ m < M /\ ds(n) = <<c>> \o ds(m)
    BY Zenon, <1>0, MoreDigits DEF ds, c, M
  <2>2. n = 10 * m + (n % 10) OBVIOUS
  <2> HIDE DEF m
  <2>3. m \in Nat BY <2>1
  <2>4. Backwards(ds(n)) = Backwards(ds(m)) \o Backwards(<<c>>)
    BY <1>1, <1>3, <2>1, <2>3, BackwardsConcat
  <2> QED BY <1>0, <1>1, <1>3, <2>1, <2>2, <2>3, <2>4
<1> QED BY <1>0, <1>2, <1>4, <1>5, <1>6 DEF M

LEMMA NumberShape ==
  ASSUME NEW v \in Nat, v < Pow(2, MAX_DIGITS)
  PROVE  /\ Number(v) \in Seq(Char) /\ Len(Number(v)) \in Nat /\ Len(Number(v)) >= 1
         /\ \A i \in 1..Len(Number(v)) : Number(v)[i] \in Decimal
         /\ v # 0 => Number(v)[1] # "0"
<1> DEFINE M == Pow(2, MAX_DIGITS)
           Good(n) == /\ Number(n) \in Seq(Char) /\ Len(Number(n)) \in Nat /\ Len(Number(n)) >= 1
                      /\ \A i \in 1..Len(Number(n)) : Number(n)[i] \in Decimal
                      /\ n # 0 => Number(n)[1] # "0"
           Bad == {n \in 0..v : ~Good(n)}
<1>0. M \in Nat
  <2>1. 2 \in Nat \ {0} /\ MAX_DIGITS \in Nat BY DEF MAX_DIGITS
  <2> QED BY <2>1, PowType
<1>1. ASSUME Bad # {} PROVE FALSE
  <2>1. PICK n \in Bad : \A j \in Bad : n <= j
    <3>1. Bad \in SUBSET Nat OBVIOUS
    <3> HIDE DEF Bad
    <3> QED BY <1>1, <3>1, LeastNumber
  <2>2. n \in 0..v /\ ~Good(n) BY <2>1
  <2> DEFINE c == DigitChar[(n % 10) + 1]
             m == n \div 10
  <2>3. n \in Nat /\ n < Pow(2, MAX_DIGITS)
    <3>1. v < M OBVIOUS
    <3> HIDE DEF M
    <3>2. n \in Nat /\ n < M BY <1>0, <2>2, <3>1
    <3> QED BY <3>2 DEF M
  <2>4. /\ Number(n) \in Seq(Char) /\ n % 10 \in 0..9
        /\ n < 10 => Number(n) = <<c>> /\ n % 10 = n
        /\ n >= 10 => m \in 1..n-1 /\ Number(n) = Number(m) \o <<c>>
    BY <2>3, NumberParts
  <2>5. c \in Decimal /\ (n % 10 # 0 => c # "0") BY <2>4, DigitValues
  <2> HIDE DEF c, m, Good
  <2>6. Len(Number(n)) \in Nat BY <2>4, LenProperties
  <2>7. CASE n < 10
    <3>1. Number(n) = <<c>> /\ n % 10 = n BY <2>4, <2>7
    <3>2. Len(Number(n)) = 1 /\ Number(n)[1] = c BY <3>1
    <3>3. \A i \in 1..1 : Number(n)[i] = c BY <3>2
    <3> QED BY <2>2, <2>4, <2>5, <3>1, <3>2, <3>3 DEF Good
  <2>8. CASE n >= 10
    <3>1. m \in 1..n-1 /\ Number(n) = Number(m) \o <<c>> BY <2>4, <2>8
    <3>2. m \in 0..v /\ ~(n <= m) /\ m # 0 BY <2>2, <3>1
    <3>3. Good(m) BY <2>1, <3>2
    <3>4. /\ Number(m) \in Seq(Char) /\ Len(Number(m)) \in Nat /\ Len(Number(m)) >= 1
          /\ \A i \in 1..Len(Number(m)) : Number(m)[i] \in Decimal
          /\ Number(m)[1] # "0"
      BY <3>2, <3>3 DEF Good
    <3> DEFINE s == Number(m)
               t == <<c>>
               k == Len(s)
    <3>5. t \in Seq(Decimal) /\ s \in Seq(Decimal) /\ Len(t) = 1 /\ t[1] = c
      <4>1. \A i \in 1..Len(s) : s[i] \in Decimal BY <3>4
      <4>2. s = [i \in 1..Len(s) |-> s[i]] BY <3>4, LenProperties
      <4> QED BY <2>5, <3>4, <4>1, <4>2
    <3> HIDE DEF s, t
    <3>6. /\ Len(s \o t) = Len(s) + Len(t)
          /\ \A i \in 1..Len(s) + Len(t) : (s \o t)[i] = IF i <= Len(s) THEN s[i] ELSE t[i - Len(s)]
      BY <3>5, ConcatProperties
    <3>7. k \in Nat /\ k >= 1 /\ s[1] # "0" BY <3>4 DEF s
    <3>8. \A i \in 1..k + 1 : (s \o t)[i] \in Decimal
      <4> SUFFICES ASSUME NEW i \in 1..k + 1 PROVE (s \o t)[i] \in Decimal OBVIOUS
      <4>1. (i <= k => i \in 1..k) /\ (~(i <= k) => i - k = 1) BY <3>7
      <4>2. i <= k => s[i] \in Decimal BY <3>5, <4>1, ElementOfSeq
      <4> QED BY <2>5, <3>5, <3>6, <4>1, <4>2
    <3>9. (s \o t)[1] = s[1]
      <4>1. 1 \in 1..k + 1 /\ 1 <= k BY <3>7
      <4> QED BY <3>5, <3>6, <4>1
    <3>10. Number(n) = s \o t /\ Len(s \o t) = k + 1 BY <3>1, <3>5, <3>6 DEF s, t
    <3>11. Good(n) BY <2>4, <2>6, <3>7, <3>8, <3>9, <3>10 DEF Good
    <3> QED BY <2>2, <3>11
  <2> QED BY <2>3, <2>7, <2>8
<1>2. v \in 0..v OBVIOUS
<1>3. Good(v) BY <1>1, <1>2
<1> QED BY <1>3

LEMMA RestConcat ==
  ASSUME NEW s \in Seq(Char), NEW t \in Seq(Char)
  PROVE  Rest(s \o t, Len(s)) = t
<1> DEFINE u == s \o t
           x == SubSeq(u, Len(s) + 1, Len(u))
<1>1. Len(s) \in Nat /\ Len(t) \in Nat BY LenProperties
<1>2. u \in Seq(Char) /\ Len(u) = Len(s) + Len(t)
      /\ \A i \in 1..Len(s) + Len(t) : u[i] = IF i <= Len(s) THEN s[i] ELSE t[i - Len(s)]
  BY ConcatProperties
<1> HIDE DEF u
<1>3. \A i \in 1..Len(t) : i + Len(s) \in 1..Len(s) + Len(t) /\ ~(i + Len(s) <= Len(s)) /\ i + Len(s) - Len(s) = i
  BY <1>1
<1>4. \A i \in 1..Len(t) : u[i + Len(s)] = t[i]
  BY <1>2, <1>3
<1>5. x \in Seq(Char)
  <2>1. \A i \in Len(s) + 1..Len(u) : i \in 1..Len(u) BY <1>1, <1>2
  <2>2. \A i \in Len(s) + 1..Len(u) : u[i] \in Char BY <1>2, <2>1, ElementOfSeq
  <2>3. Len(s) + 1 \in Int /\ Len(u) \in Int BY <1>1, <1>2
  <2> QED BY <1>2, <2>2, <2>3, SubSeqProperties
<1>6. Len(x) = Len(t) /\ \A i \in 1..Len(t) : x[i] = u[i + Len(s)] BY <1>1, <1>2
<1> HIDE DEF x
<1>7. x = t
  <2>1. \A i \in 1..Len(t) : x[i] = t[i] BY <1>4, <1>6
  <2> QED BY <1>5, <1>6, <2>1, SeqEqual
<1> QED BY <1>7 DEF Rest, x, u

Spelled(s) == Len(s) <= Leading /\ \A i \in 1..Len(s) : format[i] = s[i]

(* _atoi reads back the number that a numeral spells.                      *)
LEMMA ReadsNumber ==
  ASSUME format \in Seq(Char), NEW value, Reads(value),
         NEW v \in Nat, v < Pow(2, MAX_DIGITS), Spelled(Number(v))
  PROVE  value[Len(Number(v))] = v
<1> DEFINE M == Pow(2, MAX_DIGITS)
           Good(n) == Spelled(Number(n)) => value[Len(Number(n))] = n
           Bad == {n \in 0..v : ~Good(n)}
<1>0. M \in Nat
  <2>1. 2 \in Nat \ {0} /\ MAX_DIGITS \in Nat BY DEF MAX_DIGITS
  <2> QED BY <2>1, PowType
<1>a. Leading \in Nat
  <2>1. Len(format) \in Nat BY LenProperties
  <2> QED BY <2>1, LeadingType
<1>b. /\ value[0] = 0 /\ \A k \in 1..Leading : value[k] = 10 * value[k-1] + DigitValue(format[k])
      /\ \A k \in 0..Leading : value[k] \in Nat
  BY DEF Reads
<1>1. ASSUME Bad # {} PROVE FALSE
  <2>1. PICK n \in Bad : \A j \in Bad : n <= j
    <3>1. Bad \in SUBSET Nat OBVIOUS
    <3> HIDE DEF Bad
    <3> QED BY <1>1, <3>1, LeastNumber
  <2>2. n \in 0..v /\ ~Good(n) BY <2>1
  <2> DEFINE c == DigitChar[(n % 10) + 1]
             m == n \div 10
             d == n % 10
             s == Number(m)
             k == Len(s)
             t == <<c>>
  <2>3. n \in Nat /\ n < Pow(2, MAX_DIGITS)
    <3>1. v < M OBVIOUS
    <3> HIDE DEF M
    <3>2. n \in Nat /\ n < M BY <1>0, <2>2, <3>1
    <3> QED BY <3>2 DEF M
  <2>4. /\ d \in 0..9
        /\ n < 10 => Number(n) = t /\ d = n
        /\ n >= 10 => m \in 1..n-1 /\ m < Pow(2, MAX_DIGITS) /\ n = 10 * m + d /\ Number(n) = s \o t
    BY <2>3, NumberParts
  <2>5. c \in Decimal /\ DigitValue(c) = d BY <2>4, DigitValues
  <2>6. t \in Seq(Char) /\ Len(t) = 1 /\ t[1] = c
    <3>1. d \in 0..15 BY <2>4
    <3>2. c \in Char BY <3>1, DigitChars
    <3> HIDE DEF c
    <3> QED BY <3>2
  <2>7. Spelled(Number(n)) /\ value[Len(Number(n))] # n BY <2>2
  <2>8. Len(Number(n)) <= Leading /\ \A i \in 1..Len(Number(n)) : format[i] = Number(n)[i] BY <2>7 DEF Spelled
  <2> HIDE DEF c, m, d, s, t, Good
  <2>9. CASE n < 10
    <3>1. Number(n) = t /\ d = n BY <2>4, <2>9
    <3>a. Len(Number(n)) = 1 BY <2>6, <3>1
    <3>b. 1 <= Leading BY <2>8, <3>a
    <3>2. Len(Number(n)) = 1 /\ 1 \in 1..Leading BY <1>a, <3>a, <3>b
    <3>3. format[1] = c
      <4>1. 1 \in 1..Len(Number(n)) BY <3>2
      <4> QED BY <2>6, <2>8, <3>1, <4>1
    <3>4. value[1] = 10 * value[0] + DigitValue(format[1])
      <4>1. 1 - 1 = 0 OBVIOUS
      <4> QED BY <1>b, <3>2, <4>1
    <3>5. value[1] = 10 * 0 + d BY <1>b, <2>5, <3>3, <3>4
    <3>6. value[1] = d BY <2>4, <3>5
    <3> QED BY <2>7, <3>1, <3>2, <3>6
  <2>10. CASE n >= 10
    <3>1. m \in 1..n-1 /\ m < Pow(2, MAX_DIGITS) /\ n = 10 * m + d /\ Number(n) = s \o t BY <2>4, <2>10
    <3>2. m \in 0..v /\ ~(n <= m) /\ m \in Nat BY <2>2, <3>1
    <3>3. Good(m) BY <2>1, <3>2
    <3>4. s \in Seq(Char) /\ k \in Nat
      <4>1. s \in Seq(Char) BY <3>1, <3>2, NumberParts DEF s
      <4> QED BY <4>1, LenProperties
    <3>5. /\ Len(s \o t) = k + 1
          /\ \A i \in 1..k + 1 : (s \o t)[i] = IF i <= k THEN s[i] ELSE t[i - k]
      <4>1. /\ Len(s \o t) = Len(s) + Len(t)
            /\ \A i \in 1..Len(s) + Len(t) : (s \o t)[i] = IF i <= Len(s) THEN s[i] ELSE t[i - Len(s)]
        BY <2>6, <3>4, ConcatProperties
      <4>2. Len(s) + Len(t) = k + 1 BY <2>6
      <4> QED BY <4>1, <4>2
    <3>6. k + 1 <= Leading /\ \A i \in 1..k + 1 : format[i] = (s \o t)[i] BY <2>8, <3>1, <3>5
    <3> HIDE DEF k
    <3>7. \A i \in 1..k : format[i] = s[i]
      <4>1. \A i \in 1..k : i \in 1..k + 1 /\ i <= k BY <3>4
      <4> QED BY <3>5, <3>6, <4>1
    <3>8. format[k + 1] = c
      <4>1. PICK j \in 1..k + 1 : j = k + 1 /\ ~(j <= k) /\ j - k = 1 BY <3>4
      <4>2. format[j] = (s \o t)[j] BY <3>6
      <4>3. (s \o t)[j] = t[j - k] BY <3>5, <4>1
      <4> QED BY <2>6, <4>1, <4>2, <4>3
    <3>9. value[k] = m
      <4>1. Spelled(s)
        <5>1. k <= Leading BY <1>a, <3>4, <3>6
        <5> QED BY <3>7, <5>1 DEF Spelled, k
      <4>2. s = Number(m) BY DEF s
      <4> QED BY <3>3, <4>1, <4>2 DEF Good, k
    <3>10. value[k + 1] = 10 * value[k] + DigitValue(format[k + 1])
      <4>1. k + 1 \in 1..Leading /\ k + 1 - 1 = k BY <1>a, <3>4, <3>6
      <4>2. \A j \in 1..Leading : value[j] = 10 * value[j - 1] + DigitValue(format[j]) BY <1>b
      <4>3. PICK j \in 1..Leading : j = k + 1 /\ j - 1 = k BY <3>4, <4>1
      <4>4. value[j] = 10 * value[j - 1] + DigitValue(format[j]) BY <4>2
      <4> QED BY <4>3, <4>4
    <3>11. value[k + 1] = 10 * m + d BY <2>5, <3>8, <3>9, <3>10
    <3>12. value[k + 1] = n BY <3>1, <3>11
    <3>13. Len(Number(n)) = k + 1 BY <3>1, <3>5
    <3> QED BY <2>7, <3>12, <3>13
  <2> QED BY <2>3, <2>9, <2>10
<1>2. v \in 0..v OBVIOUS
<1>3. Good(v) BY <1>1, <1>2
<1> QED BY <1>3

(* A number in front of the rest of a format.                              *)
Ahead(v, rest) ==
  /\ format = Number(v) \o rest /\ rest \in Seq(Char)
  /\ rest # <<>> /\ Head(rest) \notin Decimal

LEMMA NumberRead ==
  ASSUME NEW v \in Nat, v < Pow(2, MAX_DIGITS), NEW rest, Ahead(v, rest)
  PROVE  /\ format \in Seq(Char) /\ format # <<>> /\ Head(format) \in Decimal
         /\ v # 0 => Head(format) # "0"
         /\ Atoi = <<v, Len(Number(v))>> /\ Rest(format, Len(Number(v))) = rest
<1> DEFINE s == Number(v)
           K == Len(s)
           L == Len(format)
           Fine(n) == /\ \A i \in 1..n : format[i] \in Decimal
                      /\ n = L \/ format[n+1] \notin Decimal
<1>1. /\ s \in Seq(Char) /\ K \in Nat /\ K >= 1
      /\ \A i \in 1..K : s[i] \in Decimal
      /\ v # 0 => s[1] # "0"
  BY NumberShape
<1>2. rest \in Seq(Char) /\ rest # <<>> /\ Head(rest) \notin Decimal /\ format = s \o rest BY DEF Ahead
<1>3. Len(rest) \in Nat /\ Len(rest) >= 1 /\ rest[1] = Head(rest)
  <2>1. Len(rest) \in Nat BY <1>2, LenProperties
  <2>2. Len(rest) # 0 BY <1>2, EmptySeq
  <2> QED BY <1>2, <2>1, <2>2
<1> HIDE DEF s
<1>4. /\ format \in Seq(Char) /\ L = K + Len(rest)
      /\ \A i \in 1..K + Len(rest) : format[i] = IF i <= K THEN s[i] ELSE rest[i - K]
  BY <1>1, <1>2, ConcatProperties
<1>5. Rest(format, K) = rest BY <1>1, <1>2, RestConcat
<1> HIDE DEF K, L
<1>6. \A i \in 1..K : format[i] = s[i] /\ format[i] \in Decimal
  <2>1. \A i \in 1..K : i \in 1..K + Len(rest) /\ i <= K BY <1>1, <1>3
  <2> QED BY <1>1, <1>4, <2>1
<1>7. format[K + 1] \notin Decimal /\ K # L /\ K \in 0..L
  <2>1. PICK j \in 1..K + Len(rest) : j = K + 1 /\ ~(j <= K) /\ j - K = 1 BY <1>1, <1>3
  <2>2. format[j] = rest[j - K] BY <1>4, <2>1
  <2>3. format[K + 1] = rest[1] BY <2>1, <2>2
  <2> QED BY <1>1, <1>2, <1>3, <1>4, <2>3
<1>8. Leading = K
  <2>1. Leading = CHOOSE n \in 0..L : Fine(n) BY DEF Leading, L
  <2>2. Fine(K) BY <1>6, <1>7
  <2> HIDE DEF Fine
  <2>3. Leading \in 0..L /\ Fine(Leading) BY <1>7, <2>1, <2>2
  <2>4. /\ \A i \in 1..Leading : format[i] \in Decimal
        /\ Leading = L \/ format[Leading + 1] \notin Decimal
    BY <2>3 DEF Fine
  <2>5. L \in Nat BY <1>1, <1>3, <1>4
  <2>6. ~(Leading < K)
    <3>1. SUFFICES ASSUME Leading < K PROVE FALSE OBVIOUS
    <3>2. Leading + 1 \in 1..K /\ Leading # L BY <1>1, <1>3, <1>4, <2>3, <2>5, <3>1
    <3> QED BY <1>6, <2>4, <3>2
  <2>7. ~(Leading > K)
    <3>1. SUFFICES ASSUME Leading > K PROVE FALSE OBVIOUS
    <3>2. K + 1 \in 1..Leading BY <1>1, <2>3, <2>5, <3>1
    <3> QED BY <1>7, <2>4, <3>2
  <2> QED BY <1>1, <2>3, <2>5, <2>6, <2>7
<1>9. PICK value : Reads(value) BY <1>4, AtoiSteps
<1>10. Atoi = <<value[K], K>> BY <1>8, <1>9 DEF Reads
<1>11. value[K] = v
  <2>1. Spelled(s) BY <1>1, <1>6, <1>8 DEF Spelled, K
  <2> QED BY <1>4, <1>9, <2>1, ReadsNumber DEF s, K
<1>12. format # <<>> /\ Head(format) = s[1] /\ s[1] \in Decimal
  <2>1. 1 \in 1..K BY <1>1
  <2>2. format[1] = s[1] /\ s[1] \in Decimal BY <1>1, <1>6, <2>1
  <2>3. format # <<>>
    <3>1. L # 0 BY <1>1, <1>3, <1>4
    <3> QED BY <3>1, EmptySeq DEF L
  <2> QED BY <1>4, <2>2, <2>3
<1> QED BY <1>1, <1>4, <1>5, <1>10, <1>11, <1>12 DEF s, K

-----------------------------------------------------------------------------
(* The directive of a call, and how it is given to a conversion.           *)
TextCall == call \in Call /\ Want.conv \in TextConv
WantFlag == {"ZEROPAD", "LEFT", "PLUS", "SPACE", "HASH"}
LengthFlags(l) ==
  CASE l = "" -> {} [] l = "ll" -> {"LONG", "LONG_LONG"} [] l = "hh" -> {"SHORT", "CHAR"}
    [] l = "h" -> {"SHORT"} [] l = "j" -> {"LONG_LONG"} [] OTHER -> {"LONG"}
PrecisionFlag == IF GivenPrec THEN {"PRECISION"} ELSE {}
AtConversion ==
  /\ format = <<Want.conv>> /\ va = call.va
  /\ flags = Want.flags \cup PrecisionFlag \cup LengthFlags(Want.length)
  /\ width = Want.width /\ precision = Given(Want.prec)

LEMMA WantFacts ==
  ASSUME TextCall
  PROVE  /\ call.fn # "puts" /\ call.va \in Seq(Argument) /\ Len(call.va) = 1 /\ call.va # <<>>
         /\ Arg = Head(call.va) /\ Arg.n \in Int /\ Arg.s \in Seq(Char)
         /\ Want.width \in UnsignedInt /\ Want.prec \in UnsignedInt \cup {-1}
         /\ Want.length \in {"", "hh", "h", "l", "ll", "j", "z", "t"}
         /\ call.format \in Seq(Char)
         /\ call.format # <<>> /\ Head(call.format) = "%" /\ FlagsAhead(Tail(call.format), {}, Want)
<1>1. /\ call.fn # "puts" /\ Len(call.va) = 1
      /\ Want.width \in UnsignedInt /\ Want.prec \in UnsignedInt \cup {-1}
      /\ Want.length \in {"", "hh", "h", "l", "ll", "j", "z", "t"}
      /\ call.format # <<>> /\ Head(call.format) = "%" /\ FlagsAhead(Tail(call.format), {}, Want)
  BY WantAssumption DEF TextCall, Want
<1>2. call.format \in Seq(Char) /\ call.va \in Seq(Argument) BY CallAssumption DEF TextCall
<1>a. Len(call.va) = 1 BY <1>1
<1>b. call.va \in Seq(Argument) BY <1>2
<1>3. Arg = call.va[1] BY <1>1 DEF Arg
<1>4. call.va[1] \in Argument
  <2>1. 1 \in 1..Len(call.va) BY <1>a
  <2> QED BY <1>b, <2>1, ElementOfSeq
<1>5. call.va # <<>> /\ Head(call.va) = call.va[1]
  <2>1. Len(<<>>) = 0 BY EmptySeq
  <2>2. call.va # <<>> BY <1>a, <2>1
  <2> QED BY <1>b, <2>2
<1>6. Arg.n \in Int /\ Arg.s \in Seq(Char) BY <1>3, <1>4 DEF Argument
<1> QED BY <1>1, <1>2, <1>3, <1>5, <1>6

LEMMA WantNumbers ==
  ASSUME TextCall
  PROVE  /\ Want.width \in Nat /\ Want.width < Pow(2, MAX_DIGITS)
         /\ Want.prec \in Int /\ (GivenPrec => Want.prec \in Nat /\ Want.prec < Pow(2, MAX_DIGITS))
         /\ (~GivenPrec => Want.prec = -1)
<1> DEFINE P == Pow(2, Bits.int)
           M == Pow(2, MAX_DIGITS)
<1>1. Want.width \in 0..P-1 /\ Want.prec \in (0..P-1) \cup {-1} BY WantFacts DEF UnsignedInt
<1>2. Bits.int \in 1..MAX_DIGITS BY SizeAssumption
<1>3. P \in Nat /\ M \in Nat /\ P <= M
  <2>1. 2 \in Nat \ {0} /\ MAX_DIGITS \in Nat /\ Bits.int \in 0..MAX_DIGITS /\ Bits.int \in Nat BY <1>2 DEF MAX_DIGITS
  <2> QED BY <2>1, PowType, PowMono
<1> HIDE DEF P, M
<1>4. Want.width \in Nat /\ Want.width < M BY <1>1, <1>3
<1>5. Want.prec \in Int /\ (GivenPrec => Want.prec \in Nat /\ Want.prec < M) /\ (~GivenPrec => Want.prec = -1)
  BY <1>1, <1>3 DEF GivenPrec
<1> QED BY <1>4, <1>5 DEF M

LEMMA FlagsKnown ==
  ASSUME TextCall
  PROVE  Want.flags \subseteq WantFlag
<1> DEFINE f == Tail(call.format)
<1>1. PICK n \in 0..Len(f) : /\ \A i \in 1..n : f[i] \in DOMAIN FlagOf
                             /\ Want.flags = {} \cup {FlagOf[f[i]] : i \in 1..n}
  BY WantFacts DEF FlagsAhead
<1>2. \A c \in DOMAIN FlagOf : FlagOf[c] \in WantFlag BY DEF FlagOf, WantFlag
<1> QED BY <1>1, <1>2

(* The width of the argument.                                              *)
LEMMA TypeOfLength ==
  ASSUME TextCall, AtConversion
  PROVE  /\ ArgBits = Bits[Type] /\ Bits[Type] \in 1..MAX_DIGITS
         /\ "CHAR" \in flags /\ "LONG" \notin flags <=> Want.length = "hh"
<1>1. Want.length \in {"", "hh", "h", "l", "ll", "j", "z", "t"} /\ Want.flags \subseteq WantFlag
  BY WantFacts, FlagsKnown
<1>2. /\ "LONG_LONG" \in flags <=> "LONG_LONG" \in LengthFlags(Want.length)
      /\ "LONG" \in flags <=> "LONG" \in LengthFlags(Want.length)
      /\ "CHAR" \in flags <=> "CHAR" \in LengthFlags(Want.length)
      /\ "SHORT" \in flags <=> "SHORT" \in LengthFlags(Want.length)
  BY <1>1 DEF AtConversion, PrecisionFlag, WantFlag
<1>3. CASE Want.length \in {"ll", "j"}
  <2>1. Type = "llong" BY <1>3 DEF Type
  <2>2. "LONG_LONG" \in LengthFlags(Want.length) BY <1>3 DEF LengthFlags
  <2>3. "CHAR" \notin LengthFlags(Want.length) BY <1>3 DEF LengthFlags
  <2> QED BY <1>2, <1>3, <2>1, <2>2, <2>3, SizeAssumption DEF ArgBits
<1>4. CASE Want.length \in {"l", "z", "t"}
  <2>1. Type = "long" BY <1>4 DEF Type
  <2>2. LengthFlags(Want.length) = {"LONG"} BY <1>4 DEF LengthFlags
  <2> QED BY <1>2, <1>4, <2>1, <2>2, SizeAssumption DEF ArgBits
<1>5. CASE Want.length = "h"
  <2>1. Type = "short" BY <1>5 DEF Type
  <2>2. LengthFlags(Want.length) = {"SHORT"} BY <1>5 DEF LengthFlags
  <2> QED BY <1>2, <1>5, <2>1, <2>2, SizeAssumption DEF ArgBits
<1>6. CASE Want.length = "hh"
  <2>1. Type = "char" BY <1>6 DEF Type
  <2>2. LengthFlags(Want.length) = {"SHORT", "CHAR"} BY <1>6 DEF LengthFlags
  <2> QED BY <1>2, <1>6, <2>1, <2>2, SizeAssumption DEF ArgBits
<1>7. CASE Want.length = ""
  <2>1. Type = "int" BY <1>7 DEF Type
  <2>2. LengthFlags(Want.length) = {} BY <1>7 DEF LengthFlags
  <2> QED BY <1>2, <1>7, <2>1, <2>2, SizeAssumption DEF ArgBits
<1> QED BY <1>1, <1>3, <1>4, <1>5, <1>6, <1>7

(* The number read is the one meant, but for a negative char.              *)
LEMMA ValueRead ==
  ASSUME TextCall, AtConversion
  PROVE  /\ Value \in Int /\ Abs(Value) \in Nat /\ Abs(Value) < Pow(2, MAX_DIGITS)
         /\ Want.conv \notin {"d", "i"} => Value >= 0
         /\ ~UnsignedChar => ArgValue(Want.conv) = Value
<1> DEFINE n == Arg.n
           b == Bits[Type]
<1>1. n \in Int /\ Head(va) = Arg BY WantFacts DEF AtConversion
<1>2. ArgBits = b /\ b \in 1..MAX_DIGITS /\ ("CHAR" \in flags /\ "LONG" \notin flags <=> Want.length = "hh")
  BY TypeOfLength
<1>3. Value = IF Want.conv \in {"d", "i"} THEN Signed(n, b) ELSE Unsigned(n, b) BY DEF Value
<1>4. ArgValue(Want.conv) = IF Signedness(Want.conv) THEN Signed(n, b) ELSE Unsigned(n, b)
  BY <1>1, <1>2 DEF ArgValue
<1> HIDE DEF n, b
<1>5. /\ Unsigned(n, b) \in Nat /\ Signed(n, b) \in Int
      /\ Signed(n, b) >= 0 => Signed(n, b) = Unsigned(n, b)
      /\ Abs(Unsigned(n, b)) \in Nat /\ Abs(Unsigned(n, b)) < Pow(2, MAX_DIGITS)
      /\ Abs(Signed(n, b)) \in Nat /\ Abs(Signed(n, b)) < Pow(2, MAX_DIGITS)
  BY <1>1, <1>2, WordRange
<1>6. CASE Want.conv \in {"d", "i"}
  <2>1. Value = Signed(n, b) BY <1>3, <1>6
  <2>2. Signedness(Want.conv) <=> ~(Want.length = "hh") BY <1>2, <1>6 DEF Signedness
  <2>3. Want.length = "hh" /\ ~UnsignedChar => Signed(n, b) >= 0
    <3>1. SUFFICES ASSUME Want.length = "hh", ~UnsignedChar PROVE Signed(n, b) >= 0 OBVIOUS
    <3>2. ~(Value < 0) BY <1>6, <3>1 DEF UnsignedChar
    <3> QED BY <1>5, <2>1, <3>2
  <2>4. ~UnsignedChar => ArgValue(Want.conv) = Value BY <1>4, <1>5, <2>1, <2>2, <2>3
  <2> QED BY <1>5, <1>6, <2>1, <2>4
<1>7. CASE Want.conv \notin {"d", "i"}
  <2>1. Value = Unsigned(n, b) BY <1>3, <1>7
  <2>2. ~Signedness(Want.conv) BY <1>7 DEF Signedness
  <2>3. ArgValue(Want.conv) = Value BY <1>4, <2>1, <2>2
  <2>4. Value >= 0 BY <1>5, <2>1
  <2> QED BY <1>5, <2>1, <2>3, <2>4
<1> QED BY <1>6, <1>7

(* The flags of the conversion, as printf.c adjusts them.                  *)
Fs == IntegerFlags(Want.conv)

LEMMA BaseFacts ==
  /\ StdBase \in {2, 8, 10, 16}
  /\ StdBase = 16 <=> Want.conv \in {"x", "X"}
  /\ StdBase = 8 <=> Want.conv = "o"
  /\ StdBase = 2 <=> Want.conv = "b"
<1>1. CASE Want.conv \in {"x", "X"} BY <1>1 DEF StdBase, Base
<1>2. CASE Want.conv = "o" BY <1>2 DEF StdBase, Base
<1>3. CASE Want.conv = "b" BY <1>3 DEF StdBase, Base
<1>4. CASE Want.conv \notin {"x", "X", "o", "b"} BY <1>4 DEF StdBase, Base
<1> QED BY <1>1, <1>2, <1>3, <1>4

LEMMA IntegerFlagFacts ==
  ASSUME TextCall, AtConversion
  PROVE  /\ "LEFT" \in Fs <=> Left
         /\ "ZEROPAD" \in Fs <=> Has("ZEROPAD") /\ ~GivenPrec
         /\ "PLUS" \in Fs <=> Has("PLUS") /\ Want.conv \in {"d", "i"}
         /\ "SPACE" \in Fs <=> Has("SPACE") /\ Want.conv \in {"d", "i"}
         /\ "HASH" \in Fs <=> Has("HASH") /\ StdBase # 10
         /\ "UPPERCASE" \in Fs <=> Want.conv = "X"
         /\ "PRECISION" \in Fs <=> GivenPrec
<1>1. Want.length \in {"", "hh", "h", "l", "ll", "j", "z", "t"} /\ Want.flags \subseteq WantFlag
  BY WantFacts, FlagsKnown
<1>2. LengthFlags(Want.length) \subseteq {"LONG", "LONG_LONG", "SHORT", "CHAR"}
  BY <1>1 DEF LengthFlags
<1>3. \A f \in WantFlag : f \in flags <=> Has(f) BY <1>1, <1>2 DEF AtConversion, PrecisionFlag, WantFlag, Has
<1>4. "PRECISION" \in flags <=> GivenPrec BY <1>1, <1>2 DEF AtConversion, PrecisionFlag, WantFlag
<1>5. "UPPERCASE" \notin flags BY <1>1, <1>2 DEF AtConversion, PrecisionFlag, WantFlag
<1>6. Fs = (flags \ ((IF StdBase = 10 THEN {"HASH"} ELSE {})
              \cup (IF Want.conv \in {"d", "i"} THEN {} ELSE {"PLUS", "SPACE"})
              \cup (IF "PRECISION" \in flags THEN {"ZEROPAD"} ELSE {})))
           \cup (IF Want.conv = "X" THEN {"UPPERCASE"} ELSE {})
  BY DEF Fs, IntegerFlags, StdBase
<1> DEFINE ten == StdBase = 10
           dec == Want.conv \in {"d", "i"}
           big == Want.conv = "X"
<1>7. Fs = (flags \ ((IF ten THEN {"HASH"} ELSE {})
              \cup (IF dec THEN {} ELSE {"PLUS", "SPACE"})
              \cup (IF "PRECISION" \in flags THEN {"ZEROPAD"} ELSE {})))
           \cup (IF big THEN {"UPPERCASE"} ELSE {})
  BY <1>6
<1> HIDE DEF ten, dec, big
<1>8. /\ "LEFT" \in Fs <=> "LEFT" \in flags
      /\ "ZEROPAD" \in Fs <=> "ZEROPAD" \in flags /\ "PRECISION" \notin flags
      /\ "PLUS" \in Fs <=> "PLUS" \in flags /\ dec
      /\ "SPACE" \in Fs <=> "SPACE" \in flags /\ dec
      /\ "HASH" \in Fs <=> "HASH" \in flags /\ ~ten
      /\ "UPPERCASE" \in Fs <=> big
      /\ "PRECISION" \in Fs <=> "PRECISION" \in flags
  BY <1>5, <1>7
<1>9. \A f \in {"LEFT", "ZEROPAD", "PLUS", "SPACE", "HASH"} : f \in flags <=> Has(f) BY <1>3 DEF WantFlag
<1>10. Left <=> Has("LEFT") BY DEF Left
<1> QED BY <1>4, <1>8, <1>9, <1>10 DEF ten, dec, big

(* The parts of the text, and what they are in printf.c.                   *)
LEMMA StdParts ==
  ASSUME TextCall, AtConversion, NEW negative \in BOOLEAN, negative <=> Value < 0
  PROVE  /\ StdDigits = NumeralOf(Abs(Value), StdBase, Want.prec, Fs)
         /\ StdSign = Sign(negative, Fs)
         /\ StdPrefix = PrefixFor(Abs(Value), StdBase, Fs)
         /\ StdPrefix # <<>> => Want.conv \notin {"d", "i"} /\ StdBase \in {2, 8, 16} /\ StdSign = <<>>
         /\ "HASH" \in Fs /\ Abs(Value) # 0 => StdPrefix # <<>>
<1>f. /\ "PLUS" \in Fs <=> Has("PLUS") /\ Want.conv \in {"d", "i"}
      /\ "SPACE" \in Fs <=> Has("SPACE") /\ Want.conv \in {"d", "i"}
      /\ "HASH" \in Fs <=> Has("HASH") /\ StdBase # 10
      /\ "UPPERCASE" \in Fs <=> Want.conv = "X"
  BY IntegerFlagFacts
<1>1. Value \in Int /\ (Want.conv \notin {"d", "i"} => Value >= 0) BY ValueRead
<1>2. Value = 0 <=> Abs(Value) = 0 BY <1>1 DEF Abs
<1>3. StdDigits = NumeralOf(Abs(Value), StdBase, Want.prec, Fs)
  <2> DEFINE letters == IF Want.conv = "X" THEN UpperChar ELSE DigitChar
  <2>1. Letters16(Fs) = letters BY <1>f DEF Letters16
  <2>2. StdDigits = IF Value = 0 /\ Want.prec = 0 THEN <<>> ELSE Numeral(Abs(Value), StdBase, letters)
    BY DEF StdDigits
  <2> HIDE DEF letters
  <2> QED BY <1>2, <2>1, <2>2 DEF NumeralOf
<1>4. Want.conv \notin {"d", "i"} => ~negative
  <2>1. ~(Value < 0) <=> Value >= 0 BY <1>1
  <2> QED BY <1>1, <2>1
<1>5. StdSign = Sign(negative, Fs)
  <2>1. StdSign = IF negative THEN <<"-">> ELSE IF Want.conv \notin {"d", "i"} THEN <<>>
                  ELSE IF Has("PLUS") THEN <<"+">> ELSE IF Has("SPACE") THEN <<" ">> ELSE <<>>
    BY DEF StdSign
  <2>2. CASE negative BY <2>1, <2>2 DEF Sign
  <2>3. CASE ~negative /\ Want.conv \notin {"d", "i"} BY <1>f, <2>1, <2>3 DEF Sign
  <2>4. CASE ~negative /\ Want.conv \in {"d", "i"} BY <1>f, <2>1, <2>4 DEF Sign
  <2> QED BY <2>2, <2>3, <2>4
<1>6. StdPrefix = PrefixFor(Abs(Value), StdBase, Fs)
  <2>1. CASE ~Has("HASH") \/ Value = 0
    <3>1. StdPrefix = <<>> BY <2>1 DEF StdPrefix
    <3>2. ~("HASH" \in Fs /\ Abs(Value) # 0) BY <1>f, <1>2, <2>1
    <3> QED BY <3>1, <3>2 DEF PrefixFor
  <2>2. CASE Has("HASH") /\ Value # 0
    <3>1. StdPrefix = CASE Want.conv = "x" -> <<"0", "x">> [] Want.conv = "X" -> <<"0", "X">>
             [] Want.conv = "b" -> <<"0", "b">> [] Want.conv = "o" -> <<"0">> [] OTHER -> <<>>
      BY <2>2 DEF StdPrefix
    <3>2. CASE Want.conv = "x"
      <4>1. StdPrefix = <<"0", "x">> BY <3>1, <3>2
      <4>2. StdBase = 16 BY <3>2, BaseFacts
      <4>3. "UPPERCASE" \notin Fs /\ "HASH" \in Fs BY <1>f, <2>2, <3>2, <4>2
      <4> QED BY <1>2, <2>2, <4>1, <4>2, <4>3 DEF PrefixFor, PrefixOf
    <3>3. CASE Want.conv = "X"
      <4>1. StdPrefix = <<"0", "X">> BY <3>1, <3>3
      <4>2. StdBase = 16 BY <3>3, BaseFacts
      <4>3. "UPPERCASE" \in Fs /\ "HASH" \in Fs BY <1>f, <2>2, <3>3, <4>2
      <4> QED BY <1>2, <2>2, <4>1, <4>2, <4>3 DEF PrefixFor, PrefixOf
    <3>4. CASE Want.conv = "b"
      <4>1. StdPrefix = <<"0", "b">> BY <3>1, <3>4
      <4>2. StdBase = 2 BY <3>4, BaseFacts
      <4>3. "HASH" \in Fs BY <1>f, <2>2, <4>2
      <4> QED BY <1>2, <2>2, <4>1, <4>2, <4>3 DEF PrefixFor, PrefixOf
    <3>5. CASE Want.conv = "o"
      <4>1. StdPrefix = <<"0">> BY <3>1, <3>5
      <4>2. StdBase = 8 BY <3>5, BaseFacts
      <4>3. "HASH" \in Fs BY <1>f, <2>2, <4>2
      <4> QED BY <1>2, <2>2, <4>1, <4>2, <4>3 DEF PrefixFor, PrefixOf
    <3>6. CASE Want.conv \notin {"x", "X", "b", "o"}
      <4>1. StdPrefix = <<>> BY <3>1, <3>6
      <4>2. StdBase = 10 BY <3>6, BaseFacts
      <4>3. "HASH" \notin Fs BY <1>f, <4>2
      <4> QED BY <4>1, <4>3 DEF PrefixFor
    <3> QED BY <3>2, <3>3, <3>4, <3>5, <3>6
  <2> QED BY <2>1, <2>2
<1>7. StdPrefix # <<>> => Want.conv \notin {"d", "i"} /\ StdBase \in {2, 8, 16} /\ StdSign = <<>>
  <2>1. SUFFICES ASSUME StdPrefix # <<>>
                 PROVE  Want.conv \notin {"d", "i"} /\ StdBase \in {2, 8, 16} /\ StdSign = <<>>
    OBVIOUS
  <2>2. Want.conv \in {"x", "X", "b", "o"} BY <2>1 DEF StdPrefix
  <2>3. Want.conv \notin {"d", "i"} BY <2>2
  <2>4. StdBase \in {2, 8, 16} BY <2>2, BaseFacts
  <2>5. ~(Value < 0)
    <3>1. Value \in Int /\ Value >= 0 BY <1>1, <2>3
    <3> QED BY <3>1
  <2>6. StdSign = <<>> BY <2>3, <2>5 DEF StdSign
  <2> QED BY <2>3, <2>4, <2>6
<1>8. "HASH" \in Fs /\ Abs(Value) # 0 => StdPrefix # <<>>
  <2>1. PrefixOf(StdBase, Fs) # <<>> BY DEF PrefixOf
  <2> QED BY <1>6, <2>1 DEF PrefixFor
<1> QED BY <1>3, <1>5, <1>6, <1>7, <1>8

LEMMA DigitsAsked ==
  ASSUME TextCall, AtConversion, ~LosesPrecision
  PROVE  AsAsked(Abs(Value), StdBase, Want.prec, Want.width, Fs)
<1> DEFINE v == Abs(Value)
           p == Want.prec
           N == Len(StdDigits)
<1>1. v \in Nat /\ v < Pow(2, MAX_DIGITS) /\ Value \in Int BY ValueRead
<1>2. StdBase \in 2..16
  <2>1. StdBase \in {2, 8, 10, 16} BY BaseFacts
  <2> QED BY <2>1
<1>3. Want.width \in Nat /\ p \in Int BY WantNumbers
<1>f. /\ "LEFT" \in Fs <=> Left
      /\ "ZEROPAD" \in Fs <=> Has("ZEROPAD") /\ ~GivenPrec
      /\ "PRECISION" \in Fs <=> GivenPrec
  BY IntegerFlagFacts
<1>4. GivenPrec <=> p >= 0 BY DEF GivenPrec
<1>5. StdDigits = NumeralOf(v, StdBase, p, Fs)
  <2>1. PICK negative \in BOOLEAN : negative <=> Value < 0 OBVIOUS
  <2> QED BY <2>1, StdParts
<1>6. Value = 0 <=> v = 0 BY <1>1 DEF Abs
<1>7. Left => p <= IF v = 0 THEN 0 ELSE N
  <2>1. SUFFICES ASSUME Left PROVE p <= IF v = 0 THEN 0 ELSE N OBVIOUS
  <2>2. ~(p > IF Value = 0 THEN 0 ELSE N) BY <2>1 DEF LosesPrecision
  <2>3. N \in Nat
    <3>1. NumeralOf(v, StdBase, p, Fs) \in Seq(Char)
      <4>1. "PRECISION" \in Fs <=> p >= 0 BY <1>f, <1>4
      <4> HIDE DEF v, p
      <4> QED BY <1>1, <1>2, <1>3, <4>1, DigitsOf
    <3> QED BY <1>5, <3>1, LenProperties
  <2> HIDE DEF v, p, N
  <2> QED BY <1>3, <1>6, <2>2, <2>3
<1>8. "LEFT" \in Fs => p <= IF v = 0 THEN 0 ELSE Len(NumeralOf(v, StdBase, p, Fs)) BY <1>f, <1>5, <1>7
<1>9. "PRECISION" \in Fs <=> p >= 0 BY <1>f, <1>4
<1>10. p >= 0 => "ZEROPAD" \notin Fs BY <1>f, <1>4
<1> QED BY <1>1, <1>2, <1>3, <1>8, <1>9, <1>10 DEF AsAsked

StdFront == StdSign \o StdPrefix

LEMMA FrontFits ==
  ASSUME TextCall, AtConversion, ~LosesPrecision, Scratch <= NTOA_BUFFER_SIZE
  PROVE  Fits(Abs(Value), StdBase, Want.prec, Want.width, Fs, StdFront)
<1> DEFINE N == Len(StdDigits)
           p == Want.prec
           w == Want.width
           zeros == IF Left THEN 0 ELSE IF Has("ZEROPAD") /\ ~GivenPrec THEN w ELSE p
           S == Len(StdSign)
           P == Len(StdPrefix)
<1>1. Scratch = (IF zeros > N THEN zeros ELSE N) + S + P BY DEF Scratch
<1>2. PICK negative \in BOOLEAN : negative <=> Value < 0 OBVIOUS
<1>3. /\ StdDigits = NumeralOf(Abs(Value), StdBase, p, Fs) /\ StdSign = Sign(negative, Fs)
      /\ StdPrefix = PrefixFor(Abs(Value), StdBase, Fs)
  BY <1>2, StdParts
<1>4. StdSign \in Seq(Char) /\ StdPrefix \in Seq(Char)
  <2>1. Sign(negative, Fs) \in Seq(Char) BY SignType
  <2>2. PrefixFor(Abs(Value), StdBase, Fs) \in Seq(Char) BY MarkFacts, EmptySeq DEF PrefixFor
  <2> QED BY <1>3, <2>1, <2>2
<1>5. Len(StdFront) = S + P /\ S \in Nat /\ P \in Nat BY <1>4, ConcatProperties, LenProperties DEF StdFront
<1>f. /\ "LEFT" \in Fs <=> Left
      /\ "ZEROPAD" \in Fs <=> Has("ZEROPAD") /\ ~GivenPrec
  BY IntegerFlagFacts
<1>6. Want.prec < 0 <=> ~GivenPrec
  <2>1. p \in Int BY WantNumbers
  <2> HIDE DEF p
  <2>2. p < 0 <=> ~(p >= 0) BY <2>1
  <2> QED BY <2>2 DEF GivenPrec, p
<1>7. zeros = IF "LEFT" \in Fs THEN 0 ELSE IF "ZEROPAD" \in Fs /\ p < 0 THEN w ELSE p BY <1>f, <1>6
<1>8. Room(N, p, w, Fs) = IF zeros > N THEN zeros ELSE N
  <2> HIDE DEF zeros, N, p, w
  <2> QED BY <1>7 DEF Room
<1>9. Room(N, p, w, Fs) \in Int
  <2>1. N \in Nat
    <3>1. AsAsked(Abs(Value), StdBase, p, w, Fs) BY DigitsAsked
    <3> HIDE DEF p, w, N
    <3>2. Len(NumeralOf(Abs(Value), StdBase, p, Fs)) \in Nat BY <3>1, AskedFacts
    <3> QED BY <1>3, <3>2 DEF N
  <2>2. p \in Int /\ w \in Int BY WantNumbers
  <2> HIDE DEF zeros, N, p, w
  <2> QED BY <2>1, <2>2 DEF Room
<1>10. Room(N, p, w, Fs) + Len(StdFront) <= NTOA_BUFFER_SIZE
  <2> DEFINE R == Room(N, p, w, Fs)
  <2>1. R \in Int BY <1>9
  <2>2. R + S + P <= NTOA_BUFFER_SIZE BY <1>1, <1>8
  <2> HIDE DEF R, S, P, zeros, N, p, w
  <2>3. R + (S + P) <= NTOA_BUFFER_SIZE BY <1>5, <2>1, <2>2, BufferSizes
  <2> QED BY <1>5, <2>3 DEF R
<1> QED BY <1>3, <1>10 DEF Fits

LEMMA PrefixInPlace ==
  ASSUME TextCall, AtConversion, ~LosesDigits, ~MisplacesPrefix, StdPrefix # <<>>
  PROVE  NotJustFull(Len(StdDigits), StdBase, Want.prec, Want.width, Fs)
<1> DEFINE n == Len(StdDigits)
           p == Want.prec
           w == Want.width
<1>f. /\ "LEFT" \in Fs <=> Left
      /\ "ZEROPAD" \in Fs <=> Has("ZEROPAD") /\ ~GivenPrec
  BY IntegerFlagFacts
<1>1. p < 0 <=> ~GivenPrec
  <2>1. p \in Int BY WantNumbers
  <2> HIDE DEF p
  <2>2. p < 0 <=> ~(p >= 0) BY <2>1
  <2> QED BY <2>2 DEF GivenPrec, p
<1>2. ~GivenPrec => /\ n # w
                    /\ Has("ZEROPAD") /\ ~Left => ~(w - n = 1 /\ StdBase = 16) /\ ~(StdBase = 2 /\ w > n)
  BY DEF LosesDigits, MisplacesPrefix
<1> HIDE DEF n, p, w
<1>3. p < 0 => /\ n # w
               /\ "ZEROPAD" \in Fs /\ "LEFT" \notin Fs => ~(w - n = 1 /\ StdBase = 16) /\ ~(w > n /\ StdBase = 2)
  BY <1>f, <1>1, <1>2
<1> QED BY <1>3 DEF NotJustFull, n, p, w

LEMMA StdIntegerText ==
  ASSUME TextCall, AtConversion, ~MisplacesPrefix
  PROVE  StdInteger = FieldText(StdDigits, StdFront, Want.prec, Want.width, Fs)
<1> DEFINE front == StdSign \o (IF StdBase = 8 /\ Want.prec > Len(StdDigits) THEN <<>> ELSE StdPrefix)
           exact == Repeat("0", Want.prec - Len(StdDigits)) \o StdDigits
           fill  == IF Has("ZEROPAD") /\ ~Left /\ ~GivenPrec
                    THEN Repeat("0", Want.width - Len(front) - Len(exact)) ELSE <<>>
           p == Want.prec
           w == Want.width
<1>f. /\ "LEFT" \in Fs <=> Left
      /\ "ZEROPAD" \in Fs <=> Has("ZEROPAD") /\ ~GivenPrec
  BY IntegerFlagFacts
<1>1. StdInteger = Filled(front \o fill \o exact) BY DEF StdInteger
<1>2. front = StdFront
  <2>1. StdBase = 8 /\ Want.prec > Len(StdDigits) => StdPrefix = <<>> BY DEF MisplacesPrefix
  <2> QED BY <2>1 DEF StdFront
<1>3. exact = ExactText(StdDigits, p) BY DEF ExactText
<1>4. p < 0 <=> ~GivenPrec
  <2>1. p \in Int BY WantNumbers
  <2> HIDE DEF p
  <2>2. p < 0 <=> ~(p >= 0) BY <2>1
  <2> QED BY <2>2 DEF GivenPrec, p
<1>5. fill = IF "ZEROPAD" \in Fs /\ "LEFT" \notin Fs /\ p < 0
             THEN Repeat("0", w - Len(StdFront) - Len(ExactText(StdDigits, p))) ELSE <<>>
  BY <1>f, <1>2, <1>3, <1>4
<1>6. \A s : Filled(s) = Spread(s, w, Fs) BY <1>f DEF Filled, Spread
<1> HIDE DEF front, exact, fill, p, w
<1>7. FieldText(StdDigits, StdFront, p, w, Fs) = Spread(StdFront \o fill \o ExactText(StdDigits, p), w, Fs)
  BY <1>5 DEF FieldText
<1> QED BY <1>1, <1>2, <1>3, <1>6, <1>7 DEF p, w

(* The text of an integer conversion, where it does not depart.            *)
LEMMA IntegerAsStandard ==
  ASSUME TextCall, AtConversion, ~Departs
  PROVE  NtoaLong(Abs(ArgValue(Want.conv)), ArgValue(Want.conv) < 0, Base(Want.conv), precision, width,
                  IntegerFlags(Want.conv)) = StdInteger
<1>1. ~LosesPrecision /\ ~LosesDigits /\ ~MisplacesPrefix /\ ~UnsignedChar /\ ~(Scratch > NTOA_BUFFER_SIZE)
  BY DEF Departs
<1> DEFINE neg == Value < 0
           v == Abs(Value)
           p == Want.prec
           w == Want.width
<1>2. neg \in BOOLEAN /\ (neg <=> Value < 0) OBVIOUS
<1>3. ArgValue(Want.conv) = Value BY <1>1, ValueRead
<1>4. AsAsked(v, StdBase, p, w, Fs) BY <1>1, DigitsAsked
<1>5. /\ StdDigits = NumeralOf(v, StdBase, p, Fs) /\ StdSign = Sign(neg, Fs) /\ StdPrefix = PrefixFor(v, StdBase, Fs)
      /\ StdPrefix # <<>> => StdBase \in {2, 8, 16} /\ StdSign = <<>>
      /\ "HASH" \in Fs /\ v # 0 => StdPrefix # <<>>
  <2> HIDE DEF neg
  <2> QED BY <1>2, StdParts
<1>6. Fits(v, StdBase, p, w, Fs, StdFront)
  <2>1. Scratch <= NTOA_BUFFER_SIZE
    <3>1. Scratch \in Int
      <4>1. p \in Int /\ w \in Int BY WantNumbers
      <4>2. Len(StdDigits) \in Nat
        <5> HIDE DEF v, p, w
        <5>1. Len(NumeralOf(v, StdBase, p, Fs)) \in Nat BY <1>4, AskedFacts
        <5> QED BY <1>5, <5>1
      <4>3. Len(StdSign) \in Int /\ Len(StdPrefix) \in Int
        <5>1. StdSign \in Seq(Char)
          <6> HIDE DEF neg
          <6> QED BY <1>5, SignType
        <5>2. StdPrefix \in Seq(Char)
          <6>1. PrefixFor(v, StdBase, Fs) \in Seq(Char) BY MarkFacts, EmptySeq DEF PrefixFor
          <6> QED BY <1>5, <6>1
        <5> QED BY <5>1, <5>2, LenProperties
      <4> QED BY <4>1, <4>2, <4>3 DEF Scratch
    <3> QED BY <1>1, <3>1, BufferSizes
  <2> QED BY <1>1, <2>1, FrontFits
<1>7. InPlace(v, neg, StdBase, p, w, Fs)
  <2>1. ASSUME "HASH" \in Fs, v # 0
        PROVE  /\ StdBase \in {2, 8, 16} /\ NoSign(neg, Fs)
               /\ NotJustFull(Len(NumeralOf(v, StdBase, p, Fs)), StdBase, p, w, Fs)
    <3>1. StdPrefix # <<>> BY <1>5, <2>1
    <3>2. NotJustFull(Len(StdDigits), StdBase, p, w, Fs) BY <1>1, <3>1, PrefixInPlace
    <3> HIDE DEF neg
    <3> QED BY <1>5, <3>1, <3>2 DEF NoSign
  <2> HIDE DEF neg, v, p, w
  <2> QED BY <2>1 DEF InPlace
<1>8. StdFront = FrontOf(v, neg, StdBase, Fs)
  <2> HIDE DEF neg
  <2> QED BY <1>5 DEF StdFront, FrontOf
<1>9. NtoaLong(v, neg, StdBase, Given(p), w, Fs) = FieldText(NumeralOf(v, StdBase, p, Fs), StdFront, p, w, Fs)
  <2> HIDE DEF neg, v, p, w
  <2>1. Fits(v, StdBase, p, w, Fs, FrontOf(v, neg, StdBase, Fs)) BY <1>6, <1>8
  <2>2. NtoaLong(v, neg, StdBase, Given(p), w, Fs)
          = FieldText(NumeralOf(v, StdBase, p, Fs), FrontOf(v, neg, StdBase, Fs), p, w, Fs)
    BY Zenon, <1>4, <1>7, <2>1, IntegerText
  <2> QED BY <1>8, <2>2
<1>10. StdInteger = FieldText(StdDigits, StdFront, p, w, Fs) BY <1>1, StdIntegerText
<1>11. precision = Given(p) /\ width = w BY DEF AtConversion
<1>12. NtoaLong(v, neg, StdBase, Given(p), w, Fs) = StdInteger
  <2> HIDE DEF neg, v, p, w
  <2> QED BY <1>5, <1>9, <1>10
<1> QED BY <1>3, <1>11, <1>12 DEF StdBase, Fs

-----------------------------------------------------------------------------
(* The fields of a format.                                                 *)
LEMMA DecimalChars ==
  /\ Decimal \subseteq {"0", "1", "2", "3", "4", "5", "6", "7", "8", "9"}
  /\ DOMAIN FlagOf = {"0", "-", "+", " ", "#"}
<1>1. \A i \in 1..10 : DigitChar[i] \in {"0", "1", "2", "3", "4", "5", "6", "7", "8", "9"} BY DEF DigitChar
<1>2. DOMAIN FlagOf = {"0", "-", "+", " ", "#"} BY DEF FlagOf
<1> QED BY <1>1, <1>2 DEF Decimal

LEMMA FieldChars ==
  /\ TextConv \subseteq Char /\ {"l", "h", "j", "t", "z", "."} \subseteq Char
<1>1. DigitChar[12] = "b" /\ DigitChar[13] = "c" /\ DigitChar[14] = "d" BY DEF DigitChar
<1>2. \A i \in 1..16 : DigitChar[i] \in Char BY Zenon DEF Char
<1>3. {"b", "c", "d"} \subseteq Char
  <2>1. 12 \in 1..16 /\ 13 \in 1..16 /\ 14 \in 1..16 OBVIOUS
  <2> QED BY <1>1, <1>2, <2>1
<1>4. {"i", "u", "x", "X", "o", "s", "l", "h", "j", "t", "z", "."} \subseteq Char BY DEF Char
<1> QED BY <1>3, <1>4 DEF TextConv, IntConv

LEMMA Joined ==
  /\ \A a, b \in Char : <<a>> \o <<b>> = <<a, b>>
  /\ \A a, b, c \in Char : <<a, b>> \o <<c>> = <<a, b, c>>
<1>1. ASSUME NEW a \in Char, NEW b \in Char PROVE <<a>> \o <<b>> = <<a, b>>
  <2> DEFINE s == <<a>>
             t == <<b>>
             u == <<a, b>>
  <2>1. s \in Seq(Char) /\ t \in Seq(Char) /\ u \in Seq(Char) BY ShortText
  <2>2. Len(s) = 1 /\ s[1] = a /\ Len(t) = 1 /\ t[1] = b /\ Len(u) = 2 /\ u[1] = a /\ u[2] = b OBVIOUS
  <2> HIDE DEF s, t, u
  <2>3. /\ s \o t \in Seq(Char) /\ Len(s \o t) = Len(s) + Len(t)
        /\ \A i \in 1..Len(s) + Len(t) : (s \o t)[i] = IF i <= Len(s) THEN s[i] ELSE t[i - Len(s)]
    BY <2>1, ConcatProperties
  <2>4. \A i \in 1..2 : (s \o t)[i] = IF i <= 1 THEN s[i] ELSE t[i - 1] BY <2>2, <2>3
  <2>5. \A i \in 1..2 : (i = 1 /\ i <= 1) \/ (i = 2 /\ ~(i <= 1) /\ i - 1 = 1) OBVIOUS
  <2>6. \A i \in 1..2 : (s \o t)[i] = u[i] BY <2>2, <2>4, <2>5
  <2>7. s \o t = u BY <2>1, <2>2, <2>3, <2>6, SeqEqual
  <2> QED BY <2>7 DEF s, t, u
<1>2. ASSUME NEW a \in Char, NEW b \in Char, NEW c \in Char PROVE <<a, b>> \o <<c>> = <<a, b, c>>
  <2> DEFINE s == <<a, b>>
             t == <<c>>
             u == <<a, b, c>>
  <2>1. s \in Seq(Char) /\ t \in Seq(Char) /\ u \in Seq(Char) OBVIOUS
  <2>2. /\ Len(s) = 2 /\ s[1] = a /\ s[2] = b /\ Len(t) = 1 /\ t[1] = c
        /\ Len(u) = 3 /\ u[1] = a /\ u[2] = b /\ u[3] = c
    OBVIOUS
  <2> HIDE DEF s, t, u
  <2>3. /\ s \o t \in Seq(Char) /\ Len(s \o t) = Len(s) + Len(t)
        /\ \A i \in 1..Len(s) + Len(t) : (s \o t)[i] = IF i <= Len(s) THEN s[i] ELSE t[i - Len(s)]
    BY <2>1, ConcatProperties
  <2>4. \A i \in 1..3 : (s \o t)[i] = IF i <= 2 THEN s[i] ELSE t[i - 2] BY <2>2, <2>3
  <2>5. \A i \in 1..3 : (i = 1 /\ i <= 2) \/ (i = 2 /\ i <= 2) \/ (i = 3 /\ ~(i <= 2) /\ i - 2 = 1) OBVIOUS
  <2>6. \A i \in 1..3 : (s \o t)[i] = u[i] BY <2>2, <2>4, <2>5
  <2>7. s \o t = u BY <2>1, <2>2, <2>3, <2>6, SeqEqual
  <2> QED BY <2>7 DEF s, t, u
<1> QED BY <1>1, <1>2

AP == AfterPrecision(Want)
AW == AfterWidth(Want)

LEMMA LengthField ==
  ASSUME TextCall
  PROVE  /\ AP \in Seq(Char) /\ AP # <<>>
         /\ Head(AP) \notin Decimal \cup DOMAIN FlagOf \cup {"*", "."}
         /\ Want.length = "" => AP = <<Want.conv>>
         /\ Want.length \in {"h", "l", "j", "z", "t"} => AP = <<Want.length, Want.conv>>
         /\ Want.length = "hh" => AP = <<"h", "h", Want.conv>>
         /\ Want.length = "ll" => AP = <<"l", "l", Want.conv>>
<1> DEFINE c == Want.conv
           l == Want.length
<1>1. l \in {"", "hh", "h", "l", "ll", "j", "z", "t"} BY WantFacts
<1>2. c \in TextConv /\ c \in Char BY FieldChars DEF TextCall
<1>3. AP = LengthText(l) \o <<c>> BY DEF AP, AfterPrecision
<1>4. /\ TextConv \cap (Decimal \cup DOMAIN FlagOf \cup {"*", "."}) = {}
      /\ {"l", "h", "j", "t", "z"} \cap (Decimal \cup DOMAIN FlagOf \cup {"*", "."}) = {}
  BY DecimalChars DEF TextConv, IntConv
<1>5. {"l", "h", "j", "t", "z"} \subseteq Char BY FieldChars
<1>6. <<c>> \in Seq(Char) BY <1>2, ShortText
<1> HIDE DEF c, l
<1>7. CASE l = ""
  <2>1. AP = <<c>>
    <3>1. LengthText(l) = <<>> BY <1>7 DEF LengthText
    <3> QED BY <1>3, <1>6, <3>1, ConcatEmpty
  <2>2. Head(AP) = c /\ AP # <<>> BY <2>1
  <2> QED BY <1>2, <1>4, <1>6, <1>7, <2>1, <2>2 DEF c, l
<1>8. CASE l \in {"h", "l", "j", "z", "t"}
  <2>1. LengthText(l) = <<l>> BY <1>8 DEF LengthText
  <2>2. l \in Char BY <1>5, <1>8
  <2>3. AP = <<l, c>> BY <1>2, <1>3, <2>1, <2>2, Joined
  <2>4. Head(AP) = l /\ AP # <<>> /\ AP \in Seq(Char) BY <1>2, <2>2, <2>3
  <2>5. l \notin Decimal \cup DOMAIN FlagOf \cup {"*", "."} BY <1>4, <1>8
  <2> QED BY <1>8, <2>3, <2>4, <2>5 DEF c, l
<1>9. CASE l = "hh"
  <2>1. LengthText(l) = <<"h", "h">> BY <1>9 DEF LengthText
  <2>2. "h" \in Char BY <1>5
  <2>3. AP = <<"h", "h", c>> BY <1>2, <1>3, <2>1, <2>2, Joined
  <2>4. Head(AP) = "h" /\ AP # <<>> /\ AP \in Seq(Char) BY <1>2, <2>2, <2>3
  <2>5. "h" \notin Decimal \cup DOMAIN FlagOf \cup {"*", "."} BY <1>4
  <2> QED BY <1>9, <2>3, <2>4, <2>5 DEF c, l
<1>10. CASE l = "ll"
  <2>1. LengthText(l) = <<"l", "l">> BY <1>10 DEF LengthText
  <2>2. "l" \in Char BY <1>5
  <2>3. AP = <<"l", "l", c>> BY <1>2, <1>3, <2>1, <2>2, Joined
  <2>4. Head(AP) = "l" /\ AP # <<>> /\ AP \in Seq(Char) BY <1>2, <2>2, <2>3
  <2>5. "l" \notin Decimal \cup DOMAIN FlagOf \cup {"*", "."} BY <1>4
  <2> QED BY <1>10, <2>3, <2>4, <2>5 DEF c, l
<1> QED BY <1>1, <1>7, <1>8, <1>9, <1>10

LEMMA PositiveType ==
  ASSUME NEW n \in Nat, n < Pow(2, MAX_DIGITS)
  PROVE  Positive(n) \in Seq(Char) /\ (n # 0 => Positive(n) = Number(n)) /\ (n = 0 => Positive(n) = <<>>)
<1>1. Number(n) \in Seq(Char) BY NumberShape
<1>2. Positive(n) = IF n = 0 THEN <<>> ELSE Number(n) BY DEF Positive, Number
<1> QED BY <1>1, <1>2, EmptySeq

LEMMA PrecisionField ==
  ASSUME TextCall
  PROVE  /\ AW \in Seq(Char) /\ AW # <<>> /\ Head(AW) \notin Decimal \cup DOMAIN FlagOf \cup {"*"}
         /\ ~GivenPrec => AW = AP
         /\ GivenPrec => /\ Head(AW) = "." /\ Tail(AW) = Positive(Want.prec) \o AP
<1>1. AP \in Seq(Char) /\ AP # <<>> /\ Head(AP) \notin Decimal \cup DOMAIN FlagOf \cup {"*", "."} BY LengthField
<1> DEFINE p == Want.prec
           s == Positive(p) \o AP
<1>2. p \in Int /\ (p < 0 <=> ~GivenPrec)
  <2>1. p \in Int BY WantNumbers
  <2> HIDE DEF p
  <2>2. p < 0 <=> ~(p >= 0) BY <2>1
  <2> QED BY <2>1, <2>2 DEF GivenPrec, p
<1>3. AW = (IF p < 0 THEN <<>> ELSE <<".">> \o Positive(p)) \o AP BY DEF AW, AP, AfterWidth
<1>4. CASE ~GivenPrec
  <2>1. AW = AP BY <1>1, <1>2, <1>3, <1>4, ConcatEmpty
  <2> QED BY <1>1, <1>4, <2>1
<1>5. CASE GivenPrec
  <2>1. Positive(p) \in Seq(Char) BY <1>5, WantNumbers, PositiveType
  <2>2. "." \in Char /\ <<".">> \in Seq(Char) BY FieldChars
  <2>3. AW = (<<".">> \o Positive(p)) \o AP BY <1>2, <1>3, <1>5
  <2>4. AW = <<".">> \o s BY <1>1, <2>1, <2>2, <2>3, ConcatAssociative
  <2>5. s \in Seq(Char) BY <1>1, <2>1, ConcatProperties
  <2> HIDE DEF s
  <2>6. AW \in Seq(Char) /\ AW # <<>> /\ Head(AW) = "." /\ Tail(AW) = s BY <2>2, <2>4, <2>5
  <2>7. "." \notin Decimal \cup DOMAIN FlagOf \cup {"*"} BY DecimalChars
  <2> QED BY <1>5, <2>6, <2>7 DEF s
<1> QED BY <1>4, <1>5

AF == AfterFlags(Want)

LEMMA HeadOfConcat ==
  ASSUME NEW s \in Seq(Char), NEW t \in Seq(Char), Len(s) >= 1
  PROVE  s \o t \in Seq(Char) /\ s \o t # <<>> /\ Head(s \o t) = s[1]
<1> DEFINE u == s \o t
<1>1. Len(s) \in Nat /\ Len(t) \in Nat BY LenProperties
<1>2. u \in Seq(Char) /\ Len(u) = Len(s) + Len(t)
      /\ \A i \in 1..Len(s) + Len(t) : u[i] = IF i <= Len(s) THEN s[i] ELSE t[i - Len(s)]
  BY ConcatProperties
<1> HIDE DEF u
<1>3. 1 \in 1..Len(s) + Len(t) /\ 1 <= Len(s) BY <1>1
<1>4. u[1] = s[1] BY <1>2, <1>3
<1>5. u # <<>>
  <2>1. Len(u) # 0 BY <1>1, <1>2
  <2> QED BY <2>1, EmptySeq
<1>6. Head(u) = u[1] BY <1>2, <1>5
<1> QED BY <1>2, <1>4, <1>5, <1>6 DEF u

LEMMA NumberHead ==
  ASSUME NEW n \in Nat, n < Pow(2, MAX_DIGITS), n # 0, NEW t \in Seq(Char)
  PROVE  /\ Number(n) \o t \in Seq(Char) /\ Number(n) \o t # <<>>
         /\ Head(Number(n) \o t) \in Decimal \ {"0"}
<1> DEFINE s == Number(n)
<1>1. s \in Seq(Char) /\ Len(s) \in Nat /\ Len(s) >= 1 /\ s[1] # "0" /\ \A i \in 1..Len(s) : s[i] \in Decimal
  BY NumberShape
<1> HIDE DEF s
<1>2. 1 \in 1..Len(s) BY <1>1
<1>3. s[1] \in Decimal BY <1>1, <1>2
<1>4. s \o t \in Seq(Char) /\ s \o t # <<>> /\ Head(s \o t) = s[1] BY <1>1, HeadOfConcat
<1> QED BY <1>1, <1>3, <1>4 DEF s

LEMMA FlagField ==
  ASSUME TextCall
  PROVE  /\ AF \in Seq(Char) /\ AF # <<>> /\ Head(AF) \notin DOMAIN FlagOf \cup {"*"}
         /\ Want.width = 0 => AF = AW /\ Head(AF) \notin Decimal
         /\ Want.width # 0 => AF = Number(Want.width) \o AW /\ Head(AF) \in Decimal
<1> DEFINE w == Want.width
<1>1. AW \in Seq(Char) /\ AW # <<>> /\ Head(AW) \notin Decimal \cup DOMAIN FlagOf \cup {"*"} BY PrecisionField
<1>2. w \in Nat /\ w < Pow(2, MAX_DIGITS) BY WantNumbers
<1>3. AF = Positive(w) \o AW BY DEF AF, AW, AfterFlags
<1> HIDE DEF w
<1>4. CASE w = 0
  <2>1. AF = AW
    <3>1. Positive(w) = <<>> BY <1>4 DEF Positive
    <3> QED BY <1>1, <1>3, <3>1, ConcatEmpty
  <2> QED BY <1>1, <1>4, <2>1 DEF w
<1>5. CASE w # 0
  <2>1. AF = Number(w) \o AW
    <3>1. Positive(w) = Number(w) BY <1>5 DEF Positive, Number
    <3> QED BY <1>3, <3>1
  <2>2. AF \in Seq(Char) /\ AF # <<>> /\ Head(AF) \in Decimal \ {"0"} BY <1>1, <1>2, <1>5, <2>1, NumberHead
  <2>3. Head(AF) \notin DOMAIN FlagOf \cup {"*"} BY <2>2, DecimalChars
  <2> QED BY <1>5, <2>1, <2>2, <2>3 DEF w
<1> QED BY <1>4, <1>5

LEMMA ValueField ==
  ASSUME TextCall, GivenPrec, NEW f, f = Positive(Want.prec) \o AP
  PROVE  /\ f \in Seq(Char) /\ f # <<>> /\ Head(f) # "*"
         /\ Want.prec = 0 => f = AP /\ Head(f) \notin Decimal
         /\ Want.prec # 0 => f = Number(Want.prec) \o AP /\ Head(f) \in Decimal
<1> DEFINE p == Want.prec
<1>1. AP \in Seq(Char) /\ AP # <<>> /\ Head(AP) \notin Decimal \cup DOMAIN FlagOf \cup {"*", "."} BY LengthField
<1>2. p \in Nat /\ p < Pow(2, MAX_DIGITS) BY WantNumbers
<1>3. f = Positive(p) \o AP OBVIOUS
<1> HIDE DEF p
<1>4. CASE p = 0
  <2>1. f = AP
    <3>1. Positive(p) = <<>> BY <1>4 DEF Positive
    <3> QED BY <1>1, <1>3, <3>1, ConcatEmpty
  <2> QED BY <1>1, <1>4, <2>1 DEF p
<1>5. CASE p # 0
  <2>1. f = Number(p) \o AP
    <3>1. Positive(p) = Number(p) BY <1>5 DEF Positive, Number
    <3> QED BY <1>3, <3>1
  <2>2. f \in Seq(Char) /\ f # <<>> /\ Head(f) \in Decimal BY <1>1, <1>2, <1>5, <2>1, NumberHead
  <2>3. Head(f) # "*" BY <2>2, DecimalChars
  <2> QED BY <1>5, <2>1, <2>2, <2>3 DEF p
<1> QED BY <1>4, <1>5

(* Flags in front of the rest of a directive.                              *)
LEMMA FlagEnd ==
  ASSUME NEW f \in Seq(Char), NEW fs, NEW d, FlagsAhead(f, fs, d), ~(f # <<>> /\ Head(f) \in DOMAIN FlagOf)
  PROVE  f = AfterFlags(d) /\ fs = d.flags
<1>1. PICK n \in 0..Len(f) : /\ \A i \in 1..n : f[i] \in DOMAIN FlagOf
                             /\ d.flags = fs \cup {FlagOf[f[i]] : i \in 1..n}
                             /\ Rest(f, n) = AfterFlags(d)
  BY DEF FlagsAhead
<1>2. Len(f) \in Nat BY LenProperties
<1>3. n = 0
  <2>1. SUFFICES ASSUME n # 0 PROVE FALSE OBVIOUS
  <2>2. 1 \in 1..n /\ Len(f) # 0 BY <1>2, <2>1
  <2>3. f # <<>> BY <2>2, EmptySeq
  <2>4. Head(f) = f[1] BY <2>3
  <2> QED BY <1>1, <2>2, <2>3, <2>4
<1>4. fs = d.flags
  <2>1. {FlagOf[f[i]] : i \in 1..n} = {}
    <3>1. 1..n = {} BY <1>3
    <3> QED BY <3>1
  <2> QED BY <1>1, <2>1
<1>5. Rest(f, 0) = f
  <2>1. SubSeq(f, 1, Len(f)) = f
    <3> DEFINE t == SubSeq(f, 1, Len(f))
    <3>1. t \in Seq(Char) /\ Len(t) = Len(f) /\ \A i \in 1..Len(f) : t[i] = f[i] BY <1>2
    <3> HIDE DEF t
    <3> QED BY <3>1, SeqEqual DEF t
  <2>2. 0 + 1 = 1 OBVIOUS
  <2> QED BY <2>1, <2>2 DEF Rest
<1> QED BY <1>1, <1>3, <1>4, <1>5

LEMMA FlagStep ==
  ASSUME NEW f \in Seq(Char), NEW fs, NEW d, FlagsAhead(f, fs, d), f # <<>>, Head(f) \in DOMAIN FlagOf,
         AfterFlags(d) \in Seq(Char), Head(AfterFlags(d)) \notin DOMAIN FlagOf
  PROVE  FlagsAhead(Tail(f), fs \cup {FlagOf[Head(f)]}, d)
<1> DEFINE g == Tail(f)
           L == Len(f)
<1>1. PICK n \in 0..L : /\ \A i \in 1..n : f[i] \in DOMAIN FlagOf
                        /\ d.flags = fs \cup {FlagOf[f[i]] : i \in 1..n}
                        /\ Rest(f, n) = AfterFlags(d)
  BY DEF FlagsAhead
<1>2. L \in Nat /\ L >= 1
  <2>1. L \in Nat /\ L # 0 BY LenProperties, EmptySeq
  <2> QED BY <2>1
<1>3. g \in Seq(Char) /\ Len(g) = L - 1 /\ Head(f) = f[1] /\ \A i \in 1..L - 1 : g[i] = f[i + 1]
  BY HeadTailProperties
<1>r. \A m \in 0..L : /\ Rest(f, m) \in Seq(Char) /\ Len(Rest(f, m)) = L - m
                      /\ \A i \in 1..L - m : Rest(f, m)[i] = f[m + i]
  <2> SUFFICES ASSUME NEW m \in 0..L
               PROVE  /\ Rest(f, m) \in Seq(Char) /\ Len(Rest(f, m)) = L - m
                      /\ \A i \in 1..L - m : Rest(f, m)[i] = f[m + i]
    OBVIOUS
  <2>1. m + 1 \in Int /\ L \in Int /\ \A i \in m + 1..L : i \in 1..L BY <1>2
  <2>2. \A i \in m + 1..L : f[i] \in Char BY <2>1, ElementOfSeq
  <2> DEFINE x == SubSeq(f, m + 1, L)
  <2>3. /\ x \in Seq(Char) /\ Len(x) = IF m + 1 <= L THEN L - (m + 1) + 1 ELSE 0
        /\ \A i \in 1..L - (m + 1) + 1 : x[i] = f[m + 1 + i - 1]
    BY <2>1, <2>2, SubSeqProperties
  <2>4. (IF m + 1 <= L THEN L - (m + 1) + 1 ELSE 0) = L - m /\ L - (m + 1) + 1 = L - m BY <1>2
  <2>5. \A i \in 1..L - m : m + 1 + i - 1 = m + i OBVIOUS
  <2> HIDE DEF x
  <2>6. x \in Seq(Char) /\ Len(x) = L - m /\ \A i \in 1..L - m : x[i] = f[m + i] BY <2>3, <2>4, <2>5
  <2> QED BY <2>6 DEF x, Rest
<1> HIDE DEF g, L
<1>4. n # 0
  <2>1. SUFFICES ASSUME n = 0 PROVE FALSE OBVIOUS
  <2> DEFINE x == Rest(f, 0)
  <2>2. 0 \in 0..L /\ L - 0 = L /\ 1 \in 1..L /\ 0 + 1 = 1 BY <1>2
  <2>3. x \in Seq(Char) /\ Len(x) = L /\ \A i \in 1..L : x[i] = f[0 + i] BY <1>r, <2>2
  <2>4. x = AfterFlags(d) BY <1>1, <2>1
  <2> HIDE DEF x
  <2>5. x[1] = f[1] BY <2>2, <2>3
  <2>6. x # <<>>
    <3>1. Len(x) # 0 BY <1>2, <2>3
    <3> QED BY <3>1, EmptySeq
  <2>7. Head(x) = x[1] BY <2>3, <2>6
  <2> QED BY <1>3, <2>4, <2>5, <2>7
<1>5. n - 1 \in 0..L - 1 /\ n \in Nat /\ n - 1 \in Nat BY <1>2, <1>4
<1>6. \A i \in 1..n - 1 : i + 1 \in 1..n /\ i \in 1..L - 1 /\ g[i] = f[i + 1]
  <2>1. \A i \in 1..n - 1 : i + 1 \in 1..n /\ i \in 1..L - 1 BY <1>2, <1>5
  <2> QED BY <1>3, <2>1
<1>7. \A i \in 1..n - 1 : g[i] \in DOMAIN FlagOf BY <1>1, <1>6
<1>8. d.flags = (fs \cup {FlagOf[Head(f)]}) \cup {FlagOf[g[i]] : i \in 1..n - 1}
  <2> DEFINE A == {FlagOf[f[i]] : i \in 1..n}
             B == {FlagOf[g[i]] : i \in 1..n - 1}
  <2>1. ASSUME NEW x \in A PROVE x \in B \cup {FlagOf[f[1]]}
    <3>1. PICK i \in 1..n : x = FlagOf[f[i]] OBVIOUS
    <3>2. CASE i = 1 BY <3>1, <3>2
    <3>3. CASE i # 1
      <4>1. PICK j \in 1..n - 1 : i = j + 1
        <5>1. i - 1 \in 1..n - 1 /\ i = i - 1 + 1 BY <1>5, <3>3
        <5> QED BY <5>1
      <4>2. x = FlagOf[g[j]] BY <1>6, <3>1, <4>1
      <4> QED BY <4>2
    <3> QED BY <3>2, <3>3
  <2>2. ASSUME NEW x \in B PROVE x \in A
    <3>1. PICK j \in 1..n - 1 : x = FlagOf[g[j]] OBVIOUS
    <3>2. x = FlagOf[f[j + 1]] /\ j + 1 \in 1..n BY <1>6, <3>1
    <3> QED BY <3>2
  <2>3. FlagOf[f[1]] \in A
    <3>1. 1 \in 1..n BY <1>4, <1>5
    <3> QED BY <3>1
  <2> HIDE DEF A, B
  <2>4. A = B \cup {FlagOf[f[1]]} BY <2>1, <2>2, <2>3
  <2>5. d.flags = fs \cup A BY <1>1 DEF A
  <2>6. d.flags = (fs \cup {FlagOf[Head(f)]}) \cup B BY <1>3, <2>4, <2>5
  <2> QED BY <2>6 DEF B
<1>9. Rest(g, n - 1) = Rest(f, n)
  <2> DEFINE x == Rest(f, n)
             y == Rest(g, n - 1)
  <2>1. x \in Seq(Char) /\ Len(x) = L - n /\ \A i \in 1..L - n : x[i] = f[n + i] BY <1>r
  <2>2. \A i \in n - 1 + 1..L - 1 : i \in 1..L - 1 BY <1>2, <1>5
  <2>3. \A i \in n - 1 + 1..L - 1 : g[i] \in Char BY <1>3, <2>2, ElementOfSeq
  <2>4. n - 1 + 1 \in Int /\ L - 1 \in Int BY <1>2, <1>5
  <2>5. /\ y \in Seq(Char) /\ Len(y) = IF n - 1 + 1 <= L - 1 THEN L - 1 - (n - 1 + 1) + 1 ELSE 0
        /\ \A i \in 1..L - 1 - (n - 1 + 1) + 1 : y[i] = g[n - 1 + 1 + i - 1]
    BY <1>3, <2>3, <2>4, SubSeqProperties DEF Rest
  <2>6. (IF n - 1 + 1 <= L - 1 THEN L - 1 - (n - 1 + 1) + 1 ELSE 0) = L - n /\ L - 1 - (n - 1 + 1) + 1 = L - n
    BY <1>2, <1>5
  <2>7. \A i \in 1..L - n : /\ n - 1 + 1 + i - 1 = n + i - 1 /\ n + i - 1 \in 1..L - 1
                            /\ n + i - 1 + 1 = n + i
    BY <1>2, <1>4, <1>5
  <2> HIDE DEF x, y
  <2>8. \A i \in 1..L - n : y[i] = g[n + i - 1] BY <2>5, <2>6, <2>7
  <2>9. \A i \in 1..L - n : g[n + i - 1] = f[n + i] BY <1>3, <2>7
  <2>10. x = y
    <3>1. Len(y) = L - n BY <2>5, <2>6
    <3>2. \A i \in 1..L - n : x[i] = y[i] BY <2>1, <2>8, <2>9
    <3> QED BY <2>1, <2>5, <3>1, <3>2, SeqEqual
  <2> QED BY <2>10 DEF x, y
<1>10. n - 1 \in 0..Len(g) BY <1>3, <1>5
<1>11. Rest(g, n - 1) = AfterFlags(d) BY <1>1, <1>9
<1>12. FlagsAhead(g, fs \cup {FlagOf[Head(f)]}, d) BY <1>7, <1>8, <1>10, <1>11 DEF FlagsAhead
<1> QED BY <1>12 DEF g

-----------------------------------------------------------------------------
(* What is left of the format spells what is left of the directive, and    *)
(* nothing is put out before its conversion.                               *)
TextRight ==
  /\ Want.conv \in IntConv /\ ~Departs => emitted = StdInteger
  /\ Want.conv \in {"s", "c"} =>
       emitted = Filled(IF GivenPrec /\ Want.conv = "s" THEN Fit(Arg.s, Want.prec) ELSE Arg.s)
NotYet == emitted = <<>> /\ va = call.va
AtFlags == NotYet /\ format \in Seq(Char) /\ FlagsAhead(format, flags, Want) /\ width = 0 /\ precision = 0
AtPrecision == NotYet /\ format = AW /\ flags = Want.flags /\ width = Want.width /\ precision = 0
AtPrecisionValue ==
  /\ NotYet /\ GivenPrec /\ format = Positive(Want.prec) \o AP
  /\ flags = Want.flags \cup {"PRECISION"} /\ width = Want.width /\ precision = 0
AtLength ==
  /\ NotYet /\ format = AP /\ flags = Want.flags \cup PrecisionFlag
  /\ width = Want.width /\ precision = Given(Want.prec)
Spelling ==
  /\ at \in {"text", "flags", "precision", "precision value", "length", "specifier", "returned"}
  /\ at = "text" => (NotYet /\ format = call.format) \/ (format = <<>> /\ TextRight)
  /\ at = "flags" => AtFlags
  /\ at = "precision" => AtPrecision
  /\ at = "precision value" => AtPrecisionValue
  /\ at = "length" => AtLength
  /\ at = "specifier" => emitted = <<>> /\ AtConversion
  /\ at = "returned" => TextRight
DirectiveInv == call \in Call /\ (Want.conv \in TextConv => Spelling)

LEMMA InitDirective == Init => DirectiveInv
<1> SUFFICES ASSUME Init PROVE DirectiveInv OBVIOUS
<1>1. call \in Call /\ emitted = <<>> /\ va = call.va /\ format = call.format
      /\ at = (IF call.fn = "puts" THEN "puts" ELSE "text")
  BY DEF Init
<1>2. ASSUME Want.conv \in TextConv PROVE Spelling
  <2>1. call.fn # "puts"
    <3>1. TextCall BY <1>1, <1>2 DEF TextCall
    <3> QED BY <3>1, WantFacts
  <2>2. at = "text" BY <1>1, <2>1
  <2> QED BY <1>1, <2>2 DEF Spelling, NotYet
<1> QED BY <1>1, <1>2 DEF DirectiveInv

(* The call does not change, nor does what it asks for.                    *)
LEMMA SameWant ==
  ASSUME call' = call
  PROVE  /\ Want' = Want /\ Arg' = Arg /\ (Left' <=> Left) /\ (GivenPrec' <=> GivenPrec)
         /\ (\A f : Has(f)' <=> Has(f)) /\ (TextCall' <=> TextCall)
         /\ PrecisionFlag' = PrecisionFlag /\ AP' = AP /\ AW' = AW /\ AF' = AF
<1>1. Want' = Want BY DEF Want
<1>2. Arg' = Arg BY DEF Arg
<1>3. \A f : Has(f)' <=> Has(f) BY <1>1 DEF Has
<1>4. Left' <=> Left BY <1>1 DEF Left, Has
<1>5. GivenPrec' <=> GivenPrec BY <1>1 DEF GivenPrec
<1>6. TextCall' <=> TextCall BY <1>1 DEF TextCall
<1>7. PrecisionFlag' = PrecisionFlag BY <1>5 DEF PrecisionFlag
<1>8. AP' = AP BY <1>1 DEF AP
<1>9. AW' = AW BY <1>1 DEF AW
<1>10. AF' = AF BY <1>1 DEF AF
<1> QED BY <1>1, <1>2, <1>3, <1>4, <1>5, <1>6, <1>7, <1>8, <1>9, <1>10

LEMMA SameText ==
  ASSUME call' = call
  PROVE  /\ (Departs' <=> Departs) /\ StdInteger' = StdInteger
         /\ \A s : Filled(s)' = Filled(s)
<1>1. /\ Want' = Want /\ Arg' = Arg /\ (Left' <=> Left) /\ (GivenPrec' <=> GivenPrec)
      /\ \A f : Has(f)' <=> Has(f)
  BY SameWant
<1>2. Type' = Type BY <1>1 DEF Type
<1>3. Value' = Value BY <1>1, <1>2 DEF Value
<1>4. StdBase' = StdBase BY <1>1 DEF StdBase
<1>5. StdDigits' = StdDigits BY <1>1, <1>3, <1>4 DEF StdDigits
<1>h. (Has("HASH")' <=> Has("HASH")) /\ (Has("ZEROPAD")' <=> Has("ZEROPAD"))
      /\ (Has("PLUS")' <=> Has("PLUS")) /\ (Has("SPACE")' <=> Has("SPACE"))
  BY <1>1
<1>6. StdPrefix' = StdPrefix BY <1>1, <1>3, <1>h DEF StdPrefix
<1>7. StdSign' = StdSign BY <1>1, <1>3, <1>h DEF StdSign
<1>8. \A s : Filled(s)' = Filled(s) BY <1>1 DEF Filled
<1>9. StdInteger' = StdInteger BY <1>1, <1>4, <1>5, <1>6, <1>7, <1>8, <1>h DEF StdInteger
<1>10. LosesPrecision' <=> LosesPrecision BY <1>1, <1>3, <1>5 DEF LosesPrecision
<1>11. LosesDigits' <=> LosesDigits BY <1>1, <1>4, <1>5, <1>6, <1>h DEF LosesDigits
<1>12. MisplacesPrefix' <=> MisplacesPrefix BY <1>1, <1>4, <1>5, <1>6, <1>h DEF MisplacesPrefix
<1>13. UnsignedChar' <=> UnsignedChar BY <1>1, <1>3 DEF UnsignedChar
<1>14. Scratch' = Scratch BY <1>1, <1>5, <1>6, <1>7, <1>h DEF Scratch
<1>15. Departs' <=> Departs BY <1>10, <1>11, <1>12, <1>13, <1>14 DEF Departs
<1> QED BY <1>8, <1>9, <1>15

LEMMA SameRight ==
  ASSUME call' = call, emitted' = emitted, TextRight
  PROVE  TextRight'
<1>1. /\ Want' = Want /\ Arg' = Arg /\ (GivenPrec' <=> GivenPrec) BY SameWant
<1>2. /\ (Departs' <=> Departs) /\ StdInteger' = StdInteger /\ \A s : Filled(s)' = Filled(s) BY SameText
<1> DEFINE s == IF GivenPrec /\ Want.conv = "s" THEN Fit(Arg.s, Want.prec) ELSE Arg.s
<1>3. s' = s BY <1>1
<1>4. Filled(s)' = Filled(s) BY <1>2, <1>3 DEF Filled
<1>5. Want.conv \in IntConv /\ ~Departs => emitted = StdInteger BY DEF TextRight
<1>6. Want.conv \in {"s", "c"} => emitted = Filled(s) BY DEF TextRight
<1>7. (Want.conv \in IntConv /\ ~Departs => emitted = StdInteger)' BY <1>1, <1>2, <1>5
<1>8. (Want.conv \in {"s", "c"} => emitted = Filled(s))' BY <1>1, <1>4, <1>6
<1> QED BY <1>7, <1>8 DEF TextRight

(* One step over the format of a text conversion after the other.          *)
LEMMA PercentSpells ==
  ASSUME TextCall, Spelling, Percent
  PROVE  call' = call /\ Spelling'
<1>1. /\ at = "text" /\ format # <<>> /\ at' = "flags" /\ call' = call /\ va' = va /\ emitted' = emitted
      /\ format' = Tail(format) /\ flags' = {} /\ width' = 0 /\ precision' = 0
  BY DEF Percent, Sees, Silent, Frame
<1>2. NotYet /\ format = call.format BY <1>1 DEF Spelling
<1>3. Want' = Want BY <1>1, SameWant
<1>4. FlagsAhead(Tail(call.format), {}, Want) /\ call.format \in Seq(Char) /\ call.format # <<>> BY WantFacts
<1>5. format' \in Seq(Char) BY <1>1, <1>2, <1>4
<1>6. FlagsAhead(format', flags', Want') BY <1>1, <1>2, <1>3, <1>4
<1>7. NotYet' BY <1>1, <1>2 DEF NotYet
<1>8. AtFlags' BY <1>1, <1>5, <1>6, <1>7 DEF AtFlags
<1> QED BY <1>1, <1>8 DEF Spelling

LEMMA ReadFlagSpells ==
  ASSUME TextCall, Spelling, ReadFlag
  PROVE  call' = call /\ Spelling'
<1>1. /\ at = "flags" /\ format # <<>> /\ at' = "flags" /\ call' = call /\ va' = va /\ emitted' = emitted
      /\ Head(format) \in DOMAIN FlagOf
      /\ format' = Tail(format) /\ flags' = flags \cup {FlagOf[Head(format)]}
      /\ width' = width /\ precision' = precision
  BY DEF ReadFlag, Sees, Silent, Frame
<1>2. AtFlags BY <1>1 DEF Spelling
<1>3. NotYet /\ format \in Seq(Char) /\ FlagsAhead(format, flags, Want) /\ width = 0 /\ precision = 0
  BY <1>2 DEF AtFlags
<1>4. Want' = Want BY <1>1, SameWant
<1>5. AF \in Seq(Char) /\ Head(AF) \notin DOMAIN FlagOf BY FlagField
<1>6. FlagsAhead(Tail(format), flags \cup {FlagOf[Head(format)]}, Want) BY <1>1, <1>3, <1>5, FlagStep DEF AF
<1>7. FlagsAhead(format', flags', Want') BY <1>1, <1>4, <1>6
<1>8. format' \in Seq(Char) BY <1>1, <1>3
<1>9. NotYet' BY <1>1, <1>3 DEF NotYet
<1>10. AtFlags' BY <1>1, <1>3, <1>7, <1>8, <1>9 DEF AtFlags
<1> QED BY <1>1, <1>10 DEF Spelling

LEMMA ReadWidthSpells ==
  ASSUME TextCall, Spelling, ReadWidth
  PROVE  call' = call /\ Spelling'
<1>1. /\ at = "flags" /\ ~Sees(DOMAIN FlagOf) /\ at' = "precision" /\ call' = call /\ emitted' = emitted
      /\ precision' = precision
  BY DEF ReadWidth, Silent, Frame
<1>2. AtFlags BY <1>1 DEF Spelling
<1>3. NotYet /\ format \in Seq(Char) /\ FlagsAhead(format, flags, Want) /\ width = 0 /\ precision = 0
  BY <1>2 DEF AtFlags
<1>4. format = AF /\ flags = Want.flags BY <1>1, <1>3, FlagEnd DEF Sees, AF
<1>5. /\ AF # <<>> /\ Head(AF) # "*"
      /\ Want.width = 0 => AF = AW /\ Head(AF) \notin Decimal
      /\ Want.width # 0 => AF = Number(Want.width) \o AW /\ Head(AF) \in Decimal
  BY FlagField
<1>6. format' = AW /\ flags' = flags /\ width' = Want.width /\ va' = va
  <2>1. CASE Sees(Decimal)
    <3>1. Head(AF) \in Decimal BY <1>4, <2>1 DEF Sees
    <3>2. Want.width # 0 /\ format = Number(Want.width) \o AW BY <1>4, <1>5, <3>1
    <3>3. AW \in Seq(Char) /\ AW # <<>> /\ Head(AW) \notin Decimal BY PrecisionField
    <3>4. Ahead(Want.width, AW) BY <3>2, <3>3 DEF Ahead
    <3>5. Want.width \in Nat /\ Want.width < Pow(2, MAX_DIGITS) BY WantNumbers
    <3>6. Atoi = <<Want.width, Len(Number(Want.width))>> /\ Rest(format, Len(Number(Want.width))) = AW
      BY <3>4, <3>5, NumberRead
    <3>7. Atoi[1] = Want.width /\ Rest(format, Atoi[2]) = AW BY <3>6
    <3>8. Head(format) # "*" BY <1>4, <1>5
    <3>9. width' = Atoi[1] /\ format' = Rest(format, Atoi[2]) /\ va' = va /\ flags' = flags
      BY <2>1, <3>8 DEF ReadWidth, Sees
    <3> QED BY <3>7, <3>9
  <2>2. CASE ~Sees(Decimal)
    <3>1. Head(AF) \notin Decimal BY <1>4, <1>5, <2>2 DEF Sees
    <3>2. Want.width = 0 /\ format = AW BY <1>4, <1>5, <3>1
    <3>3. Head(format) # "*" BY <1>4, <1>5
    <3>4. format' = format /\ va' = va /\ flags' = flags /\ width' = width
      BY <2>2, <3>3 DEF ReadWidth, Sees
    <3> QED BY <1>3, <3>2, <3>4
  <2> QED BY <2>1, <2>2
<1>7. Want' = Want /\ AW' = AW BY <1>1, SameWant
<1>8. NotYet' BY <1>1, <1>3, <1>6 DEF NotYet
<1>9. AtPrecision' BY <1>1, <1>3, <1>4, <1>6, <1>7, <1>8 DEF AtPrecision
<1> QED BY <1>1, <1>9 DEF Spelling

LEMMA ReadPrecisionSpells ==
  ASSUME TextCall, Spelling, ReadPrecision
  PROVE  call' = call /\ Spelling'
<1>1. /\ at = "precision" /\ call' = call /\ emitted' = emitted /\ va' = va
      /\ width' = width /\ precision' = precision
  BY DEF ReadPrecision, Silent, Frame
<1>2. AtPrecision BY <1>1 DEF Spelling
<1>3. NotYet /\ format = AW /\ flags = Want.flags /\ width = Want.width /\ precision = 0
  BY <1>2 DEF AtPrecision
<1>4. /\ AW # <<>> /\ (~GivenPrec => AW = AP) /\ Head(AP) # "."
      /\ GivenPrec => Head(AW) = "." /\ Tail(AW) = Positive(Want.prec) \o AP
  BY PrecisionField, LengthField
<1>5. /\ Want' = Want /\ AP' = AP /\ (GivenPrec' <=> GivenPrec) /\ PrecisionFlag' = PrecisionFlag
  BY <1>1, SameWant
<1>6. NotYet' BY <1>1, <1>3 DEF NotYet
<1>7. CASE GivenPrec
  <2>1. Sees({"."}) BY <1>3, <1>4, <1>7 DEF Sees
  <2>2. format' = Tail(format) /\ flags' = flags \cup {"PRECISION"} /\ at' = "precision value"
    BY <2>1 DEF ReadPrecision
  <2>3. format' = Positive(Want.prec) \o AP BY <1>3, <1>4, <1>7, <2>2
  <2>4. (format = Positive(Want.prec) \o AP)' BY <1>5, <2>3
  <2>5. AtPrecisionValue' BY <1>1, <1>3, <1>5, <1>6, <1>7, <2>2, <2>4 DEF AtPrecisionValue
  <2> QED BY <1>1, <2>2, <2>5 DEF Spelling
<1>8. CASE ~GivenPrec
  <2>1. ~Sees({"."}) BY <1>3, <1>4, <1>8 DEF Sees
  <2>2. format' = format /\ flags' = flags /\ at' = "length" BY <2>1 DEF ReadPrecision
  <2>3. PrecisionFlag = {} /\ Given(Want.prec) = 0 BY <1>8 DEF PrecisionFlag, GivenPrec, Given
  <2>4. format' = AP BY <1>3, <1>4, <1>8, <2>2
  <2>5. flags' = Want.flags \cup PrecisionFlag BY <1>3, <2>2, <2>3
  <2>6. precision' = Given(Want.prec) BY <1>1, <1>3, <2>3
  <2>7. AtLength' BY <1>1, <1>3, <1>5, <1>6, <2>4, <2>5, <2>6 DEF AtLength
  <2> QED BY <1>1, <2>2, <2>7 DEF Spelling
<1> QED BY <1>7, <1>8

LEMMA ReadPrecisionValueSpells ==
  ASSUME TextCall, Spelling, ReadPrecisionValue
  PROVE  call' = call /\ Spelling'
<1>1. /\ at = "precision value" /\ at' = "length" /\ call' = call /\ emitted' = emitted
      /\ flags' = flags /\ width' = width
  BY DEF ReadPrecisionValue, Silent, Frame
<1>2. AtPrecisionValue BY <1>1 DEF Spelling
<1>3. /\ NotYet /\ GivenPrec /\ format = Positive(Want.prec) \o AP
      /\ flags = Want.flags \cup {"PRECISION"} /\ width = Want.width /\ precision = 0
  BY <1>2 DEF AtPrecisionValue
<1>4. /\ format # <<>> /\ Head(format) # "*"
      /\ Want.prec = 0 => format = AP /\ Head(format) \notin Decimal
      /\ Want.prec # 0 => format = Number(Want.prec) \o AP /\ Head(format) \in Decimal
  BY <1>3, ValueField
<1>5. format' = AP /\ precision' = Want.prec /\ va' = va
  <2>1. CASE Sees(Decimal)
    <3>1. Head(format) \in Decimal BY <2>1 DEF Sees
    <3>2. Want.prec # 0 /\ format = Number(Want.prec) \o AP BY <1>4, <3>1
    <3>3. AP \in Seq(Char) /\ AP # <<>> /\ Head(AP) \notin Decimal BY LengthField
    <3>4. Ahead(Want.prec, AP) BY <3>2, <3>3 DEF Ahead
    <3>5. Want.prec \in Nat /\ Want.prec < Pow(2, MAX_DIGITS) BY <1>3, WantNumbers
    <3>6. Atoi = <<Want.prec, Len(Number(Want.prec))>> /\ Rest(format, Len(Number(Want.prec))) = AP
      BY <3>4, <3>5, NumberRead
    <3>7. Atoi[1] = Want.prec /\ Rest(format, Atoi[2]) = AP BY <3>6
    <3>9. precision' = Atoi[1] /\ format' = Rest(format, Atoi[2]) /\ va' = va
      BY <1>4, <2>1 DEF ReadPrecisionValue, Sees
    <3> QED BY <3>7, <3>9
  <2>2. CASE ~Sees(Decimal)
    <3>1. Head(format) \notin Decimal BY <1>4, <2>2 DEF Sees
    <3>2. Want.prec = 0 /\ format = AP BY <1>4, <3>1
    <3>4. format' = format /\ va' = va /\ precision' = precision
      BY <1>4, <2>2 DEF ReadPrecisionValue, Sees
    <3> QED BY <1>3, <3>2, <3>4
  <2> QED BY <2>1, <2>2
<1>6. /\ Want' = Want /\ AP' = AP /\ (GivenPrec' <=> GivenPrec) /\ PrecisionFlag' = PrecisionFlag
  BY <1>1, SameWant
<1>7. NotYet' BY <1>1, <1>3, <1>5 DEF NotYet
<1>8. PrecisionFlag = {"PRECISION"} /\ Given(Want.prec) = Want.prec BY <1>3 DEF PrecisionFlag, GivenPrec, Given
<1>9. flags' = Want.flags \cup PrecisionFlag BY <1>1, <1>3, <1>8
<1>10. precision' = Given(Want.prec) BY <1>5, <1>8
<1>11. AtLength' BY <1>1, <1>3, <1>5, <1>6, <1>7, <1>9, <1>10 DEF AtLength
<1> QED BY <1>1, <1>11 DEF Spelling

LEMMA ReadLengthSpells ==
  ASSUME TextCall, Spelling, ReadLength
  PROVE  call' = call /\ Spelling'
<1>1. /\ at = "length" /\ at' = "specifier" /\ call' = call /\ emitted' = emitted /\ va' = va
      /\ width' = width /\ precision' = precision
  BY DEF ReadLength, Silent, Frame
<1>2. AtLength BY <1>1 DEF Spelling
<1>3. /\ NotYet /\ format = AP /\ flags = Want.flags \cup PrecisionFlag
      /\ width = Want.width /\ precision = Given(Want.prec)
  BY <1>2 DEF AtLength
<1> DEFINE c == Want.conv
           l == Want.length
<1>4. /\ l \in {"", "hh", "h", "l", "ll", "j", "z", "t"}
      /\ c \notin {"l", "h", "j", "t", "z"} /\ c \in TextConv
  BY WantFacts DEF TextCall, TextConv, IntConv
<1>5. /\ l = "" => AP = <<c>>
      /\ l \in {"h", "l", "j", "z", "t"} => AP = <<l, c>>
      /\ l = "hh" => AP = <<"h", "h", c>>
      /\ l = "ll" => AP = <<"l", "l", c>>
  BY LengthField
<1>c. c \in Char /\ {"l", "h", "j", "t", "z"} \subseteq Char BY <1>4, FieldChars
<1> HIDE DEF c, l
<1>6. format' = <<c>> /\ flags' = flags \cup LengthFlags(l)
  <2>1. CASE l = ""
    <3>1. format = <<c>> BY <1>3, <1>5, <2>1
    <3>2. Head(format) = c BY <3>1
    <3>3. ~Sees({"l", "h", "t", "j", "z"}) BY <1>4, <3>2 DEF Sees
    <3>4. format' = format /\ flags' = flags BY <3>3 DEF ReadLength
    <3>5. LengthFlags(l) = {} BY <2>1 DEF LengthFlags
    <3> QED BY <3>1, <3>4, <3>5
  <2>2. CASE l \in {"h", "l", "j", "z", "t"}
    <3>1. format = <<l, c>> BY <1>3, <1>5, <2>2
    <3>2. Head(format) = l /\ format # <<>> /\ format[1] = l /\ format[2] = c BY <3>1
    <3>3. Sees({"l", "h", "t", "j", "z"}) BY <2>2, <3>2 DEF Sees
    <3>4. format' = Rest(format, Length(format)[2]) /\ flags' = flags \cup Length(format)[1]
      BY <3>3 DEF ReadLength
    <3>5. format[2] # format[1] BY <1>4, <2>2, <3>2
    <3>6. Length(format) = <<LengthFlags(l), 1>>
      <4>1. CASE l = "h" BY <3>2, <3>5, <4>1 DEF Length, LengthFlags
      <4>2. CASE l = "l" BY <3>2, <3>5, <4>2 DEF Length, LengthFlags
      <4>3. CASE l = "j" BY <3>2, <3>5, <4>3 DEF Length, LengthFlags
      <4>4. CASE l \in {"z", "t"} BY <3>2, <3>5, <4>4 DEF Length, LengthFlags
      <4> QED BY <2>2, <4>1, <4>2, <4>3, <4>4
    <3>7. Length(format)[1] = LengthFlags(l) /\ Length(format)[2] = 1 BY <3>6
    <3>8. Rest(format, 1) = <<c>>
      <4>1. l \in Char BY <1>c, <2>2
      <4>2. <<l>> \in Seq(Char) /\ <<c>> \in Seq(Char) /\ Len(<<l>>) = 1 BY <1>c, <4>1, ShortText
      <4>3. <<l>> \o <<c>> = <<l, c>> BY <1>c, <4>1, Joined
      <4>4. Rest(<<l>> \o <<c>>, 1) = <<c>> BY <4>2, RestConcat
      <4> QED BY <3>1, <4>3, <4>4
    <3> QED BY <3>4, <3>7, <3>8
  <2>3. CASE l \in {"hh", "ll"}
    <3> DEFINE a == IF l = "hh" THEN "h" ELSE "l"
    <3>1. format = <<a, a, c>> /\ a \in {"h", "l"} BY <1>3, <1>5, <2>3
    <3>2. Head(format) = a /\ format # <<>> /\ format[1] = a /\ format[2] = a /\ Len(format) = 3 BY <3>1
    <3>3. Sees({"l", "h", "t", "j", "z"}) BY <3>1, <3>2 DEF Sees
    <3>4. format' = Rest(format, Length(format)[2]) /\ flags' = flags \cup Length(format)[1]
      BY <3>3 DEF ReadLength
    <3>5. Len(format) > 1 BY <3>2
    <3>6. Length(format) = <<LengthFlags(l), 2>>
      <4>1. CASE l = "hh"
        <5>1. format[1] = "h" /\ format[2] = "h" BY <3>2, <4>1
        <5> QED BY <3>5, <4>1, <5>1 DEF Length, LengthFlags
      <4>2. CASE l = "ll"
        <5>1. format[1] = "l" /\ format[2] = "l" BY <3>2, <4>2
        <5>2. LengthFlags(l) = {"LONG", "LONG_LONG"} BY <4>2 DEF LengthFlags
        <5> QED BY <3>5, <4>2, <5>1, <5>2 DEF Length
      <4> QED BY <2>3, <4>1, <4>2
    <3>7. Length(format)[1] = LengthFlags(l) /\ Length(format)[2] = 2 BY <3>6
    <3>8. Rest(format, 2) = <<c>>
      <4>1. a \in Char BY <1>c, <3>1
      <4> HIDE DEF a
      <4>2. <<a, a>> \in Seq(Char) /\ <<c>> \in Seq(Char) /\ Len(<<a, a>>) = 2 BY <1>c, <4>1, ShortText
      <4>3. <<a, a>> \o <<c>> = <<a, a, c>> BY <1>c, <4>1, Joined
      <4>4. Rest(<<a, a>> \o <<c>>, 2) = <<c>> BY <4>2, RestConcat
      <4> QED BY <3>1, <4>3, <4>4
    <3> QED BY <3>4, <3>7, <3>8
  <2> QED BY <1>4, <2>1, <2>2, <2>3
<1>7. /\ Want' = Want /\ PrecisionFlag' = PrecisionFlag BY <1>1, SameWant
<1>8. flags' = Want.flags \cup PrecisionFlag \cup LengthFlags(Want.length) BY <1>3, <1>6 DEF l
<1>9. emitted' = <<>> /\ va' = call'.va BY <1>1, <1>3 DEF NotYet
<1>10. AtConversion' BY <1>1, <1>3, <1>6, <1>7, <1>8, <1>9 DEF AtConversion, c
<1> QED BY <1>1, <1>9, <1>10 DEF Spelling

(* A conversion that puts out the right text.                              *)
LEMMA ConvertRight ==
  ASSUME TextCall, AtConversion, emitted = <<>>, NEW s \in Seq(Char), NEW n, Convert(s, n),
         Want.conv \in IntConv /\ ~Departs => s = StdInteger,
         Want.conv \in {"s", "c"} =>
           s = Filled(IF GivenPrec /\ Want.conv = "s" THEN Fit(Arg.s, Want.prec) ELSE Arg.s)
  PROVE  call' = call /\ Spelling'
<1>1. /\ call' = call /\ at' = "text" /\ format' = Tail(format) /\ emitted' = emitted \o s
  BY DEF Convert, Emit, Frame
<1>2. emitted' = s BY <1>1, ConcatEmpty
<1>3. format' = <<>>
  <2>1. format = <<Want.conv>> BY DEF AtConversion
  <2> QED BY <1>1, <2>1
<1>4. /\ Want' = Want /\ Arg' = Arg /\ (GivenPrec' <=> GivenPrec) BY <1>1, SameWant
<1>5. /\ (Departs' <=> Departs) /\ StdInteger' = StdInteger BY <1>1, SameText
<1> DEFINE t == IF GivenPrec /\ Want.conv = "s" THEN Fit(Arg.s, Want.prec) ELSE Arg.s
<1>6. t' = t BY <1>4
<1>7. Filled(t)' = Filled(t)
  <2>1. Left' <=> Left BY <1>1, SameWant
  <2> QED BY <1>4, <1>6, <2>1 DEF Filled
<1>8. (Want.conv \in IntConv /\ ~Departs => emitted = StdInteger)' BY <1>2, <1>4, <1>5
<1>9. (Want.conv \in {"s", "c"} => emitted = Filled(t))' BY <1>2, <1>4, <1>7
<1>10. TextRight' BY <1>8, <1>9 DEF TextRight
<1> QED BY <1>1, <1>3, <1>10 DEF Spelling

LEMMA ConversionFacts ==
  ASSUME AtConversion, TextCall
  PROVE  /\ format # <<>> /\ Head(format) = Want.conv /\ Head(va) = Arg /\ Arg.n \in Int /\ Arg.s \in Seq(Char)
         /\ width \in Int /\ precision \in Nat /\ precision \in Int
<1>1. format = <<Want.conv>> /\ va = call.va /\ width = Want.width /\ precision = Given(Want.prec) BY DEF AtConversion
<1>2. format # <<>> /\ Head(format) = Want.conv BY <1>1
<1>3. Head(va) = Arg /\ Arg.n \in Int /\ Arg.s \in Seq(Char) BY <1>1, WantFacts
<1>4. width \in Int BY <1>1, WantNumbers
<1>5. precision \in Nat
  <2>1. Want.prec \in Int BY WantNumbers
  <2> QED BY <1>1, <2>1 DEF Given
<1> QED BY <1>2, <1>3, <1>4, <1>5

LEMMA IntegerSpells ==
  ASSUME TextCall, Spelling, Integer
  PROVE  call' = call /\ Spelling'
<1>1. at = "specifier" /\ Sees({"d", "i", "u", "x", "X", "o", "b"}) BY DEF Integer
<1>2. emitted = <<>> /\ AtConversion BY <1>1 DEF Spelling
<1>3. /\ Head(format) = Want.conv /\ Head(va) = Arg /\ Arg.n \in Int /\ width \in Int /\ precision \in Int
  BY <1>2, ConversionFacts
<1> DEFINE c == Want.conv
           v == ArgValue(c)
           s == NtoaLong(Abs(v), v < 0, Base(c), precision, width, IntegerFlags(c))
<1>4. Convert(s, 1) BY <1>3 DEF Integer
<1>5. c \in IntConv BY <1>1, <1>3 DEF Sees, IntConv
<1>6. s \in Seq(Char)
  <2>1. ArgBits \in Nat \ {0} BY SizeAssumption DEF ArgBits, MAX_DIGITS
  <2>2. v \in Int
    <3>1. Unsigned(Head(va).n, ArgBits) \in Nat /\ Signed(Head(va).n, ArgBits) \in Int
      BY <1>3, <2>1, WordTypes
    <3>2. Unsigned(Head(va).n, ArgBits) \in Int BY <3>1
    <3> QED BY <3>1, <3>2 DEF ArgValue
  <2>3. Base(c) \in 1..16 BY DEF Base
  <2> HIDE DEF c, v
  <2>4. Abs(v) \in Nat BY <2>2, AbsType
  <2> QED BY <1>3, <2>3, <2>4, NtoaLongType
<1>7. ~Departs => s = StdInteger BY <1>2, IntegerAsStandard
<1>8. c \notin {"s", "c"} BY <1>5 DEF IntConv
<1> HIDE DEF s
<1> QED BY <1>2, <1>4, <1>6, <1>7, <1>8, ConvertRight DEF c

LEMMA PaddedAsFilled ==
  ASSUME TextCall, AtConversion
  PROVE  /\ \A s : Padded(s) = Filled(s)
         /\ "PRECISION" \in flags <=> GivenPrec
<1>1. Want.length \in {"", "hh", "h", "l", "ll", "j", "z", "t"} /\ Want.flags \subseteq WantFlag
  BY WantFacts, FlagsKnown
<1>2. LengthFlags(Want.length) \subseteq {"LONG", "LONG_LONG", "SHORT", "CHAR"} BY <1>1 DEF LengthFlags
<1>3. "LEFT" \in flags <=> Left BY <1>1, <1>2 DEF AtConversion, PrecisionFlag, WantFlag, Left, Has
<1>4. "PRECISION" \in flags <=> GivenPrec BY <1>1, <1>2 DEF AtConversion, PrecisionFlag, WantFlag
<1>5. width = Want.width BY DEF AtConversion
<1> QED BY <1>3, <1>4, <1>5 DEF Padded, Filled

LEMMA CharacterSpells ==
  ASSUME TextCall, Spelling, Character
  PROVE  call' = call /\ Spelling'
<1>1. at = "specifier" /\ Sees({"c"}) /\ Convert(Padded(Head(va).s), 1) BY DEF Character
<1>2. emitted = <<>> /\ AtConversion BY <1>1 DEF Spelling
<1>3. /\ Head(format) = Want.conv /\ Head(va) = Arg /\ Arg.s \in Seq(Char) /\ width \in Int
  BY <1>2, ConversionFacts
<1>4. Want.conv = "c" BY <1>1, <1>3 DEF Sees
<1>5. Padded(Arg.s) \in Seq(Char) BY <1>3, PaddedType
<1>6. Padded(Arg.s) = Filled(IF GivenPrec /\ Want.conv = "s" THEN Fit(Arg.s, Want.prec) ELSE Arg.s)
  <2>1. (IF GivenPrec /\ Want.conv = "s" THEN Fit(Arg.s, Want.prec) ELSE Arg.s) = Arg.s BY <1>4
  <2> QED BY <1>2, <2>1, PaddedAsFilled
<1>7. Want.conv \notin IntConv BY <1>4 DEF IntConv
<1>8. Convert(Padded(Arg.s), 1) BY <1>1, <1>3
<1> QED BY <1>2, <1>5, <1>6, <1>7, <1>8, ConvertRight

LEMMA StringSpells ==
  ASSUME TextCall, Spelling, String
  PROVE  call' = call /\ Spelling'
<1> DEFINE s == IF "PRECISION" \in flags THEN Fit(Head(va).s, precision) ELSE Head(va).s
           t == IF GivenPrec /\ Want.conv = "s" THEN Fit(Arg.s, Want.prec) ELSE Arg.s
<1>1. at = "specifier" /\ Sees({"s"}) /\ Convert(Padded(s), 1) BY DEF String
<1>2. emitted = <<>> /\ AtConversion BY <1>1 DEF Spelling
<1>3. /\ Head(format) = Want.conv /\ Head(va) = Arg /\ Arg.s \in Seq(Char) /\ width \in Int /\ precision \in Nat
  BY <1>2, ConversionFacts
<1>4. Want.conv = "s" BY <1>1, <1>3 DEF Sees
<1>5. s = t
  <2>1. "PRECISION" \in flags <=> GivenPrec BY <1>2, PaddedAsFilled
  <2>2. GivenPrec => precision = Want.prec BY <1>2 DEF AtConversion, Given, GivenPrec
  <2> QED BY <1>3, <1>4, <2>1, <2>2
<1>6. t \in Seq(Char)
  <2>1. Fit(Arg.s, precision) \in Seq(Char) BY <1>3, FitType
  <2>2. s \in Seq(Char) BY <1>3, <2>1
  <2> QED BY <1>5, <2>2
<1> HIDE DEF s, t
<1>7. Padded(t) \in Seq(Char) BY <1>3, <1>6, PaddedType
<1>8. Padded(t) = Filled(t) BY <1>2, PaddedAsFilled
<1>9. Want.conv \notin IntConv BY <1>4 DEF IntConv
<1>10. Convert(Padded(t), 1) BY <1>1, <1>5
<1>11. Padded(t) = Filled(IF GivenPrec /\ Want.conv = "s" THEN Fit(Arg.s, Want.prec) ELSE Arg.s) BY <1>8 DEF t
<1> QED BY <1>2, <1>7, <1>9, <1>10, <1>11, ConvertRight

(* The steps that no text conversion comes to.                             *)
LEMMA OtherSteps ==
  ASSUME TextCall, Spelling
  PROVE  ~Literal /\ ~Float /\ ~Exponential /\ ~Pointer /\ ~Other /\ ~Puts
<1>1. ~Literal
  <2>1. SUFFICES ASSUME Literal PROVE FALSE OBVIOUS
  <2>2. at = "text" /\ format # <<>> /\ Head(format) # "%" BY <2>1 DEF Literal
  <2>3. format = call.format BY <2>2 DEF Spelling
  <2>4. Head(call.format) = "%" BY WantFacts
  <2> QED BY <2>2, <2>3, <2>4
<1>2. ~Puts BY DEF Puts, Spelling
<1>3. at = "specifier" => format # <<>> /\ Head(format) = Want.conv
  <2>1. at = "specifier" => AtConversion BY DEF Spelling
  <2> QED BY <2>1, ConversionFacts
<1>4. Want.conv \in {"d", "i", "u", "x", "X", "o", "b", "s", "c"} BY DEF TextCall, TextConv, IntConv
<1>5. ~Float BY <1>3, <1>4 DEF Float, Sees
<1>6. ~Exponential BY <1>3, <1>4 DEF Exponential, Sees
<1>7. ~Pointer BY <1>3, <1>4 DEF Pointer, Sees
<1>8. ~Other
  <2>1. SUFFICES ASSUME Other PROVE FALSE OBVIOUS
  <2>2. at = "specifier"
        /\ ~Sees({"d", "i", "u", "x", "X", "o", "b", "f", "F", "e", "E", "g", "G", "c", "s", "p"})
    BY <2>1 DEF Other
  <2> QED BY <1>3, <1>4, <2>2 DEF Sees
<1> QED BY <1>1, <1>2, <1>5, <1>6, <1>7, <1>8

LEMMA TerminateSpells ==
  ASSUME TextCall, Spelling, Terminate
  PROVE  call' = call /\ Spelling'
<1>1. at = "text" /\ format = <<>> /\ at' = "returned" /\ call' = call /\ emitted' = emitted
  BY DEF Terminate, Frame
<1>2. call.format # <<>> BY WantFacts
<1>3. TextRight BY <1>1, <1>2 DEF Spelling
<1>4. TextRight' BY <1>1, <1>3, SameRight
<1> QED BY <1>1, <1>4 DEF Spelling

LEMMA StutterSpells ==
  ASSUME TextCall, Spelling, UNCHANGED vars
  PROVE  call' = call /\ Spelling'
<1>1. /\ call' = call /\ at' = at /\ format' = format /\ va' = va /\ emitted' = emitted
      /\ flags' = flags /\ width' = width /\ precision' = precision
  BY DEF vars, directive
<1>2. /\ Want' = Want /\ (GivenPrec' <=> GivenPrec) /\ PrecisionFlag' = PrecisionFlag /\ AP' = AP /\ AW' = AW
  BY <1>1, SameWant
<1>3. TextRight => TextRight' BY <1>1, SameRight
<1>4. NotYet => NotYet' BY <1>1 DEF NotYet
<1>5. AtFlags => AtFlags' BY <1>1, <1>2, <1>4 DEF AtFlags
<1>6. AtPrecision => AtPrecision' BY <1>1, <1>2, <1>4 DEF AtPrecision
<1>7. AtPrecisionValue => AtPrecisionValue' BY <1>1, <1>2, <1>4 DEF AtPrecisionValue
<1>8. AtLength => AtLength' BY <1>1, <1>2, <1>4 DEF AtLength
<1>9. AtConversion => AtConversion' BY <1>1, <1>2 DEF AtConversion
<1> QED BY <1>1, <1>3, <1>4, <1>5, <1>6, <1>7, <1>8, <1>9 DEF Spelling

LEMMA StepDirective == DirectiveInv /\ [Next]_vars => DirectiveInv'
<1> SUFFICES ASSUME DirectiveInv, [Next]_vars PROVE DirectiveInv' OBVIOUS
<1>1. call' = call
  <2>1. CASE Next
    BY <2>1 DEF Next, Literal, Percent, ReadFlag, ReadWidth, ReadPrecision, ReadPrecisionValue, ReadLength,
                Integer, Float, Exponential, Character, String, Pointer, Other, Terminate, Puts, Done,
                Convert, Silent, Frame, vars
  <2>2. CASE UNCHANGED vars BY <2>2 DEF vars
  <2> QED BY <2>1, <2>2
<1>2. Want' = Want BY <1>1, SameWant
<1>3. ASSUME Want.conv \in TextConv PROVE Spelling'
  <2>1. TextCall /\ Spelling BY <1>3 DEF DirectiveInv, TextCall
  <2>2. ~Literal /\ ~Float /\ ~Exponential /\ ~Pointer /\ ~Other /\ ~Puts BY <2>1, OtherSteps
  <2>3. CASE Percent BY <2>1, <2>3, PercentSpells
  <2>4. CASE ReadFlag BY <2>1, <2>4, ReadFlagSpells
  <2>5. CASE ReadWidth BY <2>1, <2>5, ReadWidthSpells
  <2>6. CASE ReadPrecision BY <2>1, <2>6, ReadPrecisionSpells
  <2>7. CASE ReadPrecisionValue BY <2>1, <2>7, ReadPrecisionValueSpells
  <2>8. CASE ReadLength BY <2>1, <2>8, ReadLengthSpells
  <2>9. CASE Integer BY <2>1, <2>9, IntegerSpells
  <2>10. CASE Character BY <2>1, <2>10, CharacterSpells
  <2>11. CASE String BY <2>1, <2>11, StringSpells
  <2>12. CASE Terminate BY <2>1, <2>12, TerminateSpells
  <2>13. CASE Done BY <2>1, <2>13, StutterSpells DEF Done
  <2>14. CASE UNCHANGED vars BY <2>1, <2>14, StutterSpells
  <2> QED BY <2>2, <2>3, <2>4, <2>5, <2>6, <2>7, <2>8, <2>9, <2>10, <2>11, <2>12, <2>13, <2>14 DEF Next
<1> QED BY <1>1, <1>2, <1>3 DEF DirectiveInv

LEMMA DirectiveText == DirectiveInv => TextAsSpecified
<1> SUFFICES ASSUME DirectiveInv PROVE TextAsSpecified OBVIOUS
<1>1. ASSUME at = "returned", Want.conv \in TextConv PROVE TextRight BY <1>1 DEF DirectiveInv, Spelling
<1>2. IntConv \subseteq TextConv /\ {"s", "c"} \subseteq TextConv BY DEF TextConv
<1> QED BY <1>1, <1>2 DEF TextAsSpecified, Returned, TextRight

(* An integer, character or string conversion puts out the text of the C   *)
(* standard wherever printf.c does not depart from it by name: for every   *)
(* directive and argument, however its flags are written, every width of   *)
(* the integer types up to 64 bits, and every size of the scratch buffer.  *)
THEOREM TextAsSpecifiedAlways == Spec => []TextAsSpecified
<1>1. Init => DirectiveInv BY InitDirective
<1>2. DirectiveInv /\ [Next]_vars => DirectiveInv' BY StepDirective
<1>3. DirectiveInv => TextAsSpecified BY DirectiveText
<1> QED BY <1>1, <1>2, <1>3, PTL DEF Spec
=============================================================================
