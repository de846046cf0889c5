---------------------------- MODULE PrintedText -----------------------------
(***************************************************************************)
(* What a call of the formatter promises: the text that the C standard     *)
(* (7.21.6.1) gives for one conversion, and the contract of snprintf.  A   *)
(* call carries its directive in call.want: no property reads a format     *)
(* string, WantAssumption says how the format spells the directive.  Where *)
(* printf.c departs from the standard the departure is named.              *)
(***************************************************************************)
EXTENDS Printf

Want == call.want       \* [flags, width, prec, length, conv], prec -1: none
Arg  == call.va[Len(call.va)]
Has(f) == f \in Want.flags
Left == Has("LEFT")
GivenPrec == Want.prec >= 0
Returned(convs) == at = "returned" /\ Want.conv \in convs

Filled(s) == IF Left THEN s \o Pad(Want.width - Len(s)) ELSE Pad(Want.width - Len(s)) \o s
-----------------------------------------------------------------------------
IntConv == {"d", "i", "u", "x", "X", "o", "b"}
Type == CASE Want.length \in {"ll", "j"} -> "llong" [] Want.length \in {"l", "z", "t"} -> "long"
          [] Want.length = "h" -> "short" [] Want.length = "hh" -> "char" [] OTHER -> "int"
Value == IF Want.conv \in {"d", "i"} THEN Signed(Arg.n, Bits[Type]) ELSE Unsigned(Arg.n, Bits[Type])

Numeral(v, base, letters) ==
  LET text[n \in 0..v] ==
        LET last == <<letters[(n % base) + 1]>>
        IN  IF n < base THEN last ELSE text[n \div base] \o last
  IN  text[v]

(* The format of a directive: %, flags in any order and any number (the    *)
(* first n characters of f), width, precision, length and letter.          *)
LengthText(l) ==
  CASE l = "" -> <<>> [] l = "ll" -> <<"l", "l">> [] l = "hh" -> <<"h", "h">> [] OTHER -> <<l>>
Positive(n) == IF n = 0 THEN <<>> ELSE Numeral(n, 10, DigitChar)
AfterPrecision(d) == LengthText(d.length) \o <<d.conv>>
AfterWidth(d) == (IF d.prec < 0 THEN <<>> ELSE <<".">> \o Positive(d.prec)) \o AfterPrecision(d)
AfterFlags(d) == Positive(d.width) \o AfterWidth(d)
FlagsAhead(f, fs, d) ==
  \E n \in 0..Len(f) :
    /\ \A i \in 1..n : f[i] \in DOMAIN FlagOf
    /\ d.flags = fs \cup {FlagOf[f[i]] : i \in 1..n}
    /\ Rest(f, n) = AfterFlags(d)

(* The directives the text is promised for: one with its one argument, the *)
(* width and the precision numbers that an unsigned int of _atoi holds.    *)
TextConv == IntConv \cup {"s", "c"}
UnsignedInt == 0..Pow(2, Bits.int) - 1
ASSUME WantAssumption ==
  \A c \in Call : c.want.conv \in TextConv =>
    /\ c.fn # "puts" /\ Len(c.va) = 1
    /\ c.want.width \in UnsignedInt /\ c.want.prec \in UnsignedInt \cup {-1}
    /\ c.want.length \in {"", "hh", "h", "l", "ll", "j", "z", "t"}
    /\ c.format # <<>> /\ Head(c.format) = "%" /\ FlagsAhead(Tail(c.format), {}, c.want)

StdBase == Base(Want.conv)
StdDigits == IF Value = 0 /\ Want.prec = 0 THEN <<>>
             ELSE Numeral(Abs(Value), StdBase, IF Want.conv = "X" THEN UpperChar ELSE DigitChar)
StdPrefix ==
  IF ~Has("HASH") \/ Value = 0 THEN <<>>
  ELSE CASE Want.conv = "x" -> <<"0", "x">> [] Want.conv = "X" -> <<"0", "X">>
         [] Want.conv = "b" -> <<"0", "b">> [] Want.conv = "o" -> <<"0">> [] OTHER -> <<>>
StdSign ==
  IF Value < 0 THEN <<"-">>
  ELSE IF Want.conv \notin {"d", "i"} THEN <<>>
  ELSE IF Has("PLUS") THEN <<"+">> ELSE IF Has("SPACE") THEN <<" ">> ELSE <<>>
StdInteger ==                  \* a leading zero of the precision serves as octal prefix
  LET front == StdSign \o (IF StdBase = 8 /\ Want.prec > Len(StdDigits) THEN <<>> ELSE StdPrefix)
      exact == Repeat("0", Want.prec - Len(StdDigits)) \o StdDigits
      fill  == IF Has("ZEROPAD") /\ ~Left /\ ~GivenPrec
               THEN Repeat("0", Want.width - Len(front) - Len(exact)) ELSE <<>>
  IN  Filled(front \o fill \o exact)

(* Departures of printf.c.  "-" turns the zeros of a precision off, which  *)
(* for 0 are all there is; "#" takes digits of the number for padding when *)
(* the field is just full; for octal it is a prefix and not a digit, for   *)
(* binary it counts as one place of padding; plain char is unsigned; a     *)
(* number longer than the scratch buffer loses its first characters.       *)
LosesPrecision == Left /\ Want.prec > (IF Value = 0 THEN 0 ELSE Len(StdDigits))
LosesDigits ==
  /\ StdPrefix # <<>> /\ ~GivenPrec
  /\ \/ Len(StdDigits) = Want.width
     \/ Has("ZEROPAD") /\ ~Left /\ Want.width - Len(StdDigits) = 1 /\ StdBase = 16
MisplacesPrefix ==
  /\ StdPrefix # <<>>
  /\ \/ StdBase = 8 /\ Want.prec > Len(StdDigits)
     \/ StdBase = 2 /\ Has("ZEROPAD") /\ ~Left /\ ~GivenPrec /\ Want.width > Len(StdDigits)
UnsignedChar == Want.length = "hh" /\ Want.conv \in {"d", "i"} /\ Value < 0
Scratch ==
  LET digits == Len(StdDigits)
      zeros  == IF Left THEN 0 ELSE IF Has("ZEROPAD") /\ ~GivenPrec THEN Want.width ELSE Want.prec
  IN  (IF zeros > digits THEN zeros ELSE digits) + Len(StdSign) + Len(StdPrefix)
Departs == LosesPrecision \/ LosesDigits \/ MisplacesPrefix \/ UnsignedChar
           \/ Scratch > NTOA_BUFFER_SIZE

(* An integer, character or string conversion puts out the text of the     *)
(* standard.                                                               *)
TextAsSpecified ==
  /\ Returned(IntConv) /\ ~Departs => emitted = StdInteger
  /\ Returned({"s", "c"}) =>
       emitted = Filled(IF GivenPrec /\ Want.conv = "s" THEN Fit(Arg.s, Want.prec) ELSE Arg.s)
-----------------------------------------------------------------------------
FloatConv == {"f", "F", "e", "E", "g", "G"}

(* Reading a printed number back: mantissa N / 10^places, and the exponent *)
(* if it has one.                                                          *)
First(s, cs) == CHOOSE i \in 1..Len(s)+1 :
                  (i > Len(s) \/ s[i] \in cs) /\ \A j \in 1..i-1 : s[j] \notin cs
Natural(s) == LET ds == SelectSeq(s, LAMBDA c : c \in Decimal)
                  value[k \in 0..Len(ds)] == IF k = 0 THEN 0 ELSE 10 * value[k-1] + DigitValue(ds[k])
              IN  value[Len(ds)]
ReadBack(field) ==
  LET s    == SelectSeq(field, LAMBDA c : c # " ")
      cut  == First(s, {"e", "E"})
      mant == SubSeq(s, 1, cut - 1)
      exp  == SubSeq(s, cut + 1, Len(s))
      dot  == First(mant, {"."})
  IN  [N        |-> Natural(mant),
       places   |-> IF dot > Len(mant) THEN 0 ELSE Len(mant) - dot,
       scientific |-> exp # <<>>,
       exponent |-> IF exp # <<>> /\ exp[1] = "-" THEN -Natural(exp) ELSE Natural(exp),
       negative |-> mant # <<>> /\ First(mant, {"-"}) <= Len(mant)]

(* The half between two printed numbers whose lower one ends in nines: the *)
(* carry into the whole part is only made above the half.                  *)
Asked == Least(IF GivenPrec THEN Want.prec ELSE DEFAULT_FLOAT_PRECISION, MAX_PRECISION)
HalfBelowCarry(e) ==
  \E p \in IF Want.conv \in {"g", "G"} THEN 1..Asked ELSE {Asked} :
    LET x == IF Arg.n # 0 THEN Scaled(Arg, e) ELSE Arg
        t == (Abs(x.n) % x.d) * 10^p
    IN  p > 0 /\ t \div x.d = 10^p - 1 /\ 2 * (t % x.d) = x.d

(* A zero-padded field with no number in it is not filled at all.          *)
StdSpecial ==
  Filled(CASE Arg.kind = "nan"  -> <<"n", "a", "n">>
           [] Arg.kind = "-inf" -> <<"-", "i", "n", "f">>
           [] Arg.kind = "inf"  -> (IF Has("PLUS") THEN <<"+">> ELSE <<>>) \o <<"i", "n", "f">>)

(* Just below a negative power of ten (0.0099) the exponent comes out one  *)
(* too high, and %g prints one digit less.                                 *)
NearTen(e) ==
  e < 0 /\ LET y == Scaled(Arg, e) IN Abs(y.n) < y.d /\ 100 * Abs(y.n) > 93 * y.d
TooHigh(r) == \E e \in IF r.scientific THEN {r.exponent} ELSE ADAPT_EXP : NearTen(e)

(* The exponent of the standard: one digit, not 0, in front of the point.  *)
(* A mantissa that rounds to ten (9.99 with one place) is left as 10.0,    *)
(* and zero is printed with the exponent -308.                             *)
ExponentAsSpecified(r) ==
  /\ Arg.n = 0 => r.N = 0 /\ r.exponent = ZERO_EXPONENT
  /\ Arg.n # 0 /\ ~TooHigh(r) =>
       /\ Normal(Scaled(Arg, r.exponent), 10)
       /\ r.N \in 10^r.places..10^(r.places + 1)

(* %g shows the significant digits asked for.  Here it may show more: no   *)
(* trailing zero is taken away, a number of the decades that %f serves is  *)
(* not printed with an exponent though the precision is short of its whole *)
(* part, and without a precision the exponent form has one place too many. *)
(* A precision of 0 is not taken for 1.                                    *)
DigitsAsSpecified(r) ==
  LET digits == (IF GivenPrec THEN Want.prec ELSE DEFAULT_FLOAT_PRECISION)
                - (IF TooHigh(r) THEN 1 ELSE 0)
      y      == Scaled(Arg, r.exponent)
  IN  digits > 0 => Abs(y.n) * 10^(r.places + 1) >= 10^digits * y.d

(* A printed number is as near to its argument as its places allow, has    *)
(* its sign, the exponent and the number of places or digits asked for,    *)
(* and fills its field.                                                    *)
FloatAsSpecified ==
  /\ Returned(FloatConv) /\ IsSpecial(Arg) /\ ~Has("ZEROPAD") => emitted = StdSpecial
  /\ Returned(FloatConv) /\ Arg.kind = "num" /\ ~HalfBelowCarry(ReadBack(emitted).exponent) =>
       LET r == ReadBack(emitted)
           unit == 10^(r.places - Least(r.places, MAX_PRECISION))
       IN  /\ Arg.n # 0 =>
                LET y == Scaled(Arg, r.exponent)
                IN  2 * Abs(r.N * y.d - Abs(y.n) * 10^r.places) <= y.d * unit
           /\ Arg.n = 0 => r.N = 0
           /\ r.negative = (Arg.n < 0)
           /\ Want.conv \in {"e", "E"} => r.scientific
           /\ r.scientific => ExponentAsSpecified(r)
           /\ Want.conv \in {"g", "G"} /\ Arg.n # 0 => DigitsAsSpecified(r)
           /\ Want.conv \notin {"g", "G"} /\ GivenPrec => r.places = Want.prec
           /\ Want.width <= FTOA_BUFFER_SIZE => Len(emitted) >= Want.width
-----------------------------------------------------------------------------
TypeOK ==
  /\ out \in {"_out_buffer", "_out_char", "_out_fct", "_out_null"} /\ maxlen \in Nat
  /\ \A i \in 1..Len(format) : format[i] \in Char
  /\ flags \subseteq Flag /\ width \in Nat /\ precision \in Nat
  /\ idx = Len(emitted) /\ \A i \in 1..idx : emitted[i] \in Char
  /\ buffer \in [0..call.size-1 -> Char \cup {"?"}]
  /\ at \in {"text", "flags", "precision", "precision value", "length", "specifier", "puts", "returned"}
  /\ result \in Int

(* snprintf and its kin write the first count - 1 characters of the text   *)
(* and a terminator, nothing behind them, and return the length the text   *)
(* would have had; the console gets every character but NUL.               *)
Written == Least(idx, maxlen)
OutputContract ==
  /\ TypeOK
  /\ out = "_out_buffer" =>
       \A i \in DOMAIN buffer :
         \/ i < Written - 1 /\ buffer[i] = emitted[i+1]
         \/ i = Written - 1 /\ buffer[i] \in {emitted[i+1], IF at = "returned" THEN NUL ELSE emitted[i+1]}
         \/ i = Written /\ at = "returned" /\ i < maxlen /\ buffer[i] = NUL
         \/ i >= Written /\ buffer[i] = "?"
  /\ out = "_out_buffer" /\ at = "returned" /\ maxlen > 0 => buffer[Least(result, maxlen - 1)] = NUL
  /\ out \in {"_out_char", "_out_fct"} => console = Visible(emitted)
  /\ at = "returned" => result = Len(emitted)
=============================================================================
