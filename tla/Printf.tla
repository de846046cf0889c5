------------------------------- MODULE Printf -------------------------------
(***************************************************************************)
(* The formatter of the firmware, firmware/OS/libs/printf.c.  A call walks *)
(* its format string one field at a time (the actions below, in the order  *)
(* of _vsnprintf) and hands every character to the output function of its  *)
(* entry point: a bounded buffer, the console, or nothing.                 *)
(*                                                                         *)
(* A character is a one-character string (NUL for the terminator), a       *)
(* double an exact fraction n/d or one of nan, inf, -inf.  The sizes that  *)
(* the source writes as 32, 9, 6, 1e9 ... are constants, so that a check   *)
(* can meet their limits with short numbers.                               *)
(***************************************************************************)
EXTENDS Integers, Sequences

CONSTANTS
  NTOA_BUFFER_SIZE,         \* digits an integer conversion has room for
  FTOA_BUFFER_SIZE,         \* characters a float conversion has room for
  DEFAULT_FLOAT_PRECISION,
  MAX_FLOAT,                \* largest number printed without an exponent
  MAX_PRECISION,            \* last index of the table of powers of ten
  EXPONENTS,                \* binary exponents of the numbers in play
  ADAPT_EXP,                \* the decades 1e-4 ... 1e5 that %g prints like %f
  Bits,                     \* width of char, short, int, long, llong
  UNLIMITED,                \* (size_t)-1
  Call                      \* the calls of the program

NUL == "NUL"
DigitChar == <<"0", "1", "2", "3", "4", "5", "6", "7", "8", "9",
               "a", "b", "c", "d", "e", "f">>
UpperChar == [DigitChar EXCEPT ![11] = "A", ![12] = "B", ![13] = "C",
                               ![14] = "D", ![15] = "E", ![16] = "F"]
Decimal == {DigitChar[i] : i \in 1..10}
DigitValue(c) == (CHOOSE i \in 1..10 : DigitChar[i] = c) - 1
Char == {DigitChar[i] : i \in 1..16} \cup {UpperChar[i] : i \in 1..16}
        \cup {NUL, " ", "+", "-", "#", ".", "*", "%", "\n",
              "x", "X", "o", "u", "i", "g", "G", "h", "l", "j", "t", "z",
              "s", "p", "n"}

Flag == {"ZEROPAD", "LEFT", "PLUS", "SPACE", "HASH", "UPPERCASE", "CHAR",
         "SHORT", "LONG", "LONG_LONG", "PRECISION", "ADAPT_EXP"}
FlagOf == [c \in {"0", "-", "+", " ", "#"} |->
             CASE c = "0" -> "ZEROPAD" [] c = "-" -> "LEFT" [] c = "+" -> "PLUS"
               [] c = " " -> "SPACE"   [] c = "#" -> "HASH"]

Least(m, n) == IF m < n THEN m ELSE n
Repeat(c, n) == [i \in 1..(IF n < 0 THEN 0 ELSE n) |-> c]
Rest(s, n) == SubSeq(s, n + 1, Len(s))
Pow(b, e) == LET p[k \in 0..e] == IF k = 0 THEN 1 ELSE b * p[k-1] IN p[e]
Fit(s, size) == SubSeq(s, 1, Least(Len(s), size))   \* while (len < size)
Backwards(s) == [i \in 1..Len(s) |-> s[Len(s) + 1 - i]]
-----------------------------------------------------------------------------
(* Numbers.  The scratch buffers hold a number last digit first.           *)

MAX_DIGITS == 64             \* of the widest type in base 2
Digits(v, base, flags) ==
  LET left[k \in 0..MAX_DIGITS] == IF k = 0 THEN v ELSE left[k-1] \div base
      n == CHOOSE k \in 1..MAX_DIGITS :
             (k = MAX_DIGITS \/ left[k] = 0) /\ \A j \in 1..k-1 : left[j] # 0
  IN  [i \in 1..n |-> LET d == left[i-1] % base
                      IN  IF "UPPERCASE" \in flags THEN UpperChar[d+1] ELSE DigitChar[d+1]]

Pad(n) == Repeat(" ", n)
OutRev(buf, width, flags) ==
  (IF flags \cap {"LEFT", "ZEROPAD"} = {} THEN Pad(width - Len(buf)) ELSE <<>>)
  \o Backwards(buf)
  \o (IF "LEFT" \in flags THEN Pad(width - Len(buf)) ELSE <<>>)

Sign(negative, flags) ==
  IF negative THEN <<"-">> ELSE IF "PLUS" \in flags THEN <<"+">>
  ELSE IF "SPACE" \in flags THEN <<" ">> ELSE <<>>

NoRoomForSign(negative, width, flags) == width        \* mutant of FieldWidth

(* A sign takes one place of a zero-padded field.                          *)
FieldWidth(negative, width, flags) ==
  IF /\ width > 0 /\ "ZEROPAD" \in flags /\ "LEFT" \notin flags
     /\ (negative \/ flags \cap {"PLUS", "SPACE"} # {})
  THEN width - 1 ELSE width

Base(c) == CASE c \in {"x", "X"} -> 16 [] c = "o" -> 8 [] c = "b" -> 2 [] OTHER -> 10

(* "handle hash": digits that the padding may have put there make room for *)
(* the prefix.                                                             *)
Hash(buf, base, prec, width, flags) ==
  LET n    == Len(buf)
      kept == IF "PRECISION" \in flags \/ n = 0 \/ n \notin {prec, width} THEN n
              ELSE IF n > 1 /\ base = 16 THEN n - 2 ELSE n - 1
      mark == CASE base = 16 -> IF "UPPERCASE" \in flags THEN <<"X", "0">> ELSE <<"x", "0">>
                [] base = 2  -> <<"b", "0">>
                [] OTHER     -> <<"0">>
  IN  SubSeq(buf, 1, kept) \o mark

NtoaFormat(digits, negative, base, prec, width, flags) ==
  LET w      == FieldWidth(negative, width, flags)
      room(s)   == Fit(s, NTOA_BUFFER_SIZE)
      zeros  == IF "LEFT" \in flags THEN 0
                ELSE IF "ZEROPAD" \in flags /\ w > prec THEN w ELSE prec
      padded == room(digits \o Repeat("0", zeros - Len(digits)))
      hashed == IF "HASH" \in flags THEN room(Hash(padded, base, prec, w, flags)) ELSE padded
  IN  OutRev(room(hashed \o Sign(negative, flags)), w, flags)

NtoaLong(v, negative, base, prec, width, flags) ==
  LET digits == IF "PRECISION" \in flags /\ v = 0 THEN <<>>
                ELSE Fit(Digits(v, base, flags), NTOA_BUFFER_SIZE)
  IN  NtoaFormat(digits, negative, base, prec, width,
                 IF v = 0 THEN flags \ {"HASH"} ELSE flags)
-----------------------------------------------------------------------------
(* Floating point.                                                         *)

Abs(n) == IF n < 0 THEN -n ELSE n
Odd(n) == n % 2 = 1
IsSpecial(x) == x.kind # "num"
Special(x, width, flags) ==
  OutRev(CASE x.kind = "nan"  -> <<"n", "a", "n">>
           [] x.kind = "-inf" -> <<"f", "n", "i", "-">>
           [] x.kind = "inf"  -> <<"f", "n", "i">> \o (IF "PLUS" \in flags THEN <<"+">> ELSE <<>>),
         width, flags)

RoundedWithoutCarry(x, prec) ==                       \* mutant of Rounded
  LET frac == ((Abs(x.n) % x.d) * Pow(10, prec)) \div x.d
      up   == 2 * (((Abs(x.n) % x.d) * Pow(10, prec)) % x.d) > x.d
  IN  [whole |-> Abs(x.n) \div x.d, frac |-> IF up THEN frac + 1 ELSE frac]

(* The fraction x.n/x.d rounded to prec places: whole part and fraction.   *)
(* Above the half the carry out of the fraction is handled, at the half it *)
(* is not.                                                                 *)
Rounded(x, prec) ==
  LET v     == Abs(x.n)
      scale == Pow(10, prec)
      whole == v \div x.d
      tmp   == (v % x.d) * scale
      frac  == tmp \div x.d
      diff  == 2 * (tmp % x.d)
      carry == diff > x.d /\ frac + 1 >= scale
      near  == IF carry THEN 0
               ELSE IF diff > x.d \/ (diff = x.d /\ (frac = 0 \/ Odd(frac))) THEN frac + 1
               ELSE frac
      up    == IF carry THEN whole + 1 ELSE whole
  IN  IF prec = 0
      THEN [whole |-> IF 2 * (v - up * x.d) >= x.d /\ Odd(up) THEN up + 1 ELSE up, frac |-> 0]
      ELSE [whole |-> up, frac |-> near]

(* The digits of the fraction; a fraction of too many digits makes the     *)
(* count of missing zeros wrap around, and zeros fill the buffer.          *)
Fraction(frac, prec, lead) ==
  LET written == Fit(lead \o Digits(frac, 10, {}), FTOA_BUFFER_SIZE)
      missing == prec - (Len(written) - Len(lead))
  IN  written \o Repeat("0", IF missing >= 0 THEN missing ELSE FTOA_BUFFER_SIZE)

Fixed(x, precision, width, flags) ==
  LET want     == IF "PRECISION" \in flags THEN precision ELSE DEFAULT_FLOAT_PRECISION
      room(s)  == Fit(s, FTOA_BUFFER_SIZE)
      lead     == room(Repeat("0", want - MAX_PRECISION))
      prec     == want - Len(lead)
      r        == Rounded(x, prec)
      negative == x.n < 0
      w        == FieldWidth(negative, width, flags)
      point    == IF prec = 0 THEN lead
                  ELSE room(room(Fraction(r.frac, prec, lead)) \o <<".">>)
      number   == room(point \o Digits(r.whole, 10, {}))
      padded   == IF "ZEROPAD" \in flags /\ "LEFT" \notin flags
                  THEN room(number \o Repeat("0", w - Len(number))) ELSE number
  IN  OutRev(room(padded \o Sign(negative, flags)), w, flags)

(* The decimal exponent.  Estimate is (int)log10(x), from the exponent of  *)
(* x in base 2 and its mantissa, expanded around 1.5: never below the      *)
(* logarithm and up to 0.0313 above it, and cut off toward zero, so for a  *)
(* negative logarithm it can be two too high; Exponent takes one back at   *)
(* most.  The constants of the expansion have five digits here.  The power *)
(* of ten that the code sums from a series, up to 2e-8 off, is exact: that *)
(* near a power of ten the code may print 0.99... or 10.0 is left out.     *)
(* For zero the estimate is the end of the range.                          *)
Over(x, b, e) == IF e >= 0 THEN [x EXCEPT !.d = @ * Pow(b, e)] ELSE [x EXCEPT !.n = @ * Pow(b, -e)]
Normal(x, b) == Abs(x.n) >= x.d /\ Abs(x.n) < b * x.d
Scaled(x, e) == Over(x, 10, e)
Truncated(n, d) == IF n >= 0 THEN n \div d ELSE -((-n) \div d)      \* (int)(n / d)
Exp2(x) == CHOOSE k \in EXPONENTS : Normal(Over(x, 2, k), 2)
Estimate(x) ==
  LET k == Exp2(x)
      m == Over(x, 2, k)
  IN  Truncated(2 * m.d * (17609 + k * 30103) + 28953 * (2 * Abs(m.n) - 3 * m.d),
                2 * m.d * 100000)

ZERO_EXPONENT == -308
Uncorrected(x) == IF x.n = 0 THEN ZERO_EXPONENT ELSE Estimate(x)     \* mutant of Exponent
Exponent(x) ==
  IF x.n = 0 THEN ZERO_EXPONENT
  ELSE LET e == Estimate(x)
           y == Scaled(x, e)
       IN  IF Abs(y.n) < y.d THEN e - 1 ELSE e                      \* value < 10^e

Etoa(x, precision, width, flags) ==
  LET want     == IF "PRECISION" \in flags THEN precision ELSE DEFAULT_FLOAT_PRECISION
      e        == Exponent(x)
      adapt    == "ADAPT_EXP" \in flags
      fallback == adapt /\ x.n # 0 /\ \E k \in ADAPT_EXP : Normal(Scaled(x, k), 10)
      prec     == IF fallback THEN IF want > e THEN want - e - 1 ELSE 0
                  ELSE IF adapt /\ want > 0 /\ "PRECISION" \in flags THEN want - 1 ELSE want
      minwidth == IF fallback THEN 0 ELSE IF Abs(e) < 100 THEN 4 ELSE 5
      fwidth   == IF width <= minwidth \/ (minwidth > 0 /\ "LEFT" \in flags) THEN 0
                  ELSE width - minwidth
      fflags   == (flags \ {"ADAPT_EXP"}) \cup (IF fallback THEN {"PRECISION"} ELSE {})
      mantissa == Fixed(IF fallback \/ x.n = 0 THEN x ELSE Scaled(x, e), prec, fwidth, fflags)
      number   == mantissa \o <<IF "UPPERCASE" \in flags THEN "E" ELSE "e">>
                  \o NtoaLong(Abs(e), e < 0, 10, 0, minwidth - 1, {"ZEROPAD", "PLUS"})
  IN  IF IsSpecial(x) THEN Special(x, width, flags)
      ELSE IF fallback THEN mantissa
      ELSE number \o (IF "LEFT" \in flags THEN Pad(width - Len(number)) ELSE <<>>)

Ftoa(x, precision, width, flags) ==
  IF IsSpecial(x) THEN Special(x, width, flags)
  ELSE IF Abs(x.n) > MAX_FLOAT * x.d THEN Etoa(x, precision, width, flags)
  ELSE Fixed(x, precision, width, flags)

(* An argument is a number and a text, a conversion reads the one or the   *)
(* other.  The numbers are in reach of the exponents; no integer type is   *)
(* wider than the 64 bits of long long; snprintf is told no more than the  *)
(* size of the buffer.                                                     *)
Argument == [kind : {"num", "nan", "inf", "-inf"}, n : Int, d : Nat \ {0}, s : Seq(Char)]
ASSUME SizeAssumption ==
  /\ {NTOA_BUFFER_SIZE, FTOA_BUFFER_SIZE, DEFAULT_FLOAT_PRECISION, MAX_FLOAT, MAX_PRECISION} \subseteq Nat
  /\ EXPONENTS \cup ADAPT_EXP \subseteq Int /\ UNLIMITED \in Nat
  /\ Bits \in [{"char", "short", "int", "long", "llong"} -> 1..MAX_DIGITS]
ASSUME CallAssumption ==
  \A c \in Call :
    /\ c.fn \in {"printf", "vprintf", "puts", "fctprintf", "sprintf", "snprintf", "vsnprintf"}
    /\ c.size \in Nat /\ c.count \in Nat /\ (c.size > 0 => c.count <= c.size)
    /\ c.format \in Seq(Char) /\ c.va \in Seq(Argument)
    /\ \A i \in 1..Len(c.va) : c.va[i].n # 0 => \E k \in EXPONENTS : Normal(Over(c.va[i], 2, k), 2)
-----------------------------------------------------------------------------
VARIABLES
  call,       \* the call being served
  out,        \* its output function
  maxlen,     \* bytes it may write
  format, va, \* rest of the format string and of the arguments
  flags, width, precision,
  idx,        \* characters put out so far
  buffer,     \* the caller's memory, "?" where nothing was written
  console,    \* what putchar or the caller's function got
  emitted,    \* history: every character handed to out
  at, result

vars == <<call, out, maxlen, format, va, flags, width, precision, idx, buffer,
          console, emitted, at, result>>
directive == <<flags, width, precision>>

(* Entry points: printf, vprintf and puts write to the console, fctprintf  *)
(* to a function, sprintf without a limit, snprintf and vsnprintf up to    *)
(* count.  A null buffer (size 0) turns the output off.                    *)
Output(c) ==
  IF c.fn \in {"printf", "vprintf", "puts"} THEN "_out_char"
  ELSE IF c.fn = "fctprintf" THEN "_out_fct"
  ELSE IF c.size = 0 THEN "_out_null" ELSE "_out_buffer"

Init ==
  /\ call \in Call
  /\ out = Output(call)
  /\ maxlen = IF call.fn \in {"snprintf", "vsnprintf"} THEN call.count ELSE UNLIMITED
  /\ format = call.format /\ va = call.va
  /\ flags = {} /\ width = 0 /\ precision = 0
  /\ idx = 0 /\ emitted = <<>> /\ console = <<>>
  /\ buffer = [i \in 0..call.size-1 |-> "?"]
  /\ at = (IF call.fn = "puts" THEN "puts" ELSE "text") /\ result = -1

Store(s, from) ==
  IF out = "_out_buffer"
  THEN [i \in DOMAIN buffer |->
          IF i \in from..from+Len(s)-1 /\ i < maxlen THEN s[i-from+1] ELSE buffer[i]]
  ELSE buffer
Visible(s) ==                                    \* if (character)
  LET shown[n \in 0..Len(s)] == IF n = 0 THEN <<>> ELSE IF s[n] = NUL THEN shown[n-1]
                                ELSE Append(shown[n-1], s[n])
  IN  shown[Len(s)]
Show(s) == IF out \in {"_out_char", "_out_fct"} THEN console \o Visible(s) ELSE console

Emit(s) ==
  /\ buffer' = Store(s, idx)
  /\ console' = Show(s)
  /\ emitted' = emitted \o s
  /\ idx' = idx + Len(s)

Frame == UNCHANGED <<call, out, maxlen>>
Silent == UNCHANGED <<idx, buffer, console, emitted, result>> /\ Frame
Sees(c) == format # <<>> /\ Head(format) \in c   \* *format is one of c
Leading ==                                       \* digits in front
  CHOOSE n \in 0..Len(format) : /\ \A i \in 1..n : format[i] \in Decimal
                                /\ n = Len(format) \/ format[n+1] \notin Decimal
Atoi ==                                          \* _atoi: number and length
  LET value[k \in 0..Leading] == IF k = 0 THEN 0 ELSE 10 * value[k-1] + DigitValue(format[k])
  IN  <<value[Leading], Leading>>
-----------------------------------------------------------------------------
Literal ==
  /\ at = "text" /\ format # <<>> /\ Head(format) # "%"
  /\ Emit(<<Head(format)>>)
  /\ format' = Tail(format)
  /\ UNCHANGED <<va, directive, at, result>> /\ Frame

Percent ==
  /\ at = "text" /\ Sees({"%"})
  /\ format' = Tail(format) /\ at' = "flags"
  /\ flags' = {} /\ width' = 0 /\ precision' = 0
  /\ UNCHANGED va /\ Silent

ReadFlag ==
  /\ at = "flags" /\ Sees(DOMAIN FlagOf)
  /\ flags' = flags \cup {FlagOf[Head(format)]}
  /\ format' = Tail(format)
  /\ UNCHANGED <<va, width, precision, at>> /\ Silent

(* A negative width from the arguments asks for padding on the right.      *)
StarWidth == Abs(Head(va).n)

ReadWidth ==
  /\ at = "flags" /\ ~Sees(DOMAIN FlagOf)
  /\ at' = "precision"
  /\ \/ /\ Sees(Decimal)
        /\ width' = Atoi[1] /\ format' = Rest(format, Atoi[2])
        /\ UNCHANGED <<va, flags>>
     \/ /\ Sees({"*"})
        /\ width' = StarWidth
        /\ flags' = flags \cup (IF Head(va).n < 0 THEN {"LEFT"} ELSE {})
        /\ format' = Tail(format) /\ va' = Tail(va)
     \/ /\ ~Sees(Decimal \cup {"*"})
        /\ UNCHANGED <<format, va, flags, width>>
  /\ UNCHANGED precision /\ Silent

ReadPrecision ==
  /\ at = "precision"
  /\ \/ /\ Sees({"."})
        /\ format' = Tail(format) /\ flags' = flags \cup {"PRECISION"}
        /\ at' = "precision value"
     \/ /\ ~Sees({"."})
        /\ at' = "length" /\ UNCHANGED <<format, flags>>
  /\ UNCHANGED <<va, width, precision>> /\ Silent

ReadPrecisionValue ==
  /\ at = "precision value" /\ at' = "length"
  /\ \/ /\ Sees(Decimal)
        /\ precision' = Atoi[1] /\ format' = Rest(format, Atoi[2]) /\ UNCHANGED va
     \/ /\ Sees({"*"})
        /\ precision' = (IF Head(va).n > 0 THEN Head(va).n ELSE 0)
        /\ format' = Tail(format) /\ va' = Tail(va)
     \/ /\ ~Sees(Decimal \cup {"*"})
        /\ UNCHANGED <<format, va, precision>>
  /\ UNCHANGED <<flags, width>> /\ Silent

(* size_t and ptrdiff_t are as wide as long, intmax_t as long long.        *)
Length(s) ==
  LET twice == Len(s) > 1 /\ s[2] = s[1]
  IN  CASE s[1] = "l" /\ twice       -> <<{"LONG", "LONG_LONG"}, 2>>
        [] s[1] = "h" /\ twice       -> <<{"SHORT", "CHAR"}, 2>>
        [] s[1] = "h" /\ ~twice      -> <<{"SHORT"}, 1>>
        [] s[1] = "j"                -> <<{"LONG_LONG"}, 1>>
        [] OTHER                     -> <<{"LONG"}, 1>>

ReadLength ==
  /\ at = "length" /\ at' = "specifier"
  /\ \/ /\ Sees({"l", "h", "t", "j", "z"})
        /\ flags' = flags \cup Length(format)[1]
        /\ format' = Rest(format, Length(format)[2])
     \/ /\ ~Sees({"l", "h", "t", "j", "z"})
        /\ UNCHANGED <<format, flags>>
  /\ UNCHANGED <<va, width, precision>> /\ Silent

(* The end of a conversion: put out s, having used n arguments.            *)
Convert(s, n) ==
  /\ at' = "text"
  /\ Emit(s)
  /\ format' = Tail(format) /\ va' = Rest(va, n)
  /\ UNCHANGED <<directive, result>> /\ Frame

Unsigned(n, bits) == n % Pow(2, bits)
Signed(n, bits) == LET u == Unsigned(n, bits) IN IF u < Pow(2, bits-1) THEN u ELSE u - Pow(2, bits)
ArgBits ==
  IF "LONG_LONG" \in flags THEN Bits.llong ELSE IF "LONG" \in flags THEN Bits.long
  ELSE IF "CHAR" \in flags THEN Bits.char ELSE IF "SHORT" \in flags THEN Bits.short
  ELSE Bits.int
(* char is unsigned on this machine.                                       *)
Signedness(conv) == conv \in {"d", "i"} /\ ("CHAR" \notin flags \/ "LONG" \in flags)
ArgValue(conv) ==
  IF Signedness(conv) THEN Signed(Head(va).n, ArgBits) ELSE Unsigned(Head(va).n, ArgBits)
IntegerFlags(conv) ==
  (flags \ ((IF Base(conv) = 10 THEN {"HASH"} ELSE {})
            \cup (IF conv \in {"d", "i"} THEN {} ELSE {"PLUS", "SPACE"})
            \cup (IF "PRECISION" \in flags THEN {"ZEROPAD"} ELSE {})))
  \cup (IF conv = "X" THEN {"UPPERCASE"} ELSE {})

Integer ==
  /\ at = "specifier" /\ Sees({"d", "i", "u", "x", "X", "o", "b"})
  /\ LET c == Head(format)
     IN  Convert(NtoaLong(Abs(ArgValue(c)), ArgValue(c) < 0, Base(c), precision, width,
                          IntegerFlags(c)), 1)

Float ==
  /\ at = "specifier" /\ Sees({"f", "F"})
  /\ Convert(Ftoa(Head(va), precision, width,
                  IF Head(format) = "F" THEN flags \cup {"UPPERCASE"} ELSE flags), 1)

Exponential ==
  /\ at = "specifier" /\ Sees({"e", "E", "g", "G"})
  /\ Convert(Etoa(Head(va), precision, width,
                  flags \cup (IF Sees({"g", "G"}) THEN {"ADAPT_EXP"} ELSE {})
                        \cup (IF Sees({"E", "G"}) THEN {"UPPERCASE"} ELSE {})), 1)

Padded(s) == IF "LEFT" \in flags THEN s \o Pad(width - Len(s)) ELSE Pad(width - Len(s)) \o s

Character == at = "specifier" /\ Sees({"c"}) /\ Convert(Padded(Head(va).s), 1)

String ==
  /\ at = "specifier" /\ Sees({"s"})
  /\ Convert(Padded(IF "PRECISION" \in flags THEN Fit(Head(va).s, precision) ELSE Head(va).s), 1)

Pointer ==
  /\ at = "specifier" /\ Sees({"p"})
  /\ Convert(NtoaLong(Unsigned(Head(va).n, Bits.int), FALSE, 16, precision, Bits.int \div 4,
                      flags \cup {"ZEROPAD", "UPPERCASE"}), 1)

(* A second % prints itself, and so does a letter that is no specifier.    *)
Other ==
  /\ at = "specifier" /\ format # <<>>
  /\ ~Sees({"d", "i", "u", "x", "X", "o", "b", "f", "F", "e", "E", "g", "G", "c", "s", "p"})
  /\ Convert(<<Head(format)>>, 0)

TerminatorBehindText == Least(idx, maxlen)            \* mutant of TerminatorAt

(* The terminator goes behind the text or, if that is cut off, over the    *)
(* last byte the caller allows; no byte of an empty buffer is touched.     *)
TerminatorAt == Least(idx, maxlen - 1)

Terminate ==
  /\ at = "text" /\ format = <<>>
  /\ at' = "returned" /\ result' = idx
  /\ buffer' = IF maxlen = 0 THEN buffer ELSE Store(<<NUL>>, TerminatorAt)
  /\ UNCHANGED <<format, va, directive, idx, console, emitted>> /\ Frame

Puts ==
  /\ at = "puts"
  /\ at' = "returned" /\ result' = Len(format) + 1
  /\ Emit(format \o <<"\n">>)
  /\ UNCHANGED <<format, va, directive>> /\ Frame

Done == at = "returned" /\ UNCHANGED vars

Next ==
  \/ Literal \/ Percent \/ ReadFlag \/ ReadWidth \/ ReadPrecision
  \/ ReadPrecisionValue \/ ReadLength \/ Integer \/ Float \/ Exponential
  \/ Character \/ String \/ Pointer \/ Other \/ Terminate \/ Puts \/ Done

Spec == Init /\ [][Next]_vars
=============================================================================
