------------------------------ MODULE MCPrintf ------------------------------
(***************************************************************************)
(* PrintedText for TLC: one conversion per call, over the flags, widths,   *)
(* precisions, lengths and values where the sizes of the source matter,    *)
(* and calls of every entry point with every way to run out of buffer.     *)
(***************************************************************************)
EXTENDS PrintedText

MCExponents == -10..11
MCAdapt == -2..1
MCBits == [char |-> 3, short |-> 5, int |-> 8, long |-> 8, llong |-> 12]

Whole(n)     == [kind |-> "num", n |-> n, d |-> 1, s |-> <<>>]
Num(n, d)  == [kind |-> "num", n |-> n, d |-> d, s |-> <<>>]
NotANum(k) == [kind |-> k, n |-> 0, d |-> 1, s |-> <<>>]
Str(s)     == [kind |-> "num", n |-> 0, d |-> 1, s |-> s]

Directive(fs, w, p, l, c) == [flags |-> fs, width |-> w, prec |-> p, length |-> l, conv |-> c]
NoDirective == Directive({}, 0, -1, "", "none")

Letter(f) == CHOOSE c \in DOMAIN FlagOf : FlagOf[c] = f
FlagOrder == <<"ZEROPAD", "LEFT", "PLUS", "SPACE", "HASH">>
FlagText(fs) ==
  LET text[i \in 0..5] == IF i = 0 THEN <<>>
                          ELSE text[i-1] \o (IF FlagOrder[i] \in fs THEN <<Letter(FlagOrder[i])>> ELSE <<>>)
  IN  text[5]
Text(d) == <<"%">> \o FlagText(d.flags) \o AfterFlags(d)

OneCall(d, arg) == [fn |-> "printf", size |-> 0, count |-> 0, format |-> Text(d), va |-> <<arg>>, want |-> d]

IntegerCalls ==
  {OneCall(Directive(fs, w, p, "", c), Whole(n)) :
     fs \in SUBSET {"ZEROPAD", "LEFT", "PLUS", "HASH"}, w \in {0, 4, 9}, p \in {-1, 0, 1, 3},
     c \in {"d", "x", "o"}, n \in {0, 1, -128, 200}}
  \cup
  {OneCall(Directive(fs, w, -1, l, c), Whole(n)) :
     fs \in {{}, {"SPACE", "ZEROPAD"}, {"HASH"}}, w \in {0, 6}, l \in {"hh", "h", "l", "ll", "j", "z", "t"},
     c \in {"i", "u", "X", "b"}, n \in {0, 37, -2048}}

FloatCalls ==
  {OneCall(Directive(fs, w, p, "", c), x) :
     fs \in {{}, {"ZEROPAD"}, {"LEFT", "PLUS"}}, w \in {0, 9}, p \in {-1, 0, 1, 3},
     c \in {"f", "e", "g"},
     x \in {Num(0, 1), Num(1, 2), Num(5, 2), Num(-19, 20), Num(999, 100), Num(1, 8), Num(-1234, 1),
            Num(1, 200), Num(1, 101), Num(100, 1001), NotANum("nan"), NotANum("inf"), NotANum("-inf")}}

TextCalls ==
  {OneCall(Directive(fs, w, p, "", "s"), Str(s)) :
     fs \in {{}, {"LEFT"}, {"ZEROPAD"}}, w \in {0, 3}, p \in {-1, 0, 1},
     s \in {<<>>, <<"a">>, <<"a", "b", "c", "d">>}}
  \cup {OneCall(Directive(fs, w, -1, "", "c"), Str(<<c>>)) : fs \in {{}, {"LEFT"}}, w \in {0, 3}, c \in {"a", NUL}}

(* Text around two conversions, widths and precisions from the arguments,  *)
(* %% and %p, through every entry point.                                   *)
Compound(fn, size, count) ==
  {[fn |-> fn, size |-> size, count |-> count, want |-> NoDirective, format |-> f,
    va |-> <<Whole(w), Whole(p), Whole(27), [Whole(5) EXCEPT !.s = <<NUL>>]>>] :
     f \in {<<"a", "%", "*", ".", "*", "d", "%", "%", "%", "c">>,
            <<"%", "-", "*", ".", "*", "p", "%", "z", "b">>},
     w \in {-4, 3}, p \in {-1, 3}}
CompoundCalls ==
  UNION {Compound(fn, 0, 0) : fn \in {"printf", "vprintf", "fctprintf"}}
  \cup Compound("sprintf", 16, 0)
  \cup UNION {Compound(fn, 8, n) : fn \in {"snprintf", "vsnprintf"}, n \in {0, 1, 5, 8}}
  \cup Compound("snprintf", 0, 0)
  \cup {[fn |-> "puts", size |-> 0, count |-> 0, format |-> <<"a", "b">>, va |-> <<>>, want |-> NoDirective]}

MCCall == IntegerCalls \cup FloatCalls \cup TextCalls \cup CompoundCalls
=============================================================================
