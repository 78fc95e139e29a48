------------------------------- MODULE Printf -------------------------------
(***************************************************************************)
(* printer_vprintf() of lib.c, and the buffers it fills.  Characters are   *)
(* strings of one character, except "nl" and "NUL"; a format is a sequence *)
(* of them.  All arguments of a call are the same number x, and a string   *)
(* argument is one of |x| characters: a directive is laid out by itself.   *)
(***************************************************************************)
EXTENDS Integers, SequencesExt

CONSTANTS
  UINT,     \* an unsigned int counts modulo UINT (2^32)
  ULONG,    \* an unsigned long modulo ULONG (2^64)
  BUFSIZE,  \* sizeof(buf) in panic() of process.c (160)
  Formats,  \* formats to print
  Args      \* arguments to print

ASSUME PrintfAssumption ==
  /\ UINT \in Nat \ {0} /\ ULONG \in Nat \ {0} /\ BUFSIZE \in Nat /\ BUFSIZE > 8
  /\ Args \subseteq Int

Hex    == <<"0", "1", "2", "3", "4", "5", "6", "7", "8", "9", "a", "b", "c", "d", "e", "f">>
Digits == {Hex[i] : i \in 1 .. 10}
Digit(c) == (CHOOSE i \in DOMAIN Hex : Hex[i] = c) - 1

\* The number that a sequence of digits stands for
Value(s, base) == FoldLeft(LAMBDA n, c : base * n + Digit(c), 0, s)

Repeat(c, n) == [i \in 1 .. (IF n > 0 THEN n ELSE 0) |-> c]

-----------------------------------------------------------------------------
(* Reading a directive *)

\* a format ends in a NUL
CharAt(f, i) == IF i <= Len(f) THEN f[i] ELSE "NUL"

\* the first position from i on with a character that is not in S
Skip(f, i, S) ==
  CHOOSE j \in i .. Len(f) + 1 :
    CharAt(f, j) \notin S /\ \A k \in i .. j - 1 : f[k] \in S

\* A number in the format, or an argument for "*", or -1; and what follows it
Number(f, i, first, x) ==
  CASE CharAt(f, i) \in first ->
         LET j == Skip(f, i, Digits) IN [value |-> Value(SubSeq(f, i, j - 1), 10), next |-> j]
    [] CharAt(f, i) = "*" -> [value |-> x, next |-> i + 1]
    [] OTHER              -> [value |-> -1, next |-> i]

Precision(f, i, x) ==
  IF CharAt(f, i) # "." THEN [value |-> -1, next |-> i]
  ELSE LET p == Number(f, i + 1, Digits, x) IN [p EXCEPT !.value = IF @ < 0 THEN 0 ELSE @]

\* Mutant: at the end of the format there is no step back.
LastOf_NoStepBack(f, i) == i

\* the position the loop over the format goes on from: at the NUL it steps back
LastOf(f, i) == IF CharAt(f, i) = "NUL" THEN i - 1 ELSE i

\* the directive at position i of f, a "%"
Directive(f, i, x) ==
  LET flags == Skip(f, i + 1, {"#", "0", "-", " ", "+"})
      width == Number(f, flags, Digits \ {"0"}, x)
      prec  == Precision(f, width.next, x)
      conv  == Skip(f, prec.next, {"l", "z"})
  IN  [flags |-> {f[k] : k \in i + 1 .. flags - 1}, width |-> width.value,
       precision |-> prec.value, length |-> conv > prec.next,
       conv |-> CharAt(f, conv), last |-> LastOf(f, conv)]

-----------------------------------------------------------------------------
(* Laying it out *)

Signed   == {"d", "i"}
Numeric  == Signed \cup {"u", "x", "X", "p"}
Base(d)  == IF d.conv \in {"x", "X", "p"} THEN 16 ELSE 10

Num(d, x) ==
  CASE d.conv \in Signed          -> IF x < 0 THEN -x ELSE x
    [] d.length \/ d.conv = "p"   -> x % ULONG
    [] OTHER                      -> x % UINT

\* fill_numbuf(), written from the last digit to the first; the case of the
\* digits is left out
fill_numbuf(val, base) ==
  LET digits[n \in 0 .. val] ==
        IF n < base THEN <<Hex[n + 1]>>
        ELSE Append(digits[n \div base], Hex[(n % base) + 1])
  IN  digits[val]

Data(d, x) ==
  CASE d.conv \in Numeric -> fill_numbuf(Num(d, x), Base(d))
    [] d.conv = "s"       -> Repeat("s", IF x < 0 THEN -x ELSE x)
    [] d.conv = "NUL"     -> <<"%">>
    [] OTHER              -> <<d.conv>>

Prefix(d, x) ==
  CASE d.conv \in Signed /\ x < 0          -> <<"-">>
    [] d.conv \in Signed /\ x >= 0 /\ "+" \in d.flags -> <<"+">>
    [] d.conv \in Signed /\ x >= 0 /\ "+" \notin d.flags /\ " " \in d.flags -> <<" ">>
    [] d.conv = "p"                        -> <<"0", "x">>
    [] d.conv \in {"x", "X"} /\ "#" \in d.flags /\ Num(d, x) # 0 -> <<"0", d.conv>>
    [] OTHER                               -> <<>>

\* the part of the data that is printed
Body(d, x) ==
  LET data == Data(d, x)
  IN  IF d.precision >= 0 /\ d.conv \notin Numeric /\ d.precision < Len(data)
      THEN SubSeq(data, 1, d.precision) ELSE data

\* Mutant: zeros fill the width without room for the prefix.
Zeros_NoPrefix(d, len, prefix) ==
  CASE d.conv \in Numeric /\ d.precision >= 0 ->
         IF d.precision > len THEN d.precision - len ELSE 0
    [] d.conv \in Numeric /\ d.precision < 0 /\ "0" \in d.flags /\ "-" \notin d.flags
         /\ len + prefix < d.width -> d.width - len
    [] OTHER -> 0

Zeros(d, len, prefix) ==
  CASE d.conv \in Numeric /\ d.precision >= 0 ->
         IF d.precision > len THEN d.precision - len ELSE 0
    [] d.conv \in Numeric /\ d.precision < 0 /\ "0" \in d.flags /\ "-" \notin d.flags
         /\ len + prefix < d.width -> d.width - len - prefix
    [] OTHER -> 0

\* what the directive d prints of x ("%C" only sets the colour)
Field(d, x) ==
  LET body   == Body(d, x)
      prefix == Prefix(d, x)
      text   == prefix \o Repeat("0", Zeros(d, Len(body), Len(prefix))) \o body
      blanks == Repeat(" ", d.width - Len(text))
  IN  CASE d.conv = "C"    -> <<>>
        [] d.conv # "C" /\ "-" \in d.flags    -> text \o blanks
        [] d.conv # "C" /\ "-" \notin d.flags -> blanks \o text

\* printer_vprintf(): what is printed from position i of the format on
Printed(format, x) ==
  LET from[i \in 1 .. Len(format) + 1] ==
        IF i > Len(format) THEN <<>>
        ELSE IF format[i] # "%" THEN <<format[i]>> \o from[i + 1]
        ELSE LET d == Directive(format, i, x) IN Field(d, x) \o from[d.last + 1]
  IN  from[1]

-----------------------------------------------------------------------------
(* Printing to a buffer *)

\* vsnprintf(): the characters that string_putc() stores before the NUL
vsnprintf(size, text) ==
  IF size = 0 THEN <<>> ELSE SubSeq(text, 1, IF Len(text) < size THEN Len(text) ELSE size - 1)

PANIC == <<"P", "A", "N", "I", "C", ":", " ">>

\* Mutant: the newline always goes behind the text.
EndLine_Behind(buf) == IF Last(buf) = "nl" THEN buf ELSE Append(buf, "nl")

\* the newline at the end, which replaces the last character of a full buffer
EndLine(buf) ==
  CASE Last(buf) = "nl" -> buf
    [] Last(buf) # "nl" /\ Len(buf) = BUFSIZE - 1 -> Append(Front(buf), "nl")
    [] OTHER -> Append(buf, "nl")

\* the string panic() of process.c builds in buf
PanicBuffer(text) == EndLine(PANIC \o vsnprintf(BUFSIZE - 7, text))

-----------------------------------------------------------------------------
(* What is right about formats, fields and messages *)

FormatsRead ==
  \A f \in Formats : \A i \in DOMAIN f :
    f[i] = "%" => \A x \in Args : Directive(f, i, x).last \in i .. Len(f)

NotBlank(s) == SelectSeq(s, LAMBDA c : c # " ")

\* the digits of a printed number, behind its prefix
DigitsOf(d, s) ==
  CASE s[1] \in {"-", "+"} -> Tail(s)
    [] Base(d) = 16 /\ Len(s) > 1 /\ s[2] \in {"x", "X"} -> SubSeq(s, 3, Len(s))
    [] OTHER -> s

FieldRight(d, x) ==
  LET out  == Field(d, x)
      text == NotBlank(out)
  IN  /\ Value(DigitsOf(d, text), Base(d)) = Num(d, x)
      /\ d.conv \in Signed => (text[1] = "-" <=> x < 0)
      /\ Len(out) >= d.width /\ Len(DigitsOf(d, text)) >= d.precision
      /\ Len(out) > d.width =>
           Len(DigitsOf(d, text)) =
             IF d.precision > Len(Data(d, x)) THEN d.precision ELSE Len(Data(d, x))

FieldsRight ==
  \A f \in Formats, x \in Args :
    f # <<>> /\ f[1] = "%" /\ Directive(f, 1, x).conv \in Numeric
      => FieldRight(Directive(f, 1, x), x)

MessagesFit ==
  \A n \in 0 .. BUFSIZE + 1, end \in {"x", "nl"} :
    LET buf == PanicBuffer(Append(Repeat("x", n), end))
    IN  Len(buf) + 1 <= BUFSIZE /\ Last(buf) = "nl"
=============================================================================
