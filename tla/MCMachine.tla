----------------------------- MODULE MCMachine -----------------------------
(* Machine, and the formats its programs print with. *)
EXTENDS Machine, Printf

MCFormats ==
  UNION {[1 .. n -> {"%", "#", "0", "-", "+", "3", ".", "*", "l", "d", "x", "s", "k"}] : n \in 0 .. 4}

MCArgs == {-11, -3, 0, 26}

\* a character, without and with a newline
MCTexts == {Printed(<<"%", "c">>, 0), Printed(<<"%", "c", "nl">>, 0)}

-----------------------------------------------------------------------------
(* Properties of formatted output *)

\* a process is in printer_vprintf()
Printing == \E p \in Live : virtual[p]["rip"] = Word("at", "put")

\* printer_vprintf() never reads past the NUL at the end of its format, even
\* if a directive is cut off there ("%", "%-5", "%.", "%l").
FormatNotOverrun == Printing => FormatsRead

\* What a numeric directive prints can be read back: the digits give the
\* number in its base, the sign is the sign, and the field is exactly as wide
\* as asked for unless prefix and digits (or the precision) need more.
FieldsReadBack == Printing => FieldsRight

\* The message that panic() of process.c leaves for the kernel fits its buffer
\* with its NUL, and ends its line, whatever the length of the text
\* ("buf[160]", "sizeof(buf) - 1").
PanicMessageFits == mode = "panic" => MessagesFit
=============================================================================
