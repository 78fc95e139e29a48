------------------------------ MODULE Console ------------------------------
(***************************************************************************)
(* The CGA console as lib.c writes it: console_putc() and what             *)
(* console_vprintf() does with a cursor position.  Positions are cells,    *)
(* numbered by rows.                                                       *)
(***************************************************************************)
EXTENDS Integers

CONSTANTS
  CONSOLE_ROWS,     \* 25
  CONSOLE_COLUMNS,  \* 80
  LAST_ROW          \* the row from which app_printf() goes back to the top (23)

ASSUME ConsoleAssumption ==
  /\ CONSOLE_ROWS \in Nat \ {0} /\ CONSOLE_COLUMNS \in Nat \ {0}
  /\ LAST_ROW \in 1 .. CONSOLE_ROWS - 1

END   == CONSOLE_ROWS * CONSOLE_COLUMNS
Cells == 0 .. END - 1

CROW(cpos) == cpos \div CONSOLE_COLUMNS

\* the position console_vprintf() starts at
StartAt(cpos) == IF cpos < 0 \/ cpos >= END THEN 0 ELSE cpos

\* Mutant: the end of the screen is tested only for printing characters.
Wrapped_NotNewline(cursor, c) == IF c # "nl" /\ cursor >= END THEN 0 ELSE cursor

\* console_putc(): a cursor at the end goes back to the first cell
Wrapped(cursor, c) == IF cursor >= END THEN 0 ELSE cursor

\* the cursor after the character c: a newline fills the row with blanks
After(cursor, c) ==
  LET from == Wrapped(cursor, c)
  IN  IF c = "nl" THEN from + (CONSOLE_COLUMNS - (from % CONSOLE_COLUMNS)) ELSE from + 1

\* the cells it writes
Written(cursor, c) == Wrapped(cursor, c) .. After(cursor, c) - 1
=============================================================================
