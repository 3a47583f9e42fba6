-------------------------------- MODULE Cga ---------------------------------
(***************************************************************************)
(* The text screen (cgaputc of console.c): the cells of the CGA memory and *)
(* the cursor, which the code reads from the device and writes back.  The  *)
(* tape is all that was ever printed, cell by cell: a newline fills the    *)
(* row, a backspace takes a cell back while there is one on the screen.    *)
(***************************************************************************)
EXTENDS Integers, Sequences

CONSTANTS
  COLS, ROWS,   \* 80 and 24
  Glyphs,       \* the characters printed
  MaxTape       \* bound: cells printed

ASSUME CgaAssumption == COLS \in Nat \ {0} /\ ROWS \in Nat \ {0}

VARIABLES crt, cursor, tape

cgaVars == <<crt, cursor, tape>>

Blank == " "
Screen == 0 .. ROWS * COLS - 1

CgaInit ==
  /\ crt = [i \in Screen |-> Blank]
  /\ cursor = 0
  /\ tape = <<>>

\* Mutant: the row that scrolling frees is not cleared.
ScrolledStale(c, p) ==
  IF p \div COLS < ROWS THEN [crt |-> c, pos |-> p]
  ELSE [crt |-> [i \in Screen |-> IF i < (ROWS - 1) * COLS THEN c[i + COLS] ELSE c[i]],
        pos |-> p - COLS]

\* The screen c scrolled up by a row if the cursor p has left it.
Scrolled(c, p) ==
  IF p \div COLS < ROWS THEN [crt |-> c, pos |-> p]
  ELSE [crt |-> [i \in Screen |-> IF i >= p - COLS THEN Blank
                                  ELSE IF i < (ROWS - 1) * COLS THEN c[i + COLS] ELSE c[i]],
        pos |-> p - COLS]

\* The end of cgaputc: scroll, set the cursor, blank the cell under it.
Shown(c, p) ==
  LET s == Scrolled(c, p) IN
  /\ cursor' = s.pos
  /\ crt' = [s.crt EXCEPT ![s.pos] = Blank]

PutChar(g) ==
  /\ Len(tape) < MaxTape
  /\ Shown([crt EXCEPT ![cursor] = g], cursor + 1)
  /\ tape' = Append(tape, g)

PutNewline ==
  LET n == COLS - (cursor % COLS) IN
  /\ Len(tape) + n <= MaxTape
  /\ Shown(crt, cursor + n)
  /\ tape' = tape \o [i \in 1 .. n |-> Blank]

PutBackspace ==
  /\ Shown(crt, IF cursor > 0 THEN cursor - 1 ELSE 0)
  /\ tape' = IF cursor > 0 THEN SubSeq(tape, 1, Len(tape) - 1) ELSE tape

CgaNext == PutNewline \/ PutBackspace \/ \E g \in Glyphs : PutChar(g)

\* The screen holds the end of what was printed, up to the cursor, and nothing
\* behind it; the cursor is on the screen.
ShowsTail ==
  /\ cursor \in Screen /\ cursor <= Len(tape)
  /\ \A i \in Screen :
       crt[i] = IF i < cursor THEN tape[Len(tape) - cursor + i + 1] ELSE Blank
=============================================================================
