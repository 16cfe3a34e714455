----------------------------- MODULE VgaConsole -----------------------------
(***************************************************************************)
(* drivers/display/x86_64/VgaConsole.cpp: the text screen, as operators on *)
(* a record of                                                             *)
(*   cell    the cells of the VGA's memory, rows times cols of them,       *)
(*   pos     VgaConsole::pos, where the next character goes,               *)
(*   beyond  whether a store went past the cells.                          *)
(* A glyph is a character with its colour; Blank is any that shows nothing.*)
(* pos is unsigned in the code: below 0 it would wrap, and the model lets  *)
(* it be seen as negative.                                                 *)
(***************************************************************************)
EXTENDS Integers, Sequences, SequencesExt

CONSTANTS
    rows, cols,
    TAB_SIZE,
    Blank       \* what clear_vga_char leaves

ASSUME VgaAssumption ==
    /\ rows \in Nat \ {0} /\ cols \in Nat \ {0}
    /\ TAB_SIZE \in 1 .. cols /\ cols % TAB_SIZE = 0

\* The characters that move the cursor.
LF == "line feed"
BS == "backspace"
HT == "tab"
CR == "carriage return"

Size == rows * cols

Cells == 0 .. Size - 1

LastRow == cols * (rows - 1)

Put(con, p, glyph) ==
    IF p \in Cells THEN [con EXCEPT !.cell[p] = glyph] ELSE [con EXCEPT !.beyond = TRUE]

\* The same glyph at several places.
PutAll(con, ps, glyph) ==
    [con EXCEPT !.cell = [p \in Cells |-> IF p \in ps THEN glyph ELSE @[p]],
                !.beyond = @ \/ ~(ps \subseteq Cells)]

Cleared == [cell |-> [p \in Cells |-> Blank], pos |-> 0, beyond |-> FALSE]

\* Where a line feed or a tab takes the cursor from p.  The code reads pos
\* twice: once for the column, p, and once for what it adds to, q.
FeedFrom(q, p) == q + (cols - (p % cols))

TabFrom(q, p) == q + (TAB_SIZE - ((p % cols) % TAB_SIZE))

\* Mutant: the row that scrolls in keeps what the last one held.
ScrollUncleared(con) ==
    IF con.pos < Size THEN con
    ELSE [con EXCEPT !.cell = [p \in Cells |-> con.cell[IF p < LastRow THEN p + cols ELSE p]],
                     !.pos  = LastRow]

Scroll(con) ==
    IF con.pos < Size THEN con
    ELSE [con EXCEPT !.cell = [p \in Cells |->
                                  IF p < LastRow THEN con.cell[p + cols] ELSE Blank],
                     !.pos  = LastRow]

Written(con, glyph) ==
    LET s == Scroll(con) IN [Put(s, s.pos, glyph) EXCEPT !.pos = @ + 1]

PrintChar(con, in) ==
    CASE in = LF -> Scroll([con EXCEPT !.pos = FeedFrom(@, @)])
      [] in = BS -> [Put(con, con.pos, Blank) EXCEPT !.pos = @ - 1]
      [] in = HT -> [con EXCEPT !.pos = TabFrom(@, @)]
      [] in = CR -> [con EXCEPT !.pos = @ - (@ % cols)]
      [] OTHER   -> Written(con, in)

\* PrintChar at a row and a column leaves the cursor alone.
PrintCharAt(con, glyph, row, col) == Put(con, row * cols + col, glyph)

\* printk of a text that has no arguments.
Printed(con, text) == FoldLeft(PrintChar, con, text)
=============================================================================
