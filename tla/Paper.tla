------------------------------- MODULE Paper -------------------------------
(***************************************************************************)
(* What a text screen shows: the last lines of the text printed to it,     *)
(* like paper in a typewriter.  A line that is full goes on in the next;   *)
(* the paper is moved up when there is something to type below it.         *)
(***************************************************************************)
EXTENDS Integers, Sequences, VgaConsole

BlankLine == [c \in 0 .. cols - 1 |-> Blank]

\* The sheet: its lines, and the line (at) and column of the next character.
BlankSheet == [line |-> [l \in 1 .. rows |-> BlankLine], at |-> 1, col |-> 0]

Fed(p) ==
    IF p.at <= rows THEN p
    ELSE [p EXCEPT !.line = Append(Tail(@), BlankLine), !.at = rows]

Moved(p, n) ==
    [p EXCEPT !.at = @ + (p.col + n) \div cols, !.col = (@ + n) % cols]

Typed(p, in) ==
    CASE in = LF -> Fed([p EXCEPT !.at = @ + 1, !.col = 0])
      [] in = BS -> Moved([p EXCEPT !.line[p.at][p.col] = Blank], -1)
      [] in = HT -> Moved(p, TAB_SIZE - (p.col % TAB_SIZE))
      [] in = CR -> [p EXCEPT !.col = 0]
      [] OTHER   -> LET f == Fed(p) IN Moved([f EXCEPT !.line[f.at][f.col] = in], 1)

TypedText(p, text) == FoldLeft(Typed, p, text)
=============================================================================
