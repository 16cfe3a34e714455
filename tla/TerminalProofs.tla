--------------------------- MODULE TerminalProofs ---------------------------
(***************************************************************************)
(* For a screen of any size above one row, any keyboard and whatever is    *)
(* printed: neither the thread nor the disk's handler that interrupts it   *)
(* anywhere stores past the end of the screen, the screen shows the text   *)
(* as long as no handler printed in the middle of a character, and shift   *)
(* follows right shift.                                                    *)
(***************************************************************************)
EXTENDS Terminal, FiniteSetTheorems, SequenceTheorems, WellFoundedInduction, TLAPS

(***************************************************************************)
(* Characters, consoles and sheets of paper.                               *)
(***************************************************************************)
Typable ==
    {LetterOf[code] : code \in DOMAIN LetterOf} \cup {Shifted[l] : l \in DOMAIN Shifted}
        \cup {CharOf[code] : code \in DOMAIN CharOf}

Printable ==
    {ToSet(Text(line)) : line \in Lines} \cup {ToSet(BootText(lines)) : lines \in BootLines}

Glyphs == {Blank, "!", LF, HT} \cup Typable \cup UNION Printable

Cols == 0 .. cols - 1

Consoles == [cell : [Cells -> Glyphs], pos : Int, beyond : {FALSE}]

Sheets == [line : [1 .. rows -> [Cols -> Glyphs]], at : 1 .. rows + 1, col : Cols]

\* Below the last line there is nothing but its beginning.
Sheet(p) == p \in Sheets /\ (p.at = rows + 1 => p.col = 0)

\* What paper p has where the screen has cell c.
Glyph(p, c) == p.line[c \div cols + 1][c % cols]

Same(m, p) == \A c \in Cells : m.cell[c] = Glyph(p, c)

Place(p) == (p.at - 1) * cols + p.col

Shows(m, p) == Same(m, p) /\ m.pos = Place(p)

\* The paper moved up by a line.
Up(p) == [p EXCEPT !.line = Append(Tail(@), BlankLine), !.at = rows, !.col = 0]

\* The paper with what the character at hand leaves where it is typed.
Marked(p, in) == [p EXCEPT !.line[p.at][p.col] = IF in = BS THEN Blank ELSE in]

-----------------------------------------------------------------------------
(***************************************************************************)
(* The inductive invariant.                                                *)
(***************************************************************************)
\* A text is a line or more; a backspace or a tab is a line of its own.
Shape(text) ==
    /\ text \in Seq(Glyphs)
    /\ text # <<>> => text[Len(text)] = LF
    /\ \A i \in 1 .. Len(text) : text[i] # CR /\ (i > 1 => text[i] \notin {BS, HT})
    /\ text # <<>> /\ text[1] \in {BS, HT} => Len(text) = 2

Moves == {"read pos", "read again", "move"}

Scrolls == {"full?", "copy", "home", "clear from", "clear"}

Writes == {"index", "store", "fetch", "count"}

\* Which character each step is a step of.
InStep ==
    /\ At("idle") <=> pr.text = <<>>
    /\ pr.at \in Moves => In \in {LF, HT}
    /\ pr.at \in Scrolls => In \notin {BS, HT}
    /\ pr.at \in Writes => In \notin {LF, HT}

\* Where a line starts, and a character that moves the cursor finds it.
Inside == 1 .. Size - 1

\* How far a tab goes, and a line feed.
Near == 0 .. Size - 1 + TAB_SIZE

Far == 0 .. Size - 1 + TAB_SIZE + cols

\* The cells a character is stored to; a backspace is never typed in the first.
Target == IF In = BS THEN Inside ELSE Cells

Before == IF In = HT THEN Inside ELSE Near

Bounded ==
    /\ At("idle") => con.pos \in Inside
    /\ pr.at \in Moves => con.pos \in Before
    /\ pr.at \in {"read again", "move"} => pr.a \in Before
    /\ At("move") => pr.b \in Before
    /\ At("full?") => con.pos \in IF In = LF THEN Far \ {0} ELSE 0 .. Size
    /\ pr.at \in {"copy", "home"} => con.pos \in Far /\ pr.a \in 0 .. LastRow
    /\ pr.at \in {"clear from", "clear"} => con.pos \in 1 .. LastRow
    /\ At("clear") => pr.a \in 0 .. Size
    /\ pr.at \in Writes => con.pos \in Target
    /\ pr.at \in {"store", "count"} => pr.a \in Target

Beside ==
    /\ keys \in Seq(Codes) /\ Len(keys) < BUF_SIZE
    /\ shift \in BOOLEAN /\ down \subseteq ShiftKeys /\ sure \in BOOLEAN /\ torn \in BOOLEAN

Printers == [text : Seq(Glyphs), at : Steps, a : Int, b : Int]

TypeInv ==
    /\ Beside /\ con \in Consoles /\ pr \in Printers
    /\ Shape(pr.text) /\ InStep /\ Bounded

\* The first n rows of the screen have moved up.
MovedUp(m, p, n) == \A c \in 0 .. n - 1 : m.cell[c] = Glyph(p, c + cols)

\* How the screen stands to the paper at each step.
Tracking ==
    /\ pr.at \in {"idle"} \cup Moves => Shows(con, paper)
    /\ pr.at \in {"read again", "move"} => pr.a = con.pos
    /\ At("move") => pr.b = con.pos
    /\ At("full?") =>
          IF In = LF THEN Same(con, paper) /\ con.pos = paper.at * cols ELSE Shows(con, paper)
    /\ pr.at \in Scrolls \ {"full?"} =>
          IF In = LF THEN paper.at >= rows ELSE paper.at = rows + 1
    /\ At("copy") =>
          /\ MovedUp(con, paper, pr.a)
          /\ \A c \in pr.a .. Size - 1 : con.cell[c] = Glyph(paper, c)
    /\ pr.at \in {"home", "clear from", "clear"} => MovedUp(con, paper, LastRow)
    /\ pr.at \in {"clear from", "clear"} => con.pos = LastRow
    /\ At("clear") => pr.a >= LastRow /\ \A c \in LastRow .. pr.a - 1 : con.cell[c] = Blank
    /\ pr.at \in {"index", "store"} => Shows(con, Fed(paper))
    /\ pr.at \in Writes /\ In = BS => paper.at <= rows
    /\ pr.at \in {"store", "count"} => pr.a = con.pos
    /\ pr.at \in {"fetch", "count"} => Shows(con, Marked(Fed(paper), In))

Tracks == (torn => paper = BlankSheet) /\ (~torn => Sheet(paper) /\ Tracking)

IInv == TypeInv /\ Tracks

-----------------------------------------------------------------------------
(***************************************************************************)
(* Rows and columns of the screen.                                         *)
(***************************************************************************)
LEMMA ScreenFacts ==
    /\ rows \in Nat /\ rows > 1 /\ cols \in Nat /\ cols > 0
    /\ TAB_SIZE \in Nat /\ TAB_SIZE > 0 /\ TAB_SIZE <= cols
    /\ Size \in Nat /\ LastRow \in Nat /\ LastRow + cols = Size /\ cols <= LastRow
  <1>1. /\ rows \in Nat /\ rows > 1 /\ cols \in Nat /\ cols > 0
        /\ TAB_SIZE \in Nat /\ TAB_SIZE > 0 /\ TAB_SIZE <= cols
    BY VgaAssumption, TextsAssumption
  <1>2. PICK r \in Nat : rows = r + 2
    <2>1. rows - 2 \in Nat /\ rows = (rows - 2) + 2
      BY <1>1
    <2> QED BY <2>1
  <1>3. /\ Size = cols * r + cols + cols /\ LastRow = cols * r + cols /\ cols * r \in Nat
    BY <1>1, <1>2 DEF Size, LastRow
  <1> QED BY <1>1, <1>3

LEMMA RowCol ==
    ASSUME NEW l \in Nat, NEW k \in Cols
    PROVE  /\ l * cols + k \in Nat
           /\ (l * cols + k) \div cols = l /\ (l * cols + k) % cols = k
           /\ l < rows => l * cols + k \in Cells
           /\ l < rows - 1 => l * cols + k < LastRow
  <1>1. cols \in Nat /\ cols > 0 /\ k \in Nat /\ k < cols /\ rows \in Nat
    BY ScreenFacts DEF Cols
  <1>2. l * cols \in Nat
    BY <1>1
  <1>3. (l * cols + k) \div cols = l
    BY <1>1, <1>2
  <1>4. (l * cols + k) % cols = k
    BY <1>1, <1>2
  <1>5. ASSUME NEW n \in Nat, l < n PROVE l * cols + k < n * cols
    <2>1. PICK d \in Nat : n = l + 1 + d
      <3>1. n - l - 1 \in Nat /\ n = l + 1 + (n - l - 1)
        BY <1>5
      <3> QED BY <3>1
    <2>2. n * cols = l * cols + cols + d * cols /\ d * cols \in Nat
      BY <1>1, <2>1
    <2> QED BY <1>1, <1>2, <2>2
  <1>6. LastRow = (rows - 1) * cols /\ rows - 1 \in Nat
    BY ScreenFacts DEF LastRow
  <1> QED BY <1>1, <1>2, <1>3, <1>4, <1>5, <1>6 DEF Cells, Size

LEMMA DivMod ==
    ASSUME NEW a \in Nat, NEW d \in Nat \ {0}
    PROVE  /\ a \div d \in Nat /\ a % d \in 0 .. d - 1 /\ a = (a \div d) * d + (a % d)
           /\ a + d = (a \div d + 1) * d + (a % d)
  OBVIOUS

LEMMA CellSplit ==
    ASSUME NEW c \in Nat
    PROVE  /\ c \div cols \in Nat /\ c % cols \in Cols /\ c = (c \div cols) * cols + (c % cols)
           /\ c < Size => c \div cols \in 0 .. rows - 1
           /\ (c + cols) \div cols = c \div cols + 1 /\ (c + cols) % cols = c % cols
  <1>1. cols \in Nat \ {0} /\ rows \in Nat
    BY ScreenFacts
  <1>2. PICK q \in Nat, k \in Cols :
          q = c \div cols /\ k = c % cols /\ c = q * cols + k /\ c + cols = (q + 1) * cols + k
    <2>1. /\ c \div cols \in Nat /\ c % cols \in 0 .. cols - 1
          /\ c = (c \div cols) * cols + (c % cols)
          /\ c + cols = (c \div cols + 1) * cols + (c % cols)
      BY <1>1, DivMod
    <2> QED BY <2>1 DEF Cols
  <1>3. ASSUME c < Size PROVE q < rows
    <2>1. SUFFICES ASSUME q >= rows PROVE FALSE
      BY <1>1
    <2>2. PICK d \in Nat : q = rows + d
      <3>1. q - rows \in Nat /\ q = rows + (q - rows)
        BY <1>1, <2>1
      <3> QED BY <3>1
    <2>3. q * cols = rows * cols + d * cols /\ d * cols \in Nat
      BY <1>1, <2>2
    <2> QED BY <1>1, <1>2, <1>3, <2>3 DEF Size, Cols
  <1>4. (c + cols) \div cols = q + 1 /\ (c + cols) % cols = k
    <2>1. q + 1 \in Nat
      OBVIOUS
    <2>2. ((q + 1) * cols + k) \div cols = q + 1 /\ ((q + 1) * cols + k) % cols = k
      BY <2>1, RowCol
    <2> QED BY <1>2, <2>2
  <1>5. c < Size => q \in 0 .. rows - 1
    BY <1>1, <1>3
  <1>6. c \div cols \in Nat /\ c % cols \in Cols
    BY <1>2
  <1>7. c = (c \div cols) * cols + (c % cols)
    BY <1>1, DivMod
  <1>8. c < Size => c \div cols \in 0 .. rows - 1
    BY <1>2, <1>5
  <1>9. (c + cols) \div cols = c \div cols + 1 /\ (c + cols) % cols = c % cols
    BY <1>2, <1>4
  <1> QED BY <1>6, <1>7, <1>8, <1>9

-----------------------------------------------------------------------------
(***************************************************************************)
(* The paper: a character typed moves its place by as much as it moves pos.*)
(***************************************************************************)
LEMMA PlaceFacts ==
    ASSUME NEW p \in Sheets
    PROVE  /\ p.at \in Nat /\ p.at >= 1 /\ p.at <= rows + 1 /\ p.col \in Cols /\ p.col \in Nat
           /\ Place(p) \in Nat /\ Place(p) \div cols = p.at - 1 /\ Place(p) % cols = p.col
           /\ p.at <= rows => Place(p) \in Cells
           /\ p.at < rows => Place(p) < LastRow
           /\ p.at > rows => Place(p) = Size + p.col
           /\ p.at * cols = Place(p) + cols - p.col
           /\ p.at <= rows <=> Place(p) < Size
  <1>1. rows \in Nat /\ cols \in Nat
    BY ScreenFacts
  <1>2. p.at \in Nat /\ p.at >= 1 /\ p.at <= rows + 1 /\ p.col \in Cols /\ p.col \in Nat
    BY <1>1 DEF Sheets, Cols
  <1>3. PICK l \in Nat : l = p.at - 1
    BY <1>2
  <1>4. Place(p) = l * cols + p.col /\ p.at * cols = l * cols + cols /\ l * cols \in Nat
    <2>1. (l + 1) * cols = l * cols + cols /\ l * cols \in Nat
      BY <1>1
    <2>2. p.at = l + 1
      BY <1>2, <1>3
    <2> QED BY <1>3, <2>1, <2>2 DEF Place
  <1>5. /\ Place(p) \in Nat /\ Place(p) \div cols = l /\ Place(p) % cols = p.col
        /\ l < rows => Place(p) \in Cells
        /\ l < rows - 1 => Place(p) < LastRow
    BY <1>2, <1>4, RowCol
  <1>6. p.at > rows => Place(p) = Size + p.col
    <2>1. p.at > rows => l = rows
      BY <1>1, <1>2, <1>3
    <2> QED BY <1>4, <2>1 DEF Size
  <1>7. p.at <= rows <=> Place(p) < Size
    BY <1>1, <1>2, <1>3, <1>5, <1>6, ScreenFacts DEF Cells
  <1>8. p.at * cols = Place(p) + cols - p.col
    BY <1>1, <1>2, <1>4
  <1> QED BY <1>1, <1>2, <1>3, <1>5, <1>6, <1>7, <1>8

LEMMA MovedFacts ==
    ASSUME NEW p \in Sheets, NEW n \in Int, Place(p) + n \in 0 .. Size
    PROVE  Sheet(Moved(p, n)) /\ Place(Moved(p, n)) = Place(p) + n /\ Moved(p, n).line = p.line
  <1>1. rows \in Nat /\ cols \in Nat \ {0}
    BY ScreenFacts
  <1>2. PICK q \in Int, k \in Cols :
          q = (p.col + n) \div cols /\ k = (p.col + n) % cols /\ p.col + n = q * cols + k
    <2>1. p.col + n \in Int
      BY PlaceFacts
    <2>2. ASSUME NEW x \in Int
          PROVE  x \div cols \in Int /\ x % cols \in 0 .. cols - 1 /\ x = (x \div cols) * cols + (x % cols)
      BY <1>1
    <2> QED BY <2>1, <2>2 DEF Cols
  <1>3. PICK l \in Int : l = p.at - 1 + q
    BY PlaceFacts
  <1>4. Moved(p, n) = [p EXCEPT !.at = l + 1, !.col = k]
    <2>1. p.at + q = l + 1
      BY <1>3, PlaceFacts
    <2> QED BY <1>2, <2>1 DEF Moved
  <1>5. Place(p) + n = l * cols + k
    <2>1. PICK i \in Int, c \in Int : i = p.at - 1 /\ c = p.col
      BY PlaceFacts
    <2>2. (i + q) * cols = i * cols + q * cols
      BY <1>1
    <2>3. Place(p) = i * cols + c /\ i * cols \in Int /\ q * cols \in Int
      BY <1>1, <2>1 DEF Place
    <2> QED BY <1>2, <1>3, <2>1, <2>2, <2>3 DEF Cols
  <1>6. k \in Nat /\ k < cols
    BY <1>1 DEF Cols
  <1>7. l >= 0
    <2>1. SUFFICES ASSUME l < 0 PROVE FALSE
      OBVIOUS
    <2>2. PICK j \in Nat : l = 0 - 1 - j
      <3>1. 0 - 1 - l \in Nat /\ l = 0 - 1 - (0 - 1 - l)
        BY <2>1
      <3> QED BY <3>1
    <2>3. l * cols = 0 - cols - j * cols /\ j * cols \in Nat
      BY <1>1, <2>2
    <2> QED BY <1>1, <1>5, <1>6, <2>3
  <1>8. l <= rows /\ (l = rows => k = 0)
    <2>1. l \in Nat
      BY <1>7
    <2>2. l > rows => FALSE
      <3>1. SUFFICES ASSUME l > rows PROVE FALSE
        OBVIOUS
      <3>2. PICK j \in Nat : l = rows + 1 + j
        <4>1. l - rows - 1 \in Nat /\ l = rows + 1 + (l - rows - 1)
          BY <1>1, <2>1, <3>1
        <4> QED BY <4>1
      <3>3. l * cols = rows * cols + cols + j * cols /\ j * cols \in Nat /\ rows * cols \in Nat
        BY <1>1, <3>2
      <3> QED BY <1>1, <1>5, <1>6, <3>3 DEF Size
    <2>3. l = rows => k = 0
      <3>1. rows * cols \in Nat
        BY <1>1
      <3> QED BY <1>5, <1>6, <3>1 DEF Size
    <2> QED BY <1>1, <2>1, <2>2, <2>3
  <1>9. PICK m : m = Moved(p, n)
    OBVIOUS
  <1>10. m \in Sheets /\ m.at = l + 1 /\ m.col = k /\ m.line = p.line
    <2>1. PICK a \in 1 .. rows + 1 : a = l + 1
      BY <1>1, <1>7, <1>8
    <2>2. m = [p EXCEPT !.at = a, !.col = k]
      BY <1>4, <1>9, <2>1
    <2> QED BY <2>1, <2>2 DEF Sheets
  <1>11. Place(m) = l * cols + k
    <2>1. (l + 1) - 1 = l
      OBVIOUS
    <2> QED BY <1>10, <2>1 DEF Place
  <1> QED BY <1>1, <1>5, <1>8, <1>9, <1>10, <1>11 DEF Sheet

LEMMA GlyphFacts ==
    ASSUME NEW p \in Sheets, NEW c \in Cells
    PROVE  /\ Glyph(p, c) \in Glyphs
           /\ c < LastRow => c + cols \in Cells
           /\ \A q \in Sheets : Place(q) = c => Glyph(p, c) = p.line[q.at][q.col]
  <1>1. c \in Nat /\ c < Size
    BY ScreenFacts DEF Cells
  <1>2. c \div cols \in 0 .. rows - 1 /\ c % cols \in Cols
    BY <1>1, CellSplit
  <1>3. c \div cols + 1 \in 1 .. rows
    BY <1>2, ScreenFacts
  <1>4. Glyph(p, c) \in Glyphs
    <2>1. p.line[c \div cols + 1] \in [Cols -> Glyphs]
      BY <1>3 DEF Sheets
    <2> QED BY <1>2, <2>1 DEF Glyph
  <1>5. c < LastRow => c + cols \in Cells
    BY <1>1, ScreenFacts DEF Cells
  <1>6. ASSUME NEW q \in Sheets, Place(q) = c PROVE Glyph(p, c) = p.line[q.at][q.col]
    <2>1. c \div cols = q.at - 1 /\ c % cols = q.col /\ q.at \in Nat
      BY <1>6, PlaceFacts
    <2>2. c \div cols + 1 = q.at
      BY <2>1
    <2> QED BY <2>1, <2>2 DEF Glyph
  <1> QED BY <1>4, <1>5, <1>6

LEMMA UpFacts ==
    ASSUME NEW p \in Sheets
    PROVE  /\ Sheet(Up(p)) /\ Up(p).at = rows /\ Up(p).col = 0 /\ Place(Up(p)) = LastRow
           /\ \A c \in Cells : Glyph(Up(p), c) = IF c < LastRow THEN Glyph(p, c + cols) ELSE Blank
           /\ Up(p).line = Append(Tail(p.line), BlankLine)
  <1>1. rows \in Nat /\ rows > 1 /\ cols \in Nat \ {0}
    BY ScreenFacts
  <1> DEFINE L == [Cols -> Glyphs]
  <1>2. BlankLine \in L /\ \A k \in Cols : BlankLine[k] = Blank
    BY DEF BlankLine, Cols, Glyphs
  <1>3. PICK s : s = p.line
    OBVIOUS
  <1>4. s \in [1 .. rows -> L]
    BY <1>3 DEF Sheets
  <1>5. PICK z : z = Append(Tail(s), BlankLine)
    OBVIOUS
  <1>6. /\ z \in [1 .. rows -> L] /\ z[rows] = BlankLine
        /\ \A i \in 1 .. rows - 1 : z[i] = s[i + 1]
    <2> HIDE DEF L
    <2>1. s \in Seq(L) /\ Len(s) = rows
      BY <1>1, <1>4
    <2>2. s # <<>>
      BY <1>1, <2>1
    <2>3. PICK t : t = Tail(s)
      OBVIOUS
    <2>4. t \in Seq(L) /\ Len(t) = rows - 1 /\ \A i \in 1 .. rows - 1 : t[i] = s[i + 1]
      BY <1>1, <2>1, <2>2, <2>3, HeadTailProperties
    <2>5. /\ z \in Seq(L) /\ Len(z) = rows /\ z[rows] = BlankLine
          /\ \A i \in 1 .. rows - 1 : z[i] = t[i]
      BY <1>1, <1>2, <1>5, <2>3, <2>4, AppendProperties
    <2>6. z \in [1 .. rows -> L]
      BY <2>5
    <2> QED BY <2>4, <2>5, <2>6
  <1>7. PICK u : u = Up(p)
    OBVIOUS
  <1>8. u \in Sheets /\ u.line = z /\ u.at = rows /\ u.col = 0
    <2>1. rows \in 1 .. rows + 1 /\ 0 \in Cols
      BY <1>1 DEF Cols
    <2>2. u = [p EXCEPT !.line = z, !.at = rows, !.col = 0]
      BY <1>3, <1>5, <1>7 DEF Up
    <2> QED BY <1>6, <2>1, <2>2 DEF Sheets
  <1>9. Place(u) = LastRow
    <2>1. (rows - 1) * cols = cols * (rows - 1) /\ (rows - 1) * cols \in Nat
      BY <1>1
    <2> QED BY <1>8, <2>1 DEF Place, LastRow
  <1>10. ASSUME NEW c \in Cells PROVE Glyph(u, c) = IF c < LastRow THEN Glyph(p, c + cols) ELSE Blank
    <2>1. c \in Nat /\ c < Size
      BY ScreenFacts DEF Cells
    <2>2. PICK q \in Nat, k \in Cols : q = c \div cols /\ k = c % cols /\ c = q * cols + k
      BY <2>1, CellSplit
    <2>3. q \in 0 .. rows - 1 /\ (c + cols) \div cols = q + 1 /\ (c + cols) % cols = k
      BY <2>1, <2>2, CellSplit
    <2>4. CASE q < rows - 1
      <3>1. c < LastRow
        BY <2>2, <2>4, RowCol
      <3>2. q + 1 \in 1 .. rows - 1 /\ z[q + 1] = s[(q + 1) + 1]
        BY <1>1, <1>6, <2>4
      <3> QED BY <1>3, <1>8, <2>2, <2>3, <3>1, <3>2 DEF Glyph
    <2>5. CASE q = rows - 1
      <3>1. q * cols = LastRow
        BY <1>1, <2>5 DEF LastRow
      <3>2. ~ (c < LastRow)
        BY <2>2, <3>1, ScreenFacts DEF Cols
      <3>3. q + 1 = rows
        BY <1>1, <2>5
      <3> QED BY <1>2, <1>6, <1>8, <2>2, <3>2, <3>3 DEF Glyph
    <2> QED BY <1>1, <2>3, <2>4, <2>5
  <1>11. rows # rows + 1
    BY <1>1
  <1> QED BY <1>3, <1>5, <1>7, <1>8, <1>9, <1>10, <1>11 DEF Sheet

LEMMA FedFacts ==
    ASSUME NEW p, Sheet(p)
    PROVE  /\ Fed(p) = IF p.at <= rows THEN p ELSE Up(p)
           /\ Sheet(Fed(p)) /\ Fed(p).at <= rows
  <1>1. p \in Sheets /\ rows \in Nat
    BY ScreenFacts DEF Sheet
  <1>2. Sheet(Up(p)) /\ Up(p).at = rows
    BY <1>1, UpFacts
  <1>3. CASE p.at <= rows
    BY <1>1, <1>3 DEF Fed
  <1>4. CASE ~ (p.at <= rows)
    <2>1. p.col = 0
      BY <1>1, <1>4, PlaceFacts DEF Sheet
    <2>2. PICK z : z = Append(Tail(p.line), BlankLine)
      OBVIOUS
    <2>3. Fed(p) = [p EXCEPT !.line = z, !.at = rows] /\ Up(p) = [p EXCEPT !.line = z, !.at = rows, !.col = 0]
      BY <1>4, <2>2 DEF Fed, Up
    <2>4. Fed(p) = Up(p)
      BY <1>1, <2>1, <2>3 DEF Sheets
    <2> QED BY <1>1, <1>2, <1>4, <2>4
  <1> QED BY <1>3, <1>4

LEMMA MarkedFacts ==
    ASSUME NEW p, Sheet(p), p.at <= rows, NEW in \in Glyphs
    PROVE  /\ Sheet(Marked(p, in)) /\ Marked(p, in).at = p.at /\ Place(Marked(p, in)) = Place(p)
           /\ \A c \in Cells :
                 Glyph(Marked(p, in), c) =
                    IF c = Place(p) THEN IF in = BS THEN Blank ELSE in ELSE Glyph(p, c)
  <1>1. PICK g \in Glyphs : g = IF in = BS THEN Blank ELSE in
    BY DEF Glyphs
  <1>2. p \in Sheets /\ p.at \in 1 .. rows /\ p.col \in Cols /\ rows \in Nat
    <2>1. p \in Sheets /\ rows \in Nat
      BY ScreenFacts DEF Sheet
    <2> QED BY <2>1, PlaceFacts
  <1>3. PICK m : m = Marked(p, in)
    OBVIOUS
  <1>4. m = [p EXCEPT !.line[p.at][p.col] = g]
    BY <1>1, <1>3 DEF Marked
  <1>5. /\ m \in Sheets /\ m.at = p.at /\ m.col = p.col
        /\ \A l \in 1 .. rows, k \in Cols :
              m.line[l][k] = IF l = p.at /\ k = p.col THEN g ELSE p.line[l][k]
    BY <1>2, <1>4 DEF Sheets
  <1>6. ASSUME NEW c \in Cells PROVE Glyph(m, c) = IF c = Place(p) THEN g ELSE Glyph(p, c)
    <2>1. c \in Nat /\ c < Size
      BY ScreenFacts DEF Cells
    <2>2. PICK q \in 0 .. rows - 1, k \in Cols : q = c \div cols /\ k = c % cols /\ c = q * cols + k
      BY <2>1, CellSplit
    <2>3. q + 1 \in 1 .. rows
      BY <1>2
    <2>4. Glyph(m, c) = m.line[q + 1][k] /\ Glyph(p, c) = p.line[q + 1][k]
      BY <2>2 DEF Glyph
    <2>5. c = Place(p) <=> q + 1 = p.at /\ k = p.col
      <3>1. Place(p) \div cols = p.at - 1 /\ Place(p) % cols = p.col /\ p.at \in Nat
        BY <1>2, PlaceFacts
      <3>2. c = Place(p) => q + 1 = p.at /\ k = p.col
        <4>1. c = Place(p) => q = p.at - 1 /\ k = p.col
          BY <2>2, <3>1
        <4>2. q = p.at - 1 => q + 1 = p.at
          BY <3>1
        <4> QED BY <4>1, <4>2
      <3>3. q + 1 = p.at /\ k = p.col => c = Place(p)
        <4>1. q + 1 = p.at => p.at - 1 = q
          OBVIOUS
        <4> QED BY <2>2, <4>1 DEF Place
      <3> QED BY <3>2, <3>3
    <2> QED BY <1>5, <2>3, <2>4, <2>5
  <1>7. Place(m) = Place(p)
    BY <1>5 DEF Place
  <1>8. Sheet(m)
    BY <1>2, <1>5 DEF Sheet
  <1> QED BY <1>1, <1>3, <1>5, <1>6, <1>7, <1>8

LEMMA TypedFacts ==
    ASSUME NEW p, Sheet(p)
    PROVE  /\ Typed(p, LF) = IF p.at < rows THEN [p EXCEPT !.at = @ + 1, !.col = 0] ELSE Up(p)
           /\ Sheet(Typed(p, LF))
           /\ p.at < rows => Place(Typed(p, LF)) = p.at * cols /\ Typed(p, LF).line = p.line
           /\ p.at < rows <=> p.at * cols < Size
           /\ Typed(p, HT) = Moved(p, TAB_SIZE - (p.col % TAB_SIZE))
           /\ Typed(p, BS) = Moved(Marked(p, BS), -1)
           /\ \A in \in Glyphs \ {LF, BS, HT, CR} : Typed(p, in) = Moved(Marked(Fed(p), in), 1)
  <1>1. p \in Sheets /\ rows \in Nat /\ p.at \in 1 .. rows + 1 /\ cols \in Nat \ {0}
    BY ScreenFacts DEF Sheet, Sheets
  <1>2. PICK z : z = Append(Tail(p.line), BlankLine)
    OBVIOUS
  <1>3. PICK f : f = [p EXCEPT !.at = @ + 1, !.col = 0]
    OBVIOUS
  <1>4. Typed(p, LF) = Fed(f)
    BY <1>3 DEF Typed, LF, BS, HT, CR
  <1>5. f = [line |-> p.line, at |-> p.at + 1, col |-> 0]
    BY <1>1, <1>3 DEF Sheets
  <1>8. Typed(p, BS) = Moved(Marked(p, BS), -1)
    BY DEF Typed, Marked, LF, BS, HT, CR
  <1>9. ASSUME NEW in \in Glyphs \ {LF, BS, HT, CR} PROVE Typed(p, in) = Moved(Marked(Fed(p), in), 1)
    BY DEF Typed, Marked, LF, BS, HT, CR
  <1>10. Typed(p, HT) = Moved(p, TAB_SIZE - (p.col % TAB_SIZE))
    BY DEF Typed, LF, BS, HT, CR
  <1>6. CASE p.at < rows
    <2>1. f \in Sheets
      <3>1. p.at + 1 \in 1 .. rows + 1 /\ 0 \in Cols
        BY <1>1, <1>6 DEF Cols
      <3> QED BY <1>1, <1>5, <3>1 DEF Sheets
    <2>2. Fed(f) = f
      BY <1>1, <1>5, <1>6 DEF Fed
    <2>3. Place(f) = p.at * cols
      <3>1. (f.at - 1) = p.at /\ f.col = 0 /\ p.at * cols \in Nat
        BY <1>1, <1>5
      <3> QED BY <3>1 DEF Place
    <2>4. f.at < rows + 1
      BY <1>1, <1>5, <1>6
    <2>5. p.at * cols < Size
      BY <1>1, <1>5, <1>6, <2>1, <2>3, PlaceFacts
    <2>6. Sheet(f) /\ f.line = p.line
      BY <1>5, <2>1, <2>4 DEF Sheet
    <2>7. Typed(p, LF) = f
      BY <1>4, <2>2
    <2> QED BY <1>3, <1>6, <2>3, <2>5, <2>6, <2>7, <1>8, <1>9, <1>10
  <1>7. CASE ~ (p.at < rows)
    <2>1. Fed(f) = [f EXCEPT !.line = Append(Tail(@), BlankLine), !.at = rows]
      BY <1>1, <1>5, <1>7 DEF Fed
    <2>2. Fed(f) = [line |-> z, at |-> rows, col |-> 0]
      BY <1>2, <1>5, <2>1
    <2>3. Up(p) = [line |-> z, at |-> rows, col |-> 0]
      <3>1. p = [line |-> p.line, at |-> p.at, col |-> p.col]
        BY <1>1 DEF Sheets
      <3>2. Up(p) = [p EXCEPT !.line = z, !.at = rows, !.col = 0]
        BY <1>2 DEF Up
      <3> QED BY <3>1, <3>2
    <2>4. Sheet(Up(p))
      BY <1>1, UpFacts
    <2>5. ~ (p.at * cols < Size)
      <3>1. CASE p.at = rows
        <4>1. p.at * cols = Size /\ Size \in Nat
          BY <3>1, ScreenFacts DEF Size
        <4> QED BY <4>1
      <3>2. CASE p.at > rows
        <4>1. Place(p) = Size + p.col /\ p.at * cols = Place(p) + cols - p.col /\ Size \in Nat /\ p.col \in Nat
          BY <1>1, <3>2, PlaceFacts, ScreenFacts
        <4> QED BY <1>1, <4>1
      <3> QED BY <1>1, <1>7, <3>1, <3>2
    <2>6. Typed(p, LF) = Up(p)
      BY <1>4, <2>2, <2>3
    <2> QED BY <1>7, <2>4, <2>5, <2>6, <1>8, <1>9, <1>10
  <1> QED BY <1>6, <1>7

-----------------------------------------------------------------------------
(***************************************************************************)
(* The screen: what each character printed without interruption does.      *)
(***************************************************************************)
LEMMA PutFacts ==
    ASSUME NEW m \in Consoles, NEW c \in Cells, NEW g \in Glyphs
    PROVE  /\ Put(m, c, g) \in Consoles /\ Put(m, c, g).pos = m.pos
           /\ \A e \in Cells : Put(m, c, g).cell[e] = IF e = c THEN g ELSE m.cell[e]
  <1>1. Put(m, c, g) = [m EXCEPT !.cell[c] = g]
    BY DEF Put
  <1> QED BY <1>1 DEF Consoles

LEMMA PosSet ==
    ASSUME NEW m \in Consoles, NEW pos \in Int
    PROVE  /\ [m EXCEPT !.pos = pos] \in Consoles /\ [m EXCEPT !.pos = pos].pos = pos
           /\ [m EXCEPT !.pos = pos].cell = m.cell
  BY DEF Consoles

LEMMA ScrollFacts ==
    ASSUME NEW m \in Consoles, m.pos \in Nat
    PROVE  /\ Scroll(m) \in Consoles /\ Scroll(m).pos \in Cells
           /\ Scroll(m).pos = IF m.pos < Size THEN m.pos ELSE LastRow
           /\ m.pos < Size => Scroll(m) = m
           /\ ~ (m.pos < Size) =>
                \A c \in Cells :
                    Scroll(m).cell[c] = IF c < LastRow THEN m.cell[c + cols] ELSE Blank
  <1>1. CASE m.pos < Size
    BY <1>1, ScreenFacts DEF Scroll, Cells
  <1>2. CASE ~ (m.pos < Size)
    <2>1. PICK f : f = [p \in Cells |-> IF p < LastRow THEN m.cell[p + cols] ELSE Blank]
      OBVIOUS
    <2>2. f \in [Cells -> Glyphs]
      <3>1. ASSUME NEW c \in Cells PROVE (IF c < LastRow THEN m.cell[c + cols] ELSE Blank) \in Glyphs
        <4>1. c < LastRow => c + cols \in Cells
          BY ScreenFacts DEF Cells
        <4> QED BY <4>1 DEF Consoles, Glyphs
      <3> QED BY <2>1, <3>1
    <2>3. Scroll(m) = [m EXCEPT !.cell = f, !.pos = LastRow]
      BY <1>2, <2>1 DEF Scroll
    <2>4. LastRow \in Cells /\ LastRow \in Int
      BY ScreenFacts DEF Cells
    <2>5. Scroll(m) \in Consoles /\ Scroll(m).pos = LastRow /\ Scroll(m).cell = f
      BY <2>2, <2>3, <2>4 DEF Consoles
    <2> QED BY <1>2, <2>1, <2>4, <2>5
  <1> QED BY <1>1, <1>2

LEMMA WrittenFacts ==
    ASSUME NEW m \in Consoles, m.pos \in Nat, NEW in \in Glyphs
    PROVE  /\ Written(m, in) \in Consoles /\ Written(m, in).pos = Scroll(m).pos + 1
           /\ \A c \in Cells :
                Written(m, in).cell[c] = IF c = Scroll(m).pos THEN in ELSE Scroll(m).cell[c]
  <1>1. PICK s \in Consoles : s = Scroll(m) /\ s.pos \in Cells
    BY ScrollFacts
  <1>2. s.pos \in Int
    BY DEF Consoles
  <1>3. PICK w \in Consoles :
          /\ w = Put(s, s.pos, in) /\ w.pos = s.pos
          /\ \A e \in Cells : w.cell[e] = IF e = s.pos THEN in ELSE s.cell[e]
    BY <1>1, PutFacts
  <1>4. Written(m, in) = [w EXCEPT !.pos = s.pos + 1]
    BY <1>1, <1>3 DEF Written
  <1>5. s.pos + 1 \in Int
    BY <1>2
  <1> QED BY <1>1, <1>3, <1>4, <1>5, PosSet

LEMMA FeedFacts ==
    ASSUME NEW p \in Nat
    PROVE  /\ FeedFrom(p, p) \in Nat /\ FeedFrom(p, p) >= 1
           /\ FeedFrom(p, p) < Size => FeedFrom(p, p) \in 1 .. LastRow
           /\ \A s \in Sheets : Place(s) = p => FeedFrom(p, p) = s.at * cols
           /\ \A a \in Nat : FeedFrom(a, p) \in a + 1 .. a + cols
  <1>1. cols \in Nat \ {0} /\ rows \in Nat
    BY ScreenFacts
  <1>2. PICK q \in Nat, k \in Cols : q = p \div cols /\ k = p % cols /\ p = q * cols + k
    BY CellSplit
  <1>3. FeedFrom(p, p) = (q + 1) * cols /\ (q + 1) * cols = q * cols + cols /\ q * cols \in Nat
    <2>1. (q + 1) * cols = q * cols + cols /\ q * cols \in Nat
      BY <1>1
    <2>2. FeedFrom(p, p) = q * cols + k + (cols - k)
      BY <1>2 DEF FeedFrom
    <2> QED BY <1>1, <2>1, <2>2 DEF Cols
  <1>4. FeedFrom(p, p) \in Nat /\ FeedFrom(p, p) >= 1
    BY <1>1, <1>3
  <1>5. ASSUME FeedFrom(p, p) < Size PROVE FeedFrom(p, p) <= LastRow
    <2>1. SUFFICES ASSUME ~ (FeedFrom(p, p) <= LastRow) PROVE FALSE
      OBVIOUS
    <2>2. PICK l \in Nat, z \in Cols : l = q + 1 /\ z = 0
      BY <1>1 DEF Cols
    <2>3. ~ (q + 1 < rows - 1)
      <3>1. SUFFICES ASSUME l < rows - 1 PROVE FALSE
        BY <2>2
      <3>2. l * cols + z < LastRow
        BY <3>1, RowCol
      <3>3. l * cols = FeedFrom(p, p) /\ l * cols \in Nat
        BY <1>3, <1>4, <2>2
      <3> QED BY <2>1, <2>2, <3>2, <3>3, ScreenFacts
    <2>4. q + 1 # rows - 1
      <3>1. LastRow = (rows - 1) * cols
        BY <1>1 DEF LastRow
      <3> QED BY <1>3, <2>1, <3>1, ScreenFacts
    <2>5. PICK d \in Nat : q + 1 = rows + d
      <3>1. q + 1 - rows \in Nat /\ q + 1 = rows + (q + 1 - rows)
        BY <1>1, <2>3, <2>4
      <3> QED BY <3>1
    <2>6. (q + 1) * cols = rows * cols + d * cols /\ d * cols \in Nat /\ rows * cols \in Nat
      BY <1>1, <2>5
    <2> QED BY <1>3, <1>5, <2>6 DEF Size
  <1>6. ASSUME NEW s \in Sheets, Place(s) = p PROVE FeedFrom(p, p) = s.at * cols
    <2>1. q = s.at - 1 /\ s.at \in Nat
      BY <1>2, <1>6, PlaceFacts
    <2>2. q + 1 = s.at
      BY <2>1
    <2> QED BY <1>3, <2>2
  <1>7. ASSUME NEW a \in Nat PROVE FeedFrom(a, p) \in a + 1 .. a + cols
    <2>1. FeedFrom(a, p) = a + (cols - k)
      BY <1>2 DEF FeedFrom
    <2> QED BY <1>1, <2>1 DEF Cols
  <1> QED BY <1>4, <1>5, <1>6, <1>7, ScreenFacts

\* A screen whose rows moved up, and whose last row is clear, shows the paper
\* moved up.
LEMMA UpShown ==
    ASSUME NEW p, Sheet(p), NEW m, m.pos = LastRow, MovedUp(m, p, LastRow),
           \A c \in LastRow .. Size - 1 : m.cell[c] = Blank
    PROVE  Shows(m, Up(p))
  <1>1. /\ Place(Up(p)) = LastRow
        /\ \A c \in Cells : Glyph(Up(p), c) = IF c < LastRow THEN Glyph(p, c + cols) ELSE Blank
    BY UpFacts DEF Sheet
  <1>2. ASSUME NEW c \in Cells PROVE m.cell[c] = Glyph(Up(p), c)
    <2>1. c < LastRow => c \in 0 .. LastRow - 1
      BY ScreenFacts DEF Cells
    <2>2. ~ (c < LastRow) => c \in LastRow .. Size - 1
      BY ScreenFacts DEF Cells
    <2> QED BY <1>1, <2>1, <2>2 DEF MovedUp
  <1> QED BY <1>1, <1>2 DEF Shows, Same

LEMMA ScrollShown ==
    ASSUME NEW p, Sheet(p), NEW m \in Consoles, m.pos \in Nat, ~ (m.pos < Size), Same(m, p)
    PROVE  Shows(Scroll(m), Up(p))
  <1>1. PICK s : s = Scroll(m)
    OBVIOUS
  <1>2. /\ s.pos = LastRow
        /\ \A c \in Cells : s.cell[c] = IF c < LastRow THEN m.cell[c + cols] ELSE Blank
    BY <1>1, ScrollFacts
  <1>3. MovedUp(s, p, LastRow)
    <2>1. ASSUME NEW c \in 0 .. LastRow - 1 PROVE s.cell[c] = Glyph(p, c + cols)
      <3>1. c \in Cells /\ c < LastRow /\ c + cols \in Cells
        BY ScreenFacts DEF Cells
      <3> QED BY <1>2, <3>1 DEF Same
    <2> QED BY <2>1 DEF MovedUp
  <1>4. ASSUME NEW c \in LastRow .. Size - 1 PROVE s.cell[c] = Blank
    <2>1. c \in Cells /\ ~ (c < LastRow)
      BY ScreenFacts DEF Cells
    <2> QED BY <1>2, <2>1
  <1>5. Shows(s, Up(p))
    BY <1>2, <1>3, <1>4, UpShown
  <1> QED BY <1>1, <1>5

\* The character stored where the paper takes it.
LEMMA MarkShown ==
    ASSUME NEW p, Sheet(p), p.at <= rows, NEW m, Shows(m, p), NEW in \in Glyphs, NEW w,
           \A c \in Cells : w.cell[c] = IF c = m.pos THEN IF in = BS THEN Blank ELSE in ELSE m.cell[c]
    PROVE  Same(w, Marked(p, in))
  <1>1. ASSUME NEW c \in Cells PROVE w.cell[c] = Glyph(Marked(p, in), c)
    BY MarkedFacts DEF Shows, Same
  <1> QED BY <1>1 DEF Same

\* The paper moved, the cells are the same.
LEMMA SameLines ==
    ASSUME NEW m, NEW w, NEW p, NEW q, Same(m, p), w.cell = m.cell, q.line = p.line
    PROVE  Same(w, q)
  BY DEF Same, Glyph

LEMMA LineFed ==
    ASSUME NEW m \in Consoles, m.pos \in Nat
    PROVE  /\ PrintChar(m, LF) \in Consoles /\ PrintChar(m, LF).pos \in 1 .. LastRow
           /\ \A p : Sheet(p) /\ Shows(m, p) =>
                 Sheet(Typed(p, LF)) /\ Shows(PrintChar(m, LF), Typed(p, LF))
           /\ \A p : Sheet(p) /\ Shows(m, p) => Typed(p, LF).col = 0
  <1>1. PICK f : f = [m EXCEPT !.pos = FeedFrom(m.pos, m.pos)]
    OBVIOUS
  <1>2. /\ f \in Consoles /\ f.pos = FeedFrom(m.pos, m.pos) /\ f.cell = m.cell
        /\ f.pos \in Nat /\ f.pos >= 1 /\ (f.pos < Size => f.pos \in 1 .. LastRow)
    BY <1>1, PosSet, FeedFacts
  <1>3. PrintChar(m, LF) = Scroll(f)
    BY <1>1 DEF PrintChar, LF, BS, HT, CR
  <1>4. Scroll(f) \in Consoles /\ Scroll(f).pos \in 1 .. LastRow
    <2>1. LastRow \in 1 .. LastRow
      BY ScreenFacts
    <2> QED BY <1>2, <2>1, ScrollFacts
  <1>5. ASSUME NEW p, Sheet(p), Shows(m, p)
        PROVE  /\ Sheet(Typed(p, LF)) /\ Shows(Scroll(f), Typed(p, LF)) /\ Typed(p, LF).col = 0
    <2>1. p \in Sheets /\ rows \in Nat
      BY <1>5, ScreenFacts DEF Sheet
    <2>2. f.pos = p.at * cols
      BY <1>2, <1>5, <2>1, FeedFacts DEF Shows
    <2>3. /\ Typed(p, LF) = IF p.at < rows THEN [p EXCEPT !.at = @ + 1, !.col = 0] ELSE Up(p)
          /\ Sheet(Typed(p, LF)) /\ (p.at < rows <=> p.at * cols < Size)
          /\ p.at < rows => Place(Typed(p, LF)) = p.at * cols /\ Typed(p, LF).line = p.line
      BY <1>5, TypedFacts
    <2>4. Same(f, p)
      BY <1>2, <1>5, SameLines DEF Shows
    <2>5. CASE p.at < rows
      <3>1. Scroll(f) = f
        BY <1>2, <2>2, <2>3, <2>5, ScrollFacts
      <3>2. Same(f, Typed(p, LF))
        BY <2>3, <2>4, <2>5, SameLines
      <3>3. Typed(p, LF).col = 0
        BY <2>1, <2>3, <2>5 DEF Sheets
      <3> QED BY <2>2, <2>3, <2>5, <3>1, <3>2, <3>3 DEF Shows
    <2>6. CASE ~ (p.at < rows)
      <3>1. Shows(Scroll(f), Up(p))
        BY <1>2, <1>5, <2>2, <2>3, <2>4, <2>6, ScrollShown
      <3>2. Up(p).col = 0
        BY <2>1, UpFacts
      <3> QED BY <2>3, <2>6, <3>1, <3>2
    <2> QED BY <2>5, <2>6
  <1> QED BY <1>3, <1>4, <1>5

LEMMA CharWritten ==
    ASSUME NEW m \in Consoles, m.pos \in Nat, NEW in \in Glyphs \ {LF, BS, HT, CR}
    PROVE  /\ PrintChar(m, in) \in Consoles /\ PrintChar(m, in).pos \in 1 .. Size
           /\ \A p : Sheet(p) /\ Shows(m, p) =>
                 Sheet(Typed(p, in)) /\ Shows(PrintChar(m, in), Typed(p, in))
  <1>1. PrintChar(m, in) = Written(m, in)
    BY DEF PrintChar, LF, BS, HT, CR
  <1>2. PICK s \in Consoles : s = Scroll(m) /\ s.pos \in Cells
    BY ScrollFacts
  <1>3. PICK w \in Consoles :
          /\ w = Written(m, in) /\ w.pos = s.pos + 1
          /\ \A c \in Cells : w.cell[c] = IF c = s.pos THEN in ELSE s.cell[c]
    BY <1>2, WrittenFacts
  <1>4. w.pos \in 1 .. Size
    BY <1>2, <1>3, ScreenFacts DEF Cells
  <1>5. ASSUME NEW p, Sheet(p), Shows(m, p) PROVE Sheet(Typed(p, in)) /\ Shows(w, Typed(p, in))
    <2>1. p \in Sheets /\ rows \in Nat
      BY <1>5, ScreenFacts DEF Sheet
    <2>2. PICK f : f = Fed(p)
      OBVIOUS
    <2>3. Sheet(f) /\ f.at <= rows /\ f = IF p.at <= rows THEN p ELSE Up(p)
      BY <1>5, <2>2, FedFacts
    <2>4. Shows(s, f)
      <3>1. CASE p.at <= rows
        <4>1. m.pos < Size
          BY <1>5, <2>1, <3>1, PlaceFacts DEF Shows
        <4>2. s = m
          BY <1>2, <4>1, ScrollFacts
        <4> QED BY <1>5, <2>3, <3>1, <4>2
      <3>2. CASE ~ (p.at <= rows)
        <4>1. ~ (m.pos < Size)
          BY <1>5, <2>1, <3>2, PlaceFacts DEF Shows
        <4>2. Shows(s, Up(p))
          BY <1>2, <1>5, <4>1, ScrollShown DEF Shows
        <4> QED BY <2>3, <3>2, <4>2
      <3> QED BY <3>1, <3>2
    <2>5. PICK q : q = Marked(f, in)
      OBVIOUS
    <2>6. Sheet(q) /\ Place(q) = s.pos
      BY <2>3, <2>4, <2>5, MarkedFacts DEF Shows
    <2>7. Same(w, q)
      <3>1. in # BS
        OBVIOUS
      <3>2. \A c \in Cells : w.cell[c] = IF c = s.pos THEN IF in = BS THEN Blank ELSE in ELSE s.cell[c]
        BY <1>3, <3>1
      <3> QED BY <2>3, <2>4, <2>5, <3>2, MarkShown
    <2>8. Typed(p, in) = Moved(q, 1)
      BY <1>5, <2>2, <2>5, TypedFacts
    <2>9. q \in Sheets /\ Place(q) + 1 \in 0 .. Size
      BY <1>2, <2>6, ScreenFacts DEF Sheet, Cells
    <2>10. Sheet(Moved(q, 1)) /\ Place(Moved(q, 1)) = s.pos + 1 /\ Moved(q, 1).line = q.line
      BY <2>6, <2>9, MovedFacts
    <2>11. Same(w, Moved(q, 1))
      BY <2>7, <2>10, SameLines
    <2> QED BY <1>3, <2>8, <2>10, <2>11 DEF Shows
  <1> QED BY <1>1, <1>3, <1>4, <1>5

\* A tab takes the cursor as far as the paper.
LEMMA TabFacts ==
    ASSUME NEW p \in Nat
    PROVE  /\ \A a \in Nat : TabFrom(a, p) \in a + 1 .. a + TAB_SIZE
           /\ \A s : Sheet(s) /\ Place(s) = p /\ s.at <= rows =>
                 /\ Sheet(Typed(s, HT)) /\ Place(Typed(s, HT)) = TabFrom(p, p)
                 /\ Typed(s, HT).line = s.line
                 /\ s.col = 0 /\ TAB_SIZE < cols => TabFrom(p, p) < Size
  <1>1. cols \in Nat \ {0} /\ rows \in Nat /\ TAB_SIZE \in Nat \ {0} /\ TAB_SIZE <= cols
    BY ScreenFacts
  <1>2. PICK k \in Nat : k = p % cols /\ k < cols
    <2>1. p % cols \in 0 .. cols - 1
      BY <1>1, DivMod
    <2> QED BY <1>1, <2>1
  <1>3. PICK t \in 0 .. TAB_SIZE - 1 : t = k % TAB_SIZE
    BY <1>1, <1>2, DivMod
  <1>4. \A a \in Nat : TabFrom(a, p) = a + (TAB_SIZE - t)
    BY <1>2, <1>3 DEF TabFrom
  <1>5. \A a \in Nat : TabFrom(a, p) \in a + 1 .. a + TAB_SIZE
    BY <1>1, <1>3, <1>4
  <1>6. ASSUME NEW s, Sheet(s), Place(s) = p, s.at <= rows
        PROVE  /\ Sheet(Typed(s, HT)) /\ Place(Typed(s, HT)) = TabFrom(p, p)
               /\ Typed(s, HT).line = s.line
               /\ s.col = 0 /\ TAB_SIZE < cols => TabFrom(p, p) < Size
    <2>1. s \in Sheets
      BY <1>6 DEF Sheet
    <2>2. k = s.col /\ p < Size /\ s.at \in Nat /\ s.at >= 1
      BY <1>2, <1>6, <2>1, PlaceFacts
    <2>3. Typed(s, HT) = Moved(s, TAB_SIZE - t)
      BY <1>3, <1>6, <2>2, TypedFacts
    <2>4. k + (TAB_SIZE - t) <= cols
      <3>1. PICK u \in Nat : cols = u * TAB_SIZE
        <4>1. cols % TAB_SIZE = 0
          BY VgaAssumption
        <4>2. cols = (cols \div TAB_SIZE) * TAB_SIZE + (cols % TAB_SIZE) /\ cols \div TAB_SIZE \in Nat
          BY <1>1, DivMod
        <4>3. PICK u \in Nat : u = cols \div TAB_SIZE
          BY <4>2
        <4>4. cols = u * TAB_SIZE + 0 /\ u * TAB_SIZE \in Nat
          BY <1>1, <4>1, <4>2, <4>3
        <4> QED BY <4>4
      <3>2. PICK v \in Nat : k = v * TAB_SIZE + t
        <4>1. k \div TAB_SIZE \in Nat /\ k = (k \div TAB_SIZE) * TAB_SIZE + (k % TAB_SIZE)
          BY <1>1, <1>2, DivMod
        <4>2. k % TAB_SIZE = t
          BY <1>3
        <4> QED BY <4>1, <4>2
      <3>3. v < u
        <4>1. SUFFICES ASSUME v >= u PROVE FALSE
          OBVIOUS
        <4>2. PICK d \in Nat : v = u + d
          <5>1. v - u \in Nat /\ v = u + (v - u)
            BY <4>1
          <5> QED BY <5>1
        <4>3. v * TAB_SIZE = u * TAB_SIZE + d * TAB_SIZE /\ d * TAB_SIZE \in Nat
          BY <1>1, <4>2
        <4> QED BY <1>1, <1>2, <3>1, <3>2, <4>3
      <3>4. PICK d \in Nat : u = v + 1 + d
        <4>1. u - v - 1 \in Nat /\ u = v + 1 + (u - v - 1)
          BY <3>3
        <4> QED BY <4>1
      <3>5. u * TAB_SIZE = v * TAB_SIZE + TAB_SIZE + d * TAB_SIZE /\ d * TAB_SIZE \in Nat /\ v * TAB_SIZE \in Nat
        BY <1>1, <3>4
      <3> QED BY <1>1, <3>1, <3>2, <3>5
    <2>5. p + cols - k <= Size
      <3>1. s.at * cols = p + cols - s.col
        BY <1>6, <2>1, PlaceFacts
      <3>2. s.at * cols <= Size
        <4>1. PICK d \in Nat : rows = s.at + d
          <5>1. rows - s.at \in Nat /\ rows = s.at + (rows - s.at)
            BY <1>1, <1>6, <2>2
          <5> QED BY <5>1
        <4>2. rows * cols = s.at * cols + d * cols /\ d * cols \in Nat /\ s.at * cols \in Nat
          BY <1>1, <2>2, <4>1
        <4> QED BY <4>2 DEF Size
      <3> QED BY <2>2, <3>1, <3>2
    <2>6. p + (TAB_SIZE - t) \in 0 .. Size /\ TAB_SIZE - t \in Int
      BY <1>1, <1>2, <2>4, <2>5, ScreenFacts
    <2>7. /\ Sheet(Moved(s, TAB_SIZE - t)) /\ Place(Moved(s, TAB_SIZE - t)) = p + (TAB_SIZE - t)
          /\ Moved(s, TAB_SIZE - t).line = s.line
      BY <1>6, <2>1, <2>6, MovedFacts
    <2>8. k = 0 /\ TAB_SIZE < cols => p + (TAB_SIZE - t) < Size
      BY <1>1, <1>3, <2>5, ScreenFacts
    <2> QED BY <1>4, <2>2, <2>3, <2>7, <2>8
  <1> QED BY <1>5, <1>6

-----------------------------------------------------------------------------
(***************************************************************************)
(* A text is printed character by character: the folds, as the values      *)
(* after each.  Induction up to n, on a set: the smallest number missed    *)
(* would be the top of the smallest of the intervals that miss the set.    *)
(***************************************************************************)
LEMMA Upward ==
    ASSUME NEW n \in Nat, NEW S, 0 \in S, \A i \in 0 .. n : i + 1 \in 0 .. n /\ i \in S => i + 1 \in S
    PROVE  \A i \in 0 .. n : i \in S
  <1> DEFINE Below(i) == 0 .. i
             Gaps == {Below(i) : i \in {j \in 0 .. n : j \notin S}}
  <1>1. SUFFICES ASSUME Gaps # {} PROVE FALSE
    OBVIOUS
  <1>2. FiniteSubsetsOf(0 .. n) = SUBSET (0 .. n)
    <2>1. 0 \in Int /\ n \in Int
      OBVIOUS
    <2>2. IsFiniteSet(0 .. n)
      BY <2>1, FS_Interval
    <2> QED BY <2>2, FS_FiniteSubsetsOfFinite
  <1>3. IsWellFoundedOn(StrictSubsetOrdering(0 .. n), SUBSET (0 .. n))
    BY <1>2, FS_StrictSubsetOrderingWellFounded
  <1>4. Gaps \subseteq SUBSET (0 .. n)
    OBVIOUS
  <1> HIDE DEF Gaps
  <1>5. PICK x \in Gaps : \A y \in Gaps : ~ (<<y, x>> \in StrictSubsetOrdering(0 .. n))
    BY <1>1, <1>3, <1>4, WFMin
  <1> USE DEF Gaps
  <1>6. PICK k \in 0 .. n : x = Below(k) /\ k \notin S
    OBVIOUS
  <1>7. k # 0 /\ k - 1 \in 0 .. n /\ (k - 1) + 1 = k
    BY <1>6
  <1>8. k - 1 \notin S
    BY <1>6, <1>7
  <1>9. Below(k - 1) \in Gaps
    BY <1>7, <1>8
  <1>10. Below(k - 1) \subseteq Below(k) /\ Below(k - 1) # Below(k) /\ Below(k) \subseteq 0 .. n
    BY <1>7
  <1>11. <<Below(k - 1), x>> \in StrictSubsetOrdering(0 .. n)
    BY <1>6, <1>10 DEF StrictSubsetOrdering
  <1> QED BY <1>5, <1>9, <1>11

Folds(h, b, n, G) ==
    \A s \in SUBSET (1 .. n) : h[s] = IF s = {} THEN b ELSE G[Max(s)][h[s \ {Max(s)}]]

LEMMA Folding ==
    ASSUME NEW M, NEW b \in M, NEW n \in Nat, NEW G \in [1 .. n -> [M -> M]]
    PROVE  \E h \in [SUBSET (1 .. n) -> M] : Folds(h, b, n, G)
  <1> DEFINE Good(k, h) ==
               \A s \in SUBSET (1 .. k) : h[s] = IF s = {} THEN b ELSE G[Max(s)][h[s \ {Max(s)}]]
             S == {k \in 0 .. n : \E h \in [SUBSET (1 .. k) -> M] : Good(k, h)}
  <1>1. 0 \in S
    <2>1. PICK h : h = [s \in SUBSET (1 .. 0) |-> b]
      OBVIOUS
    <2>2. h \in [SUBSET (1 .. 0) -> M] /\ \A s \in SUBSET (1 .. 0) : s = {} /\ h[s] = b
      BY <2>1
    <2>3. Good(0, h)
      BY <2>2
    <2> HIDE DEF Good
    <2>4. \E g \in [SUBSET (1 .. 0) -> M] : Good(0, g)
      BY <2>2, <2>3, Zenon
    <2>5. 0 \in 0 .. n
      OBVIOUS
    <2> QED BY <2>4, <2>5, Zenon
  <1>2. ASSUME NEW k \in 0 .. n, k + 1 \in 0 .. n, k \in S PROVE k + 1 \in S
    <2>1. PICK h \in [SUBSET (1 .. k) -> M] : Good(k, h)
      BY <1>2
    <2>2. /\ 1 .. k \subseteq 1 .. k + 1 /\ k + 1 \in 1 .. n
          /\ \A s \in SUBSET (1 .. k + 1) : s \ {k + 1} \in SUBSET (1 .. k)
          /\ \A s \in SUBSET (1 .. k) : k + 1 \notin s
          /\ \A s \in SUBSET (1 .. k + 1) : k + 1 \notin s => s \in SUBSET (1 .. k)
      BY <1>2
    <2>3. PICK g : g = [s \in SUBSET (1 .. k + 1) |->
                          IF k + 1 \in s THEN G[k + 1][h[s \ {k + 1}]] ELSE h[s]]
      OBVIOUS
    <2>4. g \in [SUBSET (1 .. k + 1) -> M]
      <3>1. ASSUME NEW s \in SUBSET (1 .. k + 1)
            PROVE  (IF k + 1 \in s THEN G[k + 1][h[s \ {k + 1}]] ELSE h[s]) \in M
        <4>1. CASE k + 1 \in s
          <5>1. h[s \ {k + 1}] \in M
            BY <2>1, <2>2
          <5> QED BY <2>2, <4>1, <5>1
        <4>2. CASE k + 1 \notin s
          BY <2>1, <2>2, <4>2
        <4> QED BY <4>1, <4>2
      <3> QED BY <2>3, <3>1
    <2>5. ASSUME NEW s \in SUBSET (1 .. k + 1)
          PROVE  g[s] = IF s = {} THEN b ELSE G[Max(s)][g[s \ {Max(s)}]]
      <3>1. CASE k + 1 \in s
        <4>1. \A x \in s : k + 1 >= x
          BY <1>2
        <4>2. Max(s) = k + 1
          <5>1. \A x \in s : (\A y \in s : x >= y) => x = k + 1
            BY <1>2, <3>1
          <5> QED BY <3>1, <4>1, <5>1 DEF Max
        <4>3. s \ {k + 1} \in SUBSET (1 .. k + 1) /\ g[s \ {k + 1}] = h[s \ {k + 1}]
          BY <2>2, <2>3
        <4> QED BY <2>3, <3>1, <4>2, <4>3
      <3>2. CASE k + 1 \notin s
        <4>1. s \in SUBSET (1 .. k) /\ s \ {Max(s)} \in SUBSET (1 .. k)
          BY <2>2, <3>2
        <4>2. s \ {Max(s)} \in SUBSET (1 .. k + 1) /\ k + 1 \notin s \ {Max(s)}
          BY <2>2, <4>1
        <4>3. g[s] = h[s] /\ g[s \ {Max(s)}] = h[s \ {Max(s)}]
          BY <2>3, <3>2, <4>2
        <4> QED BY <2>1, <4>1, <4>3
      <3> QED BY <3>1, <3>2
    <2>6. Good(k + 1, g)
      BY <2>5
    <2> QED BY <1>2, <2>4, <2>6
  <1>3. n \in S
    <2> HIDE DEF S
    <2>1. \A k \in 0 .. n : k \in S
      BY <1>1, <1>2, Upward
    <2> QED BY <2>1
  <1> QED BY <1>3 DEF Folds

LEMMA Largest ==
    ASSUME NEW n \in Nat, NEW s \in SUBSET (1 .. n), s # {}
    PROVE  Max(s) \in s
  <1>1. SUFFICES ASSUME \A x \in s : \E y \in s : ~ (x >= y) PROVE FALSE
    BY DEF Max
  <1> DEFINE S == {i \in 0 .. n : \E y \in s : y >= i}
  <1>2. 0 \in S
    <2>1. PICK y \in s : y \in 1 .. n
      OBVIOUS
    <2>2. y >= 0 /\ 0 \in 0 .. n
      BY <2>1
    <2> QED BY <2>2
  <1>3. ASSUME NEW i \in 0 .. n, i + 1 \in 0 .. n, i \in S PROVE i + 1 \in S
    <2>1. PICK y \in s : y >= i
      BY <1>3
    <2>2. PICK z \in s : ~ (y >= z)
      BY <1>1
    <2>3. z >= i + 1
      BY <2>1, <2>2
    <2> QED BY <1>3, <2>3
  <1>4. n \in S
    <2> HIDE DEF S
    <2>1. \A i \in 0 .. n : i \in S
      BY <1>2, <1>3, Upward
    <2> QED BY <2>1
  <1>5. PICK y \in s : y >= n
    BY <1>4
  <1> QED BY <1>1, <1>5

LEMMA Intervals ==
    ASSUME NEW n \in Nat, NEW i \in 1 .. n
    PROVE  /\ 1 .. i \in SUBSET (1 .. n) /\ 1 .. i # {} /\ Max(1 .. i) = i
           /\ (1 .. i) \ {i} = 1 .. i - 1
  <1>1. 1 .. i \in SUBSET (1 .. n) /\ i \in 1 .. i /\ (1 .. i) \ {i} = 1 .. i - 1
    OBVIOUS
  <1>2. Max(1 .. i) = i
    <2>1. \A x \in 1 .. i : (\A y \in 1 .. i : x >= y) => x = i
      OBVIOUS
    <2>2. \A y \in 1 .. i : i >= y
      OBVIOUS
    <2> QED BY <1>1, <2>1, <2>2 DEF Max
  <1> QED BY <1>1, <1>2

\* The values of a fold h on the intervals from 1 up.
Climbs(h, b, n, M, G) ==
    h[{}] = b /\ \A i \in 1 .. n : h[1 .. i - 1] \in M => h[1 .. i] = G[i][h[1 .. i - 1]]

Chained(f, b, n, e, G) == f[0] = b /\ f[n] = e /\ \A i \in 1 .. n : f[i] = G[i][f[i - 1]]

LEMMA Chain ==
    ASSUME NEW M, NEW b \in M, NEW n \in Nat, NEW G \in [1 .. n -> [M -> M]], NEW h,
           Climbs(h, b, n, M, G)
    PROVE  \E f \in [0 .. n -> M] : Chained(f, b, n, h[1 .. n], G)
  <1>1. PICK f : f = [i \in 0 .. n |-> h[1 .. i]]
    OBVIOUS
  <1>2. f[0] = b /\ f[n] = h[1 .. n] /\ f = [i \in 0 .. n |-> f[i]]
    <2>1. 1 .. 0 = {}
      OBVIOUS
    <2>2. f[0] = h[1 .. 0] /\ f[n] = h[1 .. n] /\ f = [i \in 0 .. n |-> f[i]]
      BY <1>1
    <2> QED BY <2>1, <2>2 DEF Climbs
  <1>3. ASSUME NEW i \in 1 .. n, f[i - 1] \in M PROVE f[i] = G[i][f[i - 1]]
    <2>1. i - 1 \in 0 .. n /\ i \in 0 .. n
      OBVIOUS
    <2> QED BY <1>1, <1>3, <2>1 DEF Climbs
  <1>4. \A i \in 0 .. n : f[i] \in M
    <2> DEFINE S == {i \in 0 .. n : f[i] \in M}
    <2>1. 0 \in S
      BY <1>2
    <2>2. ASSUME NEW i \in 0 .. n, i + 1 \in 0 .. n, i \in S PROVE i + 1 \in S
      <3>1. i + 1 \in 1 .. n /\ (i + 1) - 1 = i
        BY <2>2
      <3>2. f[i + 1] = G[i + 1][f[i]]
        BY <1>3, <2>2, <3>1
      <3> QED BY <2>2, <3>1, <3>2
    <2>3. \A i \in 0 .. n : i \in S
      <3> HIDE DEF S
      <3> QED BY <2>1, <2>2, Upward
    <2> QED BY <2>3
  <1>5. f \in [0 .. n -> M]
    BY <1>2, <1>4
  <1>6. \A i \in 1 .. n : f[i] = G[i][f[i - 1]]
    BY <1>3, <1>4
  <1> QED BY <1>2, <1>5, <1>6 DEF Chained

\* Screens whose cursor is not in front of the first cell.
Screens == {m \in Consoles : m.pos \in Nat}

LEMMA ScreenKept ==
    ASSUME NEW m \in Screens, NEW in \in Glyphs \ {BS, CR}
    PROVE  PrintChar(m, in) \in Screens
  <1>1. m \in Consoles /\ m.pos \in Nat
    BY DEF Screens
  <1>2. CASE in = LF
    <2>1. PrintChar(m, LF) \in Consoles /\ PrintChar(m, LF).pos \in 1 .. LastRow
      BY <1>1, LineFed
    <2> QED BY <1>2, <2>1, ScreenFacts DEF Screens
  <1>3. CASE in = HT
    <2>1. TabFrom(m.pos, m.pos) \in Nat
      <3>1. PICK p \in Nat : p = m.pos
        BY <1>1
      <3>2. TabFrom(p, p) \in p + 1 .. p + TAB_SIZE
        BY TabFacts
      <3> QED BY <3>1, <3>2, ScreenFacts
    <2>2. PrintChar(m, in) = [m EXCEPT !.pos = TabFrom(m.pos, m.pos)]
      BY <1>3 DEF PrintChar, LF, BS, HT, CR
    <2>3. PICK x : x = PrintChar(m, in)
      OBVIOUS
    <2>4. x \in Consoles /\ x.pos = TabFrom(m.pos, m.pos)
      BY <1>1, <2>1, <2>2, <2>3, PosSet
    <2> QED BY <2>1, <2>3, <2>4 DEF Screens
  <1>4. CASE in \notin {LF, HT}
    <2>1. PrintChar(m, in) \in Consoles /\ PrintChar(m, in).pos \in 1 .. Size
      BY <1>1, <1>4, CharWritten
    <2> QED BY <2>1, ScreenFacts DEF Screens
  <1> QED BY <1>2, <1>3, <1>4

LEMMA PrintedChain ==
    ASSUME NEW m \in Screens, NEW text \in Seq(Glyphs \ {BS, CR})
    PROVE  \E f \in [0 .. Len(text) -> Screens] :
              /\ f[0] = m /\ f[Len(text)] = Printed(m, text)
              /\ \A i \in 1 .. Len(text) : f[i] = PrintChar(f[i - 1], text[i])
  <1>1. PICK n \in Nat : n = Len(text) /\ DOMAIN text = 1 .. n /\ \A i \in 1 .. n : text[i] \in Glyphs \ {BS, CR}
    BY LenProperties, ElementOfSeq
  <1>2. PICK G : G = [i \in 1 .. n |-> [w \in Screens |-> PrintChar(w, text[i])]]
    OBVIOUS
  <1>3. G \in [1 .. n -> [Screens -> Screens]]
    <2>1. ASSUME NEW i \in 1 .. n, NEW w \in Screens PROVE PrintChar(w, text[i]) \in Screens
      BY <1>1, ScreenKept
    <2> QED BY <1>2, <2>1
  <1>4. \A i \in 1 .. n, w \in Screens : G[i][w] = PrintChar(w, text[i])
    BY <1>2
  <1> DEFINE Fold(h) == h = [s \in SUBSET (1 .. n) |->
                               IF s = {} THEN m ELSE PrintChar(h[s \ {Max(s)}], text[Max(s)])]
  <1>5. \E h : Fold(h)
    <2>1. PICK h \in [SUBSET (1 .. n) -> Screens] : Folds(h, m, n, G)
      BY <1>3, Folding
    <2>2. h = [s \in SUBSET (1 .. n) |-> h[s]]
      OBVIOUS
    <2>3. ASSUME NEW s \in SUBSET (1 .. n)
          PROVE  h[s] = IF s = {} THEN m ELSE PrintChar(h[s \ {Max(s)}], text[Max(s)])
      <3>1. CASE s = {}
        BY <2>1, <3>1 DEF Folds
      <3>2. CASE s # {}
        <4>1. Max(s) \in 1 .. n
          BY <3>2, Largest
        <4>2. s \ {Max(s)} \in SUBSET (1 .. n)
          OBVIOUS
        <4> QED BY <1>4, <2>1, <3>2, <4>1, <4>2 DEF Folds
      <3> QED BY <3>1, <3>2
    <2>4. Fold(h)
      BY <2>2, <2>3
    <2> QED BY <2>4
  <1>6. PICK h : Fold(h) /\ Printed(m, text) = h[1 .. n]
    <2>1. Fold(CHOOSE h : Fold(h))
      BY <1>5
    <2>2. Printed(m, text) = (CHOOSE h : Fold(h))[1 .. n]
      BY <1>1 DEF Printed, FoldLeft, MapThenFoldSet
    <2> QED BY <2>1, <2>2
  <1>7. h[{}] = m
    BY <1>6
  <1>8. ASSUME NEW i \in 1 .. n PROVE h[1 .. i] = PrintChar(h[1 .. i - 1], text[i])
    <2>1. PICK s \in SUBSET (1 .. n) : s = 1 .. i /\ s # {} /\ Max(s) = i /\ s \ {i} = 1 .. i - 1
      BY <1>1, Intervals
    <2>2. h[s] = PrintChar(h[s \ {Max(s)}], text[Max(s)])
      BY <1>6, <2>1
    <2> QED BY <2>1, <2>2
  <1>9. Climbs(h, m, n, Screens, G)
    BY <1>4, <1>7, <1>8 DEF Climbs
  <1>10. PICK f \in [0 .. n -> Screens] :
           f[0] = m /\ f[n] = h[1 .. n] /\ \A i \in 1 .. n : f[i] = G[i][f[i - 1]]
    <2>1. \E f \in [0 .. n -> Screens] : Chained(f, m, n, h[1 .. n], G)
      BY <1>3, <1>9, Chain
    <2> QED BY <2>1 DEF Chained
  <1>11. \A i \in 1 .. n : f[i] = PrintChar(f[i - 1], text[i])
    BY <1>4, <1>10
  <1> QED BY <1>1, <1>6, <1>10, <1>11

\* What Typed makes of a sheet, its place off the paper or not.
Drafts == [line : [1 .. rows -> [Cols -> Glyphs]], at : Int, col : Int]

LEMMA DraftKept ==
    ASSUME NEW p \in Drafts, NEW in \in Glyphs \ {BS, CR}
    PROVE  Typed(p, in) \in Drafts
  <1>1. cols \in Nat \ {0} /\ rows \in Nat /\ rows > 1 /\ TAB_SIZE \in Nat \ {0}
    BY ScreenFacts
  <1>2. ASSUME NEW q \in Drafts, NEW n \in Int PROVE Moved(q, n) \in Drafts
    <2>1. q.at \in Int /\ q.col \in Int
      BY DEF Drafts
    <2>2. PICK a \in Int, c \in Int : a = q.at + (q.col + n) \div cols /\ c = (q.col + n) % cols
      <3>1. q.col + n \in Int
        BY <2>1
      <3>2. ASSUME NEW x \in Int PROVE x \div cols \in Int /\ x % cols \in Int
        BY <1>1
      <3> QED BY <2>1, <3>1, <3>2
    <2>3. Moved(q, n) = [q EXCEPT !.at = a, !.col = c]
      BY <2>2 DEF Moved
    <2> QED BY <2>3 DEF Drafts
  <1>3. ASSUME NEW q \in Drafts PROVE Fed(q) \in Drafts
    <2>1. CASE q.at <= rows
      BY <2>1 DEF Fed
    <2>2. CASE ~ (q.at <= rows)
      <3>1. PICK r \in Sheets : r.line = q.line
        <4>1. [line |-> q.line, at |-> 1, col |-> 0] \in Sheets
          BY <1>1 DEF Drafts, Sheets, Cols
        <4> QED BY <4>1
      <3>2. PICK z : z = Append(Tail(q.line), BlankLine)
        OBVIOUS
      <3>3. z \in [1 .. rows -> [Cols -> Glyphs]]
        <4>1. Up(r) \in Sheets /\ Up(r).line = z
          BY <3>1, <3>2, UpFacts DEF Sheet
        <4> QED BY <4>1 DEF Sheets
      <3>4. Fed(q) = [q EXCEPT !.line = z, !.at = rows]
        BY <2>2, <3>2 DEF Fed
      <3>5. PICK l \in [1 .. rows -> [Cols -> Glyphs]], a \in Int : l = z /\ a = rows
        BY <1>1, <3>3
      <3>6. Fed(q) = [q EXCEPT !.line = l, !.at = a]
        BY <3>4, <3>5
      <3> QED BY <3>6 DEF Drafts
    <2> QED BY <2>1, <2>2
  <1>4. CASE in = LF
    <2>1. PICK q : q = [p EXCEPT !.at = @ + 1, !.col = 0]
      OBVIOUS
    <2>2. q \in Drafts
      <3>1. PICK a \in Int, c \in Int : a = p.at + 1 /\ c = 0
        BY DEF Drafts
      <3>2. q = [p EXCEPT !.at = a, !.col = c]
        BY <2>1, <3>1
      <3> QED BY <3>2 DEF Drafts
    <2>3. Typed(p, in) = Fed(q)
      BY <1>4, <2>1 DEF Typed, LF, BS, HT, CR
    <2> QED BY <1>3, <2>2, <2>3
  <1>5. CASE in = HT
    <2>1. TAB_SIZE - (p.col % TAB_SIZE) \in Int
      <3>1. p.col \in Int
        BY DEF Drafts
      <3>2. ASSUME NEW x \in Int PROVE x % TAB_SIZE \in Int
        BY <1>1
      <3> QED BY <1>1, <3>1, <3>2
    <2>2. Typed(p, in) = Moved(p, TAB_SIZE - (p.col % TAB_SIZE))
      BY <1>5 DEF Typed, LF, BS, HT, CR
    <2> QED BY <1>2, <2>1, <2>2
  <1>6. CASE in \notin {LF, HT}
    <2>1. PICK f \in Drafts : f = Fed(p)
      BY <1>3
    <2>2. PICK q : q = [f EXCEPT !.line[f.at][f.col] = in]
      OBVIOUS
    <2>3. q \in Drafts
      BY <2>2 DEF Drafts
    <2>4. Typed(p, in) = Moved(q, 1)
      BY <1>6, <2>1, <2>2 DEF Typed, LF, BS, HT, CR
    <2> QED BY <1>2, <2>3, <2>4
  <1> QED BY <1>4, <1>5, <1>6

LEMMA TypedChain ==
    ASSUME NEW m \in Drafts, NEW text \in Seq(Glyphs \ {BS, CR})
    PROVE  \E f \in [0 .. Len(text) -> Drafts] :
              /\ f[0] = m /\ f[Len(text)] = TypedText(m, text)
              /\ \A i \in 1 .. Len(text) : f[i] = Typed(f[i - 1], text[i])
  <1>1. PICK n \in Nat : n = Len(text) /\ DOMAIN text = 1 .. n /\ \A i \in 1 .. n : text[i] \in Glyphs \ {BS, CR}
    BY LenProperties, ElementOfSeq
  <1>2. PICK G : G = [i \in 1 .. n |-> [w \in Drafts |-> Typed(w, text[i])]]
    OBVIOUS
  <1>3. G \in [1 .. n -> [Drafts -> Drafts]]
    <2>1. ASSUME NEW i \in 1 .. n, NEW w \in Drafts PROVE Typed(w, text[i]) \in Drafts
      BY <1>1, DraftKept
    <2> QED BY <1>2, <2>1
  <1>4. \A i \in 1 .. n, w \in Drafts : G[i][w] = Typed(w, text[i])
    BY <1>2
  <1> DEFINE Fold(h) == h = [s \in SUBSET (1 .. n) |->
                               IF s = {} THEN m ELSE Typed(h[s \ {Max(s)}], text[Max(s)])]
  <1>5. \E h : Fold(h)
    <2>1. PICK h \in [SUBSET (1 .. n) -> Drafts] : Folds(h, m, n, G)
      BY <1>3, Folding
    <2>2. h = [s \in SUBSET (1 .. n) |-> h[s]]
      OBVIOUS
    <2>3. ASSUME NEW s \in SUBSET (1 .. n)
          PROVE  h[s] = IF s = {} THEN m ELSE Typed(h[s \ {Max(s)}], text[Max(s)])
      <3>1. CASE s = {}
        BY <2>1, <3>1 DEF Folds
      <3>2. CASE s # {}
        <4>1. Max(s) \in 1 .. n
          BY <3>2, Largest
        <4>2. s \ {Max(s)} \in SUBSET (1 .. n)
          OBVIOUS
        <4> QED BY <1>4, <2>1, <3>2, <4>1, <4>2 DEF Folds
      <3> QED BY <3>1, <3>2
    <2>4. Fold(h)
      BY <2>2, <2>3
    <2> QED BY <2>4
  <1>6. PICK h : Fold(h) /\ TypedText(m, text) = h[1 .. n]
    <2>1. Fold(CHOOSE h : Fold(h))
      BY <1>5
    <2>2. TypedText(m, text) = (CHOOSE h : Fold(h))[1 .. n]
      BY <1>1 DEF TypedText, FoldLeft, MapThenFoldSet
    <2> QED BY <2>1, <2>2
  <1>7. h[{}] = m
    BY <1>6
  <1>8. ASSUME NEW i \in 1 .. n PROVE h[1 .. i] = Typed(h[1 .. i - 1], text[i])
    <2>1. PICK s \in SUBSET (1 .. n) : s = 1 .. i /\ s # {} /\ Max(s) = i /\ s \ {i} = 1 .. i - 1
      BY <1>1, Intervals
    <2>2. h[s] = Typed(h[s \ {Max(s)}], text[Max(s)])
      BY <1>6, <2>1
    <2> QED BY <2>1, <2>2
  <1>9. Climbs(h, m, n, Drafts, G)
    BY <1>4, <1>7, <1>8 DEF Climbs
  <1>10. PICK f \in [0 .. n -> Drafts] :
           f[0] = m /\ f[n] = h[1 .. n] /\ \A i \in 1 .. n : f[i] = G[i][f[i - 1]]
    <2>1. \E f \in [0 .. n -> Drafts] : Chained(f, m, n, h[1 .. n], G)
      BY <1>3, <1>9, Chain
    <2> QED BY <2>1 DEF Chained
  <1>11. \A i \in 1 .. n : f[i] = Typed(f[i - 1], text[i])
    BY <1>4, <1>10
  <1> QED BY <1>1, <1>6, <1>10, <1>11

LEMMA ShiftChain ==
    ASSUME NEW m \in BOOLEAN, NEW text \in Seq(Codes)
    PROVE  \E f \in [0 .. Len(text) -> BOOLEAN] :
              /\ f[0] = m /\ f[Len(text)] = ShiftAfterAll(m, text)
              /\ \A i \in 1 .. Len(text) : f[i] = ShiftAfter(f[i - 1], text[i])
  <1>1. PICK n \in Nat : n = Len(text) /\ DOMAIN text = 1 .. n /\ \A i \in 1 .. n : text[i] \in Codes
    BY LenProperties, ElementOfSeq
  <1>2. PICK G : G = [i \in 1 .. n |-> [w \in BOOLEAN |-> ShiftAfter(w, text[i])]]
    OBVIOUS
  <1>3. G \in [1 .. n -> [BOOLEAN -> BOOLEAN]]
    <2>1. ASSUME NEW i \in 1 .. n, NEW w \in BOOLEAN PROVE ShiftAfter(w, text[i]) \in BOOLEAN
      BY DEF ShiftAfter
    <2> QED BY <1>2, <2>1
  <1>4. \A i \in 1 .. n, w \in BOOLEAN : G[i][w] = ShiftAfter(w, text[i])
    BY <1>2
  <1> DEFINE Fold(h) == h = [s \in SUBSET (1 .. n) |->
                               IF s = {} THEN m ELSE ShiftAfter(h[s \ {Max(s)}], text[Max(s)])]
  <1>5. \E h : Fold(h)
    <2>1. PICK h \in [SUBSET (1 .. n) -> BOOLEAN] : Folds(h, m, n, G)
      BY <1>3, Folding
    <2>2. h = [s \in SUBSET (1 .. n) |-> h[s]]
      OBVIOUS
    <2>3. ASSUME NEW s \in SUBSET (1 .. n)
          PROVE  h[s] = IF s = {} THEN m ELSE ShiftAfter(h[s \ {Max(s)}], text[Max(s)])
      <3>1. CASE s = {}
        BY <2>1, <3>1 DEF Folds
      <3>2. CASE s # {}
        <4>1. Max(s) \in 1 .. n
          BY <3>2, Largest
        <4>2. s \ {Max(s)} \in SUBSET (1 .. n)
          OBVIOUS
        <4> QED BY <1>4, <2>1, <3>2, <4>1, <4>2 DEF Folds
      <3> QED BY <3>1, <3>2
    <2>4. Fold(h)
      BY <2>2, <2>3
    <2> QED BY <2>4
  <1>6. PICK h : Fold(h) /\ ShiftAfterAll(m, text) = h[1 .. n]
    <2>1. Fold(CHOOSE h : Fold(h))
      BY <1>5
    <2>2. ShiftAfterAll(m, text) = (CHOOSE h : Fold(h))[1 .. n]
      BY <1>1 DEF ShiftAfterAll, FoldLeft, MapThenFoldSet
    <2> QED BY <2>1, <2>2
  <1>7. h[{}] = m
    BY <1>6
  <1>8. ASSUME NEW i \in 1 .. n PROVE h[1 .. i] = ShiftAfter(h[1 .. i - 1], text[i])
    <2>1. PICK s \in SUBSET (1 .. n) : s = 1 .. i /\ s # {} /\ Max(s) = i /\ s \ {i} = 1 .. i - 1
      BY <1>1, Intervals
    <2>2. h[s] = ShiftAfter(h[s \ {Max(s)}], text[Max(s)])
      BY <1>6, <2>1
    <2> QED BY <2>1, <2>2
  <1>9. Climbs(h, m, n, BOOLEAN, G)
    BY <1>4, <1>7, <1>8 DEF Climbs
  <1>10. PICK f \in [0 .. n -> BOOLEAN] :
           f[0] = m /\ f[n] = h[1 .. n] /\ \A i \in 1 .. n : f[i] = G[i][f[i - 1]]
    <2>1. \E f \in [0 .. n -> BOOLEAN] : Chained(f, m, n, h[1 .. n], G)
      BY <1>3, <1>9, Chain
    <2> QED BY <2>1 DEF Chained
  <1>11. \A i \in 1 .. n : f[i] = ShiftAfter(f[i - 1], text[i])
    BY <1>4, <1>10
  <1> QED BY <1>1, <1>6, <1>10, <1>11

\* kdb_print's "%c\n" of a character is the character and the end of its line.
LEMMA CharText ==
    ASSUME NEW c
    PROVE  print_disp(<<"%c", LF>>, <<c>>) = <<c, LF>>
  <1> DEFINE fmt == <<"%c", LF>>
             turn(done, in) ==
                IF in \in Directives
                THEN [text |-> done.text \o Converted(in, Head(done.args)), args |-> Tail(done.args)]
                ELSE [done EXCEPT !.text = Append(@, CASE in = "%%"   -> "%"
                                                       [] in = Unknown -> "?"
                                                       [] OTHER        -> in)]
             b == [text |-> <<>>, args |-> <<c>>]
             Fold(h) == h = [s \in SUBSET (1 .. 2) |->
                               IF s = {} THEN b ELSE turn(h[s \ {Max(s)}], fmt[Max(s)])]
  <1>1. print_disp(fmt, <<c>>) = (CHOOSE h : Fold(h))[1 .. 2].text
    <2>1. DOMAIN fmt = 1 .. 2
      OBVIOUS
    <2> QED BY <2>1 DEF print_disp, FoldLeft, MapThenFoldSet
  <1>2. fmt[1] = "%c" /\ fmt[2] = LF
    OBVIOUS
  <1>3. turn(b, "%c") = [text |-> <<c>>, args |-> <<>>]
    <2>1. "%c" \in Directives /\ Converted("%c", c) = <<c>>
      BY DEF Directives, Converted
    <2>2. Head(<<c>>) = c /\ Tail(<<c>>) = <<>> /\ <<>> \o <<c>> = <<c>>
      OBVIOUS
    <2> QED BY <2>1, <2>2
  <1>4. turn([text |-> <<c>>, args |-> <<>>], LF) = [text |-> <<c, LF>>, args |-> <<>>]
    <2>1. LF \notin Directives /\ LF # "%%" /\ LF # Unknown
      BY DEF LF, Directives, Unknown
    <2>2. Append(<<c>>, LF) = <<c, LF>>
      <3> DEFINE S == {c, LF}
      <3>1. <<c>> \in Seq(S) /\ Len(<<c>>) = 1 /\ <<c>>[1] = c /\ LF \in S
        OBVIOUS
      <3>2. PICK z : z = Append(<<c>>, LF)
        OBVIOUS
      <3>3. /\ z \in Seq(S) /\ Len(z) = 2 /\ z[2] = LF /\ z[1] = c
        BY <3>1, <3>2, AppendProperties
      <3>4. <<c, LF>> \in Seq(S) /\ Len(<<c, LF>>) = 2 /\ <<c, LF>>[1] = c /\ <<c, LF>>[2] = LF
        OBVIOUS
      <3>5. \A i \in 1 .. Len(z) : z[i] = <<c, LF>>[i]
        <4>1. \A i \in 1 .. 2 : i = 1 \/ i = 2
          OBVIOUS
        <4> QED BY <3>3, <3>4, <4>1
      <3>6. z = <<c, LF>>
        BY <3>3, <3>4, <3>5, SeqEqual
      <3> QED BY <3>2, <3>6
    <2> QED BY <2>1, <2>2
  <1> HIDE DEF fmt, turn, b
  <1>5. \E h : Fold(h)
    <2>1. PICK h : h = [s \in SUBSET (1 .. 2) |->
                           IF s = {} THEN b
                           ELSE IF 2 \notin s THEN turn(b, fmt[1])
                           ELSE IF 1 \notin s THEN turn(b, fmt[2]) ELSE turn(turn(b, fmt[1]), fmt[2])]
      OBVIOUS
    <2>2. ASSUME NEW s \in SUBSET (1 .. 2), s # {} PROVE h[s] = turn(h[s \ {Max(s)}], fmt[Max(s)])
      <3>1. CASE s = {1}
        <4>1. Max(s) = 1 /\ s \ {1} = {} /\ {} \in SUBSET (1 .. 2)
          BY <3>1 DEF Max
        <4> QED BY <2>1, <3>1, <4>1
      <3>2. CASE s = {2}
        <4>1. Max(s) = 2 /\ s \ {2} = {} /\ {} \in SUBSET (1 .. 2)
          BY <3>2 DEF Max
        <4> QED BY <2>1, <3>2, <4>1
      <3>3. CASE s = {1, 2}
        <4>1. \A x \in s : (\A y \in s : x >= y) => x = 2
          BY <3>3
        <4>2. 2 \in s /\ \A y \in s : 2 >= y
          BY <3>3
        <4>3. Max(s) = 2
          BY <4>1, <4>2 DEF Max
        <4>4. s \ {2} = {1} /\ {1} \in SUBSET (1 .. 2)
          BY <3>3
        <4>5. h[{1}] = turn(b, fmt[1])
          BY <2>1, <4>4
        <4>6. h[s] = turn(turn(b, fmt[1]), fmt[2])
          BY <2>1, <3>3
        <4> QED BY <4>3, <4>4, <4>5, <4>6
      <3>4. s = {1} \/ s = {2} \/ s = {1, 2}
        <4>1. 1 .. 2 = {1, 2}
          OBVIOUS
        <4> QED BY <2>2, <4>1
      <3> QED BY <3>1, <3>2, <3>3, <3>4
    <2>3. h[{}] = b
      BY <2>1
    <2>4. h = [s \in SUBSET (1 .. 2) |-> h[s]]
      BY <2>1
    <2>5. Fold(h)
      BY <2>2, <2>3, <2>4
    <2> QED BY <2>5
  <1>6. PICK h : Fold(h) /\ print_disp(fmt, <<c>>) = h[1 .. 2].text
    <2>1. Fold(CHOOSE h : Fold(h))
      BY <1>5
    <2> QED BY <1>1, <2>1
  <1>7. h[1 .. 0] = b
    <2>1. 1 .. 0 = {} /\ {} \in SUBSET (1 .. 2)
      OBVIOUS
    <2> QED BY <1>6, <2>1
  <1>8. h[1 .. 1] = turn(b, fmt[1])
    <2>1. 1 .. 1 \in SUBSET (1 .. 2) /\ 1 .. 1 # {} /\ Max(1 .. 1) = 1 /\ (1 .. 1) \ {1} = 1 .. 0
      <3>1. PICK n \in Nat, i \in 1 .. 2 : n = 2 /\ i = 1 /\ i - 1 = 0 /\ i \in 1 .. n
        OBVIOUS
      <3>2. /\ 1 .. i \in SUBSET (1 .. n) /\ 1 .. i # {} /\ Max(1 .. i) = i
            /\ (1 .. i) \ {i} = 1 .. i - 1
        BY <3>1, Intervals
      <3> QED BY <3>1, <3>2
    <2> QED BY <1>6, <1>7, <2>1
  <1>9. h[1 .. 2] = turn(h[1 .. 1], fmt[2])
    <2>1. 1 .. 2 \in SUBSET (1 .. 2) /\ 1 .. 2 # {} /\ Max(1 .. 2) = 2 /\ (1 .. 2) \ {2} = 1 .. 1
      <3>1. PICK n \in Nat, i \in 1 .. 2 : n = 2 /\ i = 2 /\ i - 1 = 1 /\ i \in 1 .. n
        OBVIOUS
      <3>2. /\ 1 .. i \in SUBSET (1 .. n) /\ 1 .. i # {} /\ Max(1 .. i) = i
            /\ (1 .. i) \ {i} = 1 .. i - 1
        BY <3>1, Intervals
      <3> QED BY <3>1, <3>2
    <2> QED BY <1>6, <2>1
  <1>10. print_disp(fmt, <<c>>) = <<c, LF>>
    BY <1>2, <1>3, <1>4, <1>6, <1>8, <1>9
  <1> QED BY <1>10 DEF fmt

-----------------------------------------------------------------------------
(***************************************************************************)
(* The texts printed without interruption: the message of the disk's       *)
(* handler, and what kinit prints.                                         *)
(***************************************************************************)
LEMMA MessagePrinted ==
    ASSUME NEW m \in Consoles, m.pos \in Nat
    PROVE  /\ Printed(m, Message) \in Consoles /\ Printed(m, Message).pos \in 1 .. LastRow
           /\ \A p : Sheet(p) /\ Shows(m, p) =>
                 /\ Sheet(TypedText(p, Message))
                 /\ Shows(Printed(m, Message), TypedText(p, Message))
  <1>1. Message \in Seq(Glyphs \ {BS, CR}) /\ Len(Message) = 2 /\ Message[1] = "!" /\ Message[2] = LF
    BY DEF Message, Glyphs, LF, BS, CR
  <1>2. "!" \in Glyphs \ {LF, BS, HT, CR}
    BY DEF Glyphs, LF, BS, HT, CR
  <1>3. PICK w \in Consoles : w = PrintChar(m, "!") /\ w.pos \in Nat
    <2>1. PrintChar(m, "!") \in Consoles /\ PrintChar(m, "!").pos \in 1 .. Size
      BY <1>2, CharWritten
    <2> QED BY <2>1, ScreenFacts
  <1>4. Printed(m, Message) = PrintChar(w, LF)
    <2>1. m \in Screens
      BY DEF Screens
    <2>2. PICK f \in [0 .. 2 -> Screens] :
            /\ f[0] = m /\ f[2] = Printed(m, Message)
            /\ \A i \in 1 .. 2 : f[i] = PrintChar(f[i - 1], Message[i])
      BY <1>1, <2>1, PrintedChain
    <2>3. f[1] = PrintChar(m, "!")
      <3>1. 1 \in 1 .. 2 /\ 1 - 1 = 0
        OBVIOUS
      <3> QED BY <1>1, <2>2, <3>1
    <2>4. f[2] = PrintChar(f[1], LF)
      <3>1. 2 \in 1 .. 2 /\ 2 - 1 = 1
        OBVIOUS
      <3> QED BY <1>1, <2>2, <3>1
    <2> QED BY <1>3, <2>2, <2>3, <2>4
  <1>5. ASSUME NEW p, Sheet(p), Shows(m, p)
        PROVE  /\ Sheet(TypedText(p, Message))
               /\ Shows(PrintChar(w, LF), TypedText(p, Message))
    <2>1. p \in Drafts
      BY <1>5, ScreenFacts DEF Sheet, Sheets, Drafts, Cols
    <2>2. PICK g \in [0 .. 2 -> Drafts] :
            /\ g[0] = p /\ g[2] = TypedText(p, Message)
            /\ \A i \in 1 .. 2 : g[i] = Typed(g[i - 1], Message[i])
      BY <1>1, <2>1, TypedChain
    <2>3. g[1] = Typed(p, "!")
      <3>1. 1 \in 1 .. 2 /\ 1 - 1 = 0
        OBVIOUS
      <3> QED BY <1>1, <2>2, <3>1
    <2>4. g[2] = Typed(g[1], LF)
      <3>1. 2 \in 1 .. 2 /\ 2 - 1 = 1
        OBVIOUS
      <3> QED BY <1>1, <2>2, <3>1
    <2>5. Sheet(g[1]) /\ Shows(w, g[1])
      BY <1>2, <1>3, <1>5, <2>3, CharWritten
    <2>6. Sheet(g[2]) /\ Shows(PrintChar(w, LF), g[2])
      BY <1>3, <2>4, <2>5, LineFed
    <2> QED BY <2>2, <2>6
  <1> QED BY <1>3, <1>4, <1>5, LineFed

LEMMA BlankFacts == Cleared \in Screens /\ Cleared.pos = 0 /\ Sheet(BlankSheet) /\ Shows(Cleared, BlankSheet)
                    /\ BlankSheet.col = 0 /\ BlankSheet.at = 1
  <1>1. rows \in Nat /\ rows > 1 /\ cols \in Nat \ {0}
    BY ScreenFacts
  <1>2. Cleared \in Screens /\ Cleared.pos = 0 /\ \A c \in Cells : Cleared.cell[c] = Blank
    BY DEF Cleared, Screens, Consoles, Glyphs
  <1>3. BlankLine \in [Cols -> Glyphs] /\ \A c \in Cols : BlankLine[c] = Blank
    BY DEF BlankLine, Cols, Glyphs
  <1>4. PICK p : p = BlankSheet
    OBVIOUS
  <1>5. /\ p.line = [l \in 1 .. rows |-> BlankLine] /\ p.at = 1 /\ p.col = 0
        /\ p = [line |-> [l \in 1 .. rows |-> BlankLine], at |-> 1, col |-> 0]
    BY <1>4 DEF BlankSheet
  <1>6. p \in Sheets
    <2>1. [l \in 1 .. rows |-> BlankLine] \in [1 .. rows -> [Cols -> Glyphs]]
      BY <1>3
    <2>2. 1 \in 1 .. rows + 1 /\ 0 \in Cols
      BY <1>1 DEF Cols
    <2> QED BY <1>5, <2>1, <2>2 DEF Sheets
  <1>7. Place(p) = 0
    <2>1. (1 - 1) * cols + 0 = 0
      BY <1>1
    <2> QED BY <1>5, <2>1 DEF Place
  <1>8. ASSUME NEW c \in Cells PROVE Glyph(p, c) = Blank
    <2>1. c \in Nat /\ c < Size
      BY ScreenFacts DEF Cells
    <2>2. PICK l \in 1 .. rows, k \in Cols : l = c \div cols + 1 /\ k = c % cols
      <3>1. c \div cols \in 0 .. rows - 1 /\ c % cols \in Cols
        BY <2>1, CellSplit
      <3> QED BY <1>1, <3>1
    <2> QED BY <1>3, <1>5, <2>2 DEF Glyph
  <1> QED BY <1>1, <1>2, <1>4, <1>5, <1>6, <1>7, <1>8 DEF Sheet, Shows, Same

LEMMA Retyped ==
    ASSUME NEW A, NEW B, NEW s \in Seq(A), \A i \in 1 .. Len(s) : s[i] \in B
    PROVE  s \in Seq(B)
  <1>1. Len(s) \in Nat /\ s \in [1 .. Len(s) -> A]
    BY LenProperties
  <1>2. s \in [1 .. Len(s) -> B]
    BY <1>1
  <1> QED BY <1>1, <1>2

\* A text that is made of the glyphs in S, which are no backspace.
LEMMA TextFacts ==
    ASSUME NEW text, EndsLine(text), ToSet(text) \subseteq Glyphs, NEW N, ToSet(text) \cap N = {}
    PROVE  /\ text \in Seq(Glyphs \ N) /\ Len(text) \in Nat /\ Len(text) >= 1 /\ text[Len(text)] = LF
           /\ DOMAIN text = 1 .. Len(text)
  <1>1. text \in Seq(ToSet(text)) /\ text # <<>> /\ text[Len(text)] = LF
    BY DEF EndsLine
  <1> HIDE DEF ToSet
  <1>2. Len(text) \in Nat /\ DOMAIN text = 1 .. Len(text) /\ Len(text) # 0
    BY <1>1, LenProperties, EmptySeq
  <1>3. ASSUME NEW i \in 1 .. Len(text) PROVE text[i] \in Glyphs \ N
    <2>1. text[i] \in ToSet(text)
      BY <1>1, <1>2, ElementOfSeq
    <2> QED BY <2>1
  <1>4. text \in Seq(Glyphs \ N)
    BY <1>1, <1>3, Retyped
  <1> QED BY <1>1, <1>2, <1>4

LEMMA BootPrinted ==
    ASSUME NEW lines \in BootLines
    PROVE  /\ Printed(Cleared, BootText(lines)) \in Consoles
           /\ Printed(Cleared, BootText(lines)).pos \in Inside
           /\ Sheet(TypedText(BlankSheet, BootText(lines)))
           /\ Shows(Printed(Cleared, BootText(lines)), TypedText(BlankSheet, BootText(lines)))
  <1>1. PICK text : text = BootText(lines)
    OBVIOUS
  <1>2. /\ EndsLine(text) /\ ToSet(text) \cap {BS, CR} = {}
        /\ \A i \in DOMAIN text : text[i] = HT => Indents(text, i)
    BY <1>1, TextsAssumption
  <1>3. ToSet(text) \subseteq Glyphs
    <2>1. ToSet(text) \in Printable
      BY <1>1 DEF Printable
    <2> QED BY <2>1 DEF Glyphs
  <1>4. PICK n \in Nat :
          /\ n = Len(text) /\ n >= 1 /\ text[n] = LF /\ text \in Seq(Glyphs \ {BS, CR})
          /\ DOMAIN text = 1 .. n
    BY <1>2, <1>3, TextFacts
  <1>5. PICK f \in [0 .. n -> Screens] :
          /\ f[0] = Cleared /\ f[n] = Printed(Cleared, text)
          /\ \A i \in 1 .. n : f[i] = PrintChar(f[i - 1], text[i])
    BY <1>4, BlankFacts, PrintedChain
  <1>6. PICK g \in [0 .. n -> Drafts] :
          /\ g[0] = BlankSheet /\ g[n] = TypedText(BlankSheet, text)
          /\ \A i \in 1 .. n : g[i] = Typed(g[i - 1], text[i])
    <2>1. BlankSheet \in Drafts
      BY BlankFacts, ScreenFacts DEF Sheet, Sheets, Drafts, Cols
    <2> QED BY <1>4, <2>1, TypedChain
  <1> DEFINE Starts(i) == i = 0 \/ text[i] = LF
             Good(i) == /\ Sheet(g[i]) /\ Shows(f[i], g[i])
                        /\ Starts(i) => g[i].col = 0 /\ f[i].pos < Size
                        /\ i > 0 /\ text[i] = HT /\ Starts(i - 1) /\ TAB_SIZE < cols => f[i].pos < Size
             S == {i \in 0 .. n : Good(i)}
  <1>7. 0 \in S
    BY <1>5, <1>6, BlankFacts, ScreenFacts
  <1>8. ASSUME NEW i \in 0 .. n, i + 1 \in 0 .. n, i \in S PROVE i + 1 \in S
    <2>1. PICK j \in 1 .. n : j = i + 1 /\ j - 1 = i /\ j > 0
      BY <1>8
    <2>2. PICK in \in Glyphs \ {BS, CR} : in = text[j]
      BY <1>4, <2>1, ElementOfSeq
    <2>3. PICK m \in Screens, p \in Drafts : m = f[i] /\ p = g[i]
      OBVIOUS
    <2>4. f[j] = PrintChar(m, in) /\ g[j] = Typed(p, in)
      BY <1>5, <1>6, <2>1, <2>2, <2>3
    <2>5. /\ m \in Consoles /\ m.pos \in Nat /\ Sheet(p) /\ Shows(m, p)
          /\ Starts(i) => p.col = 0 /\ m.pos < Size
          /\ i > 0 /\ text[i] = HT /\ Starts(i - 1) /\ TAB_SIZE < cols => m.pos < Size
      BY <1>8, <2>3 DEF Screens
    <2>6. CASE in = LF
      <3>1. /\ Sheet(Typed(p, in)) /\ Shows(PrintChar(m, in), Typed(p, in)) /\ Typed(p, in).col = 0
            /\ PrintChar(m, in).pos \in 1 .. LastRow
        BY <2>5, <2>6, LineFed
      <3>2. PrintChar(m, in).pos < Size
        BY <3>1, ScreenFacts
      <3>3. in # HT
        BY <2>6 DEF LF, HT
      <3> QED BY <2>1, <2>2, <2>4, <3>1, <3>2, <3>3
    <2>7. CASE in = HT
      <3>1. Starts(i) \/ (i > 0 /\ text[i] = HT /\ Starts(i - 1) /\ TAB_SIZE < cols)
        <4>1. Indents(text, j)
          BY <1>2, <1>4, <2>1, <2>2, <2>7
        <4>2. /\ j = 1 <=> i = 0
              /\ i = 1 => i - 1 = 0
          BY <2>1
        <4>3. ~ (j = 1) => i > 0
          BY <2>1
        <4> QED BY <2>1, <4>1, <4>2, <4>3 DEF Indents
      <3>2. m.pos < Size
        BY <2>5, <3>1
      <3>3. p.at <= rows /\ Place(p) = m.pos
        BY <2>5, <3>2, PlaceFacts DEF Sheet, Shows
      <3>4. PICK k \in Nat : k = m.pos
        BY <2>5
      <3>5. /\ Sheet(Typed(p, HT)) /\ Place(Typed(p, HT)) = TabFrom(k, k) /\ Typed(p, HT).line = p.line
            /\ p.col = 0 /\ TAB_SIZE < cols => TabFrom(k, k) < Size
            /\ TabFrom(k, k) \in k + 1 .. k + TAB_SIZE
        BY <2>5, <3>3, <3>4, TabFacts
      <3>6. PICK w : w = PrintChar(m, HT)
        OBVIOUS
      <3>7. w.cell = m.cell /\ w.pos = TabFrom(k, k)
        <4>1. TabFrom(k, k) \in Int
          BY <3>5, ScreenFacts
        <4>2. w = [m EXCEPT !.pos = TabFrom(k, k)]
          BY <3>4, <3>6 DEF PrintChar, LF, BS, HT, CR
        <4> QED BY <2>5, <4>1, <4>2, PosSet
      <3>8. Shows(w, Typed(p, HT))
        BY <2>5, <3>5, <3>7, SameLines DEF Shows
      <3>9. in # LF
        BY <2>7 DEF LF, HT
      <3>10. Starts(i) /\ TAB_SIZE < cols => w.pos < Size
        BY <2>5, <3>5, <3>7
      <3>11. Sheet(g[j]) /\ Shows(f[j], g[j]) /\ f[j] = w
        BY <2>4, <2>7, <3>5, <3>6, <3>8
      <3>12. ~ Starts(j)
        BY <2>1, <2>2, <3>9
      <3>13. Starts(j - 1) /\ TAB_SIZE < cols => f[j].pos < Size
        BY <2>1, <3>10, <3>11
      <3> QED BY <2>1, <3>11, <3>12, <3>13
    <2>8. CASE in \notin {LF, HT}
      <3>1. Sheet(Typed(p, in)) /\ Shows(PrintChar(m, in), Typed(p, in))
        BY <2>5, <2>8, CharWritten
      <3> QED BY <2>1, <2>2, <2>4, <2>8, <3>1
    <2> QED BY <2>6, <2>7, <2>8
  <1>9. n \in S
    <2> HIDE DEF S
    <2>1. \A i \in 0 .. n : i \in S
      BY <1>7, <1>8, Upward
    <2> QED BY <2>1
  <1>10. f[n].pos \in 1 .. LastRow
    <2>1. n \in 1 .. n /\ n - 1 \in 0 .. n
      BY <1>4
    <2>2. f[n] = PrintChar(f[n - 1], LF) /\ f[n - 1] \in Consoles /\ f[n - 1].pos \in Nat
      BY <1>4, <1>5, <2>1 DEF Screens
    <2> QED BY <2>2, LineFed
  <1>11. f[n] \in Consoles /\ f[n].pos \in Inside
    BY <1>10, ScreenFacts DEF Inside, Screens
  <1> QED BY <1>1, <1>5, <1>6, <1>9, <1>11

-----------------------------------------------------------------------------
(***************************************************************************)
(* Texts, and what holds where a character starts.                         *)
(***************************************************************************)
LEMMA FirstFacts ==
    ASSUME NEW text \in Seq(Glyphs), text # <<>>
    PROVE  /\ Len(text) \in Nat /\ Len(text) >= 1 /\ Head(text) = text[1] /\ text[1] \in Glyphs
           /\ Tail(text) \in Seq(Glyphs) /\ Len(Tail(text)) = Len(text) - 1
           /\ \A i \in 1 .. Len(text) - 1 : Tail(text)[i] = text[i + 1]
           /\ Tail(text) = <<>> <=> Len(text) = 1
  <1>1. Len(text) \in Nat /\ Len(text) >= 1
    BY LenProperties, EmptySeq
  <1>2. Head(text) = text[1]
    OBVIOUS
  <1>3. 1 \in 1 .. Len(text)
    BY <1>1
  <1>4. text[1] \in Glyphs
    BY <1>3, ElementOfSeq
  <1>5. /\ Tail(text) \in Seq(Glyphs) /\ Len(Tail(text)) = Len(text) - 1
        /\ \A i \in 1 .. Len(text) - 1 : Tail(text)[i] = text[i + 1]
    BY HeadTailProperties
  <1>6. Tail(text) = <<>> <=> Len(text) = 1
    <2>1. PICK t \in Seq(Glyphs) : t = Tail(text) /\ Len(t) = Len(text) - 1
      BY <1>5
    <2>2. t = <<>> <=> Len(t) = 0
      BY EmptySeq
    <2>3. Len(t) = 0 <=> Len(text) = 1
      BY <1>1, <2>1
    <2> QED BY <2>1, <2>2, <2>3
  <1> QED BY <1>1, <1>2, <1>4, <1>5, <1>6

LEMMA TailShape ==
    ASSUME NEW text, Shape(text), text # <<>>
    PROVE  /\ Shape(Tail(text))
           /\ Tail(text) # <<>> => Tail(text)[1] \notin {BS, HT, CR}
           /\ Tail(text) = <<>> => text[1] = LF
           /\ text[1] \in {BS, HT} => Tail(text) # <<>> /\ Tail(text)[1] = LF
           /\ text[1] # CR
  <1>1. text \in Seq(Glyphs)
    BY DEF Shape
  <1>2. PICK n \in Nat, t \in Seq(Glyphs) :
          /\ n = Len(text) /\ n >= 1 /\ t = Tail(text) /\ Len(t) = n - 1
          /\ \A i \in 1 .. n - 1 : t[i] = text[i + 1]
          /\ (t = <<>> <=> n = 1)
    BY <1>1, FirstFacts
  <1>3. /\ text[n] = LF
        /\ \A i \in 1 .. n : text[i] # CR /\ (i > 1 => text[i] \notin {BS, HT})
        /\ text[1] \in {BS, HT} => n = 2
    BY <1>2 DEF Shape
  <1>4. ASSUME NEW i \in 1 .. n - 1 PROVE t[i] \notin {CR, BS, HT}
    <2>1. i + 1 \in 1 .. n /\ i + 1 > 1
      BY <1>2
    <2> QED BY <1>2, <1>3, <2>1
  <1>5. t # <<>> => t[Len(t)] = LF /\ t[1] \notin {BS, HT, CR}
    <2>1. SUFFICES ASSUME t # <<>> PROVE t[Len(t)] = LF /\ t[1] \notin {BS, HT, CR}
      OBVIOUS
    <2>2. n - 1 \in 1 .. n - 1 /\ 1 \in 1 .. n - 1 /\ (n - 1) + 1 = n
      BY <1>2, <2>1
    <2>3. t[n - 1] = text[n]
      BY <1>2, <2>2
    <2> QED BY <1>2, <1>3, <1>4, <2>2, <2>3
  <1>6. Shape(t)
    <2>1. \A i \in 1 .. Len(t) : t[i] # CR /\ (i > 1 => t[i] \notin {BS, HT})
      BY <1>2, <1>4
    <2> QED BY <1>5, <2>1 DEF Shape
  <1>7. t = <<>> => text[1] = LF
    BY <1>2, <1>3
  <1>8. text[1] \in {BS, HT} => t # <<>> /\ t[1] = LF
    <2>1. SUFFICES ASSUME text[1] \in {BS, HT} PROVE t # <<>> /\ t[1] = LF
      OBVIOUS
    <2>2. n = 2 /\ Len(t) = 1
      BY <1>2, <1>3, <2>1
    <2> QED BY <1>2, <1>5, <2>2
  <1>9. text[1] # CR
    BY <1>2, <1>3
  <1> QED BY <1>2, <1>5, <1>6, <1>7, <1>8, <1>9

LEMMA CharShape ==
    ASSUME NEW c \in Typable
    PROVE  Shape(<<c, LF>>) /\ <<c, LF>> # <<>> /\ <<c, LF>>[1] = c
  <1>1. c \in Glyphs /\ LF \in Glyphs
    BY DEF Glyphs
  <1>2. c # CR
    BY TextsAssumption DEF Typable
  <1>3. <<c, LF>> \in Seq(Glyphs) /\ Len(<<c, LF>>) = 2 /\ <<c, LF>>[1] = c /\ <<c, LF>>[2] = LF
    BY <1>1
  <1>4. \A i \in 1 .. 2 : i = 1 \/ i = 2
    OBVIOUS
  <1>5. LF \notin {CR, BS, HT}
    BY DEF LF, CR, BS, HT
  <1>6. \A i \in 1 .. 2 : <<c, LF>>[i] # CR /\ (i > 1 => <<c, LF>>[i] \notin {BS, HT})
    BY <1>2, <1>3, <1>4, <1>5
  <1>7. <<c, LF>> # <<>>
    OBVIOUS
  <1> QED BY <1>3, <1>6, <1>7 DEF Shape

LEMMA LineShape ==
    ASSUME NEW line \in Lines
    PROVE  Shape(Text(line)) /\ Text(line) # <<>> /\ Text(line)[1] \notin {BS, HT, CR}
  <1>1. PICK text : text = Text(line)
    OBVIOUS
  <1>2. EndsLine(text) /\ ToSet(text) \cap {BS, HT, CR} = {}
    BY <1>1, TextsAssumption
  <1>3. ToSet(text) \subseteq Glyphs
    <2>1. ToSet(text) \in Printable
      BY <1>1 DEF Printable
    <2> QED BY <2>1 DEF Glyphs
  <1>4. PICK n \in Nat :
          /\ n = Len(text) /\ n >= 1 /\ text[n] = LF /\ text \in Seq(Glyphs \ {BS, HT, CR})
    BY <1>2, <1>3, TextFacts
  <1>5. ASSUME NEW i \in 1 .. n PROVE text[i] \in Glyphs /\ text[i] \notin {BS, HT, CR}
    BY <1>4, ElementOfSeq
  <1>6. text \in Seq(Glyphs)
    BY <1>4, <1>5, Retyped
  <1>7. 1 \in 1 .. n /\ text # <<>>
    BY <1>4, EmptySeq
  <1> QED BY <1>1, <1>4, <1>5, <1>6, <1>7 DEF Shape

-----------------------------------------------------------------------------
(***************************************************************************)
(* The thread's steps keep the invariant.                                  *)
(***************************************************************************)
Letter(in) == in \notin {LF, BS, HT, CR}

LEMMA CharKinds ==
    /\ LF \notin {BS, HT, CR} /\ BS \notin {HT, CR, LF} /\ HT \notin {LF, CR, BS}
  BY DEF LF, BS, HT, CR

LEMMA PrinterMade ==
    ASSUME NEW text \in Seq(Glyphs), NEW at \in Steps, NEW a \in Int, NEW b \in Int
    PROVE  [text |-> text, at |-> at, a |-> a, b |-> b] \in Printers
  BY DEF Printers

\* A text, or the rest of one, whose first character finds the cursor and the
\* paper where it expects them.
LEMMA Started ==
    ASSUME NEW text, Shape(text), pr' = Printing(text), con' \in Consoles, Beside',
           text = <<>> => con'.pos \in Inside,
           text # <<>> /\ text[1] \in {BS, HT} => con'.pos \in Inside,
           text # <<>> /\ text[1] = LF => con'.pos \in Near,
           text # <<>> /\ Letter(text[1]) => con'.pos \in 0 .. Size,
           torn' => paper' = BlankSheet,
           ~torn' => Sheet(paper') /\ Shows(con', paper')
    PROVE  IInv'
  <1>1. text \in Seq(Glyphs)
    BY DEF Shape
  <1>2. CASE text = <<>>
    <2>1. pr' = [text |-> <<>>, at |-> "idle", a |-> 0, b |-> 0]
      BY <1>2 DEF Printing
    <2>2. pr' \in Printers /\ pr'.text = <<>> /\ pr'.at = "idle"
      <3>1. "idle" \in Steps
        BY DEF Steps
      <3>2. [text |-> text, at |-> "idle", a |-> 0, b |-> 0] \in Printers
        BY <1>1, <3>1, PrinterMade
      <3> QED BY <1>2, <2>1, <3>2
    <2>3. InStep'
      BY <2>2 DEF InStep, At, Moves, Scrolls, Writes
    <2>4. Bounded'
      BY <1>2, <2>2 DEF Bounded, At, Moves, Writes
    <2>5. Tracks'
      BY <2>2 DEF Tracks, Tracking, At, Moves, Scrolls, Writes
    <2> QED BY <1>2, <2>2, <2>3, <2>4, <2>5 DEF IInv, TypeInv
  <1>3. CASE text # <<>>
    <2>1. PICK in \in Glyphs : in = text[1] /\ Head(text) = in /\ in # CR
      BY <1>1, <1>3, FirstFacts, TailShape
    <2>2. /\ pr' = [text |-> text, at |-> FirstStep(in), a |-> 0, b |-> 0]
          /\ pr'.text = text /\ pr'.at = FirstStep(in) /\ In' = in
      BY <1>3, <2>1 DEF Printing, In
    <2>6. pr' \in Printers
      <3>1. PICK at \in Steps : at = FirstStep(in)
        BY DEF FirstStep, Steps
      <3>2. [text |-> text, at |-> at, a |-> 0, b |-> 0] \in Printers
        BY <1>1, PrinterMade
      <3> QED BY <2>2, <3>1, <3>2
    <2>3. CASE in \in {LF, HT}
      <3>1. FirstStep(in) = "read pos" /\ "read pos" \in Steps
        BY <2>3 DEF FirstStep, Steps
      <3>3. InStep'
        BY <1>3, <2>2, <2>3, <3>1 DEF InStep, At, Moves, Scrolls, Writes
      <3>4. Bounded'
        BY <1>3, <2>1, <2>2, <2>3, <3>1 DEF Bounded, At, Moves, Writes, Before
      <3>5. Tracks'
        BY <2>2, <3>1 DEF Tracks, Tracking, At, Moves, Scrolls, Writes
      <3> QED BY <2>2, <2>6, <3>3, <3>4, <3>5 DEF IInv, TypeInv
    <2>4. CASE in = BS
      <3>1. FirstStep(in) = "index" /\ "index" \in Steps
        BY <2>4, CharKinds DEF FirstStep, Steps
      <3>3. InStep'
        BY <1>3, <2>2, <2>4, <3>1, CharKinds DEF InStep, At, Moves, Scrolls, Writes
      <3>4. Bounded'
        BY <1>3, <2>1, <2>2, <2>4, <3>1 DEF Bounded, At, Moves, Writes, Target
      <3>5. ~torn' => Shows(con', Fed(paper')) /\ paper'.at <= rows
        <4>1. SUFFICES ASSUME ~torn' PROVE Shows(con', Fed(paper')) /\ paper'.at <= rows
          OBVIOUS
        <4>2. con'.pos < Size
          BY <1>3, <2>1, <2>4, ScreenFacts DEF Inside
        <4>3. paper' \in Sheets /\ Place(paper') < Size
          BY <4>1, <4>2 DEF Sheet, Shows
        <4>4. paper'.at <= rows
          BY <4>3, PlaceFacts
        <4> QED BY <4>1, <4>4, FedFacts
      <3>6. Tracks'
        BY <2>2, <3>1, <3>5 DEF Tracks, Tracking, At, Moves, Scrolls, Writes
      <3> QED BY <2>2, <2>6, <3>3, <3>4, <3>6 DEF IInv, TypeInv
    <2>5. CASE in \notin {LF, HT, BS}
      <3>1. FirstStep(in) = "full?" /\ "full?" \in Steps
        BY <2>5 DEF FirstStep, Steps
      <3>3. InStep'
        BY <1>3, <2>2, <2>5, <3>1, CharKinds DEF InStep, At, Moves, Scrolls, Writes
      <3>4. Bounded'
        BY <1>3, <2>1, <2>2, <2>5, <3>1 DEF Bounded, At, Moves, Writes, Letter
      <3>5. Tracks'
        BY <2>2, <2>5, <3>1 DEF Tracks, Tracking, At, Moves, Scrolls, Writes
      <3> QED BY <2>2, <2>6, <3>3, <3>4, <3>5 DEF IInv, TypeInv
    <2> QED BY <2>3, <2>4, <2>5
  <1> QED BY <1>2, <1>3

\* The character at hand.
LEMMA InFacts ==
    ASSUME TypeInv, pr.at # "idle"
    PROVE  /\ pr.text # <<>> /\ pr.text \in Seq(Glyphs) /\ In = pr.text[1]
           /\ In \in Glyphs /\ In # CR
           /\ pr.at \in Moves => In \in {LF, HT}
           /\ pr.at \in Scrolls => In = LF \/ Letter(In)
           /\ pr.at \in Writes => In = BS \/ Letter(In)
  <1>1. pr.text # <<>> /\ Shape(pr.text)
    BY DEF TypeInv, InStep, At
  <1>2. /\ pr.text \in Seq(Glyphs) /\ In = pr.text[1] /\ In \in Glyphs /\ In # CR
    BY <1>1, FirstFacts, TailShape DEF Shape, In
  <1> QED BY <1>1, <1>2 DEF TypeInv, InStep, Letter

\* A character is done.
LEMMA Finished ==
    ASSUME IInv, pr.at # "idle", Finish, con' \in Consoles,
           In = LF => con'.pos \in Inside,
           In \in {BS, HT} => con'.pos \in Near,
           Letter(In) => con'.pos \in 0 .. Size,
           ~torn => Sheet(Typed(paper, In)) /\ Shows(con', Typed(paper, In))
    PROVE  IInv'
  <1>1. TypeInv
    BY DEF IInv
  <1>2. /\ pr.text # <<>> /\ pr.text \in Seq(Glyphs) /\ In = pr.text[1] /\ In # CR /\ Shape(pr.text)
    BY <1>1, InFacts DEF TypeInv
  <1>3. PICK t : t = Tail(pr.text)
    OBVIOUS
  <1>4. /\ Shape(t) /\ (t # <<>> => t[1] \notin {BS, HT, CR}) /\ (t = <<>> => In = LF)
        /\ (In \in {BS, HT} => t # <<>> /\ t[1] = LF)
    BY <1>2, <1>3, TailShape
  <1>5. pr' = Printing(t) /\ UNCHANGED <<keys, shift, down, sure, torn>>
        /\ paper' = IF torn THEN paper ELSE Typed(paper, In)
    BY <1>3 DEF Finish, Step, In
  <1>6. Beside'
    BY <1>1, <1>5 DEF TypeInv, Beside
  <1>7. con'.pos \in Near
    <2>1. Inside \subseteq Near /\ 0 .. Size \subseteq Near
      BY ScreenFacts DEF Inside, Near
    <2> QED BY <1>2, <2>1 DEF Letter
  <1>8. t # <<>> /\ Letter(t[1]) => con'.pos \in 0 .. Size
    <2>1. Inside \subseteq 0 .. Size
      BY ScreenFacts DEF Inside
    <2> QED BY <1>2, <1>4, <2>1, CharKinds DEF Letter
  <1>9. torn' => paper' = BlankSheet
    BY <1>5 DEF IInv, Tracks
  <1>10. ~torn' => Sheet(paper') /\ Shows(con', paper')
    BY <1>5
  <1> QED BY <1>4, <1>5, <1>6, <1>7, <1>8, <1>9, <1>10, Started

\* From a step of a character to the next.
Pass(at, a, b) ==
    /\ pr' = [text |-> pr.text, at |-> at, a |-> a, b |-> b]
    /\ UNCHANGED <<keys, shift, down, sure, torn, paper>>

LEMMA Passes ==
    ASSUME IInv, NEW at \in Steps, NEW a \in Int,
           \/ Step([pr EXCEPT !.at = at, !.a = a]) /\ UNCHANGED paper
           \/ Go(at) /\ a = pr.a
    PROVE  Pass(at, a, pr.b) /\ pr.b \in Int /\ pr.a \in Int /\ In' = In
  <1>1. pr \in Printers
    BY DEF IInv, TypeInv
  <1>2. pr = [text |-> pr.text, at |-> pr.at, a |-> pr.a, b |-> pr.b] /\ pr.a \in Int /\ pr.b \in Int
    BY <1>1 DEF Printers
  <1>3. pr' = [text |-> pr.text, at |-> at, a |-> a, b |-> pr.b]
    BY <1>2 DEF Step, Go
  <1>4. In' = In
    BY <1>3 DEF In
  <1> QED BY <1>2, <1>3, <1>4 DEF Pass, Step, Go

\* A copy or a clear of one cell more.
LEMMA Counts ==
    ASSUME IInv, Step([pr EXCEPT !.a = @ + 1]) /\ UNCHANGED paper
    PROVE  Pass(pr.at, pr.a + 1, pr.b) /\ pr.b \in Int /\ pr.a + 1 \in Int /\ In' = In
  <1>1. pr \in Printers
    BY DEF IInv, TypeInv
  <1>2. pr = [text |-> pr.text, at |-> pr.at, a |-> pr.a, b |-> pr.b] /\ pr.a \in Int /\ pr.b \in Int
    BY <1>1 DEF Printers
  <1>3. pr' = [text |-> pr.text, at |-> pr.at, a |-> pr.a + 1, b |-> pr.b]
    BY <1>2 DEF Step
  <1>4. In' = In
    BY <1>3 DEF In
  <1> QED BY <1>2, <1>3, <1>4 DEF Pass, Step

LEMMA Within ==
    ASSUME IInv, pr.at # "idle", NEW at \in Steps, at # "idle", NEW a \in Int, NEW b \in Int,
           Pass(at, a, b), con' \in Consoles,
           at \in Moves => In \in {LF, HT}, at \in Scrolls => In \notin {BS, HT},
           at \in Writes => In \notin {LF, HT},
           Bounded', ~torn => Tracking'
    PROVE  IInv'
  <1>1. TypeInv /\ pr \in Printers
    BY DEF IInv, TypeInv
  <1>2. pr.text # <<>> /\ pr.text \in Seq(Glyphs) /\ Shape(pr.text)
    BY <1>1, InFacts DEF TypeInv
  <1>3. /\ pr' = [text |-> pr.text, at |-> at, a |-> a, b |-> b]
        /\ UNCHANGED <<keys, shift, down, sure, torn, paper>>
        /\ pr'.text = pr.text /\ pr'.at = at
    BY DEF Pass
  <1>4. pr' \in Printers
    BY <1>2, <1>3, PrinterMade
  <1>5. In' = In
    BY <1>3 DEF In
  <1>6. InStep'
    BY <1>2, <1>3, <1>5 DEF InStep, At
  <1>7. Beside'
    BY <1>1, <1>3 DEF TypeInv, Beside
  <1>8. Tracks'
    BY <1>3 DEF IInv, Tracks
  <1> QED BY <1>2, <1>3, <1>4, <1>6, <1>7, <1>8 DEF IInv, TypeInv

LEMMA ScrollTestKeeps == ASSUME IInv, ScrollTest PROVE IInv'
  <1>1. /\ TypeInv /\ pr.at = "full?" /\ pr.at # "idle" /\ UNCHANGED con /\ con \in Consoles
    BY DEF ScrollTest, At, IInv, TypeInv
  <1>2. In \in Glyphs /\ (In = LF \/ Letter(In)) /\ (Letter(In) => In \notin {LF, BS, HT, CR})
    BY <1>1, InFacts DEF Scrolls, Letter
  <1>3. con.pos \in IF In = LF THEN Far \ {0} ELSE 0 .. Size
    BY <1>1 DEF TypeInv, Bounded, At
  <1>4. ~torn => Sheet(paper) /\ IF In = LF THEN Same(con, paper) /\ con.pos = paper.at * cols
                                 ELSE Shows(con, paper)
    BY <1>1 DEF IInv, Tracks, Tracking, At
  <1>5. CASE con.pos < Size /\ In = LF
    <2>1. Finish
      BY <1>1, <1>5 DEF ScrollTest, Scrolled
    <2>2. con'.pos \in Inside
      BY <1>1, <1>3, <1>5, ScreenFacts DEF Inside, Far
    <2>3. ~torn => Sheet(Typed(paper, In)) /\ Shows(con', Typed(paper, In))
      <3>1. SUFFICES ASSUME ~torn PROVE Sheet(Typed(paper, LF)) /\ Shows(con, Typed(paper, LF))
        BY <1>1, <1>5
      <3>2. /\ Sheet(Typed(paper, LF)) /\ (paper.at < rows <=> paper.at * cols < Size)
            /\ paper.at < rows => Place(Typed(paper, LF)) = paper.at * cols /\ Typed(paper, LF).line = paper.line
        BY <1>4, <3>1, TypedFacts
      <3>3. /\ Place(Typed(paper, LF)) = con.pos /\ Typed(paper, LF).line = paper.line /\ Same(con, paper)
        BY <1>4, <1>5, <3>1, <3>2
      <3> QED BY <3>2, <3>3, SameLines DEF Shows
    <2> QED BY <1>1, <1>5, <2>1, <2>2, <2>3, Finished, CharKinds DEF Letter
  <1>6. CASE con.pos < Size /\ In # LF
    <2>1. Go("index")
      BY <1>1, <1>6 DEF ScrollTest, Scrolled
    <2>2. "index" \in Steps /\ pr.a \in Int
      BY <1>1 DEF Steps, TypeInv, Printers
    <2>3. Pass("index", pr.a, pr.b) /\ pr.b \in Int /\ In' = In
      BY <2>1, <2>2, Passes
    <2>4. pr'.at = "index"
      BY <2>3 DEF Pass
    <2>5. Bounded'
      <3>1. con'.pos \in Cells
        BY <1>1, <1>3, <1>6, ScreenFacts DEF Cells
      <3> QED BY <1>2, <1>6, <2>3, <2>4, <3>1 DEF Bounded, At, Moves, Writes, Target
    <2>6. ~torn => Tracking'
      <3>1. SUFFICES ASSUME ~torn PROVE Tracking'
        OBVIOUS
      <3>2. Shows(con', Fed(paper'))
        <4>1. paper' = paper /\ con' = con
          BY <1>1, <2>3 DEF Pass
        <4>2. Sheet(paper) /\ Shows(con, paper)
          BY <1>4, <1>6, <3>1
        <4>3. paper \in Sheets /\ Place(paper) < Size
          BY <1>6, <4>2 DEF Sheet, Shows
        <4>4. paper.at <= rows
          BY <4>3, PlaceFacts
        <4> QED BY <4>1, <4>2, <4>4, FedFacts
      <3> QED BY <1>2, <1>6, <2>3, <2>4, <3>2 DEF Tracking, At, Moves, Scrolls, Writes, Letter
    <2> QED BY <1>1, <1>2, <1>6, <2>2, <2>3, <2>5, <2>6, Within DEF Moves, Scrolls, Writes
  <1>7. CASE ~ (con.pos < Size)
    <2>1. Step([pr EXCEPT !.at = "copy", !.a = 0]) /\ UNCHANGED paper
      BY <1>7 DEF ScrollTest
    <2>2. "copy" \in Steps
      BY DEF Steps
    <2>3. Pass("copy", 0, pr.b) /\ pr.b \in Int /\ In' = In
      <3>1. PICK a \in Int : a = 0
        OBVIOUS
      <3>2. Pass("copy", a, pr.b) /\ pr.b \in Int /\ In' = In
        BY <2>1, <2>2, <3>1, Passes
      <3> QED BY <3>1, <3>2
    <2>4. pr'.at = "copy" /\ pr'.a = 0 /\ paper' = paper
      BY <2>3 DEF Pass
    <2>5. Bounded'
      <3>1. con'.pos \in Far /\ 0 \in 0 .. LastRow
        BY <1>1, <1>3, ScreenFacts DEF Far
      <3> QED BY <2>3, <2>4, <3>1 DEF Bounded, At, Moves, Writes
    <2>6. ~torn => Tracking'
      <3>1. SUFFICES ASSUME ~torn PROVE Tracking'
        OBVIOUS
      <3>2. paper \in Sheets /\ rows \in Nat /\ con.pos \in Nat /\ Size \in Nat
        BY <1>3, <1>4, <3>1, ScreenFacts DEF Sheet, Far
      <3>3. Same(con, paper)
        BY <1>2, <1>4, <3>1 DEF Shows
      <3>4. IF In = LF THEN paper.at >= rows ELSE paper.at = rows + 1
        <4>1. CASE In = LF
          <5>1. ~ (paper.at < rows)
            BY <1>4, <1>7, <3>1, <4>1, TypedFacts
          <5> QED BY <3>2, <4>1, <5>1, PlaceFacts
        <4>2. CASE In # LF
          <5>1. ~ (paper.at <= rows)
            BY <1>4, <1>7, <3>1, <3>2, <4>2, PlaceFacts DEF Shows
          <5> QED BY <3>2, <4>2, <5>1, PlaceFacts
        <4> QED BY <4>1, <4>2
      <3>5. MovedUp(con', paper', pr'.a)
        <4>1. 0 .. 0 - 1 = {}
          OBVIOUS
        <4> QED BY <2>4, <4>1 DEF MovedUp
      <3>6. \A c \in pr'.a .. Size - 1 : con'.cell[c] = Glyph(paper', c)
        BY <1>1, <2>4, <3>3 DEF Same, Cells
      <3>7. IF In' = LF THEN paper'.at >= rows ELSE paper'.at = rows + 1
        BY <2>3, <2>4, <3>4
      <3> QED BY <2>4, <3>5, <3>6, <3>7 DEF Tracking, At, Moves, Scrolls, Writes
    <2>7. PICK a \in Int : a = 0
      OBVIOUS
    <2>8. Pass("copy", a, pr.b)
      BY <2>3, <2>7
    <2>9. In \notin {BS, HT}
      BY <1>2, CharKinds
    <2> QED BY <1>1, <2>2, <2>3, <2>5, <2>6, <2>8, <2>9, Within DEF Moves, Scrolls, Writes
  <1> QED BY <1>5, <1>6, <1>7

LEMMA ScrollCopyKeeps == ASSUME IInv, ScrollCopy PROVE IInv'
  <1>1. /\ TypeInv /\ pr.at = "copy" /\ pr.at # "idle" /\ con \in Consoles /\ "copy" \in Steps
        /\ "home" \in Steps /\ pr.a \in Int /\ pr.b \in Int
    BY DEF ScrollCopy, At, IInv, TypeInv, Steps, Printers
  <1>2. In \notin {BS, HT}
    BY <1>1, InFacts, CharKinds DEF Scrolls, Letter
  <1>3. con.pos \in Far /\ pr.a \in 0 .. LastRow /\ LastRow \in Nat
    BY <1>1, ScreenFacts DEF TypeInv, Bounded
  <1>4. ~torn =>
          /\ Sheet(paper) /\ MovedUp(con, paper, pr.a)
          /\ \A c \in pr.a .. Size - 1 : con.cell[c] = Glyph(paper, c)
          /\ IF In = LF THEN paper.at >= rows ELSE paper.at = rows + 1
    BY <1>1 DEF IInv, Tracks, Tracking, At, Scrolls
  <1>5. CASE pr.a < LastRow
    <2>1. PICK c0 \in Cells, up \in Cells : c0 = pr.a /\ up = c0 + cols /\ up >= c0
      BY <1>3, <1>5, ScreenFacts DEF Cells
    <2>2. PICK g \in Glyphs : g = con.cell[up]
      BY <1>1 DEF Consoles
    <2>3. con' = Put(con, c0, g)
      BY <1>5, <2>1, <2>2 DEF ScrollCopy
    <2>4. /\ con' \in Consoles /\ con'.pos = con.pos
          /\ \A e \in Cells : con'.cell[e] = IF e = c0 THEN g ELSE con.cell[e]
      BY <1>1, <2>3, PutFacts
    <2>5. Step([pr EXCEPT !.a = @ + 1]) /\ UNCHANGED paper
      BY <1>5 DEF ScrollCopy
    <2>6. PICK a \in Int : a = c0 + 1 /\ Pass("copy", a, pr.b) /\ In' = In
      BY <1>1, <2>1, <2>5, Counts
    <2>7. pr'.at = "copy" /\ pr'.a = a /\ paper' = paper
      BY <2>6 DEF Pass
    <2>8. Bounded'
      <3>1. con'.pos \in Far /\ a \in 0 .. LastRow
        BY <1>3, <1>5, <2>1, <2>4, <2>6
      <3> QED BY <2>7, <3>1 DEF Bounded, At, Moves, Writes
    <2>9. ~torn => Tracking'
      <3>1. SUFFICES ASSUME ~torn PROVE Tracking'
        OBVIOUS
      <3>2. g = Glyph(paper, c0 + cols)
        BY <1>4, <2>1, <2>2, <3>1 DEF Cells
      <3>3. MovedUp(con', paper', a)
        <4>1. SUFFICES ASSUME NEW c \in 0 .. a - 1 PROVE con'.cell[c] = Glyph(paper, c + cols)
          BY <2>7 DEF MovedUp
        <4>2. c \in Cells /\ (c = c0 \/ c \in 0 .. c0 - 1)
          BY <2>1, <2>6, ScreenFacts DEF Cells
        <4>3. c \in 0 .. c0 - 1 => con.cell[c] = Glyph(paper, c + cols)
          BY <1>4, <2>1, <3>1 DEF MovedUp
        <4>4. c0 \notin 0 .. c0 - 1
          BY DEF Cells
        <4> QED BY <2>4, <3>2, <4>2, <4>3, <4>4
      <3>4. \A c \in pr'.a .. Size - 1 : con'.cell[c] = Glyph(paper', c)
        <4>1. SUFFICES ASSUME NEW c \in a .. Size - 1 PROVE con'.cell[c] = Glyph(paper, c)
          BY <2>7
        <4>2. c \in Cells /\ c \in pr.a .. Size - 1 /\ c # c0
          BY <2>1, <2>6 DEF Cells
        <4> QED BY <1>4, <2>4, <3>1, <4>2
      <3>5. IF In' = LF THEN paper'.at >= rows ELSE paper'.at = rows + 1
        BY <1>4, <2>6, <2>7, <3>1
      <3> QED BY <2>7, <3>3, <3>4, <3>5 DEF Tracking, At, Moves, Scrolls, Writes
    <2> QED BY <1>1, <1>2, <2>4, <2>6, <2>8, <2>9, Within DEF Moves, Scrolls, Writes
  <1>6. CASE ~ (pr.a < LastRow)
    <2>1. Go("home") /\ con' = con
      BY <1>6 DEF ScrollCopy
    <2>2. Pass("home", pr.a, pr.b) /\ In' = In
      BY <1>1, <2>1, Passes
    <2>3. pr'.at = "home" /\ pr'.a = pr.a /\ paper' = paper
      BY <2>2 DEF Pass
    <2>4. Bounded'
      BY <1>3, <2>1, <2>3 DEF Bounded, At, Moves, Writes
    <2>5. ~torn => Tracking'
      <3>1. SUFFICES ASSUME ~torn PROVE Tracking'
        OBVIOUS
      <3>2. pr.a = LastRow
        BY <1>3, <1>6
      <3>3. MovedUp(con', paper', LastRow)
        BY <1>4, <2>1, <2>3, <3>1, <3>2
      <3>4. IF In' = LF THEN paper'.at >= rows ELSE paper'.at = rows + 1
        BY <1>4, <2>2, <2>3, <3>1
      <3> QED BY <2>3, <3>3, <3>4 DEF Tracking, At, Moves, Scrolls, Writes
    <2> QED BY <1>1, <1>2, <2>1, <2>2, <2>4, <2>5, Within DEF Moves, Scrolls, Writes
  <1> QED BY <1>5, <1>6

LEMMA ScrollHomeKeeps == ASSUME IInv, ScrollHome PROVE IInv'
  <1>1. /\ TypeInv /\ pr.at = "home" /\ pr.at # "idle" /\ con \in Consoles /\ "clear from" \in Steps
        /\ pr.a \in Int /\ pr.b \in Int
    BY DEF ScrollHome, At, IInv, TypeInv, Steps, Printers
  <1>2. In \notin {BS, HT}
    BY <1>1, InFacts, CharKinds DEF Scrolls, Letter
  <1>3. PICK pos \in Int : pos = LastRow /\ pos \in 1 .. LastRow
    BY ScreenFacts
  <1>4. con' = [con EXCEPT !.pos = pos] /\ Go("clear from")
    BY <1>3 DEF ScrollHome
  <1>5. con' \in Consoles /\ con'.pos = pos /\ con'.cell = con.cell
    BY <1>1, <1>3, <1>4, PosSet
  <1>6. Pass("clear from", pr.a, pr.b) /\ In' = In
    BY <1>1, <1>4, Passes
  <1>7. pr'.at = "clear from" /\ paper' = paper
    BY <1>6 DEF Pass
  <1>8. Bounded'
    BY <1>3, <1>5, <1>7 DEF Bounded, At, Moves, Writes
  <1>9. ~torn => Tracking'
    <2>1. SUFFICES ASSUME ~torn PROVE Tracking'
      OBVIOUS
    <2>2. /\ MovedUp(con, paper, LastRow)
          /\ IF In = LF THEN paper.at >= rows ELSE paper.at = rows + 1
      BY <1>1, <2>1 DEF IInv, Tracks, Tracking, Scrolls
    <2>3. MovedUp(con', paper', LastRow)
      BY <1>5, <1>7, <2>2 DEF MovedUp
    <2>4. IF In' = LF THEN paper'.at >= rows ELSE paper'.at = rows + 1
      BY <1>6, <1>7, <2>2
    <2> QED BY <1>3, <1>5, <1>7, <2>3, <2>4 DEF Tracking, At, Moves, Scrolls, Writes
  <1> QED BY <1>1, <1>2, <1>5, <1>6, <1>8, <1>9, Within DEF Moves, Scrolls, Writes

LEMMA ScrollClearFromKeeps == ASSUME IInv, ScrollClearFrom PROVE IInv'
  <1>1. /\ TypeInv /\ pr.at = "clear from" /\ pr.at # "idle" /\ con \in Consoles
        /\ "clear" \in Steps /\ pr.b \in Int /\ con' = con
    BY DEF ScrollClearFrom, At, IInv, TypeInv, Steps, Printers
  <1>2. In \notin {BS, HT}
    BY <1>1, InFacts, CharKinds DEF Scrolls, Letter
  <1>3. con.pos \in 1 .. LastRow
    BY <1>1 DEF TypeInv, Bounded
  <1>4. PICK a \in Int : a = con.pos /\ a \in 1 .. LastRow /\ a \in 0 .. Size
    BY <1>3, ScreenFacts
  <1>5. Pass("clear", a, pr.b) /\ In' = In
    BY <1>1, <1>4, Passes DEF ScrollClearFrom
  <1>6. pr'.at = "clear" /\ pr'.a = a /\ paper' = paper
    BY <1>5 DEF Pass
  <1>7. Bounded'
    BY <1>1, <1>3, <1>4, <1>6 DEF Bounded, At, Moves, Writes
  <1>8. ~torn => Tracking'
    <2>1. SUFFICES ASSUME ~torn PROVE Tracking'
      OBVIOUS
    <2>2. /\ MovedUp(con, paper, LastRow) /\ con.pos = LastRow
          /\ IF In = LF THEN paper.at >= rows ELSE paper.at = rows + 1
      BY <1>1, <2>1 DEF IInv, Tracks, Tracking, Scrolls
    <2>3. MovedUp(con', paper', LastRow) /\ con'.pos = LastRow
      BY <1>1, <1>6, <2>2
    <2>4. IF In' = LF THEN paper'.at >= rows ELSE paper'.at = rows + 1
      BY <1>5, <1>6, <2>2
    <2>5. pr'.a >= LastRow /\ \A c \in LastRow .. pr'.a - 1 : con'.cell[c] = Blank
      <3>1. LastRow \in Nat /\ LastRow .. LastRow - 1 = {}
        BY ScreenFacts
      <3>2. a = LastRow
        BY <1>4, <2>2
      <3> QED BY <1>6, <3>1, <3>2
    <2> QED BY <1>6, <2>3, <2>4, <2>5 DEF Tracking, At, Moves, Scrolls, Writes
  <1> QED BY <1>1, <1>2, <1>4, <1>5, <1>7, <1>8, Within DEF Moves, Scrolls, Writes

LEMMA ScrollClearKeeps == ASSUME IInv, ScrollClear PROVE IInv'
  <1>1. /\ TypeInv /\ pr.at = "clear" /\ pr.at # "idle" /\ con \in Consoles
        /\ "clear" \in Steps /\ "index" \in Steps /\ pr.a \in Int /\ pr.b \in Int
    BY DEF ScrollClear, At, IInv, TypeInv, Steps, Printers
  <1>2. In \in Glyphs /\ In \notin {BS, HT} /\ (In = LF \/ Letter(In))
    BY <1>1, InFacts, CharKinds DEF Scrolls, Letter
  <1>3. con.pos \in 1 .. LastRow /\ pr.a \in 0 .. Size
    BY <1>1 DEF TypeInv, Bounded, At
  <1>4. ~torn =>
          /\ Sheet(paper) /\ MovedUp(con, paper, LastRow) /\ con.pos = LastRow /\ pr.a >= LastRow
          /\ \A c \in LastRow .. pr.a - 1 : con.cell[c] = Blank
          /\ IF In = LF THEN paper.at >= rows ELSE paper.at = rows + 1
    BY <1>1 DEF IInv, Tracks, Tracking, At, Scrolls
  <1>5. CASE pr.a < con.pos + cols
    <2>1. PICK c0 \in Cells : c0 = pr.a
      BY <1>3, <1>5, ScreenFacts DEF Cells
    <2>2. con' = Put(con, c0, Blank) /\ Blank \in Glyphs
      BY <1>5, <2>1 DEF ScrollClear, Glyphs
    <2>3. /\ con' \in Consoles /\ con'.pos = con.pos
          /\ \A e \in Cells : con'.cell[e] = IF e = c0 THEN Blank ELSE con.cell[e]
      BY <1>1, <2>2, PutFacts
    <2>4. Step([pr EXCEPT !.a = @ + 1]) /\ UNCHANGED paper
      BY <1>5 DEF ScrollClear
    <2>5. PICK a \in Int : a = c0 + 1 /\ Pass("clear", a, pr.b) /\ In' = In
      BY <1>1, <2>1, <2>4, Counts
    <2>6. pr'.at = "clear" /\ pr'.a = a /\ paper' = paper
      BY <2>5 DEF Pass
    <2>7. Bounded'
      <3>1. a \in 0 .. Size
        BY <2>1, <2>5, ScreenFacts DEF Cells
      <3> QED BY <1>3, <2>3, <2>6, <3>1 DEF Bounded, At, Moves, Writes
    <2>8. ~torn => Tracking'
      <3>1. SUFFICES ASSUME ~torn PROVE Tracking'
        OBVIOUS
      <3>2. c0 >= LastRow /\ a >= LastRow /\ LastRow \in Nat /\ LastRow < Size /\ Size \in Nat
        <4>1. LastRow \in Nat /\ LastRow < Size /\ Size \in Nat
          BY ScreenFacts
        <4>2. c0 >= LastRow
          BY <1>4, <2>1, <3>1
        <4>3. c0 \in Int /\ a = c0 + 1
          BY <2>5 DEF Cells
        <4> QED BY <4>1, <4>2, <4>3
      <3>3. MovedUp(con', paper', LastRow)
        <4>1. SUFFICES ASSUME NEW c \in 0 .. LastRow - 1 PROVE con'.cell[c] = Glyph(paper, c + cols)
          BY <2>6 DEF MovedUp
        <4>2. c \in Cells /\ c # c0
          BY <3>2 DEF Cells
        <4> QED BY <1>4, <2>3, <3>1, <4>2 DEF MovedUp
      <3>4. \A c \in LastRow .. a - 1 : con'.cell[c] = Blank
        <4>1. SUFFICES ASSUME NEW c \in LastRow .. a - 1 PROVE con'.cell[c] = Blank
          OBVIOUS
        <4>2. c \in Cells /\ (c = c0 \/ c \in LastRow .. c0 - 1)
          BY <2>1, <2>5, <3>2 DEF Cells
        <4>3. c \in LastRow .. c0 - 1 => con.cell[c] = Blank
          BY <1>4, <2>1, <3>1
        <4> QED BY <2>3, <4>2, <4>3
      <3>5. IF In' = LF THEN paper'.at >= rows ELSE paper'.at = rows + 1
        BY <1>4, <2>5, <2>6, <3>1
      <3>6. con'.pos = LastRow /\ pr'.a >= LastRow
        BY <1>4, <2>3, <2>6, <3>1, <3>2
      <3>7. \A c \in LastRow .. pr'.a - 1 : con'.cell[c] = Blank
        BY <2>6, <3>4
      <3> QED BY <2>6, <3>3, <3>5, <3>6, <3>7 DEF Tracking, At, Moves, Scrolls, Writes
    <2> QED BY <1>1, <1>2, <2>3, <2>5, <2>7, <2>8, Within DEF Moves, Scrolls, Writes
  <1>6. CASE ~ (pr.a < con.pos + cols)
    <2>1. Scrolled /\ con' = con
      BY <1>6 DEF ScrollClear
    <2>2. con.pos \in Inside /\ con.pos \in Cells
      BY <1>3, ScreenFacts DEF Inside, Cells
    <2>3. ~torn => Shows(con, Up(paper))
      <3>1. SUFFICES ASSUME ~torn PROVE Shows(con, Up(paper))
        OBVIOUS
      <3>2. pr.a = Size
        BY <1>3, <1>4, <1>6, <3>1, ScreenFacts
      <3>3. \A c \in LastRow .. Size - 1 : con.cell[c] = Blank
        BY <1>4, <3>1, <3>2
      <3> QED BY <1>4, <3>1, <3>3, UpShown
    <2>4. CASE In = LF
      <3>1. Finish
        BY <2>1, <2>4 DEF Scrolled
      <3>2. ~torn => Sheet(Typed(paper, In)) /\ Shows(con', Typed(paper, In))
        <4>1. SUFFICES ASSUME ~torn PROVE Sheet(Typed(paper, LF)) /\ Shows(con, Typed(paper, LF))
          BY <2>1, <2>4
        <4>2. ~ (paper.at < rows)
          <5>1. paper.at \in Nat /\ rows \in Nat
            BY <1>4, <4>1, PlaceFacts, ScreenFacts DEF Sheet
          <5> QED BY <1>4, <2>4, <4>1, <5>1
        <4> QED BY <1>4, <2>3, <4>1, <4>2, TypedFacts
      <3> QED BY <1>1, <2>1, <2>2, <2>4, <3>1, <3>2, Finished, CharKinds DEF Letter
    <2>5. CASE In # LF
      <3>1. Go("index")
        BY <2>1, <2>5 DEF Scrolled
      <3>2. Pass("index", pr.a, pr.b) /\ In' = In
        BY <1>1, <3>1, Passes
      <3>3. pr'.at = "index" /\ paper' = paper
        BY <3>2 DEF Pass
      <3>4. In # BS /\ In \notin {LF, HT}
        BY <1>2, <2>5 DEF Letter
      <3>5. Bounded'
        BY <2>1, <2>2, <3>2, <3>3, <3>4 DEF Bounded, At, Moves, Writes, Target
      <3>6. ~torn => Tracking'
        <4>1. SUFFICES ASSUME ~torn PROVE Tracking'
          OBVIOUS
        <4>2. ~ (paper.at <= rows)
          BY <1>4, <2>5, <4>1, ScreenFacts
        <4>3. Shows(con', Fed(paper'))
          BY <1>4, <2>1, <2>3, <3>3, <4>1, <4>2, FedFacts
        <4> QED BY <3>2, <3>3, <3>4, <4>3 DEF Tracking, At, Moves, Scrolls, Writes
      <3> QED BY <1>1, <2>1, <3>2, <3>4, <3>5, <3>6, Within DEF Moves, Scrolls, Writes
    <2> QED BY <2>4, <2>5
  <1> QED BY <1>5, <1>6

LEMMA IndexKeeps == ASSUME IInv, Index PROVE IInv'
  <1>1. /\ TypeInv /\ pr.at = "index" /\ pr.at # "idle" /\ con \in Consoles
        /\ "store" \in Steps /\ pr.a \in Int /\ pr.b \in Int /\ con' = con
    BY DEF Index, At, IInv, TypeInv, Steps, Printers
  <1>2. In \notin {LF, HT}
    BY <1>1, InFacts, CharKinds DEF Writes, Letter
  <1>3. con.pos \in Target
    BY <1>1 DEF TypeInv, Bounded, Writes
  <1>4. PICK a \in Int : a = con.pos
    BY <1>1 DEF Consoles
  <1>5. Pass("store", a, pr.b) /\ In' = In
    BY <1>1, <1>4, Passes DEF Index
  <1>6. pr'.at = "store" /\ pr'.a = a /\ paper' = paper
    BY <1>5 DEF Pass
  <1>7. Bounded'
    BY <1>1, <1>3, <1>4, <1>5, <1>6 DEF Bounded, At, Moves, Writes, Target
  <1>8. ~torn => Tracking'
    <2>1. SUFFICES ASSUME ~torn PROVE Tracking'
      OBVIOUS
    <2>2. Shows(con, Fed(paper)) /\ (In = BS => paper.at <= rows)
      BY <1>1, <2>1 DEF IInv, Tracks, Tracking, Writes
    <2>3. Shows(con', Fed(paper')) /\ (In' = BS => paper'.at <= rows) /\ pr'.a = con'.pos
      BY <1>1, <1>4, <1>5, <1>6, <2>2
    <2> QED BY <1>6, <2>3 DEF Tracking, At, Moves, Scrolls, Writes
  <1> QED BY <1>1, <1>2, <1>4, <1>5, <1>7, <1>8, Within DEF Moves, Scrolls, Writes

LEMMA StoreCellKeeps == ASSUME IInv, StoreCell PROVE IInv'
  <1>1. /\ TypeInv /\ pr.at = "store" /\ pr.at # "idle" /\ con \in Consoles
        /\ "fetch" \in Steps /\ pr.a \in Int /\ pr.b \in Int
    BY DEF StoreCell, At, IInv, TypeInv, Steps, Printers
  <1>2. In \notin {LF, HT} /\ In \in Glyphs
    BY <1>1, InFacts, CharKinds DEF Writes, Letter
  <1>3. con.pos \in Target /\ pr.a \in Target
    BY <1>1 DEF TypeInv, Bounded, Writes
  <1>4. PICK c0 \in Cells : c0 = pr.a
    BY <1>3, ScreenFacts DEF Target, Inside, Cells
  <1>5. PICK g \in Glyphs : g = IF In = BS THEN Blank ELSE In
    BY <1>2 DEF Glyphs
  <1>6. con' = Put(con, c0, g) /\ Go("fetch")
    BY <1>4, <1>5 DEF StoreCell
  <1>7. /\ con' \in Consoles /\ con'.pos = con.pos
        /\ \A e \in Cells : con'.cell[e] = IF e = c0 THEN g ELSE con.cell[e]
    BY <1>1, <1>6, PutFacts
  <1>8. Pass("fetch", pr.a, pr.b) /\ In' = In
    BY <1>1, <1>6, Passes
  <1>9. pr'.at = "fetch" /\ paper' = paper
    BY <1>8 DEF Pass
  <1>10. Bounded'
    BY <1>3, <1>7, <1>8, <1>9 DEF Bounded, At, Moves, Writes, Target
  <1>11. ~torn => Tracking'
    <2>1. SUFFICES ASSUME ~torn PROVE Tracking'
      OBVIOUS
    <2>2. /\ Shows(con, Fed(paper)) /\ (In = BS => paper.at <= rows) /\ pr.a = con.pos
          /\ Sheet(paper)
      BY <1>1, <2>1 DEF IInv, Tracks, Tracking, Writes
    <2>3. PICK f : f = Fed(paper) /\ Sheet(f) /\ f.at <= rows
      BY <2>2, FedFacts
    <2>4. \A c \in Cells : con'.cell[c] = IF c = con.pos THEN IF In = BS THEN Blank ELSE In ELSE con.cell[c]
      BY <1>4, <1>5, <1>7, <2>2
    <2>5. Same(con', Marked(f, In))
      BY <1>2, <2>2, <2>3, <2>4, MarkShown
    <2>6. Place(Marked(f, In)) = Place(f)
      BY <1>2, <2>3, MarkedFacts
    <2>7. Shows(con', Marked(f, In))
      BY <1>7, <2>2, <2>3, <2>5, <2>6 DEF Shows
    <2>8. Shows(con', Marked(Fed(paper'), In')) /\ (In' = BS => paper'.at <= rows)
      BY <1>8, <1>9, <2>2, <2>3, <2>7
    <2> QED BY <1>9, <2>8 DEF Tracking, At, Moves, Scrolls, Writes
  <1> QED BY <1>1, <1>2, <1>7, <1>8, <1>10, <1>11, Within DEF Moves, Scrolls, Writes

LEMMA FetchKeeps == ASSUME IInv, Fetch PROVE IInv'
  <1>1. /\ TypeInv /\ pr.at = "fetch" /\ pr.at # "idle" /\ con \in Consoles
        /\ "count" \in Steps /\ pr.a \in Int /\ pr.b \in Int /\ con' = con
    BY DEF Fetch, At, IInv, TypeInv, Steps, Printers
  <1>2. In \notin {LF, HT}
    BY <1>1, InFacts, CharKinds DEF Writes, Letter
  <1>3. con.pos \in Target
    BY <1>1 DEF TypeInv, Bounded, Writes
  <1>4. PICK a \in Int : a = con.pos
    BY <1>1 DEF Consoles
  <1>5. Pass("count", a, pr.b) /\ In' = In
    BY <1>1, <1>4, Passes DEF Fetch
  <1>6. pr'.at = "count" /\ pr'.a = a /\ paper' = paper
    BY <1>5 DEF Pass
  <1>7. Bounded'
    BY <1>1, <1>3, <1>4, <1>5, <1>6 DEF Bounded, At, Moves, Writes, Target
  <1>8. ~torn => Tracking'
    <2>1. SUFFICES ASSUME ~torn PROVE Tracking'
      OBVIOUS
    <2>2. Shows(con, Marked(Fed(paper), In)) /\ (In = BS => paper.at <= rows)
      BY <1>1, <2>1 DEF IInv, Tracks, Tracking, Writes
    <2>3. Shows(con', Marked(Fed(paper'), In')) /\ (In' = BS => paper'.at <= rows) /\ pr'.a = con'.pos
      BY <1>1, <1>4, <1>5, <1>6, <2>2
    <2> QED BY <1>6, <2>3 DEF Tracking, At, Moves, Scrolls, Writes
  <1> QED BY <1>1, <1>2, <1>4, <1>5, <1>7, <1>8, Within DEF Moves, Scrolls, Writes

LEMMA CountKeeps == ASSUME IInv, Count PROVE IInv'
  <1>1. /\ TypeInv /\ pr.at = "count" /\ pr.at # "idle" /\ con \in Consoles /\ pr.a \in Int /\ Finish
    BY DEF Count, At, IInv, TypeInv, Printers
  <1>2. In \in Glyphs /\ (In = BS \/ Letter(In)) /\ In # LF /\ In # HT
    BY <1>1, InFacts, CharKinds DEF Writes, Letter
  <1>3. pr.a \in Target
    BY <1>1 DEF TypeInv, Bounded, Writes
  <1>4. PICK n \in Int : n = IF In = BS THEN -1 ELSE 1
    OBVIOUS
  <1>5. PICK pos \in Int : pos = pr.a + n
    BY <1>1
  <1>6. con' = [con EXCEPT !.pos = pos]
    BY <1>1, <1>4, <1>5 DEF Count
  <1>7. con' \in Consoles /\ con'.pos = pos /\ con'.cell = con.cell
    BY <1>1, <1>6, PosSet
  <1>8. (In = BS => pos \in Near /\ pos \in 0 .. Size) /\ (Letter(In) => pos \in 0 .. Size)
    <2>1. CASE In = BS
      <3>1. pr.a \in Inside /\ pos = pr.a - 1
        BY <1>3, <1>4, <1>5, <2>1 DEF Target
      <3>2. pos \in Near /\ pos \in 0 .. Size
        BY <3>1, ScreenFacts DEF Inside, Near
      <3> QED BY <2>1, <3>2 DEF Letter
    <2>2. CASE In # BS
      <3>1. pr.a \in Cells /\ pos = pr.a + 1
        BY <1>3, <1>4, <1>5, <2>2 DEF Target
      <3>2. pos \in 0 .. Size
        BY <3>1, ScreenFacts DEF Cells
      <3> QED BY <2>2, <3>2
    <2> QED BY <2>1, <2>2
  <1>9. ~torn => Sheet(Typed(paper, In)) /\ Shows(con', Typed(paper, In))
    <2>1. SUFFICES ASSUME ~torn PROVE Sheet(Typed(paper, In)) /\ Shows(con', Typed(paper, In))
      OBVIOUS
    <2>2. /\ Shows(con, Marked(Fed(paper), In)) /\ (In = BS => paper.at <= rows) /\ pr.a = con.pos
          /\ Sheet(paper)
      BY <1>1, <2>1 DEF IInv, Tracks, Tracking, Writes
    <2>3. PICK f : f = Fed(paper) /\ Sheet(f) /\ f.at <= rows
      BY <2>2, FedFacts
    <2>4. PICK s \in Sheets : s = Marked(f, In) /\ Shows(con, s)
      BY <1>2, <2>2, <2>3, MarkedFacts DEF Sheet
    <2>5. Place(s) = pr.a /\ Same(con, s)
      BY <2>2, <2>4 DEF Shows
    <2>6. Typed(paper, In) = Moved(s, n)
      <3>1. CASE In = BS
        <4>1. f = paper
          BY <2>2, <2>3, <3>1, FedFacts
        <4> QED BY <1>4, <2>2, <2>4, <3>1, <4>1, TypedFacts
      <3>2. CASE In # BS
        <4>1. In \in Glyphs \ {LF, BS, HT, CR}
          BY <1>2, <3>2 DEF Letter
        <4> QED BY <1>4, <2>2, <2>3, <2>4, <3>2, <4>1, TypedFacts
      <3> QED BY <3>1, <3>2
    <2>7. Place(s) + n \in 0 .. Size
      BY <1>2, <1>5, <1>8, <2>5
    <2>8. Sheet(Moved(s, n)) /\ Place(Moved(s, n)) = Place(s) + n /\ Moved(s, n).line = s.line
      BY <2>7, MovedFacts
    <2>9. Shows(con', Moved(s, n))
      BY <1>5, <1>7, <2>5, <2>8, SameLines DEF Shows
    <2> QED BY <2>6, <2>8, <2>9
  <1> QED BY <1>1, <1>2, <1>7, <1>8, <1>9, Finished

LEMMA ReadPosKeeps == ASSUME IInv, ReadPos PROVE IInv'
  <1>1. /\ TypeInv /\ pr.at = "read pos" /\ pr.at # "idle" /\ con \in Consoles
        /\ "read again" \in Steps /\ pr.a \in Int /\ pr.b \in Int /\ con' = con
    BY DEF ReadPos, At, IInv, TypeInv, Steps, Printers
  <1>2. In \in {LF, HT} /\ con.pos \in Before
    BY <1>1, InFacts DEF Moves, TypeInv, Bounded
  <1>3. PICK a \in Int : a = con.pos
    BY <1>1 DEF Consoles
  <1>4. Pass("read again", a, pr.b) /\ In' = In
    BY <1>1, <1>3, Passes DEF ReadPos
  <1>5. pr'.at = "read again" /\ pr'.a = a /\ paper' = paper
    BY <1>4 DEF Pass
  <1>6. Bounded'
    BY <1>1, <1>2, <1>3, <1>4, <1>5 DEF Bounded, At, Moves, Writes, Before
  <1>7. ~torn => Tracking'
    <2>1. SUFFICES ASSUME ~torn PROVE Tracking'
      OBVIOUS
    <2>2. Shows(con, paper)
      BY <1>1, <2>1 DEF IInv, Tracks, Tracking, Moves
    <2>3. Shows(con', paper') /\ pr'.a = con'.pos
      BY <1>1, <1>3, <1>5, <2>2
    <2> QED BY <1>5, <2>3 DEF Tracking, At, Moves, Scrolls, Writes
  <1> QED BY <1>1, <1>2, <1>3, <1>4, <1>6, <1>7, Within DEF Moves, Scrolls, Writes

LEMMA ReadAgainKeeps == ASSUME IInv, ReadAgain PROVE IInv'
  <1>1. /\ TypeInv /\ pr.at = "read again" /\ pr.at # "idle" /\ con \in Consoles
        /\ "move" \in Steps /\ con' = con /\ pr \in Printers
    BY DEF ReadAgain, At, IInv, TypeInv, Steps
  <1>2. In \in {LF, HT} /\ con.pos \in Before /\ pr.a \in Before
    BY <1>1, InFacts DEF Moves, TypeInv, Bounded
  <1>3. PICK b \in Int : b = con.pos
    BY <1>1 DEF Consoles
  <1>4. pr.a \in Int /\ pr = [text |-> pr.text, at |-> pr.at, a |-> pr.a, b |-> pr.b]
    BY <1>1 DEF Printers
  <1>5. Pass("move", pr.a, b)
    BY <1>3, <1>4 DEF ReadAgain, Step, Pass
  <1>6. pr'.at = "move" /\ pr'.a = pr.a /\ pr'.b = b /\ paper' = paper /\ pr'.text = pr.text
    BY <1>5 DEF Pass
  <1>7. In' = In
    BY <1>6 DEF In
  <1>8. Bounded'
    BY <1>1, <1>2, <1>3, <1>6, <1>7 DEF Bounded, At, Moves, Writes, Before
  <1>9. ~torn => Tracking'
    <2>1. SUFFICES ASSUME ~torn PROVE Tracking'
      OBVIOUS
    <2>2. Shows(con, paper) /\ pr.a = con.pos
      BY <1>1, <2>1 DEF IInv, Tracks, Tracking, Moves
    <2>3. Shows(con', paper') /\ pr'.a = con'.pos /\ pr'.b = con'.pos
      BY <1>1, <1>3, <1>6, <2>2
    <2> QED BY <1>6, <2>3 DEF Tracking, At, Moves, Scrolls, Writes
  <1> QED BY <1>1, <1>2, <1>3, <1>4, <1>5, <1>8, <1>9, Within DEF Moves, Scrolls, Writes

LEMMA LineFeedKeeps == ASSUME IInv, LineFeed PROVE IInv'
  <1>1. /\ TypeInv /\ pr.at = "move" /\ pr.at # "idle" /\ con \in Consoles /\ In = LF
        /\ "full?" \in Steps /\ pr.a \in Int /\ pr.b \in Int
    BY DEF LineFeed, At, IInv, TypeInv, Steps, Printers
  <1>2. PICK a \in Nat, b \in Nat : a = pr.a /\ b = pr.b /\ a \in Near /\ b \in Near
    <2>1. pr.a \in Near /\ pr.b \in Near
      BY <1>1, CharKinds DEF TypeInv, Bounded, At, Before
    <2> QED BY <2>1 DEF Near
  <1>3. PICK pos : pos \in {FeedFrom(a, b), FeedFrom(b, a)} /\ con' = [con EXCEPT !.pos = pos]
    BY <1>2 DEF LineFeed
  <1>4. pos \in Int /\ pos \in Far \ {0}
    <2>1. FeedFrom(a, b) \in a + 1 .. a + cols /\ FeedFrom(b, a) \in b + 1 .. b + cols
      BY FeedFacts
    <2> QED BY <1>2, <1>3, <2>1, ScreenFacts DEF Near, Far
  <1>5. con' \in Consoles /\ con'.pos = pos /\ con'.cell = con.cell
    BY <1>1, <1>3, <1>4, PosSet
  <1>6. Pass("full?", pr.a, pr.b) /\ In' = In
    <2>1. Go("full?")
      BY DEF LineFeed
    <2> QED BY <1>1, <2>1, Passes
  <1>7. pr'.at = "full?" /\ paper' = paper
    BY <1>6 DEF Pass
  <1>8. Bounded'
    BY <1>1, <1>4, <1>5, <1>6, <1>7 DEF Bounded, At, Moves, Writes
  <1>9. ~torn => Tracking'
    <2>1. SUFFICES ASSUME ~torn PROVE Tracking'
      OBVIOUS
    <2>2. Sheet(paper) /\ Shows(con, paper) /\ pr.a = con.pos /\ pr.b = con.pos
      BY <1>1, <2>1 DEF IInv, Tracks, Tracking, Moves, At
    <2>3. pos = FeedFrom(a, a) /\ paper \in Sheets /\ Place(paper) = a /\ Same(con, paper)
      BY <1>2, <1>3, <2>2 DEF Sheet, Shows
    <2>4. pos = paper.at * cols
      BY <2>3, FeedFacts
    <2>5. Same(con', paper') /\ con'.pos = paper'.at * cols /\ In' = LF
      <3>1. Same(con', paper)
        BY <1>5, <2>3, SameLines
      <3> QED BY <1>1, <1>5, <1>6, <1>7, <2>4, <3>1
    <2> QED BY <1>7, <2>5 DEF Tracking, At, Moves, Scrolls, Writes
  <1> QED BY <1>1, <1>5, <1>6, <1>8, <1>9, Within, CharKinds DEF Moves, Scrolls, Writes

LEMMA TabulateKeeps == ASSUME IInv, Tabulate PROVE IInv'
  <1>1. /\ TypeInv /\ pr.at = "move" /\ pr.at # "idle" /\ con \in Consoles /\ In = HT
        /\ Finish
    BY DEF Tabulate, At, IInv, TypeInv
  <1>2. PICK a \in Nat, b \in Nat : a = pr.a /\ b = pr.b /\ a \in Inside /\ b \in Inside
    <2>1. pr.a \in Inside /\ pr.b \in Inside
      BY <1>1 DEF TypeInv, Bounded, At, Before
    <2> QED BY <2>1 DEF Inside
  <1>3. PICK pos : pos \in {TabFrom(a, b), TabFrom(b, a)} /\ con' = [con EXCEPT !.pos = pos]
    BY <1>2 DEF Tabulate
  <1>4. pos \in Int /\ pos \in Near
    <2>1. TabFrom(a, b) \in a + 1 .. a + TAB_SIZE /\ TabFrom(b, a) \in b + 1 .. b + TAB_SIZE
      BY TabFacts
    <2> QED BY <1>2, <1>3, <2>1, ScreenFacts DEF Near, Inside
  <1>5. con' \in Consoles /\ con'.pos = pos /\ con'.cell = con.cell
    BY <1>1, <1>3, <1>4, PosSet
  <1>6. ~torn => Sheet(Typed(paper, In)) /\ Shows(con', Typed(paper, In))
    <2>1. SUFFICES ASSUME ~torn PROVE Sheet(Typed(paper, HT)) /\ Shows(con', Typed(paper, HT))
      BY <1>1
    <2>2. Sheet(paper) /\ Shows(con, paper) /\ pr.a = con.pos /\ pr.b = con.pos
      BY <1>1, <2>1 DEF IInv, Tracks, Tracking, Moves, At
    <2>3. pos = TabFrom(a, a) /\ paper \in Sheets /\ Place(paper) = a /\ Same(con, paper)
      BY <1>2, <1>3, <2>2 DEF Sheet, Shows
    <2>4. paper.at <= rows
      <3>1. a < Size
        BY <1>2, ScreenFacts DEF Inside
      <3> QED BY <2>3, <3>1, PlaceFacts
    <2>5. /\ Sheet(Typed(paper, HT)) /\ Place(Typed(paper, HT)) = pos
          /\ Typed(paper, HT).line = paper.line
      BY <2>2, <2>3, <2>4, TabFacts
    <2> QED BY <1>5, <2>3, <2>5, SameLines DEF Shows
  <1> QED BY <1>1, <1>4, <1>5, <1>6, Finished, CharKinds DEF Letter

LEMMA ShiftKept ==
    ASSUME NEW now \in BOOLEAN, NEW code
    PROVE  ShiftAfter(now, code) \in BOOLEAN
  BY DEF ShiftAfter

LEMMA DecodedFacts ==
    ASSUME NEW code
    PROVE  Decoded(code) \subseteq Typable
  <1>1. CASE code \in DOMAIN LetterOf
    <2>1. LetterOf[code] \in Typable /\ LetterOf[code] \in DOMAIN Shifted
      BY <1>1, TextsAssumption DEF Typable
    <2>2. Shifted[LetterOf[code]] \in Typable
      BY <2>1 DEF Typable
    <2>3. GetLetter(LetterOf[code]) \in Typable
      BY <2>1, <2>2 DEF GetLetter
    <2> QED BY <1>1, <2>3 DEF Decoded
  <1>2. CASE code \notin DOMAIN LetterOf
    BY <1>2 DEF Decoded, Typable
  <1> QED BY <1>1, <1>2

\* Where a text may start.
LEMMA Idle ==
    ASSUME IInv, pr.at = "idle"
    PROVE  /\ con \in Consoles /\ con.pos \in Inside /\ con.pos \in Near /\ con.pos \in 0 .. Size
           /\ torn => paper = BlankSheet
           /\ ~torn => Sheet(paper) /\ Shows(con, paper)
  <1>1. con \in Consoles /\ con.pos \in Inside
    BY DEF IInv, TypeInv, Bounded, At
  <1>2. Inside \subseteq Near /\ Inside \subseteq 0 .. Size
    BY ScreenFacts DEF Inside, Near
  <1>3. ~torn => Sheet(paper) /\ Shows(con, paper)
    BY DEF IInv, Tracks, Tracking
  <1> QED BY <1>1, <1>2, <1>3 DEF IInv, Tracks

LEMMA GetCharKeeps == ASSUME IInv, GetChar PROVE IInv'
  <1>1. /\ pr.at = "idle" /\ keys # <<>> /\ keys' = Tail(keys)
        /\ UNCHANGED <<con, down, sure, torn, paper>> /\ Beside
    BY DEF GetChar, Ring!Take, At, IInv, TypeInv
  <1>2. keys \in Seq(Codes) /\ Len(keys) < BUF_SIZE /\ BUF_SIZE \in Nat
    BY <1>1, TerminalAssumption DEF Beside
  <1>3. keys' \in Seq(Codes) /\ Len(keys') < BUF_SIZE
    <2>1. Tail(keys) \in Seq(Codes) /\ Len(Tail(keys)) = Len(keys) - 1
      BY <1>1, <1>2, HeadTailProperties
    <2>2. Len(keys) \in Nat
      BY <1>2, LenProperties
    <2> QED BY <1>1, <1>2, <2>1, <2>2
  <1>4. shift' \in BOOLEAN
    BY <1>1, ShiftKept DEF GetChar, Beside
  <1>5. Beside'
    BY <1>1, <1>3, <1>4 DEF Beside
  <1>6. PICK D : D = Decoded(Head(keys)) /\ D \subseteq Typable
    BY DecodedFacts
  <1>7. CASE D = {}
    <2>1. pr' = Printing(<<>>)
      BY <1>6, <1>7 DEF GetChar
    <2>2. Shape(<<>>)
      <3>1. <<>> \in Seq(Glyphs) /\ Len(<<>>) = 0 /\ 1 .. 0 = {}
        OBVIOUS
      <3> QED BY <3>1 DEF Shape
    <2> QED BY <1>1, <1>5, <2>1, <2>2, Idle, Started
  <1>8. CASE D # {}
    <2>1. PICK c \in Typable : c = CHOOSE x \in D : TRUE
      BY <1>6, <1>8
    <2>2. pr' = Printing(<<c, LF>>)
      BY <1>6, <1>8, <2>1, CharText DEF GetChar
    <2>3. Shape(<<c, LF>>)
      BY CharShape
    <2> QED BY <1>1, <1>5, <2>2, <2>3, Idle, Started
  <1> QED BY <1>7, <1>8

LEMMA PrintLineKeeps == ASSUME IInv, PrintLine PROVE IInv'
  <1>1. /\ pr.at = "idle" /\ Beside
        /\ UNCHANGED <<keys, shift, con, down, sure, torn, paper>>
    BY DEF PrintLine, At, IInv, TypeInv
  <1>2. PICK line \in Lines : pr' = Printing(Text(line))
    BY DEF PrintLine
  <1>3. Shape(Text(line))
    BY LineShape
  <1>4. Beside'
    BY <1>1 DEF Beside
  <1> QED BY <1>1, <1>2, <1>3, <1>4, Idle, Started

-----------------------------------------------------------------------------
(***************************************************************************)
(* The handlers' steps keep it.                                            *)
(***************************************************************************)
LEMMA BesidePut == ASSUME Beside, NEW code \in Codes, PS2_irq_handler(code) PROVE Beside'
  <1>1. /\ keys' = Append(IF Len(keys) = BUF_SIZE - 1 THEN Tail(keys) ELSE keys, code)
        /\ UNCHANGED <<shift, torn>> /\ down' \subseteq ShiftKeys /\ sure' \in BOOLEAN
    <2>1. /\ keys' = Append(IF Len(keys) = BUF_SIZE - 1 THEN Tail(keys) ELSE keys, code)
          /\ UNCHANGED <<shift, torn>>
      BY DEF PS2_irq_handler, Ring!Put
    <2>2. down' \subseteq ShiftKeys
      BY DEF PS2_irq_handler, Down
    <2>3. sure' \in BOOLEAN
      BY DEF PS2_irq_handler
    <2> QED BY <2>1, <2>2, <2>3
  <1>2. keys \in Seq(Codes) /\ Len(keys) \in Nat /\ Len(keys) < BUF_SIZE /\ BUF_SIZE \in Nat \ {0, 1}
    BY TerminalAssumption, LenProperties DEF Beside
  <1>3. PICK s \in Seq(Codes) :
          s = (IF Len(keys) = BUF_SIZE - 1 THEN Tail(keys) ELSE keys) /\ Len(s) < BUF_SIZE - 1
    <2>1. CASE Len(keys) = BUF_SIZE - 1
      <3>1. keys # <<>>
        BY <1>2, <2>1, EmptySeq
      <3>2. Tail(keys) \in Seq(Codes) /\ Len(Tail(keys)) = Len(keys) - 1
        BY <1>2, <3>1, HeadTailProperties
      <3>3. PICK s \in Seq(Codes) : s = Tail(keys)
        BY <3>2
      <3>4. Len(s) < BUF_SIZE - 1
        BY <1>2, <2>1, <3>2, <3>3
      <3> QED BY <2>1, <3>3, <3>4
    <2>2. CASE Len(keys) # BUF_SIZE - 1
      BY <1>2, <2>2
    <2> QED BY <2>1, <2>2
  <1>4. Append(s, code) \in Seq(Codes) /\ Len(Append(s, code)) = Len(s) + 1
    BY AppendProperties
  <1>5. Len(s) \in Nat
    BY LenProperties
  <1> QED BY <1>1, <1>2, <1>3, <1>4, <1>5 DEF Beside

\* What the thread is at does not change with the keys.
LEMMA Untouched ==
    ASSUME IInv, Beside', UNCHANGED <<con, pr, torn, paper>>
    PROVE  IInv'
  <1>1. /\ con' = con /\ pr' = pr /\ torn' = torn /\ paper' = paper
        /\ In' = In
    BY DEF In
  <1>2. InStep'
    BY <1>1 DEF IInv, TypeInv, InStep, At
  <1>3. Bounded'
    BY <1>1 DEF IInv, TypeInv, Bounded, At, Before, Target
  <1>4. ~torn => Tracking'
    <2>1. SUFFICES ASSUME ~torn PROVE Tracking'
      OBVIOUS
    <2>2. Tracking
      BY <2>1 DEF IInv, Tracks
    <2>3. /\ pr'.at \in {"idle"} \cup Moves => Shows(con', paper')
          /\ pr'.at \in {"index", "store"} => Shows(con', Fed(paper'))
          /\ pr'.at \in {"fetch", "count"} => Shows(con', Marked(Fed(paper'), In'))
          /\ pr'.at \in Writes /\ In' = BS => paper'.at <= rows
      BY <1>1, <2>2 DEF Tracking
    <2>4. /\ At("copy")' =>
              /\ MovedUp(con', paper', pr'.a)
              /\ \A c \in pr'.a .. Size - 1 : con'.cell[c] = Glyph(paper', c)
          /\ pr'.at \in {"home", "clear from", "clear"} => MovedUp(con', paper', LastRow)
          /\ At("clear")' =>
                pr'.a >= LastRow /\ \A c \in LastRow .. pr'.a - 1 : con'.cell[c] = Blank
      BY <1>1, <2>2 DEF Tracking, At
    <2>5. /\ pr'.at \in {"read again", "move"} => pr'.a = con'.pos
          /\ At("move")' => pr'.b = con'.pos
          /\ At("full?")' =>
                IF In' = LF THEN Same(con', paper') /\ con'.pos = paper'.at * cols ELSE Shows(con', paper')
          /\ pr'.at \in Scrolls \ {"full?"} =>
                IF In' = LF THEN paper'.at >= rows ELSE paper'.at = rows + 1
          /\ pr'.at \in {"clear from", "clear"} => con'.pos = LastRow
          /\ pr'.at \in {"store", "count"} => pr'.a = con'.pos
      BY <1>1, <2>2 DEF Tracking, At
    <2> QED BY <2>3, <2>4, <2>5 DEF Tracking
  <1>5. Tracks'
    BY <1>1, <1>4 DEF IInv, Tracks
  <1> QED BY <1>1, <1>2, <1>3, <1>5 DEF IInv, TypeInv

LEMMA PosNat == ASSUME IInv PROVE con \in Consoles /\ con.pos \in Nat
  <1>1. TypeInv /\ con \in Consoles /\ pr.at \in Steps
    BY DEF IInv, TypeInv, Printers
  <1>2. /\ Inside \subseteq Nat /\ Near \subseteq Nat /\ Far \subseteq Nat /\ Cells \subseteq Nat
        /\ 0 .. Size \subseteq Nat /\ 1 .. LastRow \subseteq Nat
    BY ScreenFacts DEF Inside, Near, Far, Cells
  <1>3. \/ pr.at = "idle" \/ pr.at \in Moves \/ pr.at = "full?" \/ pr.at \in {"copy", "home"}
        \/ pr.at \in {"clear from", "clear"} \/ pr.at \in Writes
    BY <1>1 DEF Steps, Moves, Writes
  <1>4. con.pos \in Inside \/ con.pos \in Near \/ con.pos \in Far \/ con.pos \in Cells
        \/ con.pos \in 0 .. Size \/ con.pos \in 1 .. LastRow
    BY <1>1, <1>3 DEF TypeInv, Bounded, At, Before, Target
  <1> QED BY <1>1, <1>2, <1>4

LEMMA BoundaryShown ==
    ASSUME IInv, AtBoundary, ~torn
    PROVE  Sheet(paper) /\ Shows(con, paper)
  <1>1. Sheet(paper) /\ Tracking /\ TypeInv
    BY DEF IInv, Tracks
  <1>2. pr.at = IF pr.text = <<>> THEN "idle" ELSE FirstStep(In)
    BY DEF AtBoundary, Printing, In
  <1>3. CASE pr.at = "idle" \/ pr.at = "read pos"
    BY <1>1, <1>3 DEF Tracking, Moves
  <1>4. CASE pr.at = "index"
    <2>1. In = BS
      BY <1>2, <1>4 DEF FirstStep
    <2>2. Shows(con, Fed(paper)) /\ paper.at <= rows
      BY <1>1, <1>4, <2>1 DEF Tracking, Writes
    <2> QED BY <1>1, <2>2, FedFacts
  <1>5. CASE pr.at = "full?"
    <2>1. In # LF
      BY <1>2, <1>5 DEF FirstStep
    <2> QED BY <1>1, <1>5, <2>1 DEF Tracking, At
  <1> QED BY <1>2, <1>3, <1>4, <1>5 DEF FirstStep

LEMMA AtaKeeps == ASSUME IInv, ata_irq_handler PROVE IInv'
  <1>1. /\ con' = Printed(con, Message) /\ torn' = (torn \/ ~AtBoundary)
        /\ paper' = (IF torn' THEN BlankSheet ELSE TypedText(paper, Message))
        /\ UNCHANGED <<keys, shift, pr, down, sure>> /\ pr' = pr /\ Beside /\ TypeInv
    BY DEF ata_irq_handler, IInv, TypeInv
  <1>2. con' \in Consoles /\ con'.pos \in 1 .. LastRow
    BY <1>1, PosNat, MessagePrinted
  <1>3. /\ con'.pos \in Inside /\ con'.pos \in Near /\ con'.pos \in 0 .. Size
        /\ con'.pos \in Far \ {0} /\ con'.pos \in Cells
    BY <1>2, ScreenFacts DEF Inside, Near, Far, Cells
  <1>4. Beside'
    BY <1>1 DEF Beside
  <1>5. Shape(pr.text)
    BY <1>1 DEF TypeInv
  <1>6. torn' => paper' = BlankSheet
    BY <1>1
  <1>7. CASE AtBoundary
    <2>1. pr' = Printing(pr.text)
      BY <1>1, <1>7 DEF AtBoundary
    <2>2. ~torn' => Sheet(paper') /\ Shows(con', paper')
      BY <1>1, <1>7, BoundaryShown, PosNat, MessagePrinted
    <2> QED BY <1>2, <1>3, <1>4, <1>5, <1>6, <2>1, <2>2, Started
  <1>8. CASE ~AtBoundary
    <2>1. torn' /\ pr'.at = pr.at /\ pr'.a = pr.a /\ pr'.b = pr.b
      BY <1>1, <1>8
    <2>2. In' = In
      BY <1>1 DEF In
    <2>3. InStep'
      BY <1>1, <2>2 DEF TypeInv, InStep, At
    <2>4. Bounded'
      BY <1>1, <1>2, <1>3, <2>1, <2>2 DEF TypeInv, Bounded, At, Before, Target
    <2>5. Tracks'
      BY <1>6, <2>1 DEF Tracks
    <2> QED BY <1>1, <1>2, <1>4, <2>3, <2>4, <2>5 DEF IInv, TypeInv
  <1> QED BY <1>7, <1>8

-----------------------------------------------------------------------------
(***************************************************************************)
(* The invariant, and what follows from it.                                *)
(***************************************************************************)
LEMMA InitKeeps == Init => IInv
  <1>1. SUFFICES ASSUME Init PROVE IInv
    OBVIOUS
  <1>2. PICK lines \in BootLines :
          con = Printed(Cleared, BootText(lines)) /\ paper = TypedText(BlankSheet, BootText(lines))
    BY <1>1 DEF Init
  <1>3. con \in Consoles /\ con.pos \in Inside /\ Sheet(paper) /\ Shows(con, paper)
    BY <1>2, BootPrinted
  <1>4. /\ keys = <<>> /\ shift = FALSE /\ down = {} /\ sure = TRUE /\ torn = FALSE
        /\ pr = [text |-> <<>>, at |-> "idle", a |-> 0, b |-> 0]
    BY <1>1 DEF Init, Printing
  <1>5. Beside
    <2>1. keys \in Seq(Codes) /\ Len(keys) = 0 /\ BUF_SIZE > 0
      BY <1>4, TerminalAssumption
    <2> QED BY <1>4, <2>1 DEF Beside
  <1>6. <<>> \in Seq(Glyphs) /\ Len(<<>>) = 0 /\ 1 .. 0 = {}
    OBVIOUS
  <1>7. pr \in Printers
    <2>1. "idle" \in Steps
      BY DEF Steps
    <2>2. PICK text \in Seq(Glyphs) : text = <<>>
      BY <1>6
    <2>3. [text |-> text, at |-> "idle", a |-> 0, b |-> 0] \in Printers
      BY <2>1, PrinterMade
    <2> QED BY <1>4, <2>2, <2>3
  <1>8. Shape(pr.text)
    BY <1>4, <1>6 DEF Shape
  <1>9. InStep
    BY <1>4 DEF InStep, At, Moves, Scrolls, Writes
  <1>10. Bounded
    BY <1>3, <1>4 DEF Bounded, At, Moves, Writes
  <1>11. Tracks
    BY <1>3, <1>4 DEF Tracks, Tracking, At, Moves, Scrolls, Writes
  <1> QED BY <1>3, <1>5, <1>7, <1>8, <1>9, <1>10, <1>11 DEF IInv, TypeInv

LEMMA NextKeeps == IInv /\ [Next]_vars => IInv'
  <1>1. SUFFICES ASSUME IInv, [Next]_vars PROVE IInv'
    OBVIOUS
  <1>2. CASE Printer
    BY <1>1, <1>2, GetCharKeeps, PrintLineKeeps, ScrollTestKeeps, ScrollCopyKeeps,
       ScrollHomeKeeps, ScrollClearFromKeeps, ScrollClearKeeps, IndexKeeps, StoreCellKeeps,
       FetchKeeps, CountKeeps, ReadPosKeeps, ReadAgainKeeps, LineFeedKeeps, TabulateKeeps
    DEF Printer
  <1>3. CASE ata_irq_handler
    BY <1>1, <1>3, AtaKeeps
  <1>4. ASSUME NEW code \in Codes, PS2_irq_handler(code) PROVE IInv'
    <2>1. Beside
      BY <1>1 DEF IInv, TypeInv
    <2>2. Beside' /\ UNCHANGED <<con, pr, torn, paper>>
      BY <1>4, <2>1, BesidePut DEF PS2_irq_handler
    <2> QED BY <1>1, <2>2, Untouched
  <1>5. CASE UNCHANGED vars
    <2>1. Beside'
      BY <1>1, <1>5 DEF IInv, TypeInv, Beside, vars
    <2> QED BY <1>1, <1>5, <2>1, Untouched DEF vars
  <1> QED BY <1>1, <1>2, <1>3, <1>4, <1>5 DEF Next

\* The printing, wherever it is interrupted, keeps IInv.
THEOREM TerminalInductive == Spec => []IInv
  BY InitKeeps, NextKeeps, PTL DEF Spec

\* Every variable keeps its type; pos stays between 0 and a row and a tab past
\* the screen, whatever the disk's handler prints between a read of pos and the
\* store that uses it.
THEOREM TerminalTypeCorrect == Spec => []TypeOK
  <1>1. IInv => TypeOK
    <2>1. SUFFICES ASSUME IInv PROVE TypeOK
      OBVIOUS
    <2>2. TypeInv /\ Beside /\ con \in Consoles /\ pr.at \in Steps
      BY <2>1 DEF IInv, TypeInv, Printers
    <2>3. con.pos \in 0 .. Size + cols + TAB_SIZE
      <3>1. /\ Inside \subseteq 0 .. Size + cols + TAB_SIZE /\ Near \subseteq 0 .. Size + cols + TAB_SIZE
            /\ Far \subseteq 0 .. Size + cols + TAB_SIZE /\ Cells \subseteq 0 .. Size + cols + TAB_SIZE
            /\ 0 .. Size \subseteq 0 .. Size + cols + TAB_SIZE
            /\ 1 .. LastRow \subseteq 0 .. Size + cols + TAB_SIZE
        BY ScreenFacts DEF Inside, Near, Far, Cells
      <3>2. \/ pr.at = "idle" \/ pr.at \in Moves \/ pr.at = "full?" \/ pr.at \in {"copy", "home"}
            \/ pr.at \in {"clear from", "clear"} \/ pr.at \in Writes
        BY <2>2 DEF Steps, Moves, Writes
      <3>3. con.pos \in Inside \/ con.pos \in Near \/ con.pos \in Far \/ con.pos \in Cells
            \/ con.pos \in 0 .. Size \/ con.pos \in 1 .. LastRow
        BY <2>2, <3>2 DEF TypeInv, Bounded, At, Before, Target
      <3> QED BY <3>1, <3>3
    <2>4. paper \in Sheets
      BY <2>1, BlankFacts DEF IInv, Tracks, Sheet
    <2>5. paper.at \in 1 .. rows + 1 /\ paper.col \in 0 .. cols - 1
      BY <2>4 DEF Sheets, Cols
    <2>6. DOMAIN con.cell = Cells
      BY <2>2 DEF Consoles
    <2> QED BY <2>2, <2>3, <2>5, <2>6 DEF TypeOK, Beside
  <1> QED BY <1>1, TerminalInductive, PTL

\* No store, the thread's or the handler's, goes past the end of the screen.
THEOREM StoresStayOnScreen == Spec => []StoresOnScreen
  <1>1. IInv => StoresOnScreen
    BY DEF IInv, TypeInv, Consoles, StoresOnScreen
  <1> QED BY <1>1, TerminalInductive, PTL

\* Between characters the screen shows the text typed and pos is its end, as
\* long as no handler printed in the middle of one.
THEOREM ScreenShowsText == Spec => []ScreenShowsPaper
  <1>1. IInv => ScreenShowsPaper
    <2>1. SUFFICES ASSUME IInv, AtBoundary, ~torn
                   PROVE  /\ \A p \in Cells : con.cell[p] = paper.line[p \div cols + 1][p % cols]
                          /\ con.pos = (paper.at - 1) * cols + paper.col
      BY DEF ScreenShowsPaper
    <2> QED BY <2>1, BoundaryShown DEF Shows, Same, Glyph, Place
  <1> QED BY <1>1, TerminalInductive, PTL

-----------------------------------------------------------------------------
(***************************************************************************)
(* Shift.                                                                  *)
(***************************************************************************)
\* The values of shift as the codes are read.
Read(f, now, codes, n) ==
    /\ f \in [0 .. n -> BOOLEAN] /\ f[0] = now /\ f[n] = ShiftAfterAll(now, codes)
    /\ \A i \in 1 .. n : f[i] = ShiftAfter(f[i - 1], codes[i])

LEMMA ShiftSteps ==
    ASSUME NEW now \in BOOLEAN, NEW codes \in Seq(Codes), NEW n, n = Len(codes)
    PROVE  \E f : Read(f, now, codes, n)
  BY ShiftChain DEF Read

\* What is read first is what the rest goes on from.
LEMMA ShiftHead ==
    ASSUME NEW now \in BOOLEAN, NEW codes \in Seq(Codes), codes # <<>>
    PROVE  ShiftAfterAll(now, codes) = ShiftAfterAll(ShiftAfter(now, codes[1]), Tail(codes))
  <1>1. PICK n \in Nat, rest \in Seq(Codes) :
          /\ Len(codes) = n + 1 /\ rest = Tail(codes) /\ Len(rest) = n
          /\ \A i \in 1 .. n : rest[i] = codes[i + 1]
    <2>1. Len(codes) \in Nat /\ Len(codes) # 0
      BY LenProperties, EmptySeq
    <2>2. PICK n \in Nat : n = Len(codes) - 1
      BY <2>1
    <2>3. PICK rest \in Seq(Codes) :
            /\ rest = Tail(codes) /\ Len(rest) = Len(codes) - 1
            /\ \A i \in 1 .. Len(rest) : rest[i] = codes[i + 1]
      BY HeadTailProperties
    <2>4. Len(codes) = n + 1
      BY <2>1, <2>2
    <2>5. Len(rest) = n
      BY <2>2, <2>3
    <2>6. \A i \in 1 .. n : rest[i] = codes[i + 1]
      BY <2>3, <2>5
    <2> QED BY <2>3, <2>4, <2>5, <2>6
  <1>2. PICK first \in BOOLEAN : first = ShiftAfter(now, codes[1])
    BY ShiftKept
  <1>3. PICK f \in [0 .. n + 1 -> BOOLEAN] :
          /\ f[0] = now /\ f[n + 1] = ShiftAfterAll(now, codes)
          /\ \A i \in 1 .. n + 1 : f[i] = ShiftAfter(f[i - 1], codes[i])
    <2>1. PICK f : Read(f, now, codes, n + 1)
      BY <1>1, ShiftSteps
    <2> QED BY <2>1 DEF Read
  <1>4. PICK g \in [0 .. n -> BOOLEAN] :
          /\ g[0] = first /\ g[n] = ShiftAfterAll(first, rest)
          /\ \A i \in 1 .. n : g[i] = ShiftAfter(g[i - 1], rest[i])
    <2>1. PICK g : Read(g, first, rest, n)
      BY <1>1, ShiftSteps
    <2> QED BY <2>1 DEF Read
  <1>5. PICK S : S = {i \in 0 .. n : g[i] = f[i + 1]}
    OBVIOUS
  <1>6. 0 \in S
    <2>1. 1 \in 1 .. n + 1 /\ 1 - 1 = 0 /\ 0 + 1 = 1 /\ 0 \in 0 .. n
      OBVIOUS
    <2>2. f[1] = ShiftAfter(f[1 - 1], codes[1])
      BY <1>3, <2>1
    <2>3. g[0] = f[0 + 1]
      BY <1>2, <1>3, <1>4, <2>1, <2>2
    <2> QED BY <1>5, <2>1, <2>3
  <1>7. ASSUME NEW i \in 0 .. n, i + 1 \in 0 .. n, i \in S PROVE i + 1 \in S
    <2>1. PICK j \in 1 .. n : j = i + 1 /\ j - 1 = i /\ j + 1 \in 1 .. n + 1 /\ (j + 1) - 1 = j
      BY <1>7
    <2>2. g[j] = ShiftAfter(g[i], rest[j]) /\ rest[j] = codes[j + 1]
      BY <1>1, <1>4, <2>1
    <2>3. f[j + 1] = ShiftAfter(f[j], codes[j + 1])
      BY <1>3, <2>1
    <2>4. g[i] = f[j]
      BY <1>5, <1>7, <2>1
    <2>5. g[j] = f[j + 1]
      BY <2>2, <2>3, <2>4
    <2> QED BY <1>5, <1>7, <2>1, <2>5
  <1>8. n \in S
    <2>1. \A i \in 0 .. n : i \in S
      BY <1>6, <1>7, Upward
    <2> QED BY <2>1
  <1> QED BY <1>1, <1>2, <1>3, <1>4, <1>5, <1>8

\* What is typed last is read last.
LEMMA ShiftLast ==
    ASSUME NEW now \in BOOLEAN, NEW codes \in Seq(Codes), NEW code \in Codes
    PROVE  ShiftAfterAll(now, Append(codes, code)) = ShiftAfter(ShiftAfterAll(now, codes), code)
  <1>1. PICK n \in Nat, all \in Seq(Codes) :
          /\ Len(codes) = n /\ all = Append(codes, code) /\ Len(all) = n + 1
          /\ \A i \in 1 .. n : all[i] = codes[i]
          /\ all[n + 1] = code
    <2>1. PICK n \in Nat : n = Len(codes)
      BY LenProperties
    <2>2. PICK all \in Seq(Codes) :
            /\ all = Append(codes, code) /\ Len(all) = Len(codes) + 1
            /\ \A i \in 1 .. Len(codes) : all[i] = codes[i]
            /\ all[Len(codes) + 1] = code
      BY AppendProperties
    <2>3. Len(all) = n + 1 /\ all[n + 1] = code
      BY <2>1, <2>2
    <2>4. \A i \in 1 .. n : all[i] = codes[i]
      BY <2>1, <2>2
    <2> QED BY <2>1, <2>2, <2>3, <2>4
  <1>2. PICK f \in [0 .. n + 1 -> BOOLEAN] :
          /\ f[0] = now /\ f[n + 1] = ShiftAfterAll(now, all)
          /\ \A i \in 1 .. n + 1 : f[i] = ShiftAfter(f[i - 1], all[i])
    <2>1. PICK f : Read(f, now, all, n + 1)
      BY <1>1, ShiftSteps
    <2> QED BY <2>1 DEF Read
  <1>3. PICK g \in [0 .. n -> BOOLEAN] :
          /\ g[0] = now /\ g[n] = ShiftAfterAll(now, codes)
          /\ \A i \in 1 .. n : g[i] = ShiftAfter(g[i - 1], codes[i])
    <2>1. PICK g : Read(g, now, codes, n)
      BY <1>1, ShiftSteps
    <2> QED BY <2>1 DEF Read
  <1>4. PICK S : S = {i \in 0 .. n : g[i] = f[i]}
    OBVIOUS
  <1>5. 0 \in S
    BY <1>2, <1>3, <1>4
  <1>6. ASSUME NEW i \in 0 .. n, i + 1 \in 0 .. n, i \in S PROVE i + 1 \in S
    <2>1. PICK j \in 1 .. n : j = i + 1 /\ j - 1 = i /\ j \in 1 .. n + 1
      BY <1>6
    <2>2. g[j] = ShiftAfter(g[i], codes[j]) /\ f[j] = ShiftAfter(f[i], codes[j])
      BY <1>1, <1>2, <1>3, <2>1
    <2>3. g[j] = f[j]
      BY <1>4, <1>6, <2>2
    <2> QED BY <1>4, <1>6, <2>1, <2>3
  <1>7. n \in S
    <2>1. \A i \in 0 .. n : i \in S
      BY <1>5, <1>6, Upward
    <2> QED BY <2>1
  <1>8. f[n + 1] = ShiftAfter(f[n], code)
    <2>1. n + 1 \in 1 .. n + 1 /\ (n + 1) - 1 = n
      OBVIOUS
    <2> QED BY <1>1, <1>2, <2>1
  <1> QED BY <1>1, <1>2, <1>3, <1>4, <1>7, <1>8

\* After a shift code it makes no difference what shift was before.
LEMMA ShiftForgets ==
    ASSUME NEW one \in BOOLEAN, NEW other \in BOOLEAN, NEW codes \in Seq(Codes),
           NEW k \in 1 .. Len(codes), codes[k] \in ShiftCodes
    PROVE  ShiftAfterAll(one, codes) = ShiftAfterAll(other, codes)
  <1>1. PICK n \in Nat : n = Len(codes) /\ k \in 1 .. n
    BY LenProperties
  <1>2. PICK f \in [0 .. n -> BOOLEAN] :
          /\ f[0] = one /\ f[n] = ShiftAfterAll(one, codes)
          /\ \A i \in 1 .. n : f[i] = ShiftAfter(f[i - 1], codes[i])
    <2>1. PICK f : Read(f, one, codes, n)
      BY <1>1, ShiftSteps
    <2> QED BY <2>1 DEF Read
  <1>3. PICK g \in [0 .. n -> BOOLEAN] :
          /\ g[0] = other /\ g[n] = ShiftAfterAll(other, codes)
          /\ \A i \in 1 .. n : g[i] = ShiftAfter(g[i - 1], codes[i])
    <2>1. PICK g : Read(g, other, codes, n)
      BY <1>1, ShiftSteps
    <2> QED BY <2>1 DEF Read
  <1>4. PICK S : S = {i \in 0 .. n : i >= k => f[i] = g[i]}
    OBVIOUS
  <1>5. 0 \in S
    BY <1>1, <1>4
  <1>6. f[k] = g[k]
    BY <1>1, <1>2, <1>3 DEF ShiftAfter, ShiftCodes
  <1>7. ASSUME NEW i \in 0 .. n, i + 1 \in 0 .. n, i \in S PROVE i + 1 \in S
    <2>1. PICK j \in 1 .. n : j = i + 1 /\ j - 1 = i
      BY <1>7
    <2>2. g[j] = ShiftAfter(g[i], codes[j]) /\ f[j] = ShiftAfter(f[i], codes[j])
      BY <1>2, <1>3, <2>1
    <2>3. CASE i >= k
      <3>1. f[j] = g[j]
        BY <1>4, <1>7, <2>2, <2>3
      <3> QED BY <1>4, <1>7, <2>1, <3>1
    <2>4. CASE ~ (i >= k)
      <3>1. j >= k => j = k
        BY <1>1, <2>1, <2>4
      <3> QED BY <1>4, <1>6, <1>7, <2>1, <3>1
    <2> QED BY <2>3, <2>4
  <1>8. n \in S
    <2>1. \A i \in 0 .. n : i \in S
      BY <1>5, <1>7, Upward
    <2> QED BY <2>1
  <1> QED BY <1>1, <1>2, <1>3, <1>4, <1>8

LEMMA ShiftPassed == ASSUME NEW now, NEW code, code \notin ShiftCodes PROVE ShiftAfter(now, code) = now
  BY DEF ShiftAfter, ShiftCodes

\* No code in the ring that another key sends, and GetChar takes for shift,
\* comes behind right shift's.
RightLast(codes) ==
    \A i \in 1 .. Len(codes) :
        codes[i] \in ShiftCodes \ Sent(RightShift)
            => \E j \in i + 1 .. Len(codes) : codes[j] \in Sent(RightShift)

\* What makes ShiftFollowsRightShift inductive: an older code of another key's
\* has right shift's behind it.
SureInv ==
    sure => LeftShift \notin down /\ RightLast(keys) /\ ShiftAfterAll(shift, keys) = (down # {})

LEMMA RightShiftCodes == Sent(RightShift) \subseteq ShiftCodes /\ LeftShift # RightShift
  BY KeyboardAssumption DEF Sent, ShiftCodes

LEMMA RestLast ==
    ASSUME NEW codes \in Seq(Codes), codes # <<>>, RightLast(codes)
    PROVE  RightLast(Tail(codes))
  <1>1. PICK rest \in Seq(Codes) :
          /\ rest = Tail(codes) /\ Len(rest) = Len(codes) - 1
          /\ \A i \in 1 .. Len(rest) : rest[i] = codes[i + 1]
    BY HeadTailProperties
  <1>2. PICK n \in Nat : n = Len(rest) /\ Len(codes) = n + 1
    <2>1. PICK n \in Nat : n = Len(rest)
      BY LenProperties
    <2>2. PICK m \in Nat : m = Len(codes)
      BY LenProperties
    <2>3. m = n + 1
      <3>1. n = m - 1
        BY <1>1, <2>1, <2>2
      <3> QED BY <3>1
    <2> QED BY <2>1, <2>2, <2>3
  <1>3. ASSUME NEW i \in 1 .. n, rest[i] \in ShiftCodes \ Sent(RightShift)
        PROVE  \E j \in i + 1 .. n : rest[j] \in Sent(RightShift)
    <2>1. i + 1 \in 1 .. n + 1 /\ codes[i + 1] \in ShiftCodes \ Sent(RightShift)
      BY <1>1, <1>2, <1>3
    <2>2. PICK j \in (i + 1) + 1 .. n + 1 : codes[j] \in Sent(RightShift)
      BY <1>2, <2>1 DEF RightLast
    <2>3. j - 1 \in i + 1 .. n /\ (j - 1) + 1 = j
      BY <2>2
    <2>4. rest[j - 1] = codes[j]
      <3>1. j - 1 \in 1 .. n
        BY <2>3
      <3> QED BY <1>1, <1>2, <2>3, <3>1
    <2> QED BY <2>2, <2>3, <2>4
  <1> QED BY <1>1, <1>2, <1>3 DEF RightLast

LEMMA GetCharFollows == ASSUME IInv, SureInv, GetChar PROVE SureInv'
  <1>1. /\ keys # <<>> /\ keys \in Seq(Codes) /\ shift \in BOOLEAN /\ keys' = Tail(keys)
        /\ UNCHANGED <<down, sure>> /\ shift' = ShiftAfter(shift, Head(keys))
    BY DEF IInv, TypeInv, Beside, GetChar, Ring!Take
  <1>2. Head(keys) = keys[1]
    BY <1>1
  <1>3. ShiftAfterAll(shift, keys) = ShiftAfterAll(shift', keys')
    BY <1>1, <1>2, ShiftHead
  <1>4. sure => RightLast(keys')
    BY <1>1, RestLast DEF SureInv
  <1> QED BY <1>1, <1>3, <1>4 DEF SureInv

\* What a put into a full ring drops has no say in shift any more.
LEMMA DropFollows ==
    ASSUME IInv, SureInv, sure, Dropped, ~Lost
    PROVE  /\ Tail(keys) \in Seq(Codes) /\ RightLast(Tail(keys))
           /\ ShiftAfterAll(shift, Tail(keys)) = ShiftAfterAll(shift, keys)
  <1>1. keys \in Seq(Codes) /\ shift \in BOOLEAN /\ BUF_SIZE \in Nat \ {0, 1}
    BY TerminalAssumption DEF IInv, TypeInv, Beside
  <1>2. keys # <<>>
    BY <1>1, EmptySeq DEF Dropped
  <1>3. PICK rest \in Seq(Codes) :
          /\ rest = Tail(keys) /\ Len(rest) = Len(keys) - 1
          /\ \A i \in 1 .. Len(rest) : rest[i] = keys[i + 1]
    BY <1>1, <1>2, HeadTailProperties
  <1>4. PICK n \in Nat : n = Len(rest) /\ Len(keys) = n + 1
    <2>1. PICK n \in Nat : n = Len(rest)
      BY LenProperties
    <2>2. PICK m \in Nat : m = Len(keys)
      BY <1>1, LenProperties
    <2>3. m = n + 1
      <3>1. n = m - 1
        BY <1>3, <2>1, <2>2
      <3> QED BY <3>1
    <2> QED BY <2>1, <2>2, <2>3
  <1>5. PICK first \in BOOLEAN : first = ShiftAfter(shift, keys[1])
    BY <1>1, ShiftKept
  <1>6. ShiftAfterAll(shift, keys) = ShiftAfterAll(first, rest)
    BY <1>1, <1>2, <1>3, <1>5, ShiftHead
  <1>7. ShiftAfterAll(shift, rest) = ShiftAfterAll(first, rest)
    <2>1. CASE keys[1] \notin ShiftCodes
      BY <1>5, <2>1, ShiftPassed
    <2>2. CASE keys[1] \in ShiftCodes
      <3>1. PICK i \in 2 .. Len(keys) : keys[i] \in Sent(RightShift)
        <4>1. CASE keys[1] \in Sent(RightShift)
          BY <4>1 DEF Lost
        <4>2. CASE keys[1] \notin Sent(RightShift)
          <5>1. 1 \in 1 .. Len(keys) /\ 1 + 1 = 2
            BY <1>4
          <5> QED BY <2>2, <4>2, <5>1 DEF SureInv, RightLast
        <4> QED BY <4>1, <4>2
      <3>2. PICK k \in 1 .. n : k + 1 = i
        <4>1. i - 1 \in 1 .. n /\ (i - 1) + 1 = i
          BY <1>4, <3>1
        <4> QED BY <4>1
      <3>3. rest[k] \in ShiftCodes
        BY <1>3, <1>4, <3>1, <3>2, RightShiftCodes
      <3> QED BY <1>1, <1>4, <3>3, ShiftForgets
    <2> QED BY <2>1, <2>2
  <1>8. RightLast(rest)
    BY <1>1, <1>2, <1>3, RestLast DEF SureInv
  <1> QED BY <1>3, <1>6, <1>7, <1>8

\* A code behind the others.
LEMMA AppendLast ==
    ASSUME NEW codes \in Seq(Codes), NEW code \in Codes,
           code \in Sent(RightShift) \/ (RightLast(codes) /\ code \notin ShiftCodes)
    PROVE  RightLast(Append(codes, code))
  <1>1. PICK n \in Nat : n = Len(codes)
    BY LenProperties
  <1>2. PICK all \in Seq(Codes) :
          /\ all = Append(codes, code) /\ Len(all) = n + 1 /\ all[n + 1] = code
          /\ \A i \in 1 .. n : all[i] = codes[i]
    <2>1. PICK all \in Seq(Codes) :
            /\ all = Append(codes, code) /\ Len(all) = Len(codes) + 1
            /\ \A i \in 1 .. Len(codes) : all[i] = codes[i]
            /\ all[Len(codes) + 1] = code
      BY AppendProperties
    <2> QED BY <1>1, <2>1
  <1>3. ASSUME NEW i \in 1 .. n + 1, all[i] \in ShiftCodes \ Sent(RightShift)
        PROVE  \E j \in i + 1 .. n + 1 : all[j] \in Sent(RightShift)
    <2>1. i # n + 1 /\ i \in 1 .. n
      BY <1>2, <1>3
    <2>2. CASE code \in Sent(RightShift)
      <3>1. n + 1 \in i + 1 .. n + 1
        BY <2>1
      <3> QED BY <1>2, <2>2, <3>1
    <2>3. CASE RightLast(codes)
      <3>1. PICK j \in i + 1 .. n : codes[j] \in Sent(RightShift)
        BY <1>1, <1>2, <1>3, <2>1, <2>3 DEF RightLast
      <3>2. j \in 1 .. n /\ j \in i + 1 .. n + 1
        BY <2>1, <3>1
      <3> QED BY <1>2, <3>1, <3>2
    <2> QED BY <2>2, <2>3
  <1> QED BY <1>2, <1>3 DEF RightLast

LEMMA PutFollows ==
    ASSUME IInv, SureInv, NEW code \in Codes, PS2_irq_handler(code)
    PROVE  SureInv'
  <1>1. /\ keys \in Seq(Codes) /\ shift \in BOOLEAN /\ BUF_SIZE \in Nat \ {0, 1} /\ shift' = shift
        /\ keys' = Append(IF Dropped THEN Tail(keys) ELSE keys, code) /\ down' = Down(code)
        /\ down \subseteq ShiftKeys
        /\ sure' = IF code \in Sent(RightShift) THEN LeftShift \notin down
                   ELSE sure /\ ~Lost /\ code \notin ShiftCodes \cup Sent(LeftShift)
    BY TerminalAssumption DEF IInv, TypeInv, Beside, PS2_irq_handler, Ring!Put, Dropped
  <1>2. PICK rest \in Seq(Codes) : rest = IF Dropped THEN Tail(keys) ELSE keys
    <2>1. Dropped => keys # <<>>
      BY <1>1, EmptySeq DEF Dropped
    <2>2. Dropped => Tail(keys) \in Seq(Codes)
      BY <1>1, <2>1, HeadTailProperties
    <2> QED BY <1>1, <2>2
  <1>3. keys' = Append(rest, code) /\ ShiftAfterAll(shift', keys') = ShiftAfter(ShiftAfterAll(shift, rest), code)
    BY <1>1, <1>2, ShiftLast
  <1>4. SUFFICES ASSUME sure'
                 PROVE  /\ LeftShift \notin down' /\ RightLast(keys')
                        /\ ShiftAfterAll(shift', keys') = (down' # {})
    BY DEF SureInv
  <1>5. CASE code \in Sent(RightShift)
    <2>1. RightLast(keys')
      BY <1>2, <1>3, <1>5, AppendLast
    <2>2. code \notin Sent(LeftShift) /\ LeftShift \notin down
      BY <1>1, <1>4, <1>5, KeyboardAssumption
    <2>3. LeftShift \notin down'
      BY <1>1, <2>2 DEF Down, Sent
    <2>4. CASE code = RightShift.press
      <3>1. RightShift \in down'
        BY <1>1, <2>4 DEF Down, ShiftKeys
      <3>2. code \in ShiftDown
        BY <2>4, KeyboardAssumption
      <3>3. ShiftAfterAll(shift', keys') = TRUE
        BY <1>3, <3>2 DEF ShiftAfter
      <3> QED BY <2>1, <2>3, <3>1, <3>3
    <2>5. CASE code # RightShift.press
      <3>1. code = RightShift.release
        BY <1>5, <2>5 DEF Sent
      <3>2. down' = {}
        BY <1>1, <2>3, <2>5, <3>1 DEF Down, ShiftKeys
      <3>3. code \in ShiftUp /\ code \notin ShiftDown
        BY <3>1, KeyboardAssumption, TerminalAssumption
      <3>4. ShiftAfterAll(shift', keys') = FALSE
        BY <1>3, <3>3 DEF ShiftAfter
      <3> QED BY <2>1, <2>3, <3>2, <3>4
    <2> QED BY <2>4, <2>5
  <1>6. CASE code \notin Sent(RightShift)
    <2>1. sure /\ ~Lost /\ code \notin ShiftCodes /\ code \notin Sent(LeftShift)
      BY <1>1, <1>4, <1>6
    <2>2. down' = down
      BY <1>1, <1>6, <2>1 DEF Down, Sent, ShiftKeys
    <2>3. RightLast(rest) /\ ShiftAfterAll(shift, rest) = ShiftAfterAll(shift, keys)
      <3>1. CASE Dropped
        BY <1>2, <2>1, <3>1, DropFollows
      <3>2. CASE ~Dropped
        BY <1>2, <2>1, <3>2 DEF SureInv
      <3> QED BY <3>1, <3>2
    <2>4. RightLast(keys')
      BY <1>2, <1>3, <2>1, <2>3, AppendLast
    <2>5. ShiftAfterAll(shift', keys') = ShiftAfterAll(shift, keys)
      BY <1>3, <2>1, <2>3, ShiftPassed
    <2> QED BY <2>1, <2>2, <2>4, <2>5 DEF SureInv
  <1> QED BY <1>5, <1>6

\* Once the codes typed are read, shift is set exactly while a shift key is
\* down, whatever the ring dropped, if the last word on it was right shift's
\* and was not dropped: of any other keys' codes nothing is assumed.
THEOREM RightShiftIsFollowed == Spec => []ShiftFollowsRightShift
  <1>1. Init => SureInv
    <2>1. SUFFICES ASSUME Init PROVE SureInv
      OBVIOUS
    <2>2. keys = <<>> /\ shift = FALSE /\ down = {}
      BY <2>1 DEF Init
    <2>3. keys \in Seq(Codes) /\ Len(keys) = 0
      BY <2>2
    <2>4. PICK f \in [0 .. 0 -> BOOLEAN] : f[0] = FALSE /\ f[0] = ShiftAfterAll(FALSE, keys)
      <3>1. FALSE \in BOOLEAN
        OBVIOUS
      <3> QED BY <2>3, <3>1, ShiftChain
    <2> QED BY <2>2, <2>3, <2>4 DEF SureInv, RightLast
  <1>2. IInv /\ SureInv /\ [Next]_vars => SureInv'
    <2>1. SUFFICES ASSUME IInv, SureInv, [Next]_vars PROVE SureInv'
      OBVIOUS
    <2>2. CASE UNCHANGED <<keys, shift, down, sure>>
      BY <2>1, <2>2 DEF SureInv
    <2>3. GetChar \/ UNCHANGED <<keys, shift, down, sure>>
          \/ \E code \in Codes : PS2_irq_handler(code)
      BY <2>1 DEF Next, Printer, PrintLine, ScrollTest, ScrollCopy, ScrollHome, ScrollClearFrom,
         ScrollClear, Scrolled, Index, StoreCell, Fetch, Count, ReadPos, ReadAgain, LineFeed,
         Tabulate, Finish, Go, Step, ata_irq_handler, vars
    <2> QED BY <2>1, <2>2, <2>3, GetCharFollows, PutFollows
  <1>3. SureInv => ShiftFollowsRightShift
    BY DEF SureInv, ShiftFollowsRightShift
  <1> QED BY <1>1, <1>2, <1>3, TerminalInductive, PTL DEF Spec
=============================================================================
