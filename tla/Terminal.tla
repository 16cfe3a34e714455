------------------------------ MODULE Terminal ------------------------------
(***************************************************************************)
(* kdb_print from key to screen: GetChar's decoding of the codes typed,    *)
(* and printk on the VGA console, which the disk's interrupt handler       *)
(* prints on too, wherever it interrupts.  Printing never turns interrupts *)
(* off, so the thread's steps are single reads and writes of pos and of    *)
(* the screen.  The ring of codes is the FIFO that run kernel shows it is. *)
(* (The bits of a cell are stored one after the other in the code, with    *)
(* the same colours every time: a cell is one store here.)                 *)
(***************************************************************************)
EXTENDS Paper, Printk

CONSTANTS
    BUF_SIZE,      \* slots of the ring of codes, one of which stays empty
    LetterOf,      \* codes of letters, to the letter without shift
    CharOf,        \* codes of other characters, to the character
    ShiftDown,     \* codes on which GetChar sets shift
    ShiftUp,       \* codes on which it clears it
    LeftShift,     \* the keyboard's two shift keys: [press, release], the codes
    RightShift,    \* it sends when the key goes down and up
    OtherCodes,    \* codes GetChar passes over
    Shifted,       \* a letter, to the character 32 below it
    Lines,         \* what else threads and kmain print: formats and arguments
    BootLines      \* what kinit may have printed after it cleared the screen

Codes ==
    DOMAIN LetterOf \cup DOMAIN CharOf \cup ShiftDown \cup ShiftUp \cup OtherCodes

Text(line) == print_disp(line.fmt, line.args)

BootText(lines) == FlattenSeq([i \in DOMAIN lines |-> Text(lines[i])])

ASSUME TerminalAssumption ==
    /\ BUF_SIZE \in Nat \ {0, 1}
    /\ ShiftDown \cap ShiftUp = {}
    /\ DOMAIN LetterOf \subseteq Codes \ (DOMAIN CharOf \cup ShiftDown \cup ShiftUp \cup OtherCodes)

\* Whoever prints ends his lines, and none but the typist prints a backspace.
EndsLine(text) == text \in Seq(ToSet(text)) /\ text # <<>> /\ text[Len(text)] = LF

\* kinit prints one or two tabs in front of a line, and two go into a row.
Indents(text, i) ==
    LET starts(j) == j = 1 \/ text[j - 1] = LF
    IN  starts(i) \/ (text[i - 1] = HT /\ starts(i - 1) /\ TAB_SIZE < cols)

\* On a screen of one row a backspace typed would take pos below 0.
ASSUME TextsAssumption ==
    /\ rows > 1
    /\ \A lines \in BootLines :
          /\ EndsLine(BootText(lines)) /\ ToSet(BootText(lines)) \cap {BS, CR} = {}
          /\ \A i \in DOMAIN BootText(lines) :
                BootText(lines)[i] = HT => Indents(BootText(lines), i)
    /\ \A line \in Lines :
          EndsLine(Text(line)) /\ ToSet(Text(line)) \cap {BS, HT, CR} = {}
    /\ \A code \in DOMAIN LetterOf : LetterOf[code] \in DOMAIN Shifted \ {CR}
    /\ \A letter \in DOMAIN Shifted : Shifted[letter] # CR
    /\ \A code \in DOMAIN CharOf : CharOf[code] # CR

VARIABLES
    keys,     \* the codes typed and not read
    shift,    \* PS2::shift
    con,      \* the console
    pr,       \* kdb_print: the text it is printing, the step it is at in the
              \* text's first character, and two registers
    down,     \* history: the shift keys the keyboard reported down
    sure,     \* history: whether the last word on shift was right shift's
    torn,     \* history: whether a handler printed in the middle of a character
    paper     \* history: what the screen should show

vars == <<keys, shift, con, pr, down, sure, torn, paper>>

Ring == INSTANCE LossyFifo WITH Capacity <- BUF_SIZE - 1, items <- keys

ShiftCodes == ShiftDown \cup ShiftUp

ShiftKeys == {LeftShift, RightShift}

Sent(key) == {key.press, key.release}

\* Only right shift sends what GetChar tests for.
ASSUME KeyboardAssumption ==
    /\ RightShift.press \in ShiftDown /\ RightShift.release \in ShiftUp
    /\ Sent(LeftShift) \subseteq Codes \ Sent(RightShift)

-----------------------------------------------------------------------------
(***************************************************************************)
(* Decoding                                                                *)
(***************************************************************************)
\* Mutant: either code turns shift over, as that of a caps lock would.
ShiftAfterToggled(now, code) == (code \in ShiftDown \cup ShiftUp) # now

ShiftAfter(now, code) ==
    IF code \in ShiftDown THEN TRUE ELSE IF code \in ShiftUp THEN FALSE ELSE now

ShiftAfterAll(now, codes) == FoldLeft(ShiftAfter, now, codes)

GetLetter(letter) == IF shift THEN Shifted[letter] ELSE letter

\* The characters GetChar returns for a code: none, and it goes round again.
Decoded(code) ==
    IF code \in DOMAIN LetterOf THEN {GetLetter(LetterOf[code])}
    ELSE IF code \in DOMAIN CharOf THEN {CharOf[code]} ELSE {}

-----------------------------------------------------------------------------
\* The step a character's printing starts with.  GetChar returns no '\r'.
FirstStep(in) ==
    IF in \in {LF, HT} THEN "read pos" ELSE IF in = BS THEN "index" ELSE "full?"

Printing(text) ==
    [text |-> text, at |-> IF text = <<>> THEN "idle" ELSE FirstStep(Head(text)),
     a |-> 0, b |-> 0]

At(step) == pr.at = step

\* Between characters nothing of the thread's is in flight.
AtBoundary == pr = Printing(pr.text)

\* Mutant: the screen is as Clear left it.
InitCleared ==
    /\ keys = <<>> /\ shift = FALSE /\ down = {} /\ sure = TRUE
    /\ con = Cleared /\ paper = BlankSheet
    /\ pr = Printing(<<>>) /\ torn = FALSE

Init ==
    /\ keys = <<>> /\ shift = FALSE /\ down = {} /\ sure = TRUE
    /\ \E lines \in BootLines :
          /\ con = Printed(Cleared, BootText(lines))
          /\ paper = TypedText(BlankSheet, BootText(lines))
    /\ pr = Printing(<<>>) /\ torn = FALSE

-----------------------------------------------------------------------------
(***************************************************************************)
(* The handlers.  The keyboard's puts a code in the ring.                  *)
(***************************************************************************)
Dropped == Len(keys) = BUF_SIZE - 1

\* A put into a full ring drops the oldest code: right shift's last word is
\* lost, until it is pressed or released again.
Lost ==
    /\ Dropped /\ keys[1] \in Sent(RightShift)
    /\ \A i \in 2 .. Len(keys) : keys[i] \notin Sent(RightShift)

\* What the keyboard has reported down once it sent a code.
Down(code) ==
    {key \in ShiftKeys : code = key.press \/ (key \in down /\ code # key.release)}

\* Right shift has the last word until left shift, or another key whose code
\* GetChar takes for a shift key's, is pressed or released.
PS2_irq_handler(code) ==
    /\ Ring!Put(code)
    /\ down' = Down(code)
    /\ sure' = IF code \in Sent(RightShift) THEN LeftShift \notin down
               ELSE sure /\ ~Lost /\ code \notin ShiftCodes \cup Sent(LeftShift)
    /\ UNCHANGED <<shift, con, pr, torn, paper>>

\* Mutant: the message does not end its line.
MessageOpen == <<"!">>

\* "ATA IRQ!\n"
Message == <<"!", LF>>

ata_irq_handler ==
    /\ con' = Printed(con, Message)
    /\ torn' = (torn \/ ~AtBoundary)
    /\ paper' = IF torn' THEN BlankSheet ELSE TypedText(paper, Message)
    /\ UNCHANGED <<keys, shift, pr, down, sure>>

-----------------------------------------------------------------------------
(***************************************************************************)
(* kdb_print, and whoever else prints                                      *)
(***************************************************************************)
\* GetChar reads a code and decodes it; kdb_print prints "%c\n".
GetChar ==
    /\ At("idle")
    /\ Ring!Take
    /\ shift' = ShiftAfter(shift, Head(keys))
    /\ pr' = Printing(IF Decoded(Head(keys)) = {} THEN <<>>
                      ELSE LET char == CHOOSE c \in Decoded(Head(keys)) : TRUE
                           IN  print_disp(<<"%c", LF>>, <<char>>))
    /\ UNCHANGED <<con, down, sure, torn, paper>>

\* While kdb_print waits for a key, other threads and kmain print.
PrintLine ==
    /\ At("idle") /\ keys = <<>>
    /\ \E line \in Lines : pr' = Printing(Text(line))
    /\ UNCHANGED <<keys, shift, con, down, sure, torn, paper>>

Step(next) == pr' = next /\ UNCHANGED <<keys, shift, down, sure, torn>>

Go(next) == Step([pr EXCEPT !.at = next]) /\ UNCHANGED paper

Finish ==
    /\ Step(Printing(Tail(pr.text)))
    /\ paper' = IF torn THEN paper ELSE Typed(paper, Head(pr.text))

In == Head(pr.text)

\* Scroll's end: a line feed is done, a character goes on to its cell.
Scrolled == IF In = LF THEN Finish ELSE Go("index")

ScrollTest ==
    /\ At("full?")
    /\ IF con.pos < Size THEN Scrolled
       ELSE Step([pr EXCEPT !.at = "copy", !.a = 0]) /\ UNCHANGED paper
    /\ UNCHANGED con

\* memcpy, cell by cell.
ScrollCopy ==
    /\ At("copy")
    /\ IF pr.a < LastRow
       THEN /\ con' = Put(con, pr.a, con.cell[pr.a + cols])
            /\ Step([pr EXCEPT !.a = @ + 1]) /\ UNCHANGED paper
       ELSE Go("home") /\ UNCHANGED con

ScrollHome ==
    /\ At("home")
    /\ con' = [con EXCEPT !.pos = LastRow]
    /\ Go("clear from")

ScrollClearFrom ==
    /\ At("clear from")
    /\ Step([pr EXCEPT !.at = "clear", !.a = con.pos])
    /\ UNCHANGED <<con, paper>>

ScrollClear ==
    /\ At("clear")
    /\ IF pr.a < con.pos + cols
       THEN /\ con' = Put(con, pr.a, Blank)
            /\ Step([pr EXCEPT !.a = @ + 1]) /\ UNCHANGED paper
       ELSE Scrolled /\ UNCHANGED con

\* pos is read into a register, the cell is stored.
Index ==
    /\ At("index")
    /\ Step([pr EXCEPT !.at = "store", !.a = con.pos])
    /\ UNCHANGED <<con, paper>>

StoreCell ==
    /\ At("store")
    /\ con' = Put(con, pr.a, IF In = BS THEN Blank ELSE In)
    /\ Go("fetch")

\* pos++ and pos--
Fetch ==
    /\ At("fetch")
    /\ Step([pr EXCEPT !.at = "count", !.a = con.pos])
    /\ UNCHANGED <<con, paper>>

Count ==
    /\ At("count")
    /\ con' = [con EXCEPT !.pos = IF In = BS THEN pr.a - 1 ELSE pr.a + 1]
    /\ Finish

\* pos += ... pos ...: two reads, and which of them is added to is the
\* compiler's choice.
ReadPos ==
    /\ At("read pos")
    /\ Step([pr EXCEPT !.at = "read again", !.a = con.pos])
    /\ UNCHANGED <<con, paper>>

ReadAgain ==
    /\ At("read again")
    /\ Step([pr EXCEPT !.at = "move", !.b = con.pos])
    /\ UNCHANGED <<con, paper>>

LineFeed ==
    /\ At("move") /\ In = LF
    /\ \E pos \in {FeedFrom(pr.a, pr.b), FeedFrom(pr.b, pr.a)} : con' = [con EXCEPT !.pos = pos]
    /\ Go("full?")

Tabulate ==
    /\ At("move") /\ In = HT
    /\ \E pos \in {TabFrom(pr.a, pr.b), TabFrom(pr.b, pr.a)} : con' = [con EXCEPT !.pos = pos]
    /\ Finish

Printer ==
    \/ GetChar \/ PrintLine
    \/ ScrollTest \/ ScrollCopy \/ ScrollHome \/ ScrollClearFrom \/ ScrollClear
    \/ Index \/ StoreCell \/ Fetch \/ Count
    \/ ReadPos \/ ReadAgain \/ LineFeed \/ Tabulate

Next == Printer \/ ata_irq_handler \/ \E code \in Codes : PS2_irq_handler(code)

Spec == Init /\ [][Next]_vars

-----------------------------------------------------------------------------
(***************************************************************************)
(* Properties                                                              *)
(***************************************************************************)
Steps == {"idle", "full?", "copy", "home", "clear from", "clear", "index", "store",
          "fetch", "count", "read pos", "read again", "move"}

\* pos never drops below 0, where it would wrap, and never runs ahead of the
\* screen by more than a row and a tab.
TypeOK ==
    /\ keys \in Seq(Codes) /\ Len(keys) < BUF_SIZE
    /\ shift \in BOOLEAN /\ down \subseteq ShiftKeys /\ sure \in BOOLEAN /\ torn \in BOOLEAN
    /\ DOMAIN con.cell = Cells
    /\ con.pos \in 0 .. Size + cols + TAB_SIZE
    /\ pr.at \in Steps
    /\ paper.at \in 1 .. rows + 1 /\ paper.col \in 0 .. cols - 1

\* Wherever the disk's handler interrupts the printing, with pos, or a copy of
\* it, in any state, neither of the two stores past the end of the screen.
StoresOnScreen == ~con.beyond

\* As long as no handler printed in the middle of a character, the screen shows
\* the last lines of the text printed, and pos is where the text ends.
ScreenShowsPaper ==
    AtBoundary /\ ~torn =>
        /\ \A p \in Cells : con.cell[p] = paper.line[p \div cols + 1][p % cols]
        /\ con.pos = (paper.at - 1) * cols + paper.col

\* Once GetChar has read what was typed, shift is set exactly while a shift key
\* is down, whatever the ring dropped in between, provided right shift was the
\* last word on it, with left shift up, and that word was not dropped.
\* Of left shift this is false: it sends 2A and AA, and GetChar clears shift on
\* AB (PS2.cpp:260), which is backslash's release.  So left shift sticks, and
\* backslash takes right shift away; `sure` is FALSE from then on, until right
\* shift is pressed or released.
ShiftFollowsRightShift ==
    sure => ShiftAfterAll(shift, keys) = (down # {})
=============================================================================
