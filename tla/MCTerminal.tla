----------------------------- MODULE MCTerminal -----------------------------
(***************************************************************************)
(* A terminal for TLC: a screen of three rows of two, and a keyboard with  *)
(* backslash (a letter to GetChar, and what it sends when it is released), *)
(* backspace, tab and both shift keys.                                     *)
(***************************************************************************)
EXTENDS Terminal, TLC

Letters == "2B" :> "\\"

Chars == ("0E" :> BS) @@ ("0F" :> HT)

\* 32 below backslash is '<'.
UpperCase == "\\" :> "<"

Left  == [press |-> "2A", release |-> "AA"]
Right == [press |-> "36", release |-> "B6"]

\* What GetChar makes of the other shift key: pressed and released, it leaves
\* shift set; and releasing backslash clears it under right shift.
ASSUME LeftShiftSticks == ShiftAfterAll(FALSE, <<Left.press, Left.release>>)
ASSUME BackslashClearsShift == ~ShiftAfterAll(FALSE, <<Right.press, "2B", "AB">>)

\* A line that fills a row and goes on in the next: "%hd\n" of -42.
Negative == {[fmt |-> <<"%hd", LF>>, args |-> <<-42>>]}

\* A line of the boot's, and enough of them to fill the screen, with a tab in
\* front of the last.
Boots ==
    LET line(n) == [fmt |-> <<"%lx", LF>>, args |-> <<n>>]
        indented(n) == [fmt |-> <<HT, "%lx", LF>>, args |-> <<n>>]
    IN  {<<line(0)>>, <<line(16), line(7), line(15)>>, <<line(16), line(7), indented(15)>>}

-----------------------------------------------------------------------------
(***************************************************************************)
(* print_disp against the reference, over an int of 8 bits, a short of 7   *)
(* and a long of 9.                                                        *)
(***************************************************************************)
Bases == {10, 16}

\* Numbers up to INT_MAX read back, whatever the directive that prints them
\* and the text around it.
ASSUME NumbersReadBack ==
    \A n \in 0 .. INT_MAX :
        /\ \A base \in Bases : IsNumeral(printk_uint(n, base), n, base)
        /\ \A d \in {"%d", "%u", "%ld", "%lu"} : IsNumeral(print_disp(<<d>>, <<n>>), n, 10)
        /\ \A d \in {"%x", "%lx", "%p"} : IsNumeral(print_disp(<<d>>, <<n>>), n, 16)
        /\ n > 0 => \A d \in {"%d", "%ld"} :
                print_disp(<<d>>, <<-n>>) = <<"-">> \o print_disp(<<"%lu">>, <<n>>)
        /\ print_disp(<<"a", "%x", "%%", Unknown, "%s", "%u">>, <<n, <<"b", "c">>, 7>>)
               = <<"a">> \o printk_uint(n, 16) \o <<"%", "?", "b", "c", "7">>

\* A short is cut to its width before it is printed.
ASSUME ShortsAreCut ==
    \A n \in 0 .. INT_MAX :
        /\ IsNumeral(print_disp(<<"%hx">>, <<n>>), n % (2 * (SHRT_MAX + 1)), 16)
        /\ n <= SHRT_MAX => IsNumeral(print_disp(<<"%hd">>, <<n>>), n, 10)

\* Above INT_MAX, where itoc's argument loses the rest, some numbers do not.
ASSUME LongNumbersDoNot ==
    \A base \in Bases :
        \E n \in INT_MAX + 1 .. 2 * INT_MAX + 1 : ~IsNumeral(printk_uint(n, base), n, base)
=============================================================================
