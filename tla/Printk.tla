------------------------------- MODULE Printk -------------------------------
(***************************************************************************)
(* lib/printk.cpp: the text that print_disp hands to a display, character  *)
(* by character.  A format is a sequence of characters and directives.     *)
(* Numbers are unsigned longs, or negative; an int ends at INT_MAX, and    *)
(* what does not fit in a type is brought back into it (two's complement). *)
(***************************************************************************)
EXTENDS Integers, Sequences, SequencesExt

CONSTANTS INT_MAX, SHRT_MAX

ASSUME PrintkAssumption == SHRT_MAX \in Nat /\ INT_MAX \in Nat /\ SHRT_MAX < INT_MAX

Unsigned(n, max) == n % (2 * (max + 1))

Signed(n, max) == Unsigned(n + max + 1, max) - (max + 1)

\* C's %: the remainder has the sign of i.
Remainder(i, base) == IF i < 0 THEN -((-i) % base) ELSE i % base

Digit == <<"0", "1", "2", "3", "4", "5", "6", "7", "8", "9", "a", "b", "c", "d", "e", "f">>

\* A character before '0'.
NoDigit == "no digit"

\* i is an int: printk_uint's unsigned long is cut to it.
itoc(i, base) ==
    LET r == Remainder(Signed(i, INT_MAX), base)
    IN  IF r < 0 THEN NoDigit ELSE Digit[r + 1]

\* The last digit comes first, and the lot is reversed.
printk_uint(n, base) ==
    LET out[i \in 0 .. n] == IF i = 0 THEN <<>> ELSE <<itoc(i, base)>> \o out[i \div base]
    IN  IF n = 0 THEN <<"0">> ELSE Reverse(out[n])

printk_int(n, base) == IF n < 0 THEN <<"-">> \o printk_uint(-n, base) ELSE printk_uint(n, base)

\* What a directive that takes an argument prints for it.
Converted(directive, arg) ==
    CASE directive = "%c"  -> <<arg>>
      [] directive = "%s"  -> arg
      [] directive = "%d"  -> printk_int(Signed(arg, INT_MAX), 10)
      [] directive = "%u"  -> printk_uint(Unsigned(arg, INT_MAX), 10)
      [] directive = "%x"  -> printk_uint(Unsigned(arg, INT_MAX), 16)
      [] directive = "%hd" -> printk_int(Signed(arg, SHRT_MAX), 10)
      [] directive = "%hu" -> printk_uint(Unsigned(arg, SHRT_MAX), 10)
      [] directive = "%hx" -> printk_uint(Unsigned(arg, SHRT_MAX), 16)
      [] directive = "%ld" -> printk_int(arg, 10)
      [] directive = "%lu" -> printk_uint(arg, 10)
      [] directive \in {"%lx", "%p"} -> printk_uint(arg, 16)

Directives == {"%c", "%s", "%d", "%u", "%x", "%hd", "%hu", "%hx", "%ld", "%lu", "%lx", "%p"}

\* A % before any other letter.
Unknown == "%?"

\* The arguments are consumed from left to right.
print_disp(fmt, args) ==
    LET turn(done, in) ==
            IF in \in Directives
            THEN [text |-> done.text \o Converted(in, Head(done.args)), args |-> Tail(done.args)]
            ELSE [done EXCEPT !.text = Append(@, CASE in = "%%"   -> "%"
                                                   [] in = Unknown -> "?"
                                                   [] OTHER        -> in)]
    IN  FoldLeft(turn, [text |-> <<>>, args |-> args], fmt).text

-----------------------------------------------------------------------------
(***************************************************************************)
(* Reference: a numeral is read back as the number it was made of, and     *)
(* starts with no zero that could be left out.                             *)
(***************************************************************************)
Value(text, base) ==
    FoldLeft(LAMBDA n, c : n * base + (CHOOSE d \in 0 .. 15 : Digit[d + 1] = c), 0, text)

IsNumeral(text, n, base) ==
    /\ \A i \in DOMAIN text : \E d \in 0 .. base - 1 : Digit[d + 1] = text[i]
    /\ text # <<>> /\ (text[1] = "0" => Len(text) = 1)
    /\ Value(text, base) = n
=============================================================================
