------------------------------ MODULE MCKmalloc -----------------------------
(***************************************************************************)
(* A heap with pages of four cells for TLC.                                *)
(***************************************************************************)
EXTENDS Kmalloc

TwoPools == <<2, 4>>

\* What a client writes reads as a header, and as a link to the first page.
Pictures == {[prev |-> PAGE_SIZE, size |-> 1, pool |-> 1]}
=============================================================================
