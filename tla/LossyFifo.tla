----------------------------- MODULE LossyFifo -----------------------------
(***************************************************************************)
(* What a ring of scan codes promises: codes are taken in the order they   *)
(* came.  When there is no room for one more, the oldest makes room.       *)
(***************************************************************************)
EXTENDS Naturals, Sequences

CONSTANTS
    Codes,      \* what is put in
    Capacity    \* how many it holds

VARIABLE items

Put(c) ==
    items' = Append(IF Len(items) = Capacity THEN Tail(items) ELSE items, c)

Take == items # <<>> /\ items' = Tail(items)

Init == items = <<>>

Next == Take \/ \E c \in Codes : Put(c)

Spec == Init /\ [][Next]_items
=============================================================================
