-------------------------------- MODULE Fifo --------------------------------
(***************************************************************************)
(* What a queue of processes promises: entries come out in the order they  *)
(* went in, each once.                                                     *)
(***************************************************************************)
EXTENDS Sequences, Naturals

CONSTANTS
    Values,   \* what can be queued
    None     \* the answer of an empty queue

VARIABLES
    items,   \* queued, oldest first
    out      \* the last answer

vars == <<items, out>>

Init == items = <<>> /\ out = None

Put(x) ==
    /\ \A i \in 1 .. Len(items) : items[i] # x
    /\ items' = Append(items, x)
    /\ UNCHANGED out

Take ==
    \/ items = <<>> /\ out' = None /\ UNCHANGED items
    \/ items # <<>> /\ out' = Head(items) /\ items' = Tail(items)

Look == items # <<>> /\ out' = Head(items) /\ UNCHANGED items

Next == Take \/ Look \/ \E x \in Values : Put(x)

Spec == Init /\ [][Next]_vars
=============================================================================
