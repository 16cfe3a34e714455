------------------------------- MODULE Blocks -------------------------------
(***************************************************************************)
(* What a heap promises: the bytes of a block belong to it alone from      *)
(* kmalloc to kfree, and keep what their owner wrote in them.              *)
(***************************************************************************)
EXTENDS Naturals

CONSTANTS Sizes, Bytes

VARIABLES
    live,   \* the blocks handed out: [ptr, size]
    body    \* what the bytes of those blocks hold

vars == <<live, body>>

Span(b) == b.ptr .. b.ptr + b.size - 1

Init == live = {} /\ body = <<>>

\* What a fresh block holds is left open.
Malloc(ptr, size) ==
    LET b == [ptr |-> ptr, size |-> size]
    IN  /\ Span(b) \cap DOMAIN body = {}
        /\ live' = live \cup {b}
        /\ DOMAIN body' = DOMAIN body \cup Span(b)
        /\ \A a \in DOMAIN body : body'[a] = body[a]

Free(b) ==
    /\ live' = live \ {b}
    /\ body' = [a \in DOMAIN body \ Span(b) |-> body[a]]

Write(a, byte) == body' = [body EXCEPT ![a] = byte] /\ UNCHANGED live

Next ==
    \/ \E ptr \in {b.ptr : b \in live'}, size \in Sizes : Malloc(ptr, size)
    \/ \E b \in live : Free(b)
    \/ \E a \in DOMAIN body, byte \in Bytes : Write(a, byte)

Spec == Init /\ [][Next]_vars
=============================================================================
