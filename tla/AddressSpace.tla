---------------------------- MODULE AddressSpace ----------------------------
(***************************************************************************)
(* What virtual memory promises the kernel: every page handed out has      *)
(* memory of its own from the first store to it until it is given back.  A *)
(* store elsewhere stops the machine, and so does a store for which there  *)
(* is no memory.                                                           *)
(***************************************************************************)
CONSTANTS
    Pages,   \* the addresses, in pages
    Words,   \* what can be stored
    None     \* no page

VARIABLES
    owned,      \* the pages handed out
    contents,   \* what was stored last in those that were stored to
    spare,      \* whether there is memory for a page and what leads to it
    up,         \* whether the machine runs
    stray       \* the store that stopped it

vars == <<owned, contents, spare, up, stray>>

Init == owned = {} /\ contents = <<>> /\ up = TRUE /\ stray = None

Extend ==
    /\ owned \subseteq owned' /\ owned' \subseteq Pages
    /\ UNCHANGED <<contents, up, stray>>

Release ==
    /\ owned' \subseteq owned
    /\ contents' = [a \in DOMAIN contents \cap owned' |-> contents[a]]
    /\ UNCHANGED <<up, stray>>

Store(a, word) ==
    /\ a \in owned
    /\ contents' = [b \in DOMAIN contents \cup {a} |-> IF b = a THEN word ELSE contents[b]]
    /\ UNCHANGED <<owned, up, stray>>

Halt == up' = FALSE /\ UNCHANGED <<owned, contents>>

Exhausted == ~spare /\ Halt /\ UNCHANGED stray

Stray(a) == a \notin owned /\ Halt /\ stray' = a

Next ==
    /\ up = TRUE
    /\ \/ Extend \/ Release \/ Exhausted
       \/ \E a \in Pages : Stray(a)
       \/ \E a \in owned, word \in Words : Store(a, word)

Spec == Init /\ [][Next]_vars
=============================================================================
