-------------------------------- MODULE Pool --------------------------------
(***************************************************************************)
(* What a frame allocator promises: a frame handed out is one that was     *)
(* free, and NULL is the answer only when none is.                         *)
(***************************************************************************)
CONSTANT None

VARIABLES
    free,   \* the frames to give
    used,   \* the frames in somebody's hands
    last    \* the answer to the last request

vars == <<free, used, last>>

Get(a) ==
    /\ a \in free
    /\ free' = free \ {a} /\ used' = used \cup {a}
    /\ last' = a

Miss == free = {} /\ last' = None /\ UNCHANGED <<free, used>>

Put(a) ==
    /\ a \in used
    /\ used' = used \ {a} /\ free' = free \cup {a}
    /\ UNCHANGED last

Init == used = {} /\ last = None

Next == Miss \/ (\E a \in free : Get(a)) \/ (\E a \in used : Put(a))

Spec == Init /\ [][Next]_vars
=============================================================================
