----------------------------- MODULE RoundRobin -----------------------------
(***************************************************************************)
(* What the scheduler promises its threads.  Those that can run take turns *)
(* in the order in which they became able to; a thread that waits is out   *)
(* of the order until it is woken.  One that is woken before it gave up    *)
(* the processor goes on as if it had never waited.                        *)
(***************************************************************************)
EXTENDS Sequences, Naturals

CONSTANTS Threads, None

VARIABLES
    ready,     \* able to run, the one whose turn it is first
    waiting,   \* the threads that wait
    kept,      \* the thread that waits but still holds the processor
    gone       \* the threads that exited

vars == <<ready, waiting, kept, gone>>

Ready == {ready[i] : i \in 1 .. Len(ready)}

Init == ready = <<>> /\ waiting = {} /\ kept = None /\ gone = {}

Arrive(t) ==
    /\ t \notin Ready \cup waiting \cup gone
    /\ ready' = Append(ready, t)
    /\ UNCHANGED <<waiting, kept, gone>>

\* What the thread whose turn it is may do: pass the turn on, exit, wait.
Turn == kept = None /\ ready # <<>>

Yield ==
    /\ Turn
    /\ ready' = Append(Tail(ready), Head(ready))
    /\ UNCHANGED <<waiting, kept, gone>>

Exit ==
    /\ Turn
    /\ ready' = Tail(ready)
    /\ gone' = gone \cup {Head(ready)}
    /\ UNCHANGED <<waiting, kept>>

Wait ==
    /\ Turn
    /\ ready' = Tail(ready)
    /\ waiting' = waiting \cup {Head(ready)}
    /\ kept' = Head(ready)
    /\ UNCHANGED gone

\* The waiting thread gives the processor to the next in order.
GiveUp ==
    /\ kept # None /\ ready # <<>>
    /\ kept' = None
    /\ UNCHANGED <<ready, waiting, gone>>

Wake(t) ==
    /\ t \in waiting
    /\ waiting' = waiting \ {t}
    /\ ready' = IF t = kept THEN <<t>> \o ready ELSE Append(ready, t)
    /\ kept' = IF t = kept THEN None ELSE kept
    /\ UNCHANGED gone

Next ==
    \/ Yield \/ Exit \/ Wait \/ GiveUp
    \/ \E t \in Threads : Arrive(t) \/ Wake(t)

Spec == Init /\ [][Next]_vars
=============================================================================
