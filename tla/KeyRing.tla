------------------------------ MODULE KeyRing ------------------------------
(***************************************************************************)
(* The scan-code ring of drivers/char/x86_64/PS2.cpp, as operators on a    *)
(* record of its three static variables.  One slot stays empty, and a put  *)
(* into a full ring drops the oldest code.                                 *)
(***************************************************************************)
EXTENDS Naturals, Sequences

CONSTANTS
    BUF_SIZE,   \* slots of the ring
    Codes,      \* the scan codes the keyboard sends
    Blank       \* what a slot holds at boot

ASSUME RingAssumption == BUF_SIZE \in Nat \ {0, 1} /\ Blank \notin Codes

\* Mutant: the index does not wrap.
INC(v) == v + 1

BUF_INC(v) == (v + 1) % BUF_SIZE

EmptyRing ==
    [buf |-> [i \in 0 .. BUF_SIZE - 1 |-> Blank], prod |-> 0, cons |-> 0]

HasCode(r) == r.cons # r.prod

\* Mutant: a full ring does not drop its oldest code.
RingPutOver(r, c) ==
    [r EXCEPT !.buf[r.prod] = c, !.prod = BUF_INC(r.prod)]

RingPut(r, c) ==
    LET prod == BUF_INC(r.prod)
    IN  [buf  |-> [r.buf EXCEPT ![r.prod] = c],
         prod |-> prod,
         cons |-> IF prod = r.cons THEN BUF_INC(r.cons) ELSE r.cons]

Oldest(r) == r.buf[r.cons]

RingTake(r) == [r EXCEPT !.cons = BUF_INC(@)]

\* The codes a ring holds, oldest first.
Held(r) ==
    [i \in 1 .. (BUF_SIZE + r.prod - r.cons) % BUF_SIZE |->
        r.buf[(r.cons + i - 1) % BUF_SIZE]]

Rings ==
    [buf  : [0 .. BUF_SIZE - 1 -> Codes \cup {Blank}],
     prod : 0 .. BUF_SIZE - 1,
     cons : 0 .. BUF_SIZE - 1]
=============================================================================
