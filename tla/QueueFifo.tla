----------------------------- MODULE QueueFifo -----------------------------
(***************************************************************************)
(* One Queue object used by one client, next to the sequence a FIFO would  *)
(* hold.  Pop of the only entry leaves head pointing at it, and Push does  *)
(* not look at len: a client gets FIFO service only when, after that, the  *)
(* next entry it pushes is the same one.  MayPush is that discipline; the  *)
(* kernel keeps it when at most one thread ever blocks (module Kernel).    *)
(***************************************************************************)
EXTENDS Queue, Sequences, FiniteSets

CONSTANT q   \* the queue

ASSUME QueueAssumption == Queues = {q}

VARIABLES
    mem,     \* the memory of module Queue
    items,   \* what a FIFO would hold, oldest first
    out      \* what the last Pop or Peak returned

vars == <<mem, items, out>>

Held == {items[i] : i \in 1 .. Len(items)}

\* head still points at an entry that was popped
Stale == Length(mem, q) = 0 /\ Peak(mem, q) # NULL

MayPush(e) == e \notin Held /\ (Stale => e = Peak(mem, q))

Init == mem = EmptyQueues /\ items = <<>> /\ out = NULL

DoPush(e) ==
    /\ MayPush(e)
    /\ mem' = Push(mem, q, e)
    /\ items' = Append(items, e)
    /\ UNCHANGED out

DoPop ==
    /\ mem' = Pop(mem, q)
    /\ out' = Popped(mem, q)
    /\ items' = IF items = <<>> THEN items ELSE Tail(items)

\* Every caller of Peak looks at Length first.
DoPeak ==
    /\ Length(mem, q) > 0
    /\ out' = Peak(mem, q)
    /\ UNCHANGED <<mem, items>>

Next == DoPop \/ DoPeak \/ \E e \in Entries : DoPush(e)

Spec == Init /\ [][Next]_vars

-----------------------------------------------------------------------------
Memories ==
    [nxt   : [Entries -> Entries \cup {NULL}],
     queue : [Entries -> {q, NULL}],
     head  : [{q} -> Entries \cup {NULL}],
     tail  : [{q} -> Entries \cup {NULL}],
     len   : [{q} -> Nat],
     fault : {"none", "requeued", "wild"}]

\* head, tail, the links and the back pointers keep their ranges, and len
\* never falls below 0.
TypeOK ==
    /\ mem \in Memories
    /\ items \in Seq(Entries)
    /\ out \in Entries \cup {NULL}

\* Push's FATAL and Pop's walk through NULL never happen to this client.
NeverFaults == Running(mem)

(***************************************************************************)
(* The inductive invariant: the links spell out items.  Its last conjunct  *)
(* is the self-link of a lone entry and its remains after a Pop.           *)
(***************************************************************************)
LinksSpellItems ==
    /\ mem.len[q] = Len(items)
    /\ \A i, j \in 1 .. Len(items) : items[i] = items[j] => i = j
    /\ \A e \in Entries : mem.queue[e] = q <=> e \in Held
    /\ Len(items) > 0 => /\ mem.head[q] = items[1]
                         /\ mem.tail[q] = items[Len(items)]
    /\ \A i \in 1 .. Len(items) - 1 : mem.nxt[items[i]] = items[i + 1]
    /\ Len(items) > 1 => mem.nxt[items[Len(items)]] = NULL
    /\ Len(items) = 1 => mem.nxt[items[1]] \in {NULL, items[1]}
    /\ Len(items) = 0 => mem.head[q] \in {NULL, mem.tail[q]}

IInv == TypeOK /\ NeverFaults /\ LinksSpellItems

F == INSTANCE Fifo WITH Values <- Entries, None <- NULL

\* Push, Pop and Peak implement a FIFO of distinct entries (module Fifo).
ImplementsFifo == F!Spec
=============================================================================
