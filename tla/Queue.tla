------------------------------- MODULE Queue -------------------------------
(***************************************************************************)
(* The intrusive linked queue of proc/Queue.cpp, as operators on the       *)
(* memory it is made of.  A memory is a record with the fields             *)
(*   nxt, queue      the link fields of every QueueEntry,                  *)
(*   head, tail, len the three members of every Queue object,              *)
(*   fault           what stopped the machine, "none" while it runs.       *)
(* Several queues share the link fields: a process is one QueueEntry and   *)
(* sits on the run queue or on a driver's wait queue.  Clients may add     *)
(* further fields to the record.  QueueEntry.prev is only ever written, so *)
(* it is left out.                                                         *)
(***************************************************************************)
EXTENDS Naturals

CONSTANTS
    Entries,   \* the QueueEntry objects
    Queues,    \* the Queue objects
    NULL       \* the null pointer

ASSUME NULLAssumption == NULL \notin Entries /\ NULL \notin Queues

\* Every Queue constructed, every link field cleared.
EmptyQueues ==
    [nxt   |-> [e \in Entries |-> NULL],
     queue |-> [e \in Entries |-> NULL],
     head  |-> [q \in Queues |-> NULL],
     tail  |-> [q \in Queues |-> NULL],
     len   |-> [q \in Queues |-> 0],
     fault |-> "none"]

Running(m) == m.fault = "none"

\* FATAL halts for good: nothing after it is executed.
Fatal(m, why) == IF Running(m) THEN [m EXCEPT !.fault = why] ELSE m

-----------------------------------------------------------------------------
(***************************************************************************)
(* Push.  With a NULL head the entry becomes head and tail first, so that  *)
(* "tail->nxt = entry" links it to itself.                                 *)
(***************************************************************************)
\* Mutants: the link from the old tail is forgotten; the entry goes in front.
LinkForgotten(m, q, e) ==
    IF m.head[q] = NULL THEN [m EXCEPT !.nxt[e] = e, !.head[q] = e]
    ELSE [m EXCEPT !.nxt[e] = NULL]

LinkAtHead(m, q, e) == [m EXCEPT !.nxt[e] = m.head[q], !.head[q] = e]

LinkAtTail(m, q, e) ==
    IF m.head[q] = NULL
    THEN [m EXCEPT !.nxt[e] = e, !.head[q] = e]
    ELSE [m EXCEPT !.nxt = [[@ EXCEPT ![e] = NULL] EXCEPT ![m.tail[q]] = e]]

Push(m, q, e) ==
    IF ~Running(m) THEN m
    ELSE IF m.queue[e] # NULL THEN Fatal(m, "requeued")
    ELSE [LinkAtTail(m, q, e) EXCEPT
             !.len[q] = @ + 1, !.queue[e] = q, !.tail[q] = e]

(***************************************************************************)
(* Pop returns the old head (Peak), or NULL when len is 0.  Following a    *)
(* NULL head of a queue whose len is not 0 reads whatever lies at address  *)
(* 0; nothing is known of the machine after that ("wild").                 *)
(***************************************************************************)
Popped(m, q) == IF m.len[q] = 0 THEN NULL ELSE m.head[q]

\* Mutants: len is not looked at; the back pointer is not cleared.
PopUnchecked(m, q) ==
    IF m.head[q] = NULL THEN m
    ELSE [m EXCEPT !.len[q] = @ - 1, !.head[q] = m.nxt[m.head[q]],
                   !.queue[m.head[q]] = NULL]

PopStaysQueued(m, q) ==
    IF m.len[q] = 0 THEN m
    ELSE [m EXCEPT !.len[q] = @ - 1, !.head[q] = m.nxt[m.head[q]]]

Pop(m, q) ==
    IF ~Running(m) \/ m.len[q] = 0 THEN m
    ELSE IF m.head[q] = NULL THEN Fatal(m, "wild")
    ELSE [m EXCEPT !.len[q] = @ - 1,
                   !.head[q] = m.nxt[m.head[q]],
                   !.queue[m.head[q]] = NULL,
                   !.nxt[m.head[q]] = NULL]

Peak(m, q) == m.head[q]

Length(m, q) == m.len[q]

-----------------------------------------------------------------------------
(***************************************************************************)
(* What the links say is in queue q: the first len entries met from head.  *)
(***************************************************************************)
Items(m, q) ==
    LET at[i \in 1 .. m.len[q]] ==
            IF i = 1 THEN m.head[q]
            ELSE IF at[i - 1] = NULL THEN NULL ELSE m.nxt[at[i - 1]]
    IN  at

\* The links of q agree with the back pointers: the first len entries from
\* head are distinct, and are exactly those whose queue field says q.
WellLinked(m, q) ==
    LET s == Items(m, q)
    IN  /\ \A i \in DOMAIN s : s[i] # NULL
        /\ \A i, j \in DOMAIN s : s[i] = s[j] => i = j
        /\ {s[i] : i \in DOMAIN s} = {e \in Entries : m.queue[e] = q}
        /\ m.len[q] > 0 => m.tail[q] = s[m.len[q]]
=============================================================================
