----------------------------- MODULE Scheduler -----------------------------
(***************************************************************************)
(* proc/Scheduler.cpp: the static members of class Scheduler and the       *)
(* fields of the processes it moves about, as operators on the memory of   *)
(* module Queue extended with                                              *)
(*   state   Process::State of every process,                              *)
(*   data    block_data_1 (a block) and block_data_2 (a destination),      *)
(*   cur     curProc,                                                      *)
(*   freed   the processes whose QueueEntry was handed back to kfree.      *)
(* A process is named by its QueueEntry.                                   *)
(***************************************************************************)
EXTENDS Queue

CONSTANTS
    runQueue,   \* Scheduler::runQueue, one of Queues
    Blocks      \* the disk blocks threads ask for, 0 among them

ASSUME SchedulerAssumption == runQueue \in Queues /\ 0 \in Blocks

ProcState == {"RUNNING", "RUNABLE", "EXITED", "BLOCKED"}

\* both block_data words zero
NoData == [blk |-> 0, dst |-> NULL]

\* The scheduler before the first Add.  The state of a process that was not
\* added yet is never looked at.
Idle ==
    [nxt   |-> EmptyQueues.nxt,  queue |-> EmptyQueues.queue,
     head  |-> EmptyQueues.head, tail  |-> EmptyQueues.tail,
     len   |-> EmptyQueues.len,  fault |-> EmptyQueues.fault,
     state |-> [t \in Entries |-> "RUNABLE"],
     data  |-> [t \in Entries |-> NoData],
     cur   |-> NULL,
     freed |-> {}]

CanRun(s, t) == s.state[t] \in {"RUNNING", "RUNABLE"}

\* Mutant: curProc's state is not asked.
CurIsThere(s) == s.cur # NULL

\* What the code asks of curProc, with its NULL check.
CurCanRun(s) == s.cur # NULL /\ CanRun(s, s.cur)

-----------------------------------------------------------------------------
(***************************************************************************)
(* Add.  It sets every field of the fresh QueueEntry but queue, which keeps *)
(* what the memory kmalloc handed out held before: residue.                *)
(***************************************************************************)
Add(s, t, residue) ==
    Push([s EXCEPT !.state[t] = "RUNABLE", !.nxt[t] = t, !.queue[t] = residue],
         runQueue, t)

BlockCurProc(s, q, blk, dst) ==
    Push([s EXCEPT !.state[s.cur] = "BLOCKED",
                   !.data[s.cur] = [blk |-> blk, dst |-> dst]], q, s.cur)

\* Mutants: curProc is queued like the others; curProc stays BLOCKED.
UnblockOneQueuesCur(s, q) ==
    LET e == Popped(s, q)
    IN  Push([Pop(s, q) EXCEPT !.data[e] = NoData, !.state[e] = "RUNABLE"], runQueue, e)

UnblockOneSkipsCur(s, q) ==
    IF Popped(s, q) = s.cur THEN Pop(s, q) ELSE UnblockOneQueuesCur(s, q)

(***************************************************************************)
(* One turn of Unblock's loop.  A process that is still on the processor   *)
(* (it blocked but did not yield yet) is not queued.                       *)
(***************************************************************************)
UnblockOne(s, q) ==
    LET e == Popped(s, q)
        popped == Pop(s, q)
        cleared == [popped EXCEPT !.data[e] = NoData]
    IN  IF ~Running(popped) THEN popped
        ELSE IF e = s.cur THEN [cleared EXCEPT !.state[e] = "RUNNING"]
        ELSE Push([cleared EXCEPT !.state[e] = "RUNABLE"], runQueue, e)

\* Unblock counts up to a Length that its own Pops count down.
Unblock(s, q) ==
    LET after[i \in 0 .. Length(s, q)] ==
            IF i = 0 THEN s
            ELSE IF i - 1 < Length(after[i - 1], q)
                 THEN UnblockOne(after[i - 1], q)
                 ELSE after[i - 1]
    IN  after[Length(s, q)]

-----------------------------------------------------------------------------
(***************************************************************************)
(* Reschedule.  The first test reads curProc->State even when curProc is   *)
(* NULL; address 0 is mapped and holds no EXITED.  kfree of a process      *)
(* twice ruins the heap.                                                   *)
(***************************************************************************)
Reap(s) ==
    IF s.cur = NULL \/ s.state[s.cur] # "EXITED" THEN s
    ELSE IF s.cur \in s.freed THEN Fatal(s, "wild")
    ELSE [s EXCEPT !.freed = @ \cup {s.cur}, !.cur = NULL]

\* Mutant: the process that yields is forgotten.
RequeueForgets(s) == s

Requeue(s) ==
    IF CurCanRun(s)
    THEN Push([s EXCEPT !.state[s.cur] = "RUNABLE"], runQueue, s.cur)
    ELSE s

Dispatch(s) ==
    LET e == Popped(s, runQueue)
        popped == Pop(s, runQueue)
    IN  IF ~Running(popped) THEN popped
        ELSE [popped EXCEPT !.cur = e, !.state[e] = "RUNNING"]

\* Mutants: with an empty run queue nobody goes on; curProc is never replaced
\* while it can run.
RescheduleGivesUp(s) ==
    LET reaped == Reap(s)
    IN  IF Length(reaped, runQueue) = 0 THEN [reaped EXCEPT !.cur = NULL]
        ELSE Dispatch(Requeue(reaped))

RescheduleSticks(s) ==
    LET reaped == Reap(s)
    IN  IF Length(reaped, runQueue) = 0 \/ CurCanRun(reaped) THEN reaped
        ELSE Dispatch(reaped)

Reschedule(s) ==
    LET reaped == Reap(s)
    IN  IF ~Running(reaped) \/ Length(reaped, runQueue) = 0 THEN reaped
        ELSE Dispatch(Requeue(reaped))

(***************************************************************************)
(* The process Reschedule returned, read off the state it left: NULL       *)
(* exactly when curProc cannot run, for a process it popped is RUNNING.    *)
(***************************************************************************)
Chosen(s) == IF CurCanRun(s) THEN s.cur ELSE NULL
=============================================================================
