------------------------------- MODULE Kernel -------------------------------
(***************************************************************************)
(* The running kernel: kmain's loop, its cooperative threads, the system   *)
(* calls that switch between them, and the interrupt handlers of the       *)
(* keyboard, the disk and the UART, on one processor.  A step is a stretch *)
(* of code no interrupt can split: it ends where interrupts are enabled,   *)
(* where the processor changes hands, or where the thread may be seen.     *)
(*                                                                         *)
(* Threads run one of the repository's thread bodies:                      *)
(*   "kdb"   kdb_print: reads characters for ever,                         *)
(*   "read"  reading_block: reads one block, prints it, exits,             *)
(*   "mbr"   print_mbr: reads block 0, exits if it carries a signature,    *)
(*   "work"  run_hungry_snake: prints and yields, may exit,                *)
(*   "spin"  run_snake while no one asks it to end: prints and yields.     *)
(***************************************************************************)
EXTENDS Scheduler, KeyRing, Sequences

CONSTANTS
    Workloads,     \* the boots considered: each a sequence of [body, blk]
    Parent,        \* kmain itself
    kbdQueue, inProgress, blockedQueue,   \* the drivers' queues
    SignedBlocks,  \* the blocks that end in a boot signature
    NoBlock,       \* what an idle disk reads
    NoBytes,       \* a thread's buffer before the disk wrote it
    Residues       \* what the queue field of a fresh QueueEntry can hold

ASSUME KernelAssumption ==
    /\ Queues = {runQueue, kbdQueue, inProgress, blockedQueue}
    /\ runQueue \notin {kbdQueue, inProgress, blockedQueue}
    /\ kbdQueue \notin {inProgress, blockedQueue} /\ inProgress # blockedQueue
    /\ Parent \notin Entries \cup {NULL}
    /\ NoBlock \notin Blocks /\ NoBytes \notin Blocks
    /\ Entries \subseteq Nat
    /\ \A w \in Workloads : DOMAIN w \subseteq Entries /\ \A t \in DOMAIN w : w[t].blk \in Blocks

VARIABLES
    load,    \* the workload of this boot; thread i runs load[i].body
    sched,   \* the memory of modules Queue and Scheduler
    cpu,     \* who holds the processor: Parent or a thread
    intr,    \* the processor's interrupt flag
    pc,      \* where each thread and Parent stands
    rflags,  \* the interrupt flag each saved context holds
    ring,    \* the keyboard's ring
    disk,    \* the block the disk was told to read, NoBlock when idle
    dst,     \* what each thread's buffer holds
    uart     \* whether the UART has a transmit interrupt to deliver

vars == <<load, sched, cpu, intr, pc, rflags, ring, disk, dst, uart>>

Threads == DOMAIN load
Body(t) == load[t].body

Up == Running(sched)

KmainAt(label) == Up /\ cpu = Parent /\ pc[Parent] = label

At(t, label) == Up /\ cpu = t /\ pc[t] = label

Init ==
    /\ load \in Workloads
    /\ sched = Idle
    /\ cpu = Parent
    /\ intr = TRUE
    /\ pc = [t \in Entries \cup {Parent} |-> IF t = Parent THEN "boot" ELSE "new"]
    /\ rflags = [t \in Entries \cup {Parent} |-> FALSE]
    /\ ring = EmptyRing
    /\ disk = NoBlock
    /\ dst = [t \in Entries |-> NoBytes]
    /\ uart = FALSE

-----------------------------------------------------------------------------
\* Mutant: the flag is not loaded.
LoadContextSansFlag(s, saved) ==
    /\ sched' = s /\ rflags' = saved
    /\ cpu' = IF Chosen(s) = NULL THEN Parent ELSE Chosen(s)
    /\ UNCHANGED intr

(***************************************************************************)
(* Switching.  Load gives the processor to the process Reschedule chose,   *)
(* or back to Parent.  Running a process whose QueueEntry was freed runs   *)
(* code on a stack other calls have overwritten: "wild".                   *)
(***************************************************************************)
LoadContext(s, saved) ==
    LET p == Chosen(s)
        to == IF p = NULL THEN Parent ELSE p
    IN  /\ sched' = IF p \in s.freed THEN Fatal(s, "wild") ELSE s
        /\ cpu' = to
        /\ rflags' = saved
        /\ intr' = saved[to]

\* A process goes on later with the interrupt flag it had.
Save(p) == [rflags EXCEPT ![p] = intr]

\* The caller's context is saved with the point it resumes at.
syscall_yield(next) ==
    /\ LoadContext(Reschedule(sched), Save(sched.cur))
    /\ pc' = [pc EXCEPT ![sched.cur] = next]

syscall_exit ==
    /\ LoadContext(Reschedule([sched EXCEPT !.state[sched.cur] = "EXITED"]), rflags)
    /\ pc' = [pc EXCEPT ![sched.cur] = "gone"]

\* With nothing to run, the call returns to Parent and loads nothing.
syscall_run ==
    LET s == Reschedule(sched)
        saved == Save(Parent)
    IN  IF Chosen(s) = NULL
        THEN sched' = s /\ rflags' = saved /\ UNCHANGED <<cpu, intr>>
        ELSE LoadContext(s, saved)

-----------------------------------------------------------------------------
(***************************************************************************)
(* kmain                                                                   *)
(***************************************************************************)
Added == {t \in Threads : pc[t] # "new"}

\* The threads are added in the order of the workload; building a process
\* ends with interrupts enabled.
AddThread ==
    /\ KmainAt("boot")
    /\ \E t \in Threads \ Added, residue \in Residues :
          /\ \A u \in Threads \ Added : t <= u
          /\ sched' = Add(sched, t, residue)
          /\ pc' = [pc EXCEPT ![t] = "start",
                              ![Parent] = IF Threads \ Added = {t} THEN "run" ELSE @]
    /\ intr' = TRUE
    /\ UNCHANGED <<load, cpu, rflags, ring, disk, dst, uart>>

ProcRun ==
    /\ KmainAt("run")
    /\ syscall_run
    /\ pc' = [pc EXCEPT ![Parent] = "hlt"]
    /\ UNCHANGED <<load, ring, disk, dst, uart>>

\* The processor stops at hlt until an interrupt is taken.
BlockForIRQ ==
    /\ KmainAt("hlt")
    /\ pc' = [pc EXCEPT ![Parent] = "halted"]
    /\ UNCHANGED <<load, sched, cpu, intr, rflags, ring, disk, dst, uart>>

-----------------------------------------------------------------------------
(***************************************************************************)
(* Thread bodies                                                           *)
(***************************************************************************)
ProcYield(t, next) ==
    /\ syscall_yield(next)
    /\ UNCHANGED <<load, ring, disk, dst, uart>>

ProcExit(t) ==
    /\ At(t, "exit")
    /\ syscall_exit
    /\ UNCHANGED <<load, ring, disk, dst, uart>>

\* GetChar up to its loop: the check for a second reader only prints.
GetCharEnter(t) ==
    /\ At(t, "start") /\ Body(t) = "kdb"
    /\ intr' = TRUE
    /\ pc' = [pc EXCEPT ![t] = "poll"]
    /\ UNCHANGED <<load, sched, cpu, rflags, ring, disk, dst, uart>>

\* One turn of GetChar's loop, interrupts disabled: take a code and go
\* round again in kdb_print (or in GetChar itself, for a code that is no
\* character), or join the wait queue.
GetCharPoll(t) ==
    /\ At(t, "poll")
    /\ intr' = TRUE
    /\ \/ /\ HasCode(ring)
          /\ ring' = RingTake(ring)
          /\ pc' = [pc EXCEPT ![t] = "start"]
          /\ UNCHANGED sched
       \/ /\ ~HasCode(ring)
          /\ sched' = BlockCurProc(sched, kbdQueue, 0, NULL)
          /\ pc' = [pc EXCEPT ![t] = "wait"]
          /\ UNCHANGED ring
    /\ UNCHANGED <<load, cpu, rflags, disk, dst, uart>>

GetCharYield(t) == At(t, "wait") /\ ProcYield(t, "poll")

\* The driver passes the first waiting request on to the idle disk.
StartNext(s) ==
    LET e == Popped(s, blockedQueue) IN Push(Pop(s, blockedQueue), inProgress, e)

\* What read_ata_block then tells the disk to read.
Requested(s) == IF Running(s) THEN s.data[Peak(s, inProgress)].blk ELSE NoBlock

ReadBlock(t) ==
    /\ At(t, "start") /\ Body(t) \in {"read", "mbr"}
    /\ LET blocked == BlockCurProc(sched, blockedQueue, load[t].blk, t)
           idle == Length(blocked, inProgress) = 0
           s == IF idle THEN StartNext(blocked) ELSE blocked
       IN  /\ sched' = s
           /\ disk' = IF idle THEN Requested(s) ELSE disk
    /\ intr' = TRUE
    /\ pc' = [pc EXCEPT ![t] = "issued"]
    /\ UNCHANGED <<load, cpu, rflags, ring, dst, uart>>

ReadBlockYield(t) == At(t, "issued") /\ ProcYield(t, "read")

\* Mutant: it never turns them on again.
printcOff(t) == uart' = TRUE /\ intr' = FALSE

\* printc leaves interrupts off when it finds the UART busy.
printc(t) ==
    /\ uart' = TRUE
    /\ intr' \in BOOLEAN

\* After ReadBlock returned: reading_block prints its buffer; print_mbr
\* returns into nowhere when the signature is missing.
Printed(t) ==
    /\ At(t, "read")
    /\ \/ /\ Body(t) = "read"
          /\ printc(t)
          /\ pc' = [pc EXCEPT ![t] = "exit"]
          /\ UNCHANGED sched
       \/ /\ Body(t) = "mbr"
          /\ sched' = IF dst[t] \in SignedBlocks THEN sched ELSE Fatal(sched, "returned")
          /\ pc' = [pc EXCEPT ![t] = "exit"]
          /\ UNCHANGED <<intr, uart>>
    /\ UNCHANGED <<load, cpu, rflags, ring, disk, dst>>

\* One turn of a snake: draw, then yield or (well fed) exit.
Crawl(t) ==
    /\ At(t, "start") /\ Body(t) \in {"work", "spin"}
    /\ printc(t)
    /\ \E next \in {"turn", "exit"} :
          /\ next = "exit" => Body(t) = "work"
          /\ pc' = [pc EXCEPT ![t] = next]
    /\ UNCHANGED <<load, sched, cpu, rflags, ring, disk, dst>>

CrawlYield(t) == At(t, "turn") /\ ProcYield(t, "start")

-----------------------------------------------------------------------------
(***************************************************************************)
(* Interrupts.  A handler runs with interrupts disabled, to its end, on    *)
(* top of whoever holds the processor; it wakes a halted Parent.           *)
(***************************************************************************)
TakeIRQ ==
    /\ Up /\ intr
    /\ pc' = IF cpu = Parent /\ pc[Parent] = "halted"
             THEN [pc EXCEPT ![Parent] = "run"] ELSE pc
    /\ UNCHANGED <<load, cpu, intr, rflags>>

\* Mutant: nobody is woken.
PS2_irq_handler_silent ==
    /\ TakeIRQ
    /\ \E c \in Codes : ring' = RingPut(ring, c)
    /\ UNCHANGED <<sched, disk, dst, uart>>

PS2_irq_handler ==
    /\ TakeIRQ
    /\ \E c \in Codes : ring' = RingPut(ring, c)
    /\ sched' = Unblock(sched, kbdQueue)
    /\ UNCHANGED <<disk, dst, uart>>

\* Mutant: the next request is moved up, but the disk is not told.
ata_irq_handler_untold ==
    /\ disk # NoBlock
    /\ TakeIRQ
    /\ LET to == sched.data[Peak(sched, inProgress)].dst
           done == Unblock(sched, inProgress)
       IN  IF Length(sched, inProgress) = 0
           THEN sched' = Fatal(sched, "ata") /\ UNCHANGED <<disk, dst>>
           ELSE /\ sched' = IF Length(done, blockedQueue) > 0 THEN StartNext(done) ELSE done
                /\ dst' = [dst EXCEPT ![to] = disk]
                /\ disk' = NoBlock
    /\ UNCHANGED <<ring, uart>>

\* The words go to the block_data_2 of the first request in progress, which
\* Unblock then clears.  A request with a cleared one writes them to address
\* 0, where no thread looks.
ata_irq_handler ==
    /\ disk # NoBlock
    /\ TakeIRQ
    /\ LET to == sched.data[Peak(sched, inProgress)].dst
           done == Unblock(sched, inProgress)
           more == Length(done, blockedQueue) > 0
           next == IF more THEN StartNext(done) ELSE done
       IN  IF Length(sched, inProgress) = 0
           THEN sched' = Fatal(sched, "ata") /\ UNCHANGED <<disk, dst>>
           ELSE /\ sched' = next
                /\ dst' = [dst EXCEPT ![to] = disk]
                /\ disk' = IF more THEN Requested(next) ELSE NoBlock
    /\ UNCHANGED <<ring, uart>>

\* The handler may send another byte, and so earn another interrupt.
serial_irq_handler ==
    /\ uart
    /\ TakeIRQ
    /\ uart' \in BOOLEAN
    /\ UNCHANGED <<sched, ring, disk, dst>>

-----------------------------------------------------------------------------
Step(t) ==
    \/ GetCharEnter(t) \/ GetCharPoll(t) \/ GetCharYield(t)
    \/ ReadBlock(t) \/ ReadBlockYield(t) \/ Printed(t)
    \/ Crawl(t) \/ CrawlYield(t) \/ ProcExit(t)

Kmain == AddThread \/ ProcRun \/ BlockForIRQ

Interrupt == PS2_irq_handler \/ ata_irq_handler \/ serial_irq_handler

Next == Kmain \/ Interrupt \/ \E t \in Threads : Step(t)

Spec == Init /\ [][Next]_vars

(***************************************************************************)
(* Whoever holds the processor goes on, unless it is halted.  A snake that *)
(* prints again and again finds the UART idle again and again.  The disk   *)
(* answers, and its interrupt stays pending in the controller until the    *)
(* flag lets it in.  Nobody has to press a key.                            *)
(***************************************************************************)
Fairness ==
    /\ WF_vars(Kmain \/ \E t \in Threads : Step(t))
    /\ \A t \in Entries : SF_vars(t \in Threads /\ Crawl(t) /\ intr')
    /\ SF_vars(ata_irq_handler)

FairSpec == Spec /\ Fairness

-----------------------------------------------------------------------------
(***************************************************************************)
(* Properties                                                              *)
(***************************************************************************)
Labels == {"boot", "run", "hlt", "halted", "new", "start", "poll", "wait",
           "issued", "read", "turn", "exit", "gone"}

\* Every state variable keeps its range: ring indices inside the ring, queue
\* fields naming queues, len never below 0.
TypeOK ==
    /\ load \in Workloads
    /\ sched.nxt \in [Entries -> Entries \cup {NULL}]
    /\ sched.queue \in [Entries -> Queues \cup {NULL} \cup Residues]
    /\ sched.head \in [Queues -> Entries \cup {NULL}]
    /\ sched.tail \in [Queues -> Entries \cup {NULL}]
    /\ sched.len \in [Queues -> Nat]
    /\ sched.fault \in {"none", "requeued", "wild", "ata", "returned"}
    /\ sched.state \in [Entries -> ProcState]
    /\ sched.data \in [Entries -> [blk : Blocks, dst : Entries \cup {NULL}]]
    /\ sched.cur \in Entries \cup {NULL}
    /\ sched.freed \subseteq Entries
    /\ cpu \in Entries \cup {Parent}
    /\ intr \in BOOLEAN
    /\ pc \in [Entries \cup {Parent} -> Labels]
    /\ rflags \in [Entries \cup {Parent} -> BOOLEAN]
    /\ ring \in Rings
    /\ disk \in Blocks \cup {NoBlock}
    /\ dst \in [Entries -> Blocks \cup {NoBytes}]
    /\ uart \in BOOLEAN

\* No FATAL and no step into the unknown: Push never meets an entry that is
\* queued already, Pop never follows a NULL head, the disk never interrupts
\* without a request, no freed process runs.  It presumes that block 0 carries
\* a boot signature, for print_mbr falls off its end where it does not.
NeverFaults == Up

\* Every queue's links, tail and length agree with the back pointers of the
\* entries: what Push and Pop maintain across the queues that share them.
QueuesWellLinked == Up => \A q \in Queues : WellLinked(sched, q)

\* What the system calls save into and block is curProc: it is the process
\* that holds the processor.
RunsCurProc == cpu # Parent => cpu = sched.cur

\* No thread is lost or duplicated: the queues are well linked, the processor
\* runs the current process, and a thread that was added and did not exit is
\* the current process, ready to go on, or on the run queue and RUNABLE, or
\* BLOCKED on exactly one driver's queue.
EveryThreadAccounted ==
    /\ QueuesWellLinked /\ RunsCurProc
    /\ Up => \A t \in Added \ sched.freed :
        LET current == sched.cur = t /\ CanRun(sched, t) /\ sched.queue[t] = NULL
            queued == sched.queue[t] = runQueue /\ sched.state[t] = "RUNABLE" /\ sched.cur # t
            blocked == sched.queue[t] \in Queues \ {runQueue} /\ sched.state[t] = "BLOCKED"
        IN  current \/ queued \/ blocked

\* syscall_exit removes the caller: the processor never runs a process that
\* exited and whose QueueEntry was freed.
ExitedNeverRuns == cpu \notin sched.freed

\* kmain executes hlt only with interrupts enabled, through every path on
\* which a thread that had them disabled hands the processor back.
HaltedCanWake == cpu = Parent /\ pc[Parent] = "halted" => intr

\* The wake-up of a reader is never missed: while a thread waits for a key
\* the ring is empty.
NoKeyWhileWaiting ==
    Up => \A t \in Added : sched.queue[t] = kbdQueue => ~HasCode(ring)

\* ReadBlock returns with the block that was asked for.
ReadReturnsItsBlock ==
    Up => \A t \in Threads :
        (At(t, "read") \/ At(t, "exit")) /\ Body(t) \in {"read", "mbr"}
            => dst[t] = load[t].blk

\* The driver's counts agree with the disk, in any boot: the disk works exactly
\* while one request is counted as in progress, and requests are counted as
\* waiting only behind one in progress.  So the disk never interrupts without
\* a request ("Unexpected ATA IRQ"), Unblock finds one at most to wake there,
\* and the handler leaves nothing counted behind an idle disk.  These are
\* counts: whose request the head of a queue then is, with several readers, is
\* what a stale head gets wrong (ExitedNeverRuns).
DiskMatchesCounts ==
    Up => /\ Length(sched, inProgress) = IF disk = NoBlock THEN 0 ELSE 1
          /\ Length(sched, blockedQueue) > 0 => disk # NoBlock

\* kmain gets the processor back only when no thread can run.
ParentRunsLast ==
    [][cpu # Parent /\ cpu' = Parent /\ Up'
         => \A t \in Added \ sched'.freed : sched'.state[t] = "BLOCKED"]_vars

-----------------------------------------------------------------------------
(***************************************************************************)
(* The pointer queues, curProc and the states implement turns in order     *)
(* (module RoundRobin).                                                    *)
(***************************************************************************)
RR == INSTANCE RoundRobin WITH
        Threads <- Entries,
        None    <- NULL,
        ready   <- (IF CurCanRun(sched) THEN <<sched.cur>> ELSE <<>>)
                       \o Items(sched, runQueue),
        waiting <- {t \in Added : sched.state[t] = "BLOCKED"},
        kept    <- IF sched.cur = NULL \/ CurCanRun(sched) THEN NULL ELSE sched.cur,
        gone    <- sched.freed

\* Reschedule, BlockCurProc and Unblock implement those turns.
TakesTurns == RR!Spec

Keys == INSTANCE LossyFifo WITH
        Capacity <- BUF_SIZE - 1,
        items    <- Held(ring)

\* The handler's puts, in the middle of GetChar or not, and GetChar's takes make
\* a FIFO of the ring: codes come out in the order they were typed, and one is
\* lost only when BUF_SIZE - 1 newer ones have come.
KeysInOrder == Keys!Spec

\* Every snake keeps getting turns until it exits, if the typist pauses long
\* enough for kdb_print to catch up: the kernel never preempts a thread.
TypingStops == <>[][ring'.prod = ring.prod]_ring

EverySnakeRuns ==
    TypingStops =>
        \A t \in Entries :
            (t \in Threads /\ Body(t) \in {"work", "spin"} /\ pc[t] \in {"start", "turn", "exit"})
                ~> cpu = t

\* A read ends: the thread that asked for a block gets to go on.
ReadsComplete ==
    \A t \in Entries : pc[t] = "issued" ~> (cpu = t /\ pc[t] = "read")

\* The same where some thread never stops running, so that kmain never halts.
Busy == \E t \in Threads : Body(t) = "spin"

BusyReadsComplete ==
    \A t \in Entries : (Busy /\ pc[t] = "issued") ~> (cpu = t /\ pc[t] = "read")

\* And the reader of the keyboard then takes a code from a ring that holds one.
BusyKeysArrive ==
    \A t \in Entries :
        (Busy /\ pc[t] \in {"wait", "poll"} /\ HasCode(ring)) ~> pc[t] = "start"
=============================================================================
