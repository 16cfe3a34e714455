-------------------------- MODULE OneWaiterProofs --------------------------
(***************************************************************************)
(* The boots in which at most one thread can block, however many others    *)
(* there are.  A queue whose last element linked to itself keeps pointing  *)
(* at it after the Pop, so a second waiter would be pushed into nowhere;   *)
(* with one waiter every stale head points at the entry pushed next, and   *)
(* the queues, the scheduler and the drivers work together, and the        *)
(* scheduler implements module RoundRobin.                                 *)
(***************************************************************************)
EXTENDS KernelProofs

MayBlock == {"kdb", "read", "mbr"}

\* Fresh queue fields are NULL, and print_mbr finds its signature: without one it
\* returns to an address nobody pushed.
OneWaiter ==
    /\ Residues \subseteq {NULL}
    /\ \A w \in Workloads :
          /\ \A t, u \in DOMAIN w : w[t].body \in MayBlock /\ w[u].body \in MayBlock => t = u
          /\ \A t \in DOMAIN w : w[t].body = "mbr" => w[t].blk \in SignedBlocks

Waiters == {t \in Threads : Body(t) \in MayBlock}

Drivers == {kbdQueue, inProgress, blockedQueue}

(***************************************************************************)
(* The run queue spells s.  An entry pushed where head was NULL links to   *)
(* itself until a second one follows it, and head points at it for ever    *)
(* when none did.                                                          *)
(***************************************************************************)
Linked(m, s, n) ==
    /\ m.len[runQueue] = n
    /\ \A i, j \in 1 .. n : s[i] = s[j] => i = j
    /\ \A i \in 1 .. n : m.queue[s[i]] = runQueue
    /\ \A e \in Entries : m.queue[e] = runQueue => \E i \in 1 .. n : s[i] = e
    /\ n > 0 => m.head[runQueue] = s[1] /\ m.tail[runQueue] = s[n]
    /\ \A i \in 1 .. n - 1 : m.nxt[s[i]] = s[i + 1]
    /\ n > 1 => m.nxt[s[n]] = NULL
    /\ n = 1 => m.nxt[s[1]] \in {NULL, s[1]}
    /\ n = 0 => m.head[runQueue] \in {NULL, m.tail[runQueue]}

Spells(m, s) == s \in Seq(Entries) /\ Linked(m, s, Len(s))

\* A driver's queue holds one of W or nothing, and points at nothing else.
Lone(m, q, W) ==
    /\ m.head[q] \in W \cup {NULL}
    /\ m.head[q] # NULL => m.tail[q] = m.head[q]
    /\ m.len[q] \in {0, 1}
    /\ m.len[q] = 1 => m.head[q] # NULL /\ m.queue[m.head[q]] = q /\ m.nxt[m.head[q]] = m.head[q]
    /\ \A e \in Entries : m.queue[e] = q => m.len[q] = 1 /\ e = m.head[q]

(***************************************************************************)
(* Where each thread of A is: on the processor, ready, or waiting.         *)
(***************************************************************************)
Waits(m, t) == m.queue[t] \in Drivers

Current(m, t) == m.cur = t /\ m.queue[t] = NULL /\ m.state[t] \in {"RUNNING", "EXITED"}

Queued(m, t) == m.cur # t /\ m.queue[t] = runQueue /\ m.state[t] = "RUNABLE"

Blocked(m, t, W) == Waits(m, t) /\ m.state[t] = "BLOCKED" /\ t \in W

Accounted(m, A, W) ==
    /\ m.freed \subseteq A
    /\ m.cur \in (A \ m.freed) \cup {NULL}
    /\ \A t \in A \ m.freed : Current(m, t) \/ Queued(m, t) \/ Blocked(m, t, W)
    /\ \A t \in Entries \ A : m.queue[t] = NULL
    /\ \A t \in m.freed : m.queue[t] = NULL /\ m.state[t] = "EXITED"

\* The run queue points at the one thread of A, or at an entry that waited,
\* when it points at an entry that linked to itself.
Stale(m, s, A, W) ==
    LET live == A \ m.freed
    IN  /\ Len(s) = 0 /\ m.head[runQueue] # NULL => live \subseteq {m.head[runQueue]}
        /\ Len(s) = 1 /\ m.nxt[s[1]] = s[1] => s[1] \in W \/ live \subseteq {s[1]}

Sound(m, s, A, W) ==
    /\ Running(m)
    /\ Spells(m, s)
    /\ \A q \in Drivers : Lone(m, q, W)
    /\ Accounted(m, A, W)
    /\ Stale(m, s, A, W)

-----------------------------------------------------------------------------
(***************************************************************************)
(* The kernel around them.                                                 *)
(***************************************************************************)
\* Until kmain has added every thread nobody runs.
Booting ==
    pc[Parent] = "boot" =>
        /\ cpu = Parent /\ sched.cur = NULL /\ sched.freed = {}
        /\ \A t \in Added : sched.queue[t] = runQueue
        /\ sched.len[runQueue] = 0 => sched.head[runQueue] = NULL

\* Who holds the processor did not exit, and waits only on its way to yield.
OnProcessor ==
    /\ cpu # Parent => (Waits(sched, cpu) => pc[cpu] \in {"wait", "issued"})
    /\ sched.cur # NULL => sched.state[sched.cur] # "EXITED"

\* The request in progress is that of the thread that waits for it.
DiskOK ==
    /\ sched.len[blockedQueue] = 0
    /\ sched.len[inProgress] = IF disk = NoBlock THEN 0 ELSE 1
    /\ disk # NoBlock =>
        LET h == sched.head[inProgress]
        IN  h \in Threads /\ sched.data[h] = [blk |-> disk, dst |-> h] /\ load[h].blk = disk

BuffersOK ==
    \A t \in Threads : Body(t) \in {"read", "mbr"} =>
        /\ pc[t] \in {"issued", "read"} => sched.queue[t] = inProgress \/ dst[t] = load[t].blk
        /\ pc[t] = "exit" => dst[t] = load[t].blk

KeysOK == \A t \in Entries : sched.queue[t] = kbdQueue => ~HasCode(ring)

AskingOK == \A t \in Threads : pc[t] \in {"poll", "wait"} => Body(t) = "kdb"

Around == Booting /\ OnProcessor /\ DiskOK /\ BuffersOK /\ KeysOK /\ AskingOK

IInv ==
    /\ \E s \in Seq(Entries) : Sound(sched, s, Added, Waiters)
    /\ Around

-----------------------------------------------------------------------------
(***************************************************************************)
(* The queues, one operation at a time.                                    *)
(***************************************************************************)
LEMMA QueueNames ==
    /\ runQueue \in Queues /\ runQueue \notin Drivers /\ Drivers \subseteq Queues
    /\ Queues = Drivers \cup {runQueue}
    /\ NULL \notin Drivers /\ NULL # runQueue /\ NULL \notin Entries /\ Parent \notin Entries /\ Parent # NULL
    /\ kbdQueue \in Drivers /\ inProgress \in Drivers /\ blockedQueue \in Drivers
    /\ kbdQueue # inProgress /\ kbdQueue # blockedQueue /\ inProgress # blockedQueue
  BY NULLAssumption, KernelAssumption DEF Drivers

\* The drivers' queues, and the links of what is in them, are the same.
DriversKept(m, w) ==
    /\ \A q \in Drivers : w.len[q] = m.len[q] /\ w.head[q] = m.head[q] /\ w.tail[q] = m.tail[q]
    /\ \A x \in Entries : Waits(m, x) \/ Waits(w, x) => w.queue[x] = m.queue[x] /\ w.nxt[x] = m.nxt[x]

\* The run queue, and the links of what is in it, are the same.
RunKept(m, w) ==
    /\ w.len[runQueue] = m.len[runQueue] /\ w.head[runQueue] = m.head[runQueue]
    /\ w.tail[runQueue] = m.tail[runQueue]
    /\ \A x \in Entries : m.queue[x] = runQueue \/ w.queue[x] = runQueue =>
                             w.queue[x] = m.queue[x] /\ w.nxt[x] = m.nxt[x]

LEMMA LoneKept ==
    ASSUME NEW m \in Memories, NEW w \in Memories, DriversKept(m, w), NEW W \in SUBSET Entries,
           NEW q \in Drivers, Lone(m, q, W)
    PROVE  Lone(w, q, W)
  <1>1. w.len[q] = m.len[q] /\ w.head[q] = m.head[q] /\ w.tail[q] = m.tail[q]
    BY DEF DriversKept
  <1>2. m.head[q] \in Entries \cup {NULL}
    BY DEF Lone
  <1>3. ASSUME m.len[q] = 1 PROVE w.queue[m.head[q]] = q /\ w.nxt[m.head[q]] = m.head[q]
    <2>1. m.head[q] \in Entries /\ m.queue[m.head[q]] = q /\ m.nxt[m.head[q]] = m.head[q]
      BY <1>2, <1>3 DEF Lone
    <2> QED BY <2>1 DEF DriversKept, Waits
  <1>4. \A e \in Entries : w.queue[e] = q => m.queue[e] = q
    BY DEF DriversKept, Waits
  <1> QED BY <1>1, <1>3, <1>4 DEF Lone

LEMMA SpellsKept ==
    ASSUME NEW m \in Memories, NEW w \in Memories, RunKept(m, w), NEW s, Spells(m, s)
    PROVE  Spells(w, s)
  <1>1. PICK n \in Nat : n = Len(s) /\ s \in Seq(Entries) /\ Linked(m, s, n)
    BY DEF Spells
  <1>2. \A i \in 1 .. n : s[i] \in Entries /\ w.queue[s[i]] = runQueue /\ w.nxt[s[i]] = m.nxt[s[i]]
    <2>1. \A i \in 1 .. n : s[i] \in Entries /\ m.queue[s[i]] = runQueue
      BY <1>1, ElementOfSeq DEF Linked
    <2> QED BY <2>1 DEF RunKept
  <1>3. \A e \in Entries : w.queue[e] = runQueue => m.queue[e] = runQueue
    BY DEF RunKept
  <1>4. Linked(w, s, n)
    BY <1>1, <1>2, <1>3 DEF Linked, RunKept
  <1> QED BY <1>1, <1>4 DEF Spells

Pushed(m, w, s, e) ==
    /\ w = Push(m, runQueue, e)
    /\ Running(w) /\ Beside(m, w) /\ DriversKept(m, w)
    /\ w.queue = [m.queue EXCEPT ![e] = runQueue]
    /\ Spells(w, Append(s, e))

LEMMA PushRun ==
    ASSUME NEW m \in Memories, Running(m), NEW s, Spells(m, s), NEW e \in Entries, m.queue[e] = NULL,
           Len(s) = 0 => m.head[runQueue] \in {NULL, e}
    PROVE  \E w \in Memories : Pushed(m, w, s, e)
  <1>1. PICK w \in Memories : w = Push(m, runQueue, e)
    BY QueueNames, PushFields
  <1>2. /\ Running(w) /\ Beside(m, w)
        /\ w.len = [m.len EXCEPT ![runQueue] = @ + 1]
        /\ w.tail = [m.tail EXCEPT ![runQueue] = e]
        /\ w.queue = [m.queue EXCEPT ![e] = runQueue]
        /\ w.head = IF m.head[runQueue] = NULL THEN [m.head EXCEPT ![runQueue] = e] ELSE m.head
        /\ w.nxt = IF m.head[runQueue] = NULL THEN [m.nxt EXCEPT ![e] = e]
                   ELSE [[m.nxt EXCEPT ![e] = NULL] EXCEPT ![m.tail[runQueue]] = e]
    BY <1>1, QueueNames, PushFields
  <1>3. PICK n \in Nat : n = Len(s) /\ s \in Seq(Entries) /\ Linked(m, s, n)
    BY DEF Spells
  <1>4. /\ m.len[runQueue] = n
        /\ \A i \in 1 .. n : s[i] \in Entries /\ m.queue[s[i]] = runQueue /\ s[i] # e
    <2>1. \A i \in 1 .. n : s[i] \in Entries
      BY <1>3, ElementOfSeq
    <2> QED BY <2>1, <1>3, QueueNames DEF Linked
  <1>5. PICK z \in Seq(Entries) : /\ z = Append(s, e) /\ Len(z) = n + 1 /\ z[n + 1] = e
                                  /\ \A i \in 1 .. n : z[i] = s[i]
    <2>1. /\ Append(s, e) \in Seq(Entries) /\ Len(Append(s, e)) = n + 1 /\ Append(s, e)[n + 1] = e
          /\ \A i \in 1 .. n : Append(s, e)[i] = s[i]
      BY <1>3, AppendProperties
    <2> QED BY <2>1
  <1>6. ASSUME Linked(w, z, n + 1) PROVE Spells(w, z)
    BY <1>5, <1>6 DEF Spells
  <1>7. /\ m.nxt \in [Entries -> Pointers] /\ m.queue \in [Entries -> Queues \cup {NULL} \cup Residues]
        /\ m.len \in [Queues -> Nat] /\ m.tail \in [Queues -> Pointers] /\ m.head \in [Queues -> Pointers]
    BY DEF Memories
  <1>8. /\ w.len[runQueue] = n + 1 /\ w.tail[runQueue] = e
        /\ w.queue[e] = runQueue /\ \A x \in Entries \ {e} : w.queue[x] = m.queue[x]
        /\ \A q \in Drivers : w.len[q] = m.len[q] /\ w.head[q] = m.head[q] /\ w.tail[q] = m.tail[q]
    BY <1>2, <1>4, <1>5, <1>7, QueueNames
  <1>9. CASE n = 0
    <2>1. /\ w.nxt = [m.nxt EXCEPT ![e] = e] \/ w.nxt = [[m.nxt EXCEPT ![e] = NULL] EXCEPT ![e] = e]
          /\ w.head[runQueue] = e
      BY <1>2, <1>7, <1>9, QueueNames, <1>3 DEF Linked
    <2>2. w.nxt[e] = e /\ \A x \in Entries \ {e} : w.nxt[x] = m.nxt[x]
      BY <1>7, <2>1
    <2>3. n + 1 = 1 /\ z[1] = e
      BY <1>5, <1>9
    <2>4. \A x \in Entries : w.queue[x] = runQueue => x = e
      BY <1>3, <1>4, <1>8, <1>9 DEF Linked
    <2>5. Linked(w, z, n + 1)
      BY <1>8, <2>1, <2>2, <2>3, <2>4 DEF Linked
    <2>6. DriversKept(m, w)
      BY <1>8, <2>2, QueueNames DEF DriversKept, Waits
    <2> QED BY <1>1, <1>2, <1>5, <2>5, <2>6, <1>6 DEF Pushed
  <1>10. CASE n > 0
    <2>1. PICK l \in Entries : l = m.tail[runQueue] /\ l = s[n] /\ l # e /\ m.queue[l] = runQueue
      BY <1>4, <1>10, <1>3 DEF Linked
    <2>2. m.head[runQueue] = s[1] /\ s[1] # NULL
      BY <1>4, <1>10, QueueNames, <1>3 DEF Linked
    <2>3. w.head[runQueue] = s[1] /\ w.nxt = [[m.nxt EXCEPT ![e] = NULL] EXCEPT ![l] = e]
      BY <1>2, <2>1, <2>2
    <2>4. w.nxt[e] = NULL /\ w.nxt[l] = e /\ \A x \in Entries \ {e, l} : w.nxt[x] = m.nxt[x]
      BY <1>7, <2>1, <2>3
    <2>5. DriversKept(m, w)
      BY <1>8, <2>1, <2>4, QueueNames DEF DriversKept, Waits
    <2>6. \A i, j \in 1 .. n + 1 : z[i] = z[j] => i = j
      BY <1>4, <1>5, <1>3 DEF Linked
    <2>7. \A i \in 1 .. n + 1 : w.queue[z[i]] = runQueue
      BY <1>4, <1>5, <1>8
    <2>8. ASSUME NEW x \in Entries, w.queue[x] = runQueue PROVE \E i \in 1 .. n + 1 : z[i] = x
      <3>1. CASE x = e
        BY <1>4, <1>5, <3>1
      <3>2. CASE x # e
        <4>1. m.queue[x] = runQueue
          BY <1>8, <2>8, <3>2
        <4>2. PICK i \in 1 .. n : s[i] = x
          BY <1>3, <4>1 DEF Linked
        <4> QED BY <1>4, <1>5, <4>2
      <3> QED BY <3>1, <3>2
    <2>9. ASSUME NEW i \in 1 .. (n + 1) - 1 PROVE w.nxt[z[i]] = z[i + 1]
      <3>1. CASE i = n
        BY <1>4, <1>5, <2>1, <2>4, <3>1
      <3>2. CASE i # n
        <4>1. i \in 1 .. n - 1 /\ i \in 1 .. n /\ i + 1 \in 1 .. n /\ n \in 1 .. n
          BY <1>4, <1>5, <3>2
        <4>2. s[i] # l /\ s[i] # e /\ s[i] \in Entries /\ m.nxt[s[i]] = s[i + 1]
          BY <1>4, <2>1, <3>2, <4>1, <1>3 DEF Linked
        <4> QED BY <1>5, <2>4, <4>1, <4>2
      <3> QED BY <3>1, <3>2
    <2>10. n + 1 > 1 /\ z[1] = s[1] /\ z[n + 1] = e
      BY <1>4, <1>5, <1>10
    <2>11. w.len[runQueue] = n + 1 /\ w.head[runQueue] = z[1] /\ w.tail[runQueue] = z[n + 1]
           /\ w.nxt[z[n + 1]] = NULL /\ n + 1 # 1 /\ n + 1 # 0
      BY <1>8, <1>10, <2>3, <2>4, <2>10
    <2>12. Linked(w, z, n + 1)
      BY <2>6, <2>7, <2>8, <2>9, <2>11 DEF Linked
    <2> QED BY <1>1, <1>2, <1>5, <2>5, <2>12, <1>6 DEF Pushed
  <1> QED BY <1>9, <1>10

PoppedOff(m, w, s) ==
    /\ w = Pop(m, runQueue) /\ Popped(m, runQueue) = s[1]
    /\ Running(w) /\ Beside(m, w) /\ DriversKept(m, w)
    /\ w.queue = [m.queue EXCEPT ![s[1]] = NULL]
    /\ Spells(w, Tail(s))
    /\ w.head[runQueue] = m.nxt[s[1]]
    /\ \A x \in Entries \ {s[1]} : w.nxt[x] = m.nxt[x]

LEMMA PopRun ==
    ASSUME NEW m \in Memories, Running(m), NEW s, Spells(m, s), Len(s) # 0
    PROVE  \E w \in Memories : PoppedOff(m, w, s)
  <1>1. PICK n \in Nat : n = Len(s) /\ n # 0 /\ s \in Seq(Entries) /\ Linked(m, s, n)
    BY DEF Spells
  <1>2. /\ m.len[runQueue] = n
        /\ \A i \in 1 .. n : s[i] \in Entries /\ m.queue[s[i]] = runQueue
    BY <1>1, ElementOfSeq DEF Linked
  <1>3. PICK h \in Entries : h = s[1] /\ h = m.head[runQueue] /\ h # NULL /\ m.queue[h] = runQueue
    BY <1>1, <1>2, QueueNames DEF Linked
  <1>4. PICK w \in Memories : w = Pop(m, runQueue)
    BY QueueNames, PopFields
  <1>5. /\ Running(w) /\ Beside(m, w)
        /\ w.len = [m.len EXCEPT ![runQueue] = @ - 1]
        /\ w.tail = m.tail
        /\ w.head = [m.head EXCEPT ![runQueue] = m.nxt[h]]
        /\ w.queue = [m.queue EXCEPT ![h] = NULL]
        /\ w.nxt = [m.nxt EXCEPT ![h] = NULL]
    <2>1. m.len[runQueue] # 0 /\ m.head[runQueue] # NULL
      BY <1>1, <1>2, <1>3
    <2>2. runQueue \in Queues
      BY QueueNames
    <2>3. m.head[runQueue] \in Entries /\ Running(Pop(m, runQueue)) /\ Beside(m, Pop(m, runQueue))
          /\ Pop(m, runQueue).len = [m.len EXCEPT ![runQueue] = @ - 1]
          /\ Pop(m, runQueue).tail = m.tail
          /\ Pop(m, runQueue).head = [m.head EXCEPT ![runQueue] = m.nxt[m.head[runQueue]]]
          /\ Pop(m, runQueue).queue = [m.queue EXCEPT ![m.head[runQueue]] = NULL]
          /\ Pop(m, runQueue).nxt = [m.nxt EXCEPT ![m.head[runQueue]] = NULL]
      BY <2>1, <2>2, PopFields
    <2> QED BY <1>3, <1>4, <2>3
  <1>6. PICK z \in Seq(Entries) : z = Tail(s) /\ Len(z) = n - 1 /\ \A i \in 1 .. n - 1 : z[i] = s[i + 1]
    <2>1. s # <<>>
      BY <1>1
    <2>2. Tail(s) \in Seq(Entries) /\ Len(Tail(s)) = n - 1 /\ \A i \in 1 .. n - 1 : Tail(s)[i] = s[i + 1]
      BY <1>1, <2>1, HeadTailProperties
    <2> QED BY <2>2
  <1>7. ASSUME Linked(w, z, n - 1) PROVE Spells(w, z)
    BY <1>6, <1>7 DEF Spells
  <1>8. /\ m.nxt \in [Entries -> Pointers] /\ m.queue \in [Entries -> Queues \cup {NULL} \cup Residues]
        /\ m.len \in [Queues -> Nat] /\ m.tail \in [Queues -> Pointers] /\ m.head \in [Queues -> Pointers]
    BY DEF Memories
  <1>9. /\ w.len[runQueue] = n - 1 /\ w.head[runQueue] = m.nxt[h] /\ w.tail[runQueue] = m.tail[runQueue]
        /\ w.queue[h] = NULL /\ \A x \in Entries \ {h} : w.queue[x] = m.queue[x] /\ w.nxt[x] = m.nxt[x]
        /\ \A q \in Drivers : w.len[q] = m.len[q] /\ w.head[q] = m.head[q] /\ w.tail[q] = m.tail[q]
    BY <1>2, <1>5, <1>8, QueueNames
  <1>10. Popped(m, runQueue) = h
    BY <1>1, <1>2, <1>3 DEF Popped
  <1>11. DriversKept(m, w)
    BY <1>3, <1>9, QueueNames DEF DriversKept, Waits
  <1>12. \A i \in 1 .. n - 1 : z[i] = s[i + 1] /\ z[i] # h /\ z[i] \in Entries
    <2>1. \A i \in 1 .. n - 1 : i + 1 \in 1 .. n /\ i + 1 # 1 /\ 1 \in 1 .. n
      OBVIOUS
    <2>2. \A i \in 1 .. n - 1 : s[i + 1] # s[1]
      BY <1>1, <2>1 DEF Linked
    <2> QED BY <1>2, <1>3, <1>6, <2>1, <2>2
  <1>13. /\ \A i, j \in 1 .. n - 1 : z[i] = z[j] => i = j
         /\ \A i \in 1 .. n - 1 : w.queue[z[i]] = runQueue
    <2>1. \A i \in 1 .. n - 1 : i + 1 \in 1 .. n
      OBVIOUS
    <2>2. \A i, j \in 1 .. n - 1 : s[i + 1] = s[j + 1] => i + 1 = j + 1
      BY <1>1, <2>1 DEF Linked
    <2>3. \A i \in 1 .. n - 1 : m.queue[s[i + 1]] = runQueue
      BY <1>2, <2>1
    <2>4. \A i, j \in 1 .. n - 1 : i + 1 = j + 1 => i = j
      BY <1>1
    <2>5. \A i, j \in 1 .. n - 1 : z[i] = z[j] => i = j
      BY <1>12, <2>2, <2>4
    <2>6. \A i \in 1 .. n - 1 : w.queue[z[i]] = runQueue
      BY <1>9, <1>12, <2>3
    <2> QED BY <2>5, <2>6
  <1>14. ASSUME NEW x \in Entries, w.queue[x] = runQueue PROVE \E i \in 1 .. n - 1 : z[i] = x
    <2>1. x # h /\ m.queue[x] = runQueue
      BY <1>9, <1>14, QueueNames
    <2>2. PICK i \in 1 .. n : s[i] = x
      BY <1>1, <2>1 DEF Linked
    <2>3. i # 1
      BY <1>3, <2>1, <2>2
    <2>4. i - 1 \in 1 .. n - 1 /\ (i - 1) + 1 = i
      BY <1>1, <2>3
    <2> QED BY <1>12, <2>2, <2>4
  <1>15. \A i \in 1 .. (n - 1) - 1 : w.nxt[z[i]] = z[i + 1]
    <2>1. \A i \in 1 .. (n - 1) - 1 : i \in 1 .. n - 1 /\ i + 1 \in 1 .. n - 1
      OBVIOUS
    <2>2. \A i \in 1 .. (n - 1) - 1 : m.nxt[s[i + 1]] = s[(i + 1) + 1]
      BY <1>1, <2>1 DEF Linked
    <2> QED BY <1>9, <1>12, <2>1, <2>2
  <1>16. ASSUME Linked(w, z, n - 1) PROVE PoppedOff(m, w, s)
    <2>1. Spells(w, Tail(s))
      BY <1>6, <1>7, <1>16
    <2>2. w.queue = [m.queue EXCEPT ![s[1]] = NULL]
      BY <1>3, <1>5
    <2>3. w.head[runQueue] = m.nxt[s[1]] /\ \A x \in Entries \ {s[1]} : w.nxt[x] = m.nxt[x]
      BY <1>3, <1>9
    <2> QED BY <1>3, <1>4, <1>5, <1>10, <1>11, <2>1, <2>2, <2>3 DEF PoppedOff
  <1>17. CASE n = 1
    <2>1. m.nxt[h] \in {NULL, h} /\ w.tail[runQueue] = h
      BY <1>1, <1>3, <1>9, <1>17 DEF Linked
    <2>2. Linked(w, z, n - 1)
      BY <1>1, <1>9, <1>13, <1>14, <1>15, <1>17, <2>1 DEF Linked
    <2> QED BY <1>16, <2>2
  <1>18. CASE n # 1
    <2>1. 1 \in 1 .. n - 1 /\ n - 1 \in 1 .. n - 1 /\ n > 1 /\ n > 0 /\ (n - 1) + 1 = n
      BY <1>1, <1>18
    <2>2. m.nxt[h] = z[1] /\ m.tail[runQueue] = z[n - 1] /\ m.nxt[s[n]] = NULL /\ z[n - 1] = s[n]
      <3>1. m.nxt[s[1]] = s[1 + 1] /\ m.tail[runQueue] = s[n] /\ m.nxt[s[n]] = NULL
        BY <1>1, <2>1 DEF Linked
      <3>2. z[1] = s[1 + 1] /\ z[n - 1] = s[(n - 1) + 1]
        BY <1>12, <2>1
      <3> QED BY <1>3, <2>1, <3>1, <3>2
    <2>3. w.nxt[z[n - 1]] = NULL
      BY <1>9, <1>12, <2>1, <2>2
    <2>4. Linked(w, z, n - 1)
      BY <1>1, <1>9, <1>13, <1>14, <1>15, <2>1, <2>2, <2>3 DEF Linked
    <2> QED BY <1>16, <2>4
  <1> QED BY <1>17, <1>18

-----------------------------------------------------------------------------
(***************************************************************************)
(* Reschedule.                                                             *)
(***************************************************************************)
\* What a change of the scheduler's own fields leaves.
LEMMA LinksKept ==
    ASSUME NEW m \in Memories, NEW w \in Memories, Links(m, w)
    PROVE  DriversKept(m, w) /\ RunKept(m, w) /\ (Running(m) => Running(w))
  BY DEF Links, DriversKept, RunKept, Running

LEMMA KeptTwice ==
    ASSUME NEW m, NEW v, NEW w, DriversKept(m, v), DriversKept(v, w)
    PROVE  DriversKept(m, w)
  <1>1. ASSUME NEW x \in Entries, Waits(m, x) \/ Waits(w, x)
        PROVE  w.queue[x] = m.queue[x] /\ w.nxt[x] = m.nxt[x]
    <2>1. Waits(v, x)
      BY <1>1 DEF DriversKept, Waits
    <2> QED BY <2>1 DEF DriversKept
  <1> QED BY <1>1 DEF DriversKept

Reaped(m, w) ==
    /\ w = Reap(m)
    /\ DriversKept(m, w) /\ w.data = m.data
    /\ w.cur # NULL => w.cur = m.cur /\ w.state[w.cur] # "EXITED"

LEMMA ReapSound ==
    ASSUME NEW m \in Memories, NEW s, NEW A \in SUBSET Entries, NEW W \in SUBSET Entries, Sound(m, s, A, W)
    PROVE  \E w \in Memories : Reaped(m, w) /\ Sound(w, s, A, W)
  <1>1. m.cur \in (A \ m.freed) \cup {NULL}
    BY DEF Sound, Accounted
  <1>2. CASE m.cur = NULL \/ m.state[m.cur] # "EXITED"
    <2>1. Reap(m) = m
      BY <1>2 DEF Reap
    <2>2. DriversKept(m, m)
      BY DEF DriversKept
    <2> QED BY <1>2, <2>1, <2>2 DEF Reaped
  <1>3. CASE m.cur # NULL /\ m.state[m.cur] = "EXITED"
    <2>1. PICK c \in Entries : c = m.cur /\ c \in A /\ c \notin m.freed /\ c # NULL
      BY <1>1, <1>3
    <2>2. PICK w \in Memories : ReapedSet(m, w, c)
      BY SetReaped
    <2>3. Reap(m) = w
      BY <1>3, <2>1, <2>2 DEF Reap, ReapedSet
    <2>4. Links(m, w) /\ w.state = m.state /\ w.queue = m.queue /\ w.cur = NULL /\ w.freed = m.freed \cup {c}
          /\ w.data = m.data /\ w.head = m.head /\ w.nxt = m.nxt
      BY <2>2 DEF ReapedSet, Links
    <2>5. DriversKept(m, w) /\ RunKept(m, w) /\ Running(w)
      BY <2>4, LinksKept DEF Sound
    <2>6. m.queue[c] = NULL
      BY <1>3, <2>1 DEF Sound, Accounted, Current, Queued, Blocked
    <2>7. ASSUME NEW t \in A \ w.freed PROVE Current(w, t) \/ Queued(w, t) \/ Blocked(w, t, W)
      <3>1. t \in A \ m.freed /\ t # c /\ t # NULL
        BY <2>4, <2>7, QueueNames
      <3>2. Queued(m, t) \/ Blocked(m, t, W)
        BY <2>1, <3>1 DEF Sound, Accounted, Current
      <3> QED BY <2>4, <3>1, <3>2 DEF Queued, Blocked, Waits
    <2>8. Accounted(w, A, W)
      BY <1>3, <2>1, <2>4, <2>6, <2>7 DEF Sound, Accounted
    <2>9. Stale(w, s, A, W)
      <3>1. A \ w.freed \subseteq A \ m.freed
        BY <2>4
      <3> QED BY <2>4, <3>1 DEF Sound, Stale
    <2>10. Spells(w, s) /\ \A q \in Drivers : Lone(w, q, W)
      BY <2>5, LoneKept, SpellsKept DEF Sound
    <2> QED BY <2>3, <2>4, <2>5, <2>8, <2>9, <2>10 DEF Reaped, Sound
  <1> QED BY <1>2, <1>3

\* The step from w to the process e it popped.
Dispatched(m, w, e) ==
    /\ w = Dispatch(m) /\ w.cur = e /\ w.freed = m.freed /\ w.data = m.data
    /\ Running(w) /\ DriversKept(m, w)
    /\ w.queue = [m.queue EXCEPT ![e] = NULL]
    /\ w.state = [m.state EXCEPT ![e] = "RUNNING"]
    /\ w.head[runQueue] = m.nxt[e]
    /\ \A x \in Entries \ {e} : w.nxt[x] = m.nxt[x]

LEMMA DispatchSpells ==
    ASSUME NEW m \in Memories, Running(m), NEW s, Spells(m, s), Len(s) # 0
    PROVE  \E w \in Memories : Dispatched(m, w, s[1]) /\ Spells(w, Tail(s))
  <1>1. PICK p \in Memories : PoppedOff(m, p, s)
    BY PopRun
  <1>2. PICK e \in Entries : e = s[1]
    <2>1. s \in Seq(Entries) /\ Len(s) \in Nat /\ 1 \in 1 .. Len(s)
      BY DEF Spells
    <2> QED BY <2>1, ElementOfSeq
  <1>3. PICK w \in Memories : CurSet(p, w, e)
    BY SetCur
  <1>4. Dispatch(m) = w
    BY <1>1, <1>2, <1>3 DEF Dispatch, PoppedOff, CurSet
  <1>5. Links(p, w)
    BY <1>3 DEF CurSet
  <1>6. DriversKept(p, w) /\ RunKept(p, w) /\ Running(w)
    BY <1>1, <1>5, LinksKept DEF PoppedOff
  <1>7. DriversKept(m, w)
    BY <1>1, <1>6, KeptTwice DEF PoppedOff
  <1>8. Spells(w, Tail(s))
    BY <1>1, <1>6, SpellsKept DEF PoppedOff
  <1>9. /\ w.cur = e /\ w.freed = m.freed /\ w.data = m.data
        /\ w.queue = [m.queue EXCEPT ![s[1]] = NULL]
        /\ w.state = [m.state EXCEPT ![e] = "RUNNING"]
        /\ w.head[runQueue] = m.nxt[s[1]]
        /\ \A x \in Entries \ {s[1]} : w.nxt[x] = m.nxt[x]
    BY <1>1, <1>3, <1>5 DEF PoppedOff, CurSet, Links, Beside
  <1>10. w.state = [m.state EXCEPT ![s[1]] = "RUNNING"]
    BY <1>2, <1>9
  <1> QED BY <1>2, <1>4, <1>6, <1>7, <1>8, <1>9, <1>10 DEF Dispatched

\* The processor went to the first of y, who waits and who is gone is the same.
Went(m, w, z, y) ==
    /\ z = Tail(y) /\ w.cur = y[1] /\ w.cur \in Entries /\ w.state[w.cur] = "RUNNING"
    /\ w.freed = m.freed
    /\ \A x \in Entries : w.state[x] = "BLOCKED" <=> m.state[x] = "BLOCKED"

\* Which process goes on, and in which order the others follow.
Chose(m, s, w, z) ==
    IF Len(s) = 0 THEN w = Reap(m) /\ z = s
    ELSE Went(Reap(m), w, z, IF CurCanRun(Reap(m)) THEN Append(s, Reap(m).cur) ELSE s)

Taken(m, w, A) ==
    /\ w = Reschedule(m)
    /\ DriversKept(m, w) /\ w.data = m.data
    /\ w.cur # NULL => w.state[w.cur] # "EXITED" /\ (w.cur = m.cur \/ ~Waits(w, w.cur))
    /\ Chosen(w) = NULL => \A t \in A \ w.freed : Waits(w, t)

\* curProc joins the run queue, and the first of the queue goes on.
LEMMA RotateSound ==
    ASSUME NEW m \in Memories, NEW s, NEW A \in SUBSET Entries, NEW W \in SUBSET Entries,
           Sound(m, s, A, W), Len(s) # 0, CurCanRun(m)
    PROVE  \E w \in Memories, z \in Seq(Entries) :
              /\ w = Dispatch(Requeue(m)) /\ Sound(w, z, A, W)
              /\ DriversKept(m, w) /\ w.data = m.data /\ Went(m, w, z, Append(s, m.cur))
              /\ ~Waits(w, w.cur)
  <1>1. PICK c \in Entries : c = m.cur /\ c \in A /\ c \notin m.freed /\ Current(m, c)
    BY DEF Sound, Accounted, CurCanRun, CanRun, Queued, Blocked
  <1>2. PICK a \in Memories : StateSet(m, a, c, "RUNABLE")
    <2>1. "RUNABLE" \in ProcState
      BY DEF ProcState
    <2> QED BY <2>1, SetState
  <1>3. Links(m, a) /\ a.queue = m.queue /\ a.nxt = m.nxt /\ a.cur = c /\ a.freed = m.freed /\ a.data = m.data
        /\ a.state = [m.state EXCEPT ![c] = "RUNABLE"]
    BY <1>1, <1>2 DEF StateSet, Links
  <1>4. DriversKept(m, a) /\ Running(a) /\ Spells(a, s)
    BY <1>3, LinksKept, SpellsKept DEF Sound
  <1>5. PICK u \in Memories : Pushed(a, u, s, c)
    <2>1. a.queue[c] = NULL
      BY <1>1, <1>3 DEF Current
    <2> QED BY <1>4, <2>1, PushRun
  <1>6. u = Requeue(m)
    BY <1>1, <1>2, <1>5 DEF Requeue, Pushed, StateSet
  <1>7. PICK n \in Nat : n = Len(s) /\ n # 0 /\ s \in Seq(Entries) /\ Linked(m, s, n)
    BY DEF Sound, Spells
  <1>8. PICK y \in Seq(Entries) : y = Append(s, c) /\ Len(y) = n + 1 /\ y[n + 1] = c /\ y[1] = s[1]
    <2>1. 1 \in 1 .. n
      BY <1>7
    <2>2. /\ Append(s, c) \in Seq(Entries) /\ Len(Append(s, c)) = n + 1 /\ Append(s, c)[n + 1] = c
          /\ \A i \in 1 .. n : Append(s, c)[i] = s[i]
      BY <1>7, AppendProperties
    <2> QED BY <2>1, <2>2
  <1>9. PICK e \in Entries : e = s[1] /\ m.queue[e] = runQueue /\ e # c
    <2>1. 1 \in 1 .. n
      BY <1>7
    <2>2. m.queue[s[1]] = runQueue
      BY <1>7, <2>1 DEF Linked
    <2>3. s[1] \in Entries
      BY <1>7, <2>1, ElementOfSeq
    <2> QED BY <1>1, <2>2, <2>3, QueueNames DEF Current
  <1>10. Spells(u, y) /\ Running(u)
    BY <1>5, <1>8 DEF Pushed
  <1>11. PICK w \in Memories : Dispatched(u, w, e) /\ Spells(w, Tail(y))
    <2>1. Len(y) # 0 /\ y[1] = e
      BY <1>7, <1>8, <1>9
    <2>2. \E w \in Memories : Dispatched(u, w, y[1]) /\ Spells(w, Tail(y))
      BY <1>10, <2>1, DispatchSpells
    <2> QED BY <2>1, <2>2
  <1>12. PICK z \in Seq(Entries) : z = Tail(y) /\ Len(z) = n /\ (n = 1 => z[1] = c)
    <2>1. y # <<>>
      BY <1>7, <1>8
    <2>2. Tail(y) \in Seq(Entries) /\ Len(Tail(y)) = Len(y) - 1 /\ \A i \in 1 .. Len(Tail(y)) : Tail(y)[i] = y[i + 1]
      BY <2>1, HeadTailProperties
    <2>3. Len(Tail(y)) = n /\ 1 \in 1 .. Len(Tail(y))
      BY <1>7, <1>8, <2>2
    <2> QED BY <1>8, <2>2, <2>3
  <1>13. DriversKept(m, w)
    <2>1. DriversKept(m, u)
      BY <1>4, <1>5, KeptTwice DEF Pushed
    <2> QED BY <1>11, <2>1, KeptTwice DEF Dispatched
  <1>14. /\ w.cur = e /\ w.freed = m.freed /\ w.data = m.data /\ Running(w)
         /\ w.queue = [[m.queue EXCEPT ![c] = runQueue] EXCEPT ![e] = NULL]
         /\ w.state = [[m.state EXCEPT ![c] = "RUNABLE"] EXCEPT ![e] = "RUNNING"]
         /\ \A x \in Entries \ {e} : w.nxt[x] = u.nxt[x]
    BY <1>3, <1>5, <1>11 DEF Pushed, Dispatched, Beside
  <1>15. /\ m.queue \in [Entries -> Queues \cup {NULL} \cup Residues] /\ m.state \in [Entries -> ProcState]
         /\ w.queue[e] = NULL /\ w.state[e] = "RUNNING" /\ w.queue[c] = runQueue /\ w.state[c] = "RUNABLE"
         /\ \A x \in Entries \ {c, e} : w.queue[x] = m.queue[x] /\ w.state[x] = m.state[x]
    <2>1. m.queue \in [Entries -> Queues \cup {NULL} \cup Residues] /\ m.state \in [Entries -> ProcState]
      BY DEF Memories
    <2> QED BY <1>9, <1>14, <2>1
  <1>16. e \in A /\ e \notin m.freed
    BY <1>9, QueueNames DEF Sound, Accounted
  <1>17. Accounted(w, A, W)
    <2>1. ASSUME NEW t \in A \ w.freed PROVE Current(w, t) \/ Queued(w, t) \/ Blocked(w, t, W)
      <3>1. CASE t = e
        BY <1>14, <1>15, <3>1 DEF Current
      <3>2. CASE t = c
        BY <1>9, <1>14, <1>15, <3>2 DEF Queued
      <3>3. CASE t # e /\ t # c
        <4>1. Queued(m, t) \/ Blocked(m, t, W)
          BY <1>1, <1>14, <2>1, <3>3 DEF Sound, Accounted, Current
        <4> QED BY <1>14, <1>15, <3>3, <4>1 DEF Queued, Blocked, Waits
      <3> QED BY <3>1, <3>2, <3>3
    <2>2. \A t \in Entries \ A : w.queue[t] = NULL
      BY <1>1, <1>15, <1>16 DEF Sound, Accounted
    <2>3. \A t \in w.freed : w.queue[t] = NULL /\ w.state[t] = "EXITED"
      <3>1. ASSUME NEW t \in m.freed PROVE t \in Entries \ {c, e} /\ m.queue[t] = NULL /\ m.state[t] = "EXITED"
        BY <1>1, <1>16 DEF Sound, Accounted
      <3> QED BY <1>14, <1>15, <3>1
    <2> QED BY <1>14, <1>16, <2>1, <2>2, <2>3 DEF Sound, Accounted
  <1>18. Stale(w, z, A, W)
    <2>1. n = 1 => w.nxt[z[1]] # z[1]
      <3>1. n = 1 => u.nxt[c] = NULL
        <4>1. Linked(u, y, n + 1)
          BY <1>8, <1>10 DEF Spells
        <4> QED BY <1>7, <1>8, <4>1 DEF Linked
      <3> QED BY <1>9, <1>12, <1>14, <3>1, QueueNames
    <2> QED BY <1>7, <1>12, <2>1 DEF Stale
  <1>19. Sound(w, z, A, W)
    BY <1>11, <1>12, <1>13, <1>14, <1>17, <1>18, LoneKept DEF Sound
  <1>20. Went(m, w, z, Append(s, m.cur))
    <2>1. m.state[c] # "BLOCKED" /\ m.state[e] # "BLOCKED"
      <3>1. m.state[c] # "BLOCKED"
        BY <1>1 DEF Current
      <3>2. ~Current(m, e) /\ ~Blocked(m, e, W)
        BY <1>1, <1>9, QueueNames DEF Current, Blocked, Waits
      <3>3. Queued(m, e)
        BY <1>16, <3>2 DEF Sound, Accounted
      <3> QED BY <3>1, <3>3 DEF Queued
    <2>2. \A x \in Entries : w.state[x] = "BLOCKED" <=> m.state[x] = "BLOCKED"
      BY <1>15, <2>1
    <2>3. z = Tail(Append(s, m.cur)) /\ w.cur = Append(s, m.cur)[1]
      BY <1>1, <1>8, <1>9, <1>12, <1>14
    <2> QED BY <1>14, <1>15, <2>2, <2>3 DEF Went
  <1> QED BY <1>6, <1>11, <1>13, <1>14, <1>15, <1>19, <1>20, QueueNames DEF Dispatched, Waits

\* curProc waits or is gone: the first of the run queue goes on.
LEMMA ReplaceSound ==
    ASSUME NEW m \in Memories, NEW s, NEW A \in SUBSET Entries, NEW W \in SUBSET Entries,
           \A x, y \in W : x = y, Sound(m, s, A, W), Len(s) # 0, ~CurCanRun(m),
           m.cur # NULL => m.state[m.cur] # "EXITED"
    PROVE  \E w \in Memories, z \in Seq(Entries) :
              /\ w = Dispatch(m) /\ Sound(w, z, A, W)
              /\ DriversKept(m, w) /\ w.data = m.data /\ Went(m, w, z, s)
              /\ ~Waits(w, w.cur)
  <1>1. PICK n \in Nat : n = Len(s) /\ n # 0 /\ s \in Seq(Entries) /\ Linked(m, s, n) /\ Spells(m, s) /\ 1 \in 1 .. n
    BY DEF Sound, Spells
  <1>2. PICK e \in Entries : e = s[1] /\ m.queue[e] = runQueue
    <2>1. m.queue[s[1]] = runQueue
      BY <1>1 DEF Linked
    <2>2. s[1] \in Entries
      BY <1>1, ElementOfSeq
    <2> QED BY <2>1, <2>2
  <1>3. PICK w \in Memories : Dispatched(m, w, e) /\ Spells(w, Tail(s))
    <2>1. \E w \in Memories : Dispatched(m, w, s[1]) /\ Spells(w, Tail(s))
      BY <1>1, DispatchSpells DEF Sound
    <2> QED BY <1>2, <2>1
  <1>4. PICK z \in Seq(Entries) : z = Tail(s) /\ Len(z) = n - 1 /\ (n = 2 => z[1] = s[2])
    <2>1. s # <<>>
      BY <1>1
    <2>2. Tail(s) \in Seq(Entries) /\ Len(Tail(s)) = n - 1 /\ \A i \in 1 .. n - 1 : Tail(s)[i] = s[i + 1]
      BY <1>1, <2>1, HeadTailProperties
    <2>3. n = 2 => Tail(s)[1] = s[2]
      BY <1>1, <2>2
    <2> QED BY <2>2, <2>3
  <1>5. /\ w.cur = e /\ w.freed = m.freed /\ w.data = m.data /\ Running(w) /\ DriversKept(m, w)
        /\ w.queue[e] = NULL /\ w.state[e] = "RUNNING"
        /\ \A x \in Entries \ {e} : w.queue[x] = m.queue[x] /\ w.state[x] = m.state[x] /\ w.nxt[x] = m.nxt[x]
        /\ w.head[runQueue] = m.nxt[e]
    BY <1>2, <1>3 DEF Dispatched, Memories
  <1>6. e \in A /\ e \notin m.freed /\ Queued(m, e)
    <2>1. e \in A /\ e \notin m.freed
      BY <1>2, QueueNames DEF Sound, Accounted
    <2> QED BY <1>2, <2>1, QueueNames DEF Sound, Accounted, Current, Blocked, Waits
  <1>7. ASSUME m.cur # NULL PROVE m.cur \in W /\ Waits(m, m.cur)
    BY <1>7 DEF Sound, Accounted, Current, Queued, Blocked, CurCanRun, CanRun
  <1>8. Accounted(w, A, W)
    <2>1. ASSUME NEW t \in A \ w.freed PROVE Current(w, t) \/ Queued(w, t) \/ Blocked(w, t, W)
      <3>1. CASE t = e
        BY <1>5, <3>1 DEF Current
      <3>2. CASE t # e
        <4>1. Queued(m, t) \/ Blocked(m, t, W)
          <5>1. t \in A \ m.freed
            BY <1>5, <2>1
          <5>2. ~Current(m, t)
            BY <1>7, QueueNames DEF Current, Waits
          <5> QED BY <5>1, <5>2 DEF Sound, Accounted
        <4> QED BY <1>5, <3>2, <4>1 DEF Queued, Blocked, Waits
      <3> QED BY <3>1, <3>2
    <2>2. \A t \in Entries \ A : w.queue[t] = NULL
      BY <1>5, <1>6 DEF Sound, Accounted
    <2>3. \A t \in w.freed : w.queue[t] = NULL /\ w.state[t] = "EXITED"
      <3>1. ASSUME NEW t \in m.freed PROVE t \in Entries \ {e} /\ m.queue[t] = NULL /\ m.state[t] = "EXITED"
        BY <1>6 DEF Sound, Accounted
      <3> QED BY <1>5, <3>1
    <2> QED BY <1>5, <1>6, <2>1, <2>2, <2>3 DEF Sound, Accounted
  <1>9. Stale(w, z, A, W)
    <2>1. CASE n = 1
      <3>1. SUFFICES ASSUME w.head[runQueue] # NULL PROVE A \ w.freed \subseteq {w.head[runQueue]}
        BY <1>4, <2>1 DEF Stale
      <3>2. m.nxt[e] = e /\ w.head[runQueue] = e
        BY <1>1, <1>2, <1>5, <2>1, <3>1 DEF Linked
      <3>3. e \in W \/ A \ m.freed \subseteq {e}
        BY <1>1, <1>2, <2>1, <3>2 DEF Sound, Stale
      <3>4. ASSUME e \in W, NEW t \in A \ m.freed PROVE t = e
        <4>1. CASE Blocked(m, t, W)
          BY <3>4, <4>1 DEF Blocked
        <4>2. CASE Queued(m, t)
          <5>1. PICK i \in 1 .. 1 : s[i] = t
            BY <1>1, <2>1, <4>2 DEF Linked, Queued
          <5> QED BY <1>2, <5>1
        <4>3. ~Current(m, t)
          BY <1>7, QueueNames DEF Current, Waits
        <4> QED BY <3>4, <4>1, <4>2, <4>3 DEF Sound, Accounted
      <3> QED BY <1>5, <3>2, <3>3, <3>4
    <2>2. CASE n = 2
      <3>1. m.nxt[s[2]] = NULL /\ s[2] \in Entries /\ s[2] # s[1]
        <4>1. 2 \in 1 .. n /\ 1 \in 1 .. n
          BY <2>2
        <4>2. s[2] # s[1] /\ m.nxt[s[2]] = NULL
          BY <1>1, <2>2, <4>1 DEF Linked
        <4> QED BY <1>1, <4>1, <4>2, ElementOfSeq
      <3>2. w.nxt[z[1]] # z[1]
        BY <1>2, <1>4, <1>5, <2>2, <3>1, QueueNames
      <3>3. Len(z) = 1
        BY <1>4, <2>2
      <3> QED BY <3>2, <3>3 DEF Stale
    <2>3. CASE n > 2
      <3>1. Len(z) # 0 /\ Len(z) # 1
        <4>1. n - 1 # 0 /\ n - 1 # 1
          BY <2>3
        <4> QED BY <1>4, <4>1
      <3> QED BY <3>1 DEF Stale
    <2> QED BY <1>1, <2>1, <2>2, <2>3
  <1>10. Sound(w, z, A, W)
    BY <1>3, <1>4, <1>5, <1>8, <1>9, LoneKept DEF Sound
  <1>11. w = Dispatch(m) /\ ~Waits(w, w.cur)
    BY <1>3, <1>5, QueueNames DEF Dispatched, Waits
  <1>12. Went(m, w, z, s)
    <2>1. \A x \in Entries : w.state[x] = "BLOCKED" <=> m.state[x] = "BLOCKED"
      BY <1>5, <1>6 DEF Queued
    <2> QED BY <1>2, <1>4, <1>5, <2>1 DEF Went
  <1> QED BY <1>5, <1>10, <1>11, <1>12

LEMMA RescheduleSound ==
    ASSUME NEW m \in Memories, NEW s, NEW A \in SUBSET Entries, NEW W \in SUBSET Entries,
           \A x, y \in W : x = y, Sound(m, s, A, W)
    PROVE  \E w \in Memories, z \in Seq(Entries) : Taken(m, w, A) /\ Sound(w, z, A, W) /\ Chose(m, s, w, z)
  <1>1. PICK r \in Memories : Reaped(m, r) /\ Sound(r, s, A, W)
    BY ReapSound
  <1>2. s \in Seq(Entries) /\ Len(s) \in Nat /\ r.len[runQueue] = Len(s)
    BY <1>1 DEF Sound, Spells, Linked
  <1>3. Running(r) /\ r = Reap(m) /\ r.data = m.data /\ DriversKept(m, r)
        /\ (r.cur # NULL => r.cur = m.cur /\ r.state[r.cur] # "EXITED")
    BY <1>1 DEF Sound, Reaped
  <1>4. CASE Len(s) = 0
    <2>1. Reschedule(m) = r
      BY <1>2, <1>3, <1>4 DEF Reschedule, Length
    <2>2. ASSUME Chosen(r) = NULL, NEW t \in A \ r.freed PROVE Waits(r, t)
      <3>1. ~CurCanRun(r)
        BY <2>2 DEF Chosen, CurCanRun
      <3>2. ~Queued(r, t)
        <4>1. \A e \in Entries : r.queue[e] # runQueue
          <5>1. Linked(r, s, 0) /\ 1 .. 0 = {}
            BY <1>1, <1>2, <1>4 DEF Sound, Spells
          <5> QED BY <5>1 DEF Linked
        <4> QED BY <4>1 DEF Queued
      <3>3. ~Current(r, t)
        BY <1>3, <3>1, QueueNames DEF Current, CurCanRun, CanRun
      <3> QED BY <1>1, <2>2, <3>2, <3>3 DEF Sound, Accounted, Blocked
    <2>3. Chose(m, s, r, s)
      BY <1>3, <1>4 DEF Chose
    <2> QED BY <1>1, <1>2, <1>3, <2>1, <2>2, <2>3 DEF Taken
  <1>5. CASE Len(s) # 0
    <2>1. Reschedule(m) = Dispatch(Requeue(r))
      BY <1>2, <1>3, <1>5 DEF Reschedule, Length
    <2>2. \E w \in Memories, z \in Seq(Entries) :
             /\ w = Dispatch(Requeue(r)) /\ Sound(w, z, A, W)
             /\ DriversKept(r, w) /\ w.data = r.data
             /\ Went(r, w, z, IF CurCanRun(r) THEN Append(s, r.cur) ELSE s)
             /\ ~Waits(w, w.cur)
      <3>1. CASE CurCanRun(r)
        BY <1>1, <1>5, <3>1, RotateSound
      <3>2. CASE ~CurCanRun(r)
        <4>1. Requeue(r) = r
          BY <3>2 DEF Requeue
        <4> QED BY <1>1, <1>3, <1>5, <3>2, <4>1, ReplaceSound
      <3> QED BY <3>1, <3>2
    <2>3. PICK w \in Memories, z \in Seq(Entries) :
             /\ w = Dispatch(Requeue(r)) /\ Sound(w, z, A, W)
             /\ DriversKept(r, w) /\ w.data = r.data
             /\ Went(r, w, z, IF CurCanRun(r) THEN Append(s, r.cur) ELSE s)
             /\ ~Waits(w, w.cur)
      BY <2>2
    <2>4. DriversKept(m, w)
      BY <1>3, <2>3, KeptTwice
    <2>5. Chosen(w) # NULL
      BY <2>3, QueueNames DEF Chosen, CurCanRun, CanRun, Went
    <2>6. Chose(m, s, w, z)
      BY <1>3, <1>5, <2>3 DEF Chose
    <2> QED BY <1>3, <2>1, <2>3, <2>4, <2>5, <2>6 DEF Taken, Went
  <1> QED BY <1>4, <1>5

-----------------------------------------------------------------------------
(***************************************************************************)
(* The drivers' queues.                                                    *)
(***************************************************************************)
\* Queue q, and the links of what is in it, are the same.
QueueKept(m, w, q) ==
    /\ w.len[q] = m.len[q] /\ w.head[q] = m.head[q] /\ w.tail[q] = m.tail[q]
    /\ \A x \in Entries : m.queue[x] = q \/ w.queue[x] = q => w.queue[x] = m.queue[x] /\ w.nxt[x] = m.nxt[x]

LEMMA LoneStays ==
    ASSUME NEW m \in Memories, NEW w \in Memories, NEW q \in Drivers, QueueKept(m, w, q),
           NEW W \in SUBSET Entries, Lone(m, q, W)
    PROVE  Lone(w, q, W)
  <1>1. m.head[q] \in Entries \cup {NULL}
    BY DEF Lone
  <1>2. ASSUME m.len[q] = 1 PROVE w.queue[m.head[q]] = q /\ w.nxt[m.head[q]] = m.head[q]
    <2>1. m.head[q] \in Entries /\ m.queue[m.head[q]] = q /\ m.nxt[m.head[q]] = m.head[q]
      BY <1>1, <1>2 DEF Lone
    <2> QED BY <2>1 DEF QueueKept
  <1>3. \A e \in Entries : w.queue[e] = q => m.queue[e] = q
    BY DEF QueueKept
  <1> QED BY <1>2, <1>3 DEF Lone, QueueKept

PushedAlone(m, w, q, e) ==
    /\ w = Push(m, q, e) /\ Running(w) /\ Beside(m, w)
    /\ w.queue = [m.queue EXCEPT ![e] = q]
    /\ w.nxt[e] = e /\ \A x \in Entries \ {e} : w.nxt[x] = m.nxt[x]
    /\ w.head[q] = e /\ w.tail[q] = e /\ w.len[q] = m.len[q] + 1
    /\ \A p \in Queues \ {q} : w.len[p] = m.len[p] /\ w.head[p] = m.head[p] /\ w.tail[p] = m.tail[p]

LEMMA PushAlone ==
    ASSUME NEW m \in Memories, Running(m), NEW q \in Queues, NEW e \in Entries, m.queue[e] = NULL,
           m.head[q] # NULL => m.head[q] = e /\ m.tail[q] = e
    PROVE  \E w \in Memories : PushedAlone(m, w, q, e)
  <1>1. PICK w \in Memories : w = Push(m, q, e)
    BY PushFields
  <1>2. /\ Running(w) /\ Beside(m, w)
        /\ w.len = [m.len EXCEPT ![q] = @ + 1]
        /\ w.tail = [m.tail EXCEPT ![q] = e]
        /\ w.queue = [m.queue EXCEPT ![e] = q]
        /\ w.head = IF m.head[q] = NULL THEN [m.head EXCEPT ![q] = e] ELSE m.head
        /\ w.nxt = IF m.head[q] = NULL THEN [m.nxt EXCEPT ![e] = e]
                   ELSE [[m.nxt EXCEPT ![e] = NULL] EXCEPT ![m.tail[q]] = e]
    BY <1>1, PushFields
  <1>3. /\ m.nxt \in [Entries -> Pointers] /\ m.len \in [Queues -> Nat]
        /\ m.tail \in [Queues -> Pointers] /\ m.head \in [Queues -> Pointers]
    BY DEF Memories
  <1>4. w.nxt = [m.nxt EXCEPT ![e] = e] \/ w.nxt = [[m.nxt EXCEPT ![e] = NULL] EXCEPT ![e] = e]
    BY <1>2
  <1>5. w.nxt[e] = e /\ \A x \in Entries \ {e} : w.nxt[x] = m.nxt[x]
    BY <1>3, <1>4
  <1>6. /\ w.head[q] = e /\ w.tail[q] = e /\ w.len[q] = m.len[q] + 1
        /\ \A p \in Queues \ {q} : w.len[p] = m.len[p] /\ w.head[p] = m.head[p] /\ w.tail[p] = m.tail[p]
    BY <1>2, <1>3
  <1> QED BY <1>1, <1>2, <1>5, <1>6 DEF PushedAlone

PoppedAlone(m, w, q, e) ==
    /\ w = Pop(m, q) /\ Popped(m, q) = e /\ Running(w) /\ Beside(m, w)
    /\ w.queue = [m.queue EXCEPT ![e] = NULL]
    /\ w.nxt[e] = NULL /\ \A x \in Entries \ {e} : w.nxt[x] = m.nxt[x]
    /\ w.head[q] = m.nxt[e] /\ w.tail[q] = m.tail[q] /\ w.len[q] = m.len[q] - 1
    /\ \A p \in Queues \ {q} : w.len[p] = m.len[p] /\ w.head[p] = m.head[p] /\ w.tail[p] = m.tail[p]

LEMMA PopAlone ==
    ASSUME NEW m \in Memories, Running(m), NEW q \in Queues, NEW e \in Entries,
           m.head[q] = e, m.len[q] # 0
    PROVE  \E w \in Memories : PoppedAlone(m, w, q, e)
  <1>1. PICK w \in Memories : w = Pop(m, q)
    BY PopFields
  <1>2. m.head[q] # NULL
    BY QueueNames
  <1>3. /\ Running(w) /\ Beside(m, w)
        /\ w.len = [m.len EXCEPT ![q] = @ - 1]
        /\ w.tail = m.tail
        /\ w.head = [m.head EXCEPT ![q] = m.nxt[m.head[q]]]
        /\ w.queue = [m.queue EXCEPT ![m.head[q]] = NULL]
        /\ w.nxt = [m.nxt EXCEPT ![m.head[q]] = NULL]
    BY <1>1, <1>2, PopFields
  <1>4. /\ m.nxt \in [Entries -> Pointers] /\ m.len \in [Queues -> Nat]
        /\ m.tail \in [Queues -> Pointers] /\ m.head \in [Queues -> Pointers]
    BY DEF Memories
  <1>5. w.queue = [m.queue EXCEPT ![e] = NULL] /\ w.nxt = [m.nxt EXCEPT ![e] = NULL] /\ w.head = [m.head EXCEPT ![q] = m.nxt[e]]
    BY <1>3
  <1>6. w.nxt[e] = NULL /\ \A x \in Entries \ {e} : w.nxt[x] = m.nxt[x]
    BY <1>4, <1>5
  <1>7. /\ w.head[q] = m.nxt[e] /\ w.tail[q] = m.tail[q] /\ w.len[q] = m.len[q] - 1
        /\ \A p \in Queues \ {q} : w.len[p] = m.len[p] /\ w.head[p] = m.head[p] /\ w.tail[p] = m.tail[p]
    BY <1>3, <1>4, <1>5
  <1>8. Popped(m, q) = e
    BY DEF Popped
  <1> QED BY <1>1, <1>3, <1>5, <1>6, <1>7, <1>8 DEF PoppedAlone

\* What a wake-up on q does.
Woken(m, w, q) ==
    /\ w = Unblock(m, q) /\ w.cur = m.cur /\ w.freed = m.freed
    /\ w.len[q] = 0 /\ \A x \in Entries : w.queue[x] # q
    /\ \A p \in Drivers \ {q} : QueueKept(m, w, p)
    /\ \A x \in Entries : m.queue[x] # q => w.data[x] = m.data[x] /\ w.state[x] = m.state[x]
    /\ \A x \in Entries : w.state[x] = "EXITED" => m.state[x] = "EXITED"
    /\ m.len[q] = 0 => w = m

\* h goes on as if it had never waited, or joins the run queue.
Wakes(m, s, w, z, h) ==
    /\ m.state[h] = "BLOCKED" /\ w.cur = m.cur /\ w.freed = m.freed
    /\ \A x \in Entries \ {h} : w.state[x] = m.state[x]
    /\ IF h = m.cur THEN z = s /\ w.state[h] = "RUNNING" ELSE z = Append(s, h) /\ w.state[h] = "RUNABLE"

Woke(m, s, w, z, A) == (w = m /\ z = s) \/ \E h \in A \ m.freed : Wakes(m, s, w, z, h)

LEMMA UnblockIdle ==
    ASSUME NEW m \in Memories, NEW q, Length(m, q) = 0
    PROVE  Unblock(m, q) = m
  <1>1. PICK M : M = {m}
    OBVIOUS
  <1>2. PICK f \in [0 .. Length(m, q) -> M] : f[0] = m /\ Unblock(m, q) = f[Length(m, q)]
    <2>1. m \in M /\ Length(m, q) \in Nat
      BY <1>1
    <2>2. 1 .. Length(m, q) = {}
      OBVIOUS
    <2>3. \E f \in [0 .. Length(m, q) -> M] : Turns(f, m, q)
      BY <2>1, <2>2, UnblockTurns
    <2> QED BY <2>3 DEF Turns
  <1> QED BY <1>2

LEMMA UnblockSingle ==
    ASSUME NEW m \in Memories, NEW q \in Queues, Length(m, q) = 1
    PROVE  Unblock(m, q) = UnblockOne(m, q)
  <1>1. ASSUME NEW w \in Memories, NEW i \in 1 .. Length(m, q) PROVE Turn(w, q, i) \in Memories
    <2>1. i - 1 = 0 /\ w.len[q] \in Nat
      BY DEF Memories
    <2>2. CASE w.len[q] = 0
      BY <2>1, <2>2 DEF Turn, Length
    <2>3. CASE w.len[q] # 0
      <3>1. Turn(w, q, i) = UnblockOne(w, q)
        BY <2>1, <2>3 DEF Turn, Length
      <3> QED BY <2>3, <3>1, UnblockOneType
    <2> QED BY <2>2, <2>3
  <1>2. PICK M : M = Memories
    OBVIOUS
  <1>3. PICK f \in [0 .. 1 -> M] : f[0] = m /\ f[1] = Turn(f[1 - 1], q, 1) /\ Unblock(m, q) = f[1]
    <2>1. Length(m, q) \in Nat /\ 1 \in 1 .. 1
      OBVIOUS
    <2>2. m \in M /\ \A w \in M, i \in 1 .. Length(m, q) : Turn(w, q, i) \in M
      BY <1>1, <1>2
    <2>3. \E f \in [0 .. Length(m, q) -> M] : Turns(f, m, q)
      BY <2>1, <2>2, UnblockTurns
    <2> QED BY <2>1, <2>3 DEF Turns
  <1>4. Turn(m, q, 1) = UnblockOne(m, q)
    BY DEF Turn
  <1> QED BY <1>3, <1>4

LEMMA WakeSound ==
    ASSUME NEW m \in Memories, NEW s, NEW A \in SUBSET Entries, NEW W \in SUBSET Entries,
           Sound(m, s, A, W), NEW q \in Drivers
    PROVE  \E w \in Memories, z \in Seq(Entries) : Woken(m, w, q) /\ Sound(w, z, A, W) /\ Woke(m, s, w, z, A)
  <1>1. q \in Queues /\ q # runQueue /\ Lone(m, q, W) /\ s \in Seq(Entries) /\ Running(m)
    BY QueueNames DEF Sound, Spells
  <1>2. CASE m.len[q] = 0
    <2>1. Unblock(m, q) = m
      BY <1>2, UnblockIdle DEF Length
    <2>2. \A x \in Entries : m.queue[x] # q
      BY <1>1, <1>2 DEF Lone
    <2>3. Woken(m, m, q)
      BY <1>2, <2>1, <2>2 DEF Woken, QueueKept
    <2> QED BY <1>1, <2>3 DEF Woke
  <1>3. CASE m.len[q] = 1
    <2>1. PICK h \in Entries : h = m.head[q] /\ h \in W /\ m.queue[h] = q /\ m.nxt[h] = h /\ m.tail[q] = h
      BY <1>1, <1>3, QueueNames DEF Lone
    <2>2. h \in A /\ h \notin m.freed /\ Blocked(m, h, W)
      <3>1. h \in A /\ h \notin m.freed
        BY <1>1, <2>1, QueueNames DEF Sound, Accounted
      <3>2. ~Current(m, h) /\ ~Queued(m, h)
        BY <1>1, <2>1, QueueNames DEF Current, Queued
      <3> QED BY <3>1, <3>2 DEF Sound, Accounted
    <2>3. PICK p \in Memories : PoppedAlone(m, p, q, h)
      BY <1>1, <1>3, <2>1, PopAlone
    <2>4. PICK c \in Memories : DataSet(p, c, h, NoData)
      BY NoDataType, SetData
    <2>5. Unblock(m, q) = UnblockOne(m, q)
      BY <1>1, <1>3, UnblockSingle DEF Length
    <2>6. \A x \in Entries : m.queue[x] = q => x = h
      BY <1>1, <2>1 DEF Lone
    <2>7. /\ Running(c) /\ c.cur = m.cur /\ c.freed = m.freed /\ c.state = m.state
          /\ c.queue[h] = NULL /\ \A x \in Entries \ {h} : c.queue[x] = m.queue[x] /\ c.nxt[x] = m.nxt[x] /\ c.data[x] = m.data[x]
          /\ c.head[q] = h /\ c.tail[q] = h /\ c.len[q] = 0
          /\ \A r \in Queues \ {q} : c.len[r] = m.len[r] /\ c.head[r] = m.head[r] /\ c.tail[r] = m.tail[r]
      <3>1. /\ p.queue[h] = NULL /\ \A x \in Entries \ {h} : p.queue[x] = m.queue[x]
            /\ p.head[q] = h /\ p.tail[q] = h /\ p.len[q] = 0
        BY <1>3, <2>1, <2>3 DEF PoppedAlone, Memories
      <3>2. /\ c.data = [p.data EXCEPT ![h] = NoData] /\ p.data = m.data /\ p.state = m.state
            /\ p.data \in [Entries -> Data]
        BY <2>3, <2>4 DEF PoppedAlone, Beside, DataSet, Memories
      <3>3. \A x \in Entries \ {h} : c.data[x] = m.data[x]
        BY <3>2
      <3>4. /\ Running(p) /\ p.cur = m.cur /\ p.freed = m.freed /\ p.state = m.state
            /\ \A x \in Entries \ {h} : p.nxt[x] = m.nxt[x]
            /\ \A r \in Queues \ {q} : p.len[r] = m.len[r] /\ p.head[r] = m.head[r] /\ p.tail[r] = m.tail[r]
        BY <2>3 DEF PoppedAlone, Beside
      <3>5. /\ c.nxt = p.nxt /\ c.queue = p.queue /\ c.head = p.head /\ c.tail = p.tail /\ c.len = p.len
            /\ c.fault = p.fault /\ c.cur = p.cur /\ c.freed = p.freed /\ c.state = p.state
        BY <2>4 DEF DataSet, Links
      <3> QED BY <3>1, <3>3, <3>4, <3>5 DEF Running
    <2>8. RunKept(m, c) /\ \A r \in Drivers \ {q} : QueueKept(m, c, r)
      <3>1. \A r \in Queues \ {q} : \A x \in Entries : m.queue[x] = r \/ c.queue[x] = r => x # h
        BY <2>1, <2>7, NULLAssumption
      <3> QED BY <1>1, <2>7, <3>1, QueueNames DEF RunKept, QueueKept
    <2>9. \A x \in Entries : c.queue[x] # q
      BY <1>1, <2>6, <2>7, QueueNames
    <2>10. CASE h = m.cur
      <3>1. PICK w \in Memories : StateSet(c, w, h, "RUNNING")
        <4>1. "RUNNING" \in ProcState
          BY DEF ProcState
        <4> QED BY <4>1, SetState
      <3>2. UnblockOne(m, q) = w
        BY <2>3, <2>4, <2>10, <3>1 DEF UnblockOne, PoppedAlone, DataSet, StateSet
      <3>3. /\ Links(c, w) /\ w.queue = c.queue /\ w.nxt = c.nxt /\ w.head = c.head /\ w.tail = c.tail /\ w.len = c.len
            /\ w.cur = m.cur /\ w.freed = m.freed /\ w.data = c.data
            /\ w.state[h] = "RUNNING" /\ \A x \in Entries \ {h} : w.state[x] = m.state[x]
        BY <2>7, <3>1 DEF StateSet, Links, Memories
      <3>4. RunKept(m, w) /\ Running(w) /\ \A r \in Drivers \ {q} : QueueKept(m, w, r)
        BY <2>7, <2>8, <3>3 DEF RunKept, QueueKept, Links, Running
      <3>5. Lone(w, q, W)
        BY <2>1, <2>7, <2>9, <3>3 DEF Lone
      <3>6. Woken(m, w, q)
        <4>1. \A x \in Entries : m.queue[x] # q => w.data[x] = m.data[x] /\ w.state[x] = m.state[x]
          BY <2>1, <2>7, <3>3
        <4>2. \A x \in Entries : w.state[x] = "EXITED" => m.state[x] = "EXITED"
          BY <3>3
        <4>3. w = Unblock(m, q) /\ w.len[q] = 0 /\ \A x \in Entries : w.queue[x] # q
          BY <2>5, <2>7, <2>9, <3>2, <3>3
        <4> QED BY <1>3, <3>3, <3>4, <4>1, <4>2, <4>3 DEF Woken
      <3>7. Accounted(w, A, W)
        <4>1. ASSUME NEW t \in A \ w.freed PROVE Current(w, t) \/ Queued(w, t) \/ Blocked(w, t, W)
          <5>1. CASE t = h
            BY <2>7, <2>10, <3>3, <5>1 DEF Current
          <5>2. CASE t # h
            <6>1. Queued(m, t) \/ Blocked(m, t, W)
              BY <2>10, <3>3, <4>1, <5>2 DEF Sound, Accounted, Current
            <6> QED BY <2>7, <3>3, <5>2, <6>1 DEF Queued, Blocked, Waits
          <5> QED BY <5>1, <5>2
        <4>2. \A t \in Entries : m.queue[t] = NULL => w.queue[t] = NULL
          BY <2>7, <3>3
        <4>3. \A t \in w.freed : t \in Entries \ {h} /\ w.state[t] = m.state[t]
          BY <2>2, <3>3 DEF Sound, Accounted
        <4> QED BY <3>3, <4>1, <4>2, <4>3 DEF Sound, Accounted
      <3>8. Spells(w, s) /\ \A r \in Drivers : Lone(w, r, W)
        BY <3>4, <3>5, SpellsKept, LoneStays DEF Sound
      <3>9. Stale(w, s, A, W)
        <4>1. w.head[runQueue] = m.head[runQueue] /\ w.freed = m.freed
          BY <3>3, <3>4 DEF RunKept
        <4>2. Len(s) = 1 => w.nxt[s[1]] = m.nxt[s[1]]
          <5>1. Len(s) = 1 => m.queue[s[1]] = runQueue /\ s[1] \in Entries
            BY <1>1, ElementOfSeq DEF Sound, Spells, Linked
          <5> QED BY <3>4, <5>1 DEF RunKept
        <4> QED BY <4>1, <4>2 DEF Sound, Stale
      <3>10. Woke(m, s, w, s, A)
        <4>1. Wakes(m, s, w, s, h)
          BY <2>2, <2>10, <3>3 DEF Wakes, Blocked
        <4> QED BY <2>2, <4>1 DEF Woke
      <3> QED BY <1>1, <3>4, <3>6, <3>7, <3>8, <3>9, <3>10 DEF Sound
    <2>11. CASE h # m.cur
      <3>1. PICK u \in Memories : StateSet(c, u, h, "RUNABLE")
        <4>1. "RUNABLE" \in ProcState
          BY DEF ProcState
        <4> QED BY <4>1, SetState
      <3>2. UnblockOne(m, q) = Push(u, runQueue, h)
        BY <2>3, <2>4, <2>11, <3>1 DEF UnblockOne, PoppedAlone, DataSet, StateSet
      <3>3. /\ Links(c, u) /\ u.queue = c.queue /\ u.nxt = c.nxt /\ u.head = c.head /\ u.tail = c.tail /\ u.len = c.len
            /\ u.cur = m.cur /\ u.freed = m.freed /\ u.data = c.data
            /\ u.state[h] = "RUNABLE" /\ \A x \in Entries \ {h} : u.state[x] = m.state[x]
        BY <2>7, <3>1 DEF StateSet, Links, Memories
      <3>4. RunKept(m, u) /\ Running(u) /\ \A r \in Drivers \ {q} : QueueKept(m, u, r)
        BY <2>7, <2>8, <3>3 DEF RunKept, QueueKept, Links, Running
      <3>5. Lone(u, q, W)
        BY <2>1, <2>7, <2>9, <3>3 DEF Lone
      <3>6. Spells(u, s) /\ \A r \in Drivers : Lone(u, r, W)
        BY <3>4, <3>5, SpellsKept, LoneStays DEF Sound
      <3>7. PICK w \in Memories : Pushed(u, w, s, h)
        <4>1. Len(s) = 0 => u.head[runQueue] \in {NULL, h}
          BY <2>2, <3>4 DEF Sound, Stale, RunKept
        <4>2. u.queue[h] = NULL
          BY <2>7, <3>3
        <4> QED BY <3>4, <3>6, <4>1, <4>2, PushRun
      <3>8. /\ Running(w) /\ w.cur = m.cur /\ w.freed = m.freed /\ w.data = c.data /\ w.state = u.state
            /\ w.queue[h] = runQueue /\ \A x \in Entries \ {h} : w.queue[x] = m.queue[x]
            /\ DriversKept(u, w) /\ w.len[q] = 0
        BY <1>1, <2>7, <3>3, <3>7 DEF Pushed, Beside, DriversKept, Memories
      <3>9. \A r \in Drivers \ {q} : QueueKept(m, w, r)
        <4>1. ASSUME NEW r \in Drivers \ {q}, NEW x \in Entries, m.queue[x] = r \/ w.queue[x] = r
              PROVE  w.queue[x] = m.queue[x] /\ w.nxt[x] = m.nxt[x]
          <5>1. x # h
            BY <2>1, <3>8, <4>1, QueueNames
          <5>2. Waits(u, x)
            BY <2>7, <3>3, <3>8, <4>1, <5>1 DEF Waits
          <5> QED BY <2>7, <3>3, <3>8, <5>1, <5>2 DEF DriversKept
        <4> QED BY <3>4, <3>8, <4>1 DEF QueueKept, DriversKept
      <3>10. Woken(m, w, q)
        <4>1. \A x \in Entries : w.queue[x] # q
          BY <1>1, <2>6, <3>8
        <4>2. \A x \in Entries : w.state[x] = "EXITED" => m.state[x] = "EXITED"
          BY <3>3, <3>8
        <4>3. \A x \in Entries : m.queue[x] # q => w.data[x] = m.data[x] /\ w.state[x] = m.state[x]
          BY <2>1, <2>7, <3>3, <3>8
        <4> QED BY <1>3, <2>5, <3>2, <3>7, <3>8, <3>9, <4>1, <4>2, <4>3 DEF Woken, Pushed
      <3>11. Accounted(w, A, W)
        <4>1. ASSUME NEW t \in A \ w.freed PROVE Current(w, t) \/ Queued(w, t) \/ Blocked(w, t, W)
          <5>1. CASE t = h
            BY <2>11, <3>3, <3>8, <5>1 DEF Queued
          <5>2. CASE t # h
            <6>1. Current(m, t) \/ Queued(m, t) \/ Blocked(m, t, W)
              BY <3>8, <4>1 DEF Sound, Accounted
            <6>2. t \in Entries
              BY <4>1
            <6> QED BY <3>3, <3>8, <5>2, <6>1, <6>2 DEF Current, Queued, Blocked, Waits
          <5> QED BY <5>1, <5>2
        <4>2. \A t \in Entries : m.queue[t] = NULL => w.queue[t] = NULL
          BY <2>1, <3>8, QueueNames
        <4>3. \A t \in w.freed : t \in Entries \ {h} /\ w.state[t] = m.state[t]
          BY <2>2, <3>3, <3>8 DEF Sound, Accounted
        <4> QED BY <3>8, <4>1, <4>2, <4>3 DEF Sound, Accounted
      <3>12. PICK z \in Seq(Entries) : z = Append(s, h) /\ Len(z) # 0 /\ (Len(z) = 1 => z[1] \in W)
        <4>1. /\ Append(s, h) \in Seq(Entries) /\ Len(Append(s, h)) = Len(s) + 1
              /\ Append(s, h)[Len(s) + 1] = h /\ Len(s) \in Nat
          BY <1>1, AppendProperties, LenProperties
        <4>2. Len(s) + 1 # 0 /\ (Len(s) + 1 = 1 => Append(s, h)[1] = h)
          BY <4>1
        <4> QED BY <2>1, <4>1, <4>2
      <3>13. Stale(w, z, A, W)
        BY <3>12 DEF Stale
      <3>14. Spells(w, z) /\ \A r \in Drivers : Lone(w, r, W)
        BY <3>6, <3>7, <3>8, <3>12, LoneKept DEF Pushed
      <3>15. Woke(m, s, w, z, A)
        <4>1. Wakes(m, s, w, z, h)
          BY <2>2, <2>11, <3>3, <3>8, <3>12 DEF Wakes, Blocked
        <4> QED BY <2>2, <4>1 DEF Woke
      <3> QED BY <3>8, <3>10, <3>11, <3>13, <3>14, <3>15 DEF Sound
    <2> QED BY <2>10, <2>11
  <1> QED BY <1>1, <1>2, <1>3 DEF Lone

\* The waiter is running, so every driver's queue is empty.
LEMMA NobodyWaits ==
    ASSUME NEW m \in Memories, NEW s, NEW A \in SUBSET Entries, NEW W \in SUBSET Entries,
           \A x, y \in W : x = y, Sound(m, s, A, W), NEW c \in W, ~Waits(m, c), NEW q \in Drivers
    PROVE  m.len[q] = 0 /\ (m.head[q] # NULL => m.head[q] = c /\ m.tail[q] = c) /\ \A x \in Entries : m.queue[x] # q
  <1>1. Lone(m, q, W)
    BY DEF Sound
  <1>2. m.len[q] # 1
    BY <1>1 DEF Lone, Waits
  <1> QED BY <1>1, <1>2 DEF Lone

\* curProc, the waiter c, joins the queue q of a driver.
BlockedOn(m, w, c, q) ==
    /\ Running(w) /\ w.cur = m.cur /\ w.freed = m.freed
    /\ w.state = [m.state EXCEPT ![c] = "BLOCKED"]
    /\ w.queue = [m.queue EXCEPT ![c] = q]
    /\ w.nxt[c] = c /\ \A x \in Entries \ {c} : w.nxt[x] = m.nxt[x]
    /\ w.head[q] = c /\ w.tail[q] = c /\ w.len[q] = 1
    /\ w.len[runQueue] = m.len[runQueue] /\ w.head[runQueue] = m.head[runQueue]
    /\ w.tail[runQueue] = m.tail[runQueue]
    /\ \A p \in Drivers \ {q} : /\ w.len[p] = 0
                                /\ w.head[p] # NULL => w.head[p] = c /\ w.tail[p] = c

LEMMA WaitSound ==
    ASSUME NEW m \in Memories, NEW s, NEW A \in SUBSET Entries, NEW W \in SUBSET Entries,
           \A x, y \in W : x = y, Sound(m, s, A, W), NEW c \in W, m.cur = c, ~Waits(m, c),
           NEW q \in Drivers, NEW w \in Memories, BlockedOn(m, w, c, q)
    PROVE  Sound(w, s, A, W)
  <1>1. /\ w.state[c] = "BLOCKED" /\ \A x \in Entries \ {c} : w.state[x] = m.state[x]
        /\ w.queue[c] = q /\ \A x \in Entries \ {c} : w.queue[x] = m.queue[x]
    BY DEF BlockedOn, Memories
  <1>2. c \in A /\ c \notin m.freed /\ m.queue[c] = NULL
    BY QueueNames DEF Sound, Accounted, Current, Queued, Blocked
  <1>3. RunKept(m, w)
    BY <1>1, <1>2, QueueNames DEF RunKept, BlockedOn
  <1>4. \A x \in Entries \ {c}, p \in Drivers : w.queue[x] # p
    BY <1>1, NobodyWaits
  <1>5. ASSUME NEW p \in Drivers PROVE Lone(w, p, W)
    <2>1. CASE p = q
      BY <1>1, <1>4, <2>1, QueueNames DEF Lone, BlockedOn
    <2>2. CASE p # q
      <3>1. w.len[p] = 0 /\ w.head[p] \in {NULL, c} /\ (w.head[p] # NULL => w.tail[p] = w.head[p])
        BY <2>2 DEF BlockedOn
      <3>2. \A e \in Entries : w.queue[e] # p
        BY <1>1, <1>4, <2>2
      <3> QED BY <3>1, <3>2 DEF Lone
    <2> QED BY <2>1, <2>2
  <1>6. Accounted(w, A, W)
    <2>1. ASSUME NEW t \in A \ w.freed PROVE Current(w, t) \/ Queued(w, t) \/ Blocked(w, t, W)
      <3>1. CASE t = c
        BY <1>1, <3>1 DEF Blocked, Waits
      <3>2. CASE t # c
        <4>1. Queued(m, t)
          <5>1. ~Blocked(m, t, W) /\ ~Current(m, t)
            BY <3>2 DEF Blocked, Current
          <5> QED BY <2>1, <5>1 DEF Sound, Accounted, BlockedOn
        <4> QED BY <1>1, <3>2, <4>1 DEF Queued, BlockedOn
      <3> QED BY <3>1, <3>2
    <2>2. \A t \in Entries : t # c /\ m.queue[t] = NULL => w.queue[t] = NULL
      BY <1>1
    <2>3. \A t \in m.freed : t \in Entries \ {c} /\ w.state[t] = "EXITED"
      BY <1>1, <1>2 DEF Sound, Accounted
    <2> QED BY <1>2, <2>1, <2>2, <2>3 DEF Sound, Accounted, BlockedOn
  <1>7. Spells(w, s)
    BY <1>3, SpellsKept DEF Sound
  <1>8. Stale(w, s, A, W)
    <2>1. Len(s) = 1 => w.nxt[s[1]] = m.nxt[s[1]]
      <3>2. s \in Seq(Entries) /\ Linked(m, s, Len(s))
        BY DEF Sound, Spells
      <3>1. ASSUME Len(s) = 1 PROVE m.queue[s[1]] = runQueue /\ s[1] \in Entries
        <4>1. 1 \in 1 .. Len(s)
          BY <3>1
        <4> QED BY <3>2, <4>1, ElementOfSeq DEF Linked
      <3> QED BY <1>3, <3>1 DEF RunKept
    <2> QED BY <2>1 DEF Sound, Stale, BlockedOn
  <1> QED BY <1>5, <1>6, <1>7, <1>8 DEF Sound, BlockedOn

LEMMA BlockSound ==
    ASSUME NEW m \in Memories, NEW s, NEW A \in SUBSET Entries, NEW W \in SUBSET Entries,
           \A x, y \in W : x = y, Sound(m, s, A, W), NEW c \in W, m.cur = c, ~Waits(m, c),
           NEW q \in Drivers, NEW blk \in Blocks, NEW to \in Pointers
    PROVE  \E w \in Memories : /\ w = BlockCurProc(m, q, blk, to) /\ BlockedOn(m, w, c, q)
                               /\ w.data = [m.data EXCEPT ![c] = [blk |-> blk, dst |-> to]]
  <1>1. PICK d \in Data : d = [blk |-> blk, dst |-> to]
    BY DEF Data
  <1>2. PICK a \in Memories : BlockedSet(m, a, c, d)
    BY SetBlocked
  <1>3. m.queue[c] = NULL /\ Running(m) /\ q \in Queues /\ q # runQueue
    BY QueueNames DEF Sound, Accounted, Current, Queued, Blocked
  <1>4. Running(a) /\ a.queue[c] = NULL /\ a.head = m.head /\ a.tail = m.tail
    BY <1>2, <1>3 DEF BlockedSet, Links, Running
  <1>5. PICK w \in Memories : PushedAlone(a, w, q, c)
    <2>1. a.head[q] # NULL => a.head[q] = c /\ a.tail[q] = c
      BY <1>4, NobodyWaits
    <2> QED BY <1>3, <1>4, <2>1, PushAlone
  <1>6. w = BlockCurProc(m, q, blk, to)
    BY <1>1, <1>2, <1>5 DEF BlockCurProc, BlockedSet, PushedAlone
  <1>7. w.data = [m.data EXCEPT ![c] = [blk |-> blk, dst |-> to]]
    BY <1>1, <1>2, <1>5 DEF BlockedSet, PushedAlone, Beside
  <1>8. /\ Running(w) /\ w.cur = m.cur /\ w.freed = m.freed
        /\ w.state = [m.state EXCEPT ![c] = "BLOCKED"]
        /\ w.queue = [m.queue EXCEPT ![c] = q]
        /\ w.nxt[c] = c /\ \A x \in Entries \ {c} : w.nxt[x] = m.nxt[x]
        /\ w.head[q] = c /\ w.tail[q] = c /\ w.len[q] = m.len[q] + 1
        /\ \A p \in Queues \ {q} : w.len[p] = m.len[p] /\ w.head[p] = m.head[p] /\ w.tail[p] = m.tail[p]
    BY <1>2, <1>5 DEF BlockedSet, PushedAlone, Beside, Links
  <1>9. w.len[q] = 1 /\ \A p \in Drivers \ {q} : w.len[p] = 0 /\ (w.head[p] # NULL => w.head[p] = c /\ w.tail[p] = c)
    BY <1>8, NobodyWaits, QueueNames
  <1>10. BlockedOn(m, w, c, q)
    BY <1>3, <1>8, <1>9, QueueNames DEF BlockedOn
  <1> QED BY <1>6, <1>7, <1>10

\* ReadBlock's request goes through the waiting queue to the idle disk.
LEMMA StartNextSound ==
    ASSUME NEW m \in Memories, NEW b \in Memories, NEW c \in Entries,
           m.queue[c] = NULL, BlockedOn(m, b, c, blockedQueue)
    PROVE  \E w \in Memories : w = StartNext(b) /\ BlockedOn(m, w, c, inProgress) /\ w.data = b.data
  <1>1. /\ blockedQueue \in Queues /\ inProgress \in Queues /\ blockedQueue # inProgress
        /\ b.head[blockedQueue] = c /\ b.len[blockedQueue] # 0 /\ Running(b)
    BY QueueNames DEF BlockedOn
  <1>2. PICK p \in Memories : PoppedAlone(b, p, blockedQueue, c)
    BY <1>1, PopAlone
  <1>3. p.head[inProgress] # NULL => p.head[inProgress] = c /\ p.tail[inProgress] = c
    BY <1>1, <1>2, QueueNames DEF PoppedAlone, BlockedOn
  <1>4. p.queue[c] = NULL /\ Running(p)
    BY <1>2 DEF PoppedAlone, Memories
  <1>5. PICK w \in Memories : PushedAlone(p, w, inProgress, c)
    BY <1>1, <1>3, <1>4, PushAlone
  <1>6. w = StartNext(b)
    BY <1>2, <1>5 DEF StartNext, PoppedAlone, PushedAlone
  <1>7. /\ w.cur = m.cur /\ w.freed = m.freed /\ w.data = b.data /\ Running(w)
        /\ w.state = [m.state EXCEPT ![c] = "BLOCKED"]
    BY <1>2, <1>5 DEF PoppedAlone, PushedAlone, Beside, BlockedOn
  <1>8. w.queue = [m.queue EXCEPT ![c] = inProgress]
    <2>1. w.queue = [[[m.queue EXCEPT ![c] = blockedQueue] EXCEPT ![c] = NULL] EXCEPT ![c] = inProgress]
      BY <1>2, <1>5 DEF PoppedAlone, PushedAlone, BlockedOn
    <2> QED BY <2>1 DEF Memories
  <1>9. w.nxt[c] = c /\ \A x \in Entries \ {c} : w.nxt[x] = m.nxt[x]
    BY <1>2, <1>5 DEF PoppedAlone, PushedAlone, BlockedOn
  <1>10. /\ w.head[inProgress] = c /\ w.tail[inProgress] = c /\ w.len[inProgress] = 1
         /\ w.len[runQueue] = m.len[runQueue] /\ w.head[runQueue] = m.head[runQueue]
         /\ w.tail[runQueue] = m.tail[runQueue]
    BY <1>2, <1>5, QueueNames DEF PoppedAlone, PushedAlone, BlockedOn
  <1>11. w.len[blockedQueue] = 0 /\ w.head[blockedQueue] = c /\ w.tail[blockedQueue] = c
    BY <1>1, <1>2, <1>5, QueueNames DEF PoppedAlone, PushedAlone, BlockedOn
  <1>12. w.len[kbdQueue] = 0 /\ (w.head[kbdQueue] # NULL => w.head[kbdQueue] = c /\ w.tail[kbdQueue] = c)
    BY <1>2, <1>5, QueueNames DEF PoppedAlone, PushedAlone, BlockedOn
  <1>13. BlockedOn(m, w, c, inProgress)
    BY <1>7, <1>8, <1>9, <1>10, <1>11, <1>12 DEF BlockedOn, Drivers
  <1> QED BY <1>6, <1>7, <1>13

-----------------------------------------------------------------------------
(***************************************************************************)
(* Birth and exit.                                                         *)
(***************************************************************************)
Born(m, s, w, z, t, A, W) ==
    /\ w = Add(m, t, NULL) /\ Sound(w, z, A \cup {t}, W)
    /\ DriversKept(m, w) /\ w.data = m.data /\ w.cur = NULL /\ w.freed = {}
    /\ w.queue = [m.queue EXCEPT ![t] = runQueue] /\ w.len[runQueue] # 0
    /\ z = Append(s, t) /\ w.state[t] = "RUNABLE" /\ \A x \in Entries \ {t} : w.state[x] = m.state[x]

LEMMA AddSound ==
    ASSUME NEW m \in Memories, NEW s, NEW A \in SUBSET Entries, NEW W \in SUBSET Entries, Sound(m, s, A, W),
           NEW t \in Entries \ A, NULL \in Residues, m.cur = NULL, m.freed = {},
           \A x \in A : m.queue[x] = runQueue, m.len[runQueue] = 0 => m.head[runQueue] = NULL
    PROVE  \E w \in Memories, z \in Seq(Entries) : Born(m, s, w, z, t, A, W)
  <1>1. PICK a \in Memories : AddedSet(m, a, t, NULL)
    BY SetAdded
  <1>2. m.queue[t] = NULL
    BY DEF Sound, Accounted
  <1>3. /\ a.queue = m.queue
        /\ a.nxt[t] = t /\ \A x \in Entries \ {t} : a.nxt[x] = m.nxt[x] /\ a.state[x] = m.state[x]
        /\ a.state[t] = "RUNABLE"
        /\ a.cur = NULL /\ a.freed = {} /\ a.data = m.data /\ a.head = m.head /\ a.tail = m.tail /\ a.len = m.len
        /\ Running(a)
    BY <1>1, <1>2 DEF AddedSet, Memories, Sound, Running
  <1>4. DriversKept(m, a) /\ RunKept(m, a)
    BY <1>2, <1>3, QueueNames DEF DriversKept, RunKept, Waits
  <1>5. Spells(a, s)
    BY <1>4, SpellsKept DEF Sound
  <1>6. s \in Seq(Entries) /\ m.len[runQueue] = Len(s)
    BY DEF Sound, Spells, Linked
  <1>7. PICK w \in Memories : Pushed(a, w, s, t)
    BY <1>2, <1>3, <1>5, <1>6, PushRun
  <1>8. w = Add(m, t, NULL)
    BY <1>1, <1>7 DEF Add, AddedSet, Pushed
  <1>9. DriversKept(m, w)
    BY <1>4, <1>7, KeptTwice DEF Pushed
  <1>10. /\ w.queue = [m.queue EXCEPT ![t] = runQueue] /\ w.state = a.state /\ w.cur = NULL /\ w.freed = {}
         /\ w.data = m.data /\ Running(w)
    BY <1>3, <1>7 DEF Pushed, Beside
  <1>11. w.queue[t] = runQueue /\ \A x \in Entries \ {t} : w.queue[x] = m.queue[x]
    BY <1>10 DEF Memories
  <1>12. PICK z \in Seq(Entries) : /\ z = Append(s, t) /\ Len(z) = Len(s) + 1 /\ Len(z) # 0
                                   /\ Len(s) \in Nat /\ (Len(z) = 1 => z[1] = t)
    <2>1. /\ Append(s, t) \in Seq(Entries) /\ Len(Append(s, t)) = Len(s) + 1
          /\ Append(s, t)[Len(s) + 1] = t /\ Len(s) \in Nat
      BY <1>6, AppendProperties, LenProperties
    <2>2. Len(s) + 1 # 0 /\ (Len(s) + 1 = 1 => Append(s, t)[1] = t)
      BY <2>1
    <2> QED BY <2>1, <2>2
  <1>13. Accounted(w, A \cup {t}, W)
    <2>1. ASSUME NEW x \in (A \cup {t}) PROVE Queued(w, x)
      <3>1. CASE x = t
        BY <1>3, <1>10, <1>11, <3>1, QueueNames DEF Queued
      <3>2. CASE x # t
        <4>1. x \in A \ m.freed
          BY <2>1, <3>2
        <4>2. Queued(m, x)
          BY <4>1, QueueNames DEF Sound, Accounted, Current, Blocked, Waits
        <4> QED BY <1>3, <1>10, <1>11, <3>2, <4>1, <4>2 DEF Queued
      <3> QED BY <3>1, <3>2
    <2>2. \A x \in Entries \ (A \cup {t}) : w.queue[x] = NULL
      BY <1>11 DEF Sound, Accounted
    <2> QED BY <1>10, <2>1, <2>2 DEF Accounted
  <1>14. Stale(w, z, A \cup {t}, W)
    <2>1. ASSUME Len(z) = 1 PROVE A \cup {t} \subseteq {t}
      <3>1. Len(s) = 0
        BY <1>12, <2>1
      <3>2. \A e \in Entries : m.queue[e] # runQueue
        <4>1. Linked(m, s, 0) /\ 1 .. 0 = {}
          BY <3>1 DEF Sound, Spells
        <4> QED BY <4>1 DEF Linked
      <3> QED BY <3>2
    <2> QED BY <1>12, <2>1 DEF Stale
  <1>15. Spells(w, z) /\ w.len[runQueue] # 0
    BY <1>7, <1>12 DEF Pushed, Spells, Linked
  <1>16. Sound(w, z, A \cup {t}, W)
    BY <1>9, <1>10, <1>13, <1>14, <1>15, LoneKept DEF Sound
  <1>17. w.state[t] = "RUNABLE" /\ \A x \in Entries \ {t} : w.state[x] = m.state[x]
    BY <1>3, <1>10
  <1> QED BY <1>8, <1>9, <1>10, <1>12, <1>15, <1>16, <1>17 DEF Born

LEMMA ExitSound ==
    ASSUME NEW m \in Memories, NEW s, NEW A \in SUBSET Entries, NEW W \in SUBSET Entries, Sound(m, s, A, W),
           NEW c \in Entries, m.cur = c, ~Waits(m, c)
    PROVE  \E w \in Memories :
              /\ w = [m EXCEPT !.state[m.cur] = "EXITED"] /\ Sound(w, s, A, W) /\ DriversKept(m, w)
              /\ w.data = m.data /\ w.cur = c /\ w.queue = m.queue
  <1>1. PICK w \in Memories : StateSet(m, w, c, "EXITED")
    <2>1. "EXITED" \in ProcState
      BY DEF ProcState
    <2> QED BY <2>1, SetState
  <1>2. /\ Links(m, w) /\ w.data = m.data /\ w.cur = c /\ w.freed = m.freed /\ w.queue = m.queue
        /\ w.head = m.head /\ w.nxt = m.nxt
        /\ w.state[c] = "EXITED" /\ \A x \in Entries \ {c} : w.state[x] = m.state[x]
    BY <1>1 DEF StateSet, Links, Memories
  <1>3. DriversKept(m, w) /\ RunKept(m, w) /\ Running(w)
    BY <1>2, LinksKept DEF Sound
  <1>4. m.queue[c] = NULL /\ c \in A \ m.freed
    BY QueueNames DEF Sound, Accounted, Current, Queued, Blocked
  <1>5. Accounted(w, A, W)
    <2>1. ASSUME NEW t \in A \ w.freed PROVE Current(w, t) \/ Queued(w, t) \/ Blocked(w, t, W)
      <3>1. CASE t = c
        BY <1>2, <1>4, <3>1 DEF Current
      <3>2. CASE t # c
        <4>1. t \in A \ m.freed /\ t \in Entries
          BY <1>2, <2>1
        <4> QED BY <1>2, <3>2, <4>1 DEF Sound, Accounted, Current, Queued, Blocked, Waits
      <3> QED BY <3>1, <3>2
    <2>2. \A t \in m.freed : w.state[t] = "EXITED"
      BY <1>2, <1>4 DEF Sound, Accounted
    <2> QED BY <1>2, <2>1, <2>2 DEF Sound, Accounted
  <1>6. Spells(w, s) /\ Stale(w, s, A, W) /\ \A q \in Drivers : Lone(w, q, W)
    BY <1>2, <1>3, LoneKept, SpellsKept DEF Sound, Stale
  <1>7. w = [m EXCEPT !.state[m.cur] = "EXITED"]
    BY <1>1 DEF StateSet
  <1> QED BY <1>2, <1>3, <1>5, <1>6, <1>7 DEF Sound


-----------------------------------------------------------------------------
(***************************************************************************)
(* The steps of the kernel.                                                *)
(***************************************************************************)
LEMMA BootFacts ==
    ASSUME OneWaiter, TypeInv
    PROVE  /\ Threads \subseteq Entries /\ Added \in SUBSET Entries /\ Waiters \in SUBSET Entries
           /\ \A x, y \in Waiters : x = y
           /\ NULL \notin Added /\ Parent \notin Added /\ sched \in Memories
  <1>1. load \in Workloads /\ Threads \subseteq Entries
    BY KernelAssumption DEF TypeInv, Threads
  <1>2. \A x, y \in Waiters : x = y
    BY <1>1 DEF OneWaiter, Waiters, Threads, Body
  <1> QED BY <1>1, <1>2, QueueNames DEF Added, Waiters, TypeInv

\* What a thread step knows.
LEMMA OnCpu ==
    ASSUME OneWaiter, TypeInv, Around, NEW t \in Threads, NEW label, At(t, label)
    PROVE  /\ t \in Entries /\ t # Parent /\ t # NULL /\ sched.cur = t /\ cpu = t /\ pc[t] = label
           /\ pc[Parent] # "boot" /\ sched.state[t] # "EXITED"
           /\ label \notin {"wait", "issued"} => ~Waits(sched, t)
  <1>1. t \in Entries /\ t # Parent /\ sched.cur = t /\ cpu = t /\ pc[t] = label
    BY StepFacts
  <1> QED BY <1>1, QueueNames DEF Around, Booting, OnProcessor

\* The processor was handed to whoever Reschedule chose.
Handed ==
    /\ \E z \in Seq(Entries) : Sound(sched', z, Added, Waiters)
    /\ DriversKept(sched, sched') /\ sched'.data = sched.data
    /\ cpu' # Parent => ~Waits(sched', cpu')
    /\ sched'.cur # NULL => sched'.state[sched'.cur] # "EXITED"
    /\ cpu' = Parent => \A t \in Added \ sched'.freed : sched'.state[t] = "BLOCKED"

\* Reschedule went from m, whose run queue spelled s, to the process it chose.
TurnFrom(m, s) ==
    \E z \in Seq(Entries) : Sound(sched', z, Added, Waiters) /\ Chose(m, s, sched', z)

LEMMA HandOver ==
    ASSUME OneWaiter, TypeInv, NEW m \in Memories, NEW s, Sound(m, s, Added, Waiters),
           DriversKept(sched, m), m.data = sched.data,
           \/ \E saved : LoadContext(Reschedule(m), saved)
           \/ Chosen(Reschedule(m)) = NULL /\ sched' = Reschedule(m) /\ cpu' = cpu /\ cpu = Parent
    PROVE  Handed /\ TurnFrom(m, s)
  <1>1. /\ Added \in SUBSET Entries /\ Waiters \in SUBSET Entries /\ \A x, y \in Waiters : x = y
        /\ NULL \notin Added /\ Parent \notin Added
    BY BootFacts
  <1>2. PICK w \in Memories, z \in Seq(Entries) :
           Taken(m, w, Added) /\ Sound(w, z, Added, Waiters) /\ Chose(m, s, w, z)
    BY <1>1, RescheduleSound
  <1>3. w = Reschedule(m) /\ w.data = sched.data /\ DriversKept(sched, w)
    BY <1>2, KeptTwice DEF Taken
  <1>4. w.cur \in (Added \ w.freed) \cup {NULL}
    BY <1>2 DEF Sound, Accounted
  <1>5. Chosen(w) # NULL => Chosen(w) = w.cur /\ CanRun(w, w.cur)
    BY DEF Chosen, CurCanRun
  <1>6. w.freed \subseteq Entries /\ NULL \notin Entries
    BY QueueNames DEF Memories
  <1>7. /\ sched' = w
        /\ cpu' = IF Chosen(w) = NULL THEN Parent ELSE w.cur
    BY <1>3, <1>4, <1>5, <1>6 DEF LoadContext
  <1>8. ASSUME NEW t \in Added \ w.freed, Waits(w, t)
        PROVE  w.state[t] = "BLOCKED"
    BY <1>2, <1>8, QueueNames DEF Sound, Accounted, Current, Queued, Blocked, Waits
  <1>9. ASSUME cpu' # Parent PROVE ~Waits(w, cpu')
    <2>1. Chosen(w) # NULL /\ cpu' = w.cur /\ CanRun(w, w.cur)
      BY <1>5, <1>7, <1>9
    <2>2. w.cur \in Added \ w.freed
      BY <1>4, <2>1, <1>5
    <2> QED BY <1>8, <2>1, <2>2 DEF CanRun
  <1>10. ASSUME cpu' = Parent, NEW t \in Added \ w.freed PROVE w.state[t] = "BLOCKED"
    <2>1. Chosen(w) = NULL
      BY <1>1, <1>4, <1>5, <1>7, <1>10
    <2> QED BY <1>2, <1>8, <2>1 DEF Taken
  <1>11. TurnFrom(m, s)
    BY <1>2, <1>7 DEF TurnFrom
  <1> QED BY <1>2, <1>3, <1>7, <1>9, <1>10, <1>11 DEF Handed, Taken

\* With the drivers' queues untouched, disk, buffers and ring stay in step with them.
LEMMA DriversStay ==
    ASSUME OneWaiter, TypeInv, Around, DriversKept(sched, sched'), sched'.data = sched.data,
           UNCHANGED <<load, ring, disk, dst>>,
           \A t \in Threads : \/ pc'[t] = pc[t] \/ Body(t) \notin {"read", "mbr"}
                              \/ pc'[t] \notin {"issued", "read", "exit"}
                              \/ pc[t] = "issued" /\ pc'[t] = "read"
    PROVE  DiskOK' /\ BuffersOK' /\ KeysOK'
  <1>1. Threads \subseteq Entries
    BY BootFacts
  <1>2. /\ Threads' = Threads /\ \A t : Body(t)' = Body(t)
        /\ \A t \in Entries : Waits(sched', t) <=> Waits(sched, t)
        /\ \A t \in Entries : sched'.queue[t] = kbdQueue => sched.queue[t] = kbdQueue
    BY QueueNames DEF Threads, Body, DriversKept, Waits
  <1>3. DiskOK'
    <2>1. /\ sched'.len[blockedQueue] = sched.len[blockedQueue]
          /\ sched'.len[inProgress] = sched.len[inProgress] /\ sched'.head[inProgress] = sched.head[inProgress]
      BY QueueNames DEF DriversKept
    <2> QED BY <1>2, <2>1 DEF DiskOK, Around
  <1>4. BuffersOK'
    <2>1. SUFFICES ASSUME NEW t \in Threads, Body(t) \in {"read", "mbr"}
                   PROVE  /\ pc'[t] \in {"issued", "read"} => sched'.queue[t] = inProgress \/ dst'[t] = load'[t].blk
                          /\ pc'[t] = "exit" => dst'[t] = load'[t].blk
      BY <1>2 DEF BuffersOK
    <2>2. sched.queue[t] = inProgress => sched'.queue[t] = inProgress
      BY <1>1, <2>1, QueueNames DEF DriversKept, Waits
    <2> QED BY <2>1, <2>2 DEF BuffersOK, Around
  <1>5. KeysOK'
    BY <1>2 DEF KeysOK, Around
  <1> QED BY <1>3, <1>4, <1>5

\* A step that gives no thread its first label leaves Added and Waiters alone.
LEMMA SameThreads ==
    ASSUME TypeInv, UNCHANGED load, NEW t \in Entries \cup {Parent}, NEW label \in Labels \ {"new"},
           pc[t] # "new", pc' = [pc EXCEPT ![t] = label]
    PROVE  /\ Added' = Added /\ Waiters' = Waiters /\ Threads' = Threads
           /\ pc'[t] = label /\ \A u \in Entries \cup {Parent} : u # t => pc'[u] = pc[u]
  <1>1. pc \in [Entries \cup {Parent} -> Labels]
    BY DEF TypeInv
  <1>2. pc'[t] = label /\ \A u \in Entries \cup {Parent} : u # t => pc'[u] = pc[u]
    BY <1>1
  <1>3. Threads' = Threads /\ Waiters' = Waiters /\ Threads \subseteq Entries
    BY KernelAssumption DEF Threads, Waiters, Body, TypeInv
  <1> QED BY <1>2, <1>3 DEF Added

\* t goes on at label; a read is announced, and ended, by its own steps.
Moves(t, label) ==
    /\ pc[t] # "new" /\ pc[Parent] # "boot" /\ pc' = [pc EXCEPT ![t] = label]
    /\ \/ t \notin Threads \/ Body(t) \notin {"read", "mbr"}
       \/ label \notin {"issued", "read", "exit"}
       \/ pc[t] = "issued" /\ label = "read"
    /\ t \in Threads /\ label \in {"poll", "wait"} => Body(t) = "kdb"

\* Handing the processor over keeps the invariant.
LEMMA HandedKeeps ==
    ASSUME OneWaiter, TypeInv, IInv, Handed, UNCHANGED <<load, ring, disk, dst>>,
           NEW t \in Entries \cup {Parent}, NEW label \in Labels \ {"new", "boot"}, Moves(t, label)
    PROVE  IInv' /\ Added' = Added /\ Waiters' = Waiters
  <1>1. /\ Added' = Added /\ Waiters' = Waiters /\ Threads \subseteq Entries
        /\ pc'[t] = label /\ \A u \in Entries \cup {Parent} : u # t => pc'[u] = pc[u]
    BY SameThreads, BootFacts DEF Moves
  <1>2. pc'[Parent] # "boot"
    BY <1>1 DEF Moves
  <1>3. DiskOK' /\ BuffersOK' /\ KeysOK'
    <2>1. Around /\ DriversKept(sched, sched') /\ sched'.data = sched.data
      BY DEF IInv, Handed
    <2>2. \A u \in Threads : \/ pc'[u] = pc[u] \/ Body(u) \notin {"read", "mbr"}
                             \/ pc'[u] \notin {"issued", "read", "exit"}
                             \/ pc[u] = "issued" /\ pc'[u] = "read"
      BY <1>1 DEF Moves
    <2> QED BY <2>1, <2>2, DriversStay
  <1>4. OnProcessor'
    BY DEF OnProcessor, Handed
  <1>5. Booting'
    BY <1>2 DEF Booting
  <1>6. AskingOK'
    <2>1. Threads' = Threads /\ \A u : Body(u)' = Body(u)
      BY DEF Threads, Body
    <2> QED BY <1>1, <2>1 DEF AskingOK, IInv, Around, Moves
  <1> QED BY <1>1, <1>3, <1>4, <1>5, <1>6 DEF IInv, Around, Handed

\* The process at the processor, or none, gave way to the one Reschedule chose.
TookTurn ==
    /\ Added' = Added /\ Waiters' = Waiters
    /\ \E s : Sound(sched, s, Added, Waiters) /\ TurnFrom(sched, s)

\* The same where t exited.
LeftFor(t) ==
    /\ Added' = Added /\ Waiters' = Waiters
    /\ sched.cur = t /\ ~Waits(sched, t) /\ sched.state[t] # "EXITED"
    /\ \E s : /\ Sound(sched, s, Added, Waiters)
              /\ Sound([sched EXCEPT !.state[t] = "EXITED"], s, Added, Waiters)
              /\ TurnFrom([sched EXCEPT !.state[t] = "EXITED"], s)

LEMMA YieldKeeps ==
    ASSUME OneWaiter, TypeInv, IInv, NEW t \in Threads, NEW label \in Labels \ {"new"}, At(t, label),
           NEW next \in Labels \ {"new", "boot"}, ProcYield(t, next),
           next \in {"issued", "read", "exit"} => label = "issued" /\ next = "read",
           next \in {"poll", "wait"} => label = "wait"
    PROVE  IInv' /\ Handed /\ TookTurn
  <1>1. t \in Entries /\ sched.cur = t /\ pc[t] = label /\ pc[Parent] # "boot"
    BY OnCpu DEF IInv
  <1>2. PICK s : Sound(sched, s, Added, Waiters)
    BY DEF IInv
  <1>3. sched \in Memories /\ DriversKept(sched, sched)
    BY DEF TypeInv, DriversKept
  <1>4. LoadContext(Reschedule(sched), Save(sched.cur)) /\ pc' = [pc EXCEPT ![t] = next]
        /\ UNCHANGED <<load, ring, disk, dst>>
    BY <1>1 DEF ProcYield, syscall_yield
  <1>5. Handed /\ TurnFrom(sched, s)
    BY <1>2, <1>3, <1>4, HandOver
  <1>6. Moves(t, next) /\ UNCHANGED <<load, ring, disk, dst>>
    BY <1>1, <1>4 DEF Moves, IInv, Around, AskingOK
  <1>7. IInv' /\ Added' = Added /\ Waiters' = Waiters
    BY <1>1, <1>5, <1>6, HandedKeeps
  <1> QED BY <1>2, <1>5, <1>7 DEF TookTurn

LEMMA ExitKeeps ==
    ASSUME OneWaiter, TypeInv, IInv, NEW t \in Threads, ProcExit(t)
    PROVE  IInv' /\ Handed /\ LeftFor(t)
  <1>1. t \in Entries /\ sched.cur = t /\ pc[t] = "exit" /\ pc[Parent] # "boot" /\ ~Waits(sched, t)
    BY OnCpu DEF IInv, ProcExit
  <1>2. PICK s : Sound(sched, s, Added, Waiters)
    BY DEF IInv
  <1>3. PICK w \in Memories :
           /\ w = [sched EXCEPT !.state[sched.cur] = "EXITED"] /\ Sound(w, s, Added, Waiters)
           /\ DriversKept(sched, w) /\ w.data = sched.data /\ w.cur = t /\ w.queue = sched.queue
    <2>1. sched \in Memories /\ Added \in SUBSET Entries /\ Waiters \in SUBSET Entries
      BY BootFacts
    <2> QED BY <1>1, <1>2, <2>1, ExitSound
  <1>4. LoadContext(Reschedule(w), rflags) /\ pc' = [pc EXCEPT ![t] = "gone"]
        /\ UNCHANGED <<load, ring, disk, dst>>
    BY <1>1, <1>3 DEF ProcExit, syscall_exit
  <1>5. Handed /\ TurnFrom(w, s)
    BY <1>3, <1>4, HandOver
  <1>6. "gone" \in Labels \ {"new", "boot"}
    BY DEF Labels
  <1>7. Moves(t, "gone")
    BY <1>1, <1>4 DEF Moves
  <1>8. IInv' /\ Added' = Added /\ Waiters' = Waiters
    BY <1>1, <1>4, <1>5, <1>6, <1>7, HandedKeeps
  <1>9. w = [sched EXCEPT !.state[t] = "EXITED"] /\ sched.state[t] # "EXITED"
    <2>1. sched.state[t] # "EXITED"
      BY OnCpu DEF IInv, ProcExit
    <2> QED BY <1>1, <1>3, <2>1
  <1> QED BY <1>1, <1>2, <1>3, <1>5, <1>8, <1>9 DEF LeftFor

LEMMA ProcRunKeeps ==
    ASSUME OneWaiter, TypeInv, IInv, ProcRun
    PROVE  IInv' /\ Handed /\ TookTurn
  <1>1. pc[Parent] = "run" /\ cpu = Parent /\ UNCHANGED <<load, ring, disk, dst>>
        /\ pc' = [pc EXCEPT ![Parent] = "hlt"]
    BY DEF ProcRun, KmainAt
  <1>2. PICK s : Sound(sched, s, Added, Waiters)
    BY DEF IInv
  <1>3. sched \in Memories /\ DriversKept(sched, sched)
    BY DEF TypeInv, DriversKept
  <1>4. \/ \E saved : LoadContext(Reschedule(sched), saved)
        \/ Chosen(Reschedule(sched)) = NULL /\ sched' = Reschedule(sched) /\ cpu' = cpu /\ cpu = Parent
    BY <1>1 DEF ProcRun, syscall_run
  <1>5. Handed /\ TurnFrom(sched, s)
    BY <1>2, <1>3, <1>4, HandOver
  <1>6. "hlt" \in Labels \ {"new", "boot"} /\ Parent \notin Threads
    BY BootFacts, QueueNames DEF Labels
  <1>7. Moves(Parent, "hlt")
    BY <1>1, <1>6 DEF Moves
  <1>8. IInv' /\ Added' = Added /\ Waiters' = Waiters
    BY <1>1, <1>5, <1>6, <1>7, HandedKeeps
  <1> QED BY <1>2, <1>5, <1>8 DEF TookTurn

\* The steps that leave the scheduler alone.
SameSched == sched' = sched /\ Added' = Added

Quiet(t, label) ==
    /\ pc[t] # "new" /\ pc[Parent] # "boot" /\ pc' = [pc EXCEPT ![t] = label]
    /\ UNCHANGED <<load, sched, cpu, disk, dst>>
    /\ ring' = ring \/ \A x \in Entries : sched.queue[x] # kbdQueue
    /\ t # Parent => t \in Threads /\ ~Waits(sched, t)
    /\ \/ t \notin Threads \/ Body(t) \notin {"read", "mbr"}
       \/ label \notin {"issued", "read", "exit"}
       \/ pc[t] = "read"
    /\ t \in Threads /\ label \in {"poll", "wait"} => Body(t) = "kdb"

LEMMA QuietKeeps ==
    ASSUME OneWaiter, TypeInv, IInv, NEW t \in Entries \cup {Parent},
           NEW label \in Labels \ {"new", "boot"}, Quiet(t, label)
    PROVE  IInv' /\ SameSched
  <1>1. /\ Added' = Added /\ Waiters' = Waiters /\ Threads \subseteq Entries /\ Threads' = Threads
        /\ pc'[t] = label /\ \A u \in Entries \cup {Parent} : u # t => pc'[u] = pc[u]
    BY SameThreads, BootFacts DEF Quiet
  <1>2. OnProcessor' /\ Booting'
    <2>1. cpu \in Entries /\ cpu # t => pc'[cpu] = pc[cpu]
      BY <1>1
    <2>2. cpu # Parent /\ Waits(sched, cpu) => cpu # t
      BY DEF TypeInv, Quiet
    <2>3. cpu # Parent => cpu \in Entries
      BY DEF TypeInv
    <2> QED BY <1>1, <2>1, <2>2, <2>3 DEF Quiet, OnProcessor, Booting, IInv, Around
  <1>3. DiskOK' /\ KeysOK'
    BY <1>1 DEF Quiet, DiskOK, KeysOK, IInv, Around
  <1>4. BuffersOK'
    <2>1. ASSUME NEW u \in Threads, Body(u) \in {"read", "mbr"}
          PROVE  /\ pc'[u] \in {"issued", "read"} => sched.queue[u] = inProgress \/ dst[u] = load[u].blk
                 /\ pc'[u] = "exit" => dst[u] = load[u].blk
      <3>1. CASE u # t
        BY <1>1, <2>1, <3>1 DEF Quiet, IInv, Around, BuffersOK
      <3>2. CASE u = t
        <4>1. t # Parent
          BY <1>1, <2>1, <3>2, QueueNames
        <4>2. sched.queue[t] # inProgress
          BY <4>1, QueueNames DEF Quiet, Waits
        <4> QED BY <1>1, <2>1, <3>2, <4>1, <4>2 DEF Quiet, IInv, Around, BuffersOK
      <3> QED BY <3>1, <3>2
    <2>2. \A u : Body(u)' = Body(u)
      BY DEF Body, Quiet
    <2> QED BY <1>1, <2>1, <2>2 DEF BuffersOK, Quiet
  <1>5. AskingOK'
    <2>1. \A u : Body(u)' = Body(u)
      BY DEF Body, Quiet
    <2> QED BY <1>1, <2>1 DEF AskingOK, IInv, Around, Quiet
  <1>6. SameSched
    BY <1>1 DEF SameSched, Quiet
  <1> QED BY <1>1, <1>2, <1>3, <1>4, <1>5, <1>6 DEF IInv, Around, Quiet

LEMMA QuietSteps ==
    ASSUME OneWaiter, TypeInv, IInv, NEW t \in Threads, GetCharEnter(t) \/ Printed(t) \/ Crawl(t)
    PROVE  IInv' /\ SameSched
  <1>1. /\ t \in Entries /\ t # Parent /\ pc[Parent] # "boot" /\ ~Waits(sched, t)
        /\ \E label \in {"start", "read"} : At(t, label)
    BY OnCpu DEF IInv, GetCharEnter, Printed, Crawl
  <1>2. {"poll", "exit", "turn"} \subseteq Labels \ {"new", "boot"}
    BY DEF Labels
  <1>3. CASE GetCharEnter(t)
    <2>1. Quiet(t, "poll")
      BY <1>1, <1>3 DEF Quiet, GetCharEnter, At
    <2> QED BY <1>1, <1>2, <2>1, QuietKeeps
  <1>4. CASE Printed(t)
    <2>1. Body(t) = "mbr" => dst[t] \in SignedBlocks
      <3>1. SUFFICES ASSUME Body(t) = "mbr" PROVE dst[t] \in SignedBlocks
        OBVIOUS
      <3>2. dst[t] = load[t].blk
        BY <1>1, <1>4, <3>1, QueueNames DEF Printed, At, IInv, Around, BuffersOK, Waits
      <3>3. load[t].blk \in SignedBlocks
        BY <3>1 DEF OneWaiter, TypeInv, Threads, Body
      <3> QED BY <3>2, <3>3
    <2>2. Quiet(t, "exit")
      BY <1>1, <1>4, <2>1 DEF Quiet, Printed, At
    <2> QED BY <1>1, <1>2, <2>2, QuietKeeps
  <1>5. CASE Crawl(t)
    <2>1. PICK next \in {"turn", "exit"} : pc' = [pc EXCEPT ![t] = next]
      BY <1>5 DEF Crawl
    <2>2. Quiet(t, next)
      BY <1>1, <1>5, <2>1 DEF Quiet, Crawl, At
    <2> QED BY <1>1, <1>2, <2>1, <2>2, QuietKeeps
  <1> QED BY <1>3, <1>4, <1>5

LEMMA BlockForIRQKeeps ==
    ASSUME OneWaiter, TypeInv, IInv, BlockForIRQ
    PROVE  IInv' /\ SameSched
  <1>1. Parent \notin Threads
    BY BootFacts, QueueNames
  <1>2. Quiet(Parent, "halted")
    BY <1>1 DEF Quiet, BlockForIRQ, KmainAt
  <1>3. "halted" \in Labels \ {"new", "boot"}
    BY DEF Labels
  <1> QED BY <1>2, <1>3, QuietKeeps

\* The waiter blocked: it gives the processor away with its next step.
Parked(t, q, label) ==
    /\ cpu = t /\ sched.cur = t /\ ~Waits(sched, t) /\ pc[t] # "new" /\ pc[Parent] # "boot"
    /\ label = "wait" => Body(t) = "kdb"
    /\ label = "issued" => q = inProgress
    /\ sched' \in Memories /\ BlockedOn(sched, sched', t, q)
    /\ pc' = [pc EXCEPT ![t] = label]
    /\ UNCHANGED <<load, cpu, dst>>

\* t, which was running, waits for a driver.
Parks(t) ==
    /\ t \in Waiters /\ Added' = Added /\ Waiters' = Waiters
    /\ sched.cur = t /\ ~Waits(sched, t)
    /\ \E q \in Drivers : BlockedOn(sched, sched', t, q)
    /\ \E s : Sound(sched, s, Added, Waiters) /\ Sound(sched', s, Added, Waiters)

LEMMA ParkedKeeps ==
    ASSUME OneWaiter, TypeInv, IInv, NEW t \in Waiters, NEW q \in Drivers, NEW label \in {"wait", "issued"},
           Parked(t, q, label), DiskOK', KeysOK'
    PROVE  IInv' /\ Parks(t)
  <1>1. /\ Added \in SUBSET Entries /\ Waiters \in SUBSET Entries /\ \A x, y \in Waiters : x = y
        /\ sched \in Memories /\ t \in Threads /\ t \in Entries
    BY BootFacts DEF Waiters
  <1>2. PICK s : s \in Seq(Entries) /\ Sound(sched, s, Added, Waiters)
    BY DEF IInv
  <1>3. Sound(sched', s, Added, Waiters)
    BY <1>1, <1>2, WaitSound DEF Parked
  <1>4. label \in Labels \ {"new"}
    BY DEF Labels
  <1>5. /\ Added' = Added /\ Waiters' = Waiters /\ Threads' = Threads /\ Threads \subseteq Entries
        /\ pc'[t] = label /\ \A u \in Entries \cup {Parent} : u # t => pc'[u] = pc[u]
    <2>1. t \in Entries \cup {Parent} /\ UNCHANGED load /\ pc[t] # "new" /\ pc' = [pc EXCEPT ![t] = label]
      BY <1>1 DEF Parked
    <2>2. Threads \subseteq Entries
      BY BootFacts
    <2> QED BY <1>4, <2>1, <2>2, SameThreads
  <1>6. Booting' /\ OnProcessor'
    <2>1. sched'.cur = t /\ sched'.state[t] = "BLOCKED"
      BY <1>1 DEF BlockedOn, Memories, Parked
    <2>2. t # Parent
      BY <1>1, QueueNames
    <2> QED BY <1>5, <2>1, <2>2 DEF Booting, OnProcessor, Parked
  <1>7. \A u : Body(u)' = Body(u)
    BY DEF Body, Parked
  <1>8. BuffersOK'
    <2>1. ASSUME NEW u \in Threads, u # t
          PROVE  sched'.queue[u] = sched.queue[u]
      BY <1>1, <1>5, <2>1 DEF BlockedOn, Memories, Parked
    <2>2. label = "issued" => sched'.queue[t] = inProgress
      BY <1>1 DEF BlockedOn, Memories, Parked
    <2> QED BY <1>5, <1>7, <2>1, <2>2 DEF BuffersOK, IInv, Around, Parked
  <1>9. AskingOK'
    BY <1>5, <1>7 DEF AskingOK, IInv, Around, Parked
  <1>10. Parks(t)
    BY <1>2, <1>3, <1>5 DEF Parks, Parked
  <1> QED BY <1>2, <1>3, <1>5, <1>6, <1>8, <1>9, <1>10 DEF IInv, Around

\* The waiter takes a code, or waits where nobody else does.
LEMMA GetCharPollKeeps ==
    ASSUME OneWaiter, TypeInv, IInv, NEW t \in Threads, GetCharPoll(t)
    PROVE  IInv' /\ (SameSched \/ Parks(t))
  <1>1. /\ t \in Entries /\ t # Parent /\ sched.cur = t /\ cpu = t /\ pc[t] = "poll"
        /\ pc[Parent] # "boot" /\ ~Waits(sched, t)
    BY OnCpu DEF IInv, GetCharPoll
  <1>2. /\ Added \in SUBSET Entries /\ Waiters \in SUBSET Entries /\ \A x, y \in Waiters : x = y
        /\ sched \in Memories
    BY BootFacts
  <1>3. PICK s : s \in Seq(Entries) /\ Sound(sched, s, Added, Waiters)
    BY DEF IInv
  <1>4. Body(t) = "kdb" /\ t \in Waiters
    BY <1>1 DEF IInv, Around, AskingOK, Waiters, MayBlock
  <1>5. \A q \in Drivers : sched.len[q] = 0 /\ \A x \in Entries : sched.queue[x] # q
    BY <1>1, <1>2, <1>3, <1>4, NobodyWaits
  <1>6. UNCHANGED <<load, cpu, rflags, disk, dst, uart>>
    BY DEF GetCharPoll
  <1>7. CASE ring' = RingTake(ring) /\ pc' = [pc EXCEPT ![t] = "start"] /\ UNCHANGED sched
    <2>1. \A x \in Entries : sched.queue[x] # kbdQueue
      BY <1>5, QueueNames
    <2>2. Quiet(t, "start")
      BY <1>1, <1>6, <1>7, <2>1 DEF Quiet
    <2>3. "start" \in Labels \ {"new", "boot"}
      BY DEF Labels
    <2> QED BY <1>1, <2>2, <2>3, QuietKeeps
  <1>8. CASE /\ ~HasCode(ring) /\ sched' = BlockCurProc(sched, kbdQueue, 0, NULL)
             /\ pc' = [pc EXCEPT ![t] = "wait"] /\ UNCHANGED ring
    <2>1. PICK w \in Memories : /\ w = BlockCurProc(sched, kbdQueue, 0, NULL) /\ BlockedOn(sched, w, t, kbdQueue)
                                /\ w.data = [sched.data EXCEPT ![t] = [blk |-> 0, dst |-> NULL]]
      <3>1. kbdQueue \in Drivers /\ 0 \in Blocks /\ NULL \in Pointers
        BY QueueNames, SchedulerAssumption DEF Pointers
      <3> QED BY <1>1, <1>2, <1>3, <1>4, <3>1, BlockSound
    <2>2. Parked(t, kbdQueue, "wait")
      BY <1>1, <1>4, <1>6, <1>8, <2>1 DEF Parked
    <2>3. DiskOK'
      <3>1. sched.len[inProgress] = 0 /\ disk = NoBlock
        BY <1>5, QueueNames DEF IInv, Around, DiskOK
      <3>2. w.len[inProgress] = 0 /\ w.len[blockedQueue] = 0
        BY <2>1, QueueNames DEF BlockedOn
      <3> QED BY <1>6, <1>8, <2>1, <3>1, <3>2 DEF DiskOK
    <2>4. KeysOK'
      BY <1>8 DEF KeysOK
    <2>5. "wait" \in {"wait", "issued"} /\ kbdQueue \in Drivers
      BY QueueNames
    <2> QED BY <1>4, <2>2, <2>3, <2>4, <2>5, ParkedKeeps
  <1> QED BY <1>7, <1>8 DEF GetCharPoll

\* The waiter's request finds the disk idle and goes through to it.
LEMMA ReadBlockKeeps ==
    ASSUME OneWaiter, TypeInv, IInv, NEW t \in Threads, ReadBlock(t)
    PROVE  IInv' /\ Parks(t)
  <1>1. /\ t \in Entries /\ t # Parent /\ sched.cur = t /\ cpu = t /\ pc[t] = "start"
        /\ pc[Parent] # "boot" /\ ~Waits(sched, t)
    BY OnCpu DEF IInv, ReadBlock
  <1>2. /\ Added \in SUBSET Entries /\ Waiters \in SUBSET Entries /\ \A x, y \in Waiters : x = y
        /\ sched \in Memories /\ load[t].blk \in Blocks
    BY BootFacts, StepFacts DEF ReadBlock
  <1>3. PICK s : s \in Seq(Entries) /\ Sound(sched, s, Added, Waiters)
    BY DEF IInv
  <1>4. t \in Waiters
    BY DEF ReadBlock, Waiters, MayBlock
  <1>5. sched.queue[t] = NULL
    BY <1>1, <1>3, QueueNames DEF Sound, Accounted, Current, Queued, Blocked
  <1>6. PICK b \in Memories :
           /\ b = BlockCurProc(sched, blockedQueue, load[t].blk, t) /\ BlockedOn(sched, b, t, blockedQueue)
           /\ b.data = [sched.data EXCEPT ![t] = [blk |-> load[t].blk, dst |-> t]]
    <2>1. blockedQueue \in Drivers /\ t \in Pointers
      BY <1>1, QueueNames DEF Pointers
    <2> QED BY <1>1, <1>2, <1>3, <1>4, <2>1, BlockSound
  <1>7. PICK w \in Memories : w = StartNext(b) /\ BlockedOn(sched, w, t, inProgress) /\ w.data = b.data
    BY <1>1, <1>2, <1>5, <1>6, StartNextSound
  <1>8. Length(b, inProgress) = 0
    BY <1>6, QueueNames DEF BlockedOn, Length
  <1>9. w.data[t] = [blk |-> load[t].blk, dst |-> t]
    BY <1>1, <1>2, <1>6, <1>7 DEF Memories
  <1>10. Requested(w) = load[t].blk
    BY <1>7, <1>9 DEF Requested, Peak, BlockedOn
  <1>11. /\ sched' = w /\ disk' = load[t].blk /\ pc' = [pc EXCEPT ![t] = "issued"]
         /\ UNCHANGED <<load, cpu, ring, dst>>
    BY <1>6, <1>7, <1>8, <1>10 DEF ReadBlock
  <1>12. Parked(t, inProgress, "issued")
    BY <1>1, <1>7, <1>11 DEF Parked
  <1>13. DiskOK'
    <2>1. w.len[inProgress] = 1 /\ w.len[blockedQueue] = 0 /\ w.head[inProgress] = t
      BY <1>7, QueueNames DEF BlockedOn
    <2>2. disk' # NoBlock
      BY <1>2, <1>11, KernelAssumption
    <2> QED BY <1>9, <1>11, <2>1, <2>2 DEF DiskOK, Threads
  <1>14. KeysOK'
    <2>1. ASSUME NEW x \in Entries, w.queue[x] = kbdQueue PROVE sched.queue[x] = kbdQueue
      BY <1>1, <1>2, <1>7, <2>1, QueueNames DEF BlockedOn, Memories
    <2> QED BY <1>11, <2>1 DEF KeysOK, IInv, Around
  <1>15. "issued" \in {"wait", "issued"} /\ inProgress \in Drivers
    BY QueueNames
  <1> QED BY <1>4, <1>12, <1>13, <1>14, <1>15, ParkedKeeps

\* kmain added a thread.
Arrived ==
    \E t \in Threads \ Added : \E s, z :
       /\ Added' = Added \cup {t} /\ Waiters' = Waiters /\ sched.cur = NULL /\ sched.freed = {}
       /\ Sound(sched, s, Added, Waiters) /\ Born(sched, s, sched', z, t, Added, Waiters)

LEMMA AddThreadKeeps ==
    ASSUME OneWaiter, TypeInv, IInv, AddThread
    PROVE  IInv' /\ Arrived
  <1>1. /\ Threads \subseteq Entries /\ Added \in SUBSET Entries /\ Waiters \in SUBSET Entries
        /\ sched \in Memories /\ Parent \notin Entries
    BY BootFacts, QueueNames
  <1>2. PICK t \in Threads \ Added, residue \in Residues :
           /\ sched' = Add(sched, t, residue)
           /\ pc' = [pc EXCEPT ![t] = "start",
                               ![Parent] = IF Threads \ Added = {t} THEN "run" ELSE @]
    BY DEF AddThread
  <1>3. residue = NULL /\ NULL \in Residues
    BY <1>2 DEF OneWaiter
  <1>4. pc[Parent] = "boot" /\ UNCHANGED <<load, cpu, ring, disk, dst>>
    BY DEF AddThread, KmainAt
  <1>5. /\ cpu = Parent /\ sched.cur = NULL /\ sched.freed = {}
        /\ \A x \in Added : sched.queue[x] = runQueue
        /\ sched.len[runQueue] = 0 => sched.head[runQueue] = NULL
    BY <1>4 DEF IInv, Around, Booting
  <1>6. PICK s : Sound(sched, s, Added, Waiters)
    BY DEF IInv
  <1>7. PICK w \in Memories, z \in Seq(Entries) : Born(sched, s, w, z, t, Added, Waiters)
    <2>1. t \in Entries \ Added
      BY <1>1
    <2> QED BY <1>1, <1>3, <1>5, <1>6, <2>1, AddSound
  <1>8. sched' = w
    BY <1>2, <1>3, <1>7 DEF Born
  <1>9. /\ pc'[t] = "start" /\ \A u \in Entries \ {t} : pc'[u] = pc[u]
    BY <1>1, <1>2 DEF TypeInv
  <1>10. /\ Threads' = Threads /\ Waiters' = Waiters /\ \A u : Body(u)' = Body(u)
    BY <1>4 DEF Threads, Waiters, Body
  <1>11. Added' = Added \cup {t}
    BY <1>1, <1>9, <1>10 DEF Added
  <1>12. Booting' /\ OnProcessor'
    <2>1. \A x \in Added \cup {t} : w.queue[x] = runQueue
      <3>1. sched.queue \in [Entries -> Queues \cup {NULL} \cup Residues] /\ t \in Entries
        BY <1>1 DEF Memories
      <3>2. w.queue = [sched.queue EXCEPT ![t] = runQueue]
        BY <1>7 DEF Born
      <3>3. ASSUME NEW x \in Added PROVE w.queue[x] = runQueue
        <4>1. x \in Entries /\ sched.queue[x] = runQueue
          BY <1>1, <1>5
        <4> QED BY <3>1, <3>2, <4>1
      <3>4. w.queue[t] = runQueue
        BY <3>1, <3>2
      <3> QED BY <3>3, <3>4
    <2> QED BY <1>4, <1>5, <1>7, <1>8, <1>11, <2>1 DEF Booting, OnProcessor, Born
  <1>13. DiskOK' /\ BuffersOK' /\ KeysOK'
    <2>1. \A u \in Threads : \/ pc'[u] = pc[u] \/ Body(u) \notin {"read", "mbr"}
                             \/ pc'[u] \notin {"issued", "read", "exit"}
                             \/ pc[u] = "issued" /\ pc'[u] = "read"
      BY <1>1, <1>9
    <2>2. Around /\ DriversKept(sched, sched') /\ sched'.data = sched.data
      BY <1>7, <1>8 DEF IInv, Born
    <2> QED BY <1>4, <2>1, <2>2, DriversStay
  <1>14. AskingOK'
    BY <1>1, <1>9, <1>10 DEF AskingOK, IInv, Around
  <1>15. Arrived
    BY <1>5, <1>6, <1>7, <1>8, <1>10, <1>11 DEF Arrived
  <1> QED BY <1>7, <1>8, <1>10, <1>11, <1>12, <1>13, <1>14, <1>15 DEF IInv, Around, Born

LEMMA InitSound ==
    ASSUME Init
    PROVE  IInv
  <1>1. /\ sched = Idle /\ pc = [t \in Entries \cup {Parent} |-> IF t = Parent THEN "boot" ELSE "new"]
        /\ load \in Workloads /\ cpu = Parent /\ disk = NoBlock
    BY DEF Init
  <1>2. Threads \subseteq Entries /\ \A t \in Threads : pc[t] = "new"
    BY <1>1, KernelAssumption DEF Threads
  <1>3. Added = {}
    BY <1>2 DEF Added
  <1>4. /\ sched.head = [q \in Queues |-> NULL] /\ sched.tail = [q \in Queues |-> NULL]
        /\ sched.len = [q \in Queues |-> 0] /\ sched.queue = [t \in Entries |-> NULL]
        /\ sched.cur = NULL /\ sched.freed = {} /\ Running(sched)
    BY <1>1 DEF Idle, EmptyQueues, Running
  <1>5. PICK s \in Seq(Entries) : s = <<>> /\ Len(s) = 0
    BY EmptySeq
  <1>6. Spells(sched, s)
    <2>1. 1 .. 0 = {} /\ 1 .. 0 - 1 = {}
      OBVIOUS
    <2>2. Linked(sched, s, 0)
      BY <1>4, <2>1, QueueNames DEF Linked
    <2> QED BY <1>5, <2>2 DEF Spells
  <1>7. \A q \in Drivers : Lone(sched, q, Waiters)
    BY <1>4, QueueNames DEF Lone
  <1>8. Accounted(sched, Added, Waiters) /\ Stale(sched, s, Added, Waiters)
    BY <1>3, <1>4, <1>5, QueueNames DEF Accounted, Stale
  <1>9. Sound(sched, s, Added, Waiters)
    BY <1>4, <1>6, <1>7, <1>8 DEF Sound
  <1>10. Booting /\ OnProcessor /\ DiskOK
    BY <1>1, <1>3, <1>4, QueueNames DEF Booting, OnProcessor, DiskOK
  <1>11. BuffersOK /\ KeysOK /\ AskingOK
    BY <1>2, <1>4, QueueNames DEF BuffersOK, KeysOK, AskingOK
  <1> QED BY <1>5, <1>9, <1>10, <1>11 DEF IInv, Around

LEMMA IrqFacts ==
    ASSUME OneWaiter, TypeInv, TakeIRQ
    PROVE  /\ Added' = Added /\ Waiters' = Waiters /\ Threads' = Threads /\ \A u : Body(u)' = Body(u)
           /\ \A u \in Entries : pc'[u] = pc[u]
           /\ pc'[Parent] = "boot" => pc[Parent] = "boot"
           /\ load' = load /\ cpu' = cpu
  <1>1. load' = load /\ cpu' = cpu /\ (pc' = pc \/ pc' = [pc EXCEPT ![Parent] = "run"])
    BY DEF TakeIRQ
  <1>2. /\ \A u \in Entries : pc'[u] = pc[u]
        /\ pc'[Parent] = "boot" => pc[Parent] = "boot"
    BY <1>1, QueueNames DEF TypeInv
  <1>3. Threads' = Threads /\ Waiters' = Waiters /\ \A u : Body(u)' = Body(u)
    BY <1>1 DEF Threads, Waiters, Body
  <1>4. Added' = Added
    BY <1>2, <1>3, BootFacts DEF Added
  <1> QED BY <1>1, <1>2, <1>3, <1>4

\* A wake-up on the queue of a driver, in the middle of anything.
Stirred ==
    /\ Added' = Added /\ Waiters' = Waiters
    /\ \E s, z : /\ Sound(sched, s, Added, Waiters) /\ Sound(sched', z, Added, Waiters)
                 /\ Woke(sched, s, sched', z, Added)

LEMMA WakeKeeps ==
    ASSUME OneWaiter, TypeInv, IInv, TakeIRQ, NEW q \in Drivers, sched' = Unblock(sched, q),
           DiskOK', BuffersOK', KeysOK'
    PROVE  IInv' /\ Stirred
  <1>1. /\ Added \in SUBSET Entries /\ Waiters \in SUBSET Entries /\ sched \in Memories
        /\ NULL \notin Entries /\ Parent \notin Entries /\ q # runQueue
    BY BootFacts, QueueNames
  <1>2. PICK s : Sound(sched, s, Added, Waiters)
    BY DEF IInv
  <1>3. PICK w \in Memories, z \in Seq(Entries) :
           Woken(sched, w, q) /\ Sound(w, z, Added, Waiters) /\ Woke(sched, s, w, z, Added)
    BY <1>1, <1>2, WakeSound
  <1>4. sched' = w
    BY <1>3 DEF Woken
  <1>5. /\ Added' = Added /\ Waiters' = Waiters /\ Threads' = Threads /\ \A u : Body(u)' = Body(u)
        /\ \A u \in Entries : pc'[u] = pc[u]
        /\ pc'[Parent] = "boot" => pc[Parent] = "boot"
        /\ cpu' = cpu
    BY IrqFacts
  <1>6. ASSUME pc[Parent] = "boot" PROVE w = sched
    <2>1. \A x \in Entries : sched.queue[x] \in {runQueue, NULL}
      BY <1>1, <1>2, <1>6 DEF Sound, Accounted, IInv, Around, Booting
    <2>2. \A x \in Entries : sched.queue[x] # q
      BY <1>1, <2>1, QueueNames
    <2>3. sched.len[q] # 1 /\ sched.len[q] \in {0, 1}
      BY <1>1, <1>2, <2>2 DEF Sound, Lone
    <2> QED BY <1>3, <2>3 DEF Woken
  <1>7. Booting'
    BY <1>4, <1>5, <1>6 DEF Booting, IInv, Around
  <1>8. OnProcessor'
    <2>1. ASSUME cpu # Parent, Waits(w, cpu) PROVE Waits(sched, cpu) /\ cpu \in Entries
      <3>1. cpu \in Entries
        BY <2>1 DEF TypeInv
      <3>2. PICK p \in Drivers : w.queue[cpu] = p
        BY <2>1 DEF Waits
      <3>3. p # q
        BY <1>3, <3>1, <3>2 DEF Woken
      <3>4. sched.queue[cpu] = p
        BY <1>3, <3>1, <3>2, <3>3 DEF Woken, QueueKept
      <3> QED BY <3>1, <3>4 DEF Waits
    <2>2. w.cur # NULL => w.state[w.cur] # "EXITED"
      <3>1. w.cur = sched.cur /\ (w.cur # NULL => w.cur \in Entries)
        BY <1>3 DEF Woken, Memories, Pointers
      <3> QED BY <1>3, <3>1 DEF Woken, IInv, Around, OnProcessor
    <2> QED BY <1>4, <1>5, <2>1, <2>2 DEF OnProcessor, IInv, Around
  <1>9. AskingOK'
    BY <1>5, BootFacts DEF AskingOK, IInv, Around
  <1>10. Stirred
    BY <1>2, <1>3, <1>4, <1>5 DEF Stirred
  <1> QED BY <1>3, <1>4, <1>5, <1>7, <1>8, <1>9, <1>10 DEF IInv, Around

\* What the wake-up leaves of the other drivers' queues.
LEMMA WokenFacts ==
    ASSUME OneWaiter, TypeInv, IInv, NEW q \in Drivers
    PROVE  \E w \in Memories : w = Unblock(sched, q) /\ Woken(sched, w, q)
  <1>1. Added \in SUBSET Entries /\ Waiters \in SUBSET Entries /\ sched \in Memories
    BY BootFacts
  <1>2. PICK s : Sound(sched, s, Added, Waiters)
    BY DEF IInv
  <1>3. \E w \in Memories, z \in Seq(Entries) :
           Woken(sched, w, q) /\ Sound(w, z, Added, Waiters) /\ Woke(sched, s, w, z, Added)
    BY <1>1, <1>2, WakeSound
  <1> QED BY <1>3 DEF Woken

LEMMA KeyKeeps ==
    ASSUME OneWaiter, TypeInv, IInv, PS2_irq_handler
    PROVE  IInv' /\ Stirred
  <1>1. TakeIRQ /\ sched' = Unblock(sched, kbdQueue) /\ UNCHANGED <<disk, dst>>
    BY DEF PS2_irq_handler
  <1>2. PICK w \in Memories : w = Unblock(sched, kbdQueue) /\ Woken(sched, w, kbdQueue)
    BY QueueNames, WokenFacts
  <1>3. /\ QueueKept(sched, w, inProgress) /\ QueueKept(sched, w, blockedQueue)
        /\ \A x \in Entries : w.queue[x] # kbdQueue
        /\ \A x \in Entries : sched.queue[x] # kbdQueue => w.data[x] = sched.data[x]
    BY <1>2, QueueNames DEF Woken
  <1>4. /\ Threads' = Threads
        /\ \A u : Body(u)' = Body(u)
        /\ \A u \in Entries : pc'[u] = pc[u]
        /\ load' = load /\ Threads \subseteq Entries
    BY <1>1, IrqFacts, BootFacts
  <1>5. KeysOK'
    BY <1>1, <1>2, <1>3 DEF KeysOK
  <1>6. DiskOK'
    <2>1. ASSUME disk # NoBlock PROVE LET h == sched.head[inProgress] IN h \in Entries => w.data[h] = sched.data[h]
      <3>1. sched.len[inProgress] = 1
        BY <2>1 DEF IInv, Around, DiskOK
      <3>2. PICK s : Sound(sched, s, Added, Waiters)
        BY DEF IInv
      <3>3. sched.queue[sched.head[inProgress]] = inProgress
        BY <3>1, <3>2, QueueNames DEF Sound, Lone
      <3> QED BY <1>3, <3>3, QueueNames
    <2> QED BY <1>1, <1>2, <1>3, <1>4, <2>1 DEF QueueKept, DiskOK, IInv, Around
  <1>7. BuffersOK'
    <2>1. \A u \in Threads : sched.queue[u] = inProgress => w.queue[u] = inProgress
      BY <1>3, <1>4 DEF QueueKept
    <2> QED BY <1>1, <1>2, <1>4, <2>1 DEF BuffersOK, IInv, Around
  <1> QED BY <1>1, <1>5, <1>6, <1>7, QueueNames, WakeKeeps

\* The disk answers the one request there is.
LEMMA DiskKeeps ==
    ASSUME OneWaiter, TypeInv, IInv, ata_irq_handler
    PROVE  IInv' /\ Stirred
  <1>1. TakeIRQ /\ disk # NoBlock /\ UNCHANGED <<ring, uart>>
    BY DEF ata_irq_handler
  <1>2. PICK w \in Memories : w = Unblock(sched, inProgress) /\ Woken(sched, w, inProgress)
    BY QueueNames, WokenFacts
  <1>3. /\ QueueKept(sched, w, kbdQueue) /\ QueueKept(sched, w, blockedQueue)
        /\ w.len[inProgress] = 0 /\ \A x \in Entries : w.queue[x] # inProgress
    BY <1>2, QueueNames DEF Woken
  <1>4. /\ Threads' = Threads
        /\ \A u : Body(u)' = Body(u)
        /\ \A u \in Entries : pc'[u] = pc[u]
        /\ load' = load /\ Threads \subseteq Entries
    BY <1>1, IrqFacts, BootFacts
  <1>5. /\ sched.len[inProgress] = 1 /\ sched.len[blockedQueue] = 0
        /\ sched.head[inProgress] \in Threads
        /\ sched.data[sched.head[inProgress]] = [blk |-> disk, dst |-> sched.head[inProgress]]
        /\ load[sched.head[inProgress]].blk = disk
    BY <1>1 DEF IInv, Around, DiskOK
  <1>6. PICK h \in Threads : h = sched.head[inProgress]
    BY <1>5
  <1>7. w.len[blockedQueue] = 0
    BY <1>3, <1>5 DEF QueueKept
  <1>8. sched' = w /\ dst' = [dst EXCEPT ![h] = disk] /\ disk' = NoBlock
    <2>1. Length(sched, inProgress) # 0 /\ ~(Length(w, blockedQueue) > 0)
      BY <1>5, <1>7 DEF Length
    <2>2. sched.data[Peak(sched, inProgress)].dst = h
      BY <1>5, <1>6 DEF Peak
    <2> QED BY <1>2, <2>1, <2>2 DEF ata_irq_handler
  <1>9. dst'[h] = load[h].blk /\ \A u \in Entries \ {h} : dst'[u] = dst[u]
    BY <1>4, <1>5, <1>6, <1>8 DEF TypeInv
  <1>10. DiskOK'
    BY <1>3, <1>7, <1>8 DEF DiskOK
  <1>11. KeysOK'
    BY <1>1, <1>3, <1>8 DEF KeysOK, QueueKept, IInv, Around
  <1>12. BuffersOK'
    <2>1. PICK s : Sound(sched, s, Added, Waiters)
      BY DEF IInv
    <2>2. \A u \in Entries : sched.queue[u] = inProgress => u = h
      BY <1>6, <2>1, QueueNames DEF Sound, Lone
    <2> QED BY <1>4, <1>9, <2>2 DEF BuffersOK, IInv, Around
  <1>13. sched' = Unblock(sched, inProgress) /\ inProgress \in Drivers
    BY <1>2, <1>8, QueueNames
  <1> QED BY <1>1, <1>10, <1>11, <1>12, <1>13, WakeKeeps

LEMMA SerialKeeps ==
    ASSUME OneWaiter, TypeInv, IInv, serial_irq_handler
    PROVE  IInv' /\ SameSched
  <1>1. TakeIRQ /\ UNCHANGED <<sched, ring, disk, dst>>
    BY DEF serial_irq_handler
  <1>2. /\ Added' = Added /\ Waiters' = Waiters /\ Threads' = Threads /\ \A u : Body(u)' = Body(u)
        /\ \A u \in Entries : pc'[u] = pc[u]
        /\ pc'[Parent] = "boot" => pc[Parent] = "boot"
        /\ load' = load /\ cpu' = cpu /\ Threads \subseteq Entries
    BY <1>1, IrqFacts, BootFacts
  <1>3. Booting' /\ OnProcessor'
    BY <1>1, <1>2 DEF Booting, OnProcessor, IInv, Around, TypeInv
  <1>4. DiskOK' /\ KeysOK'
    BY <1>1, <1>2 DEF DiskOK, KeysOK, IInv, Around
  <1>5. BuffersOK' /\ AskingOK'
    BY <1>1, <1>2 DEF BuffersOK, AskingOK, IInv, Around
  <1>6. SameSched
    BY <1>1, <1>2 DEF SameSched
  <1> QED BY <1>1, <1>2, <1>3, <1>4, <1>5, <1>6 DEF IInv, Around

(***************************************************************************)
(* Every step of such a boot keeps the invariant.                          *)
(***************************************************************************)
LEMMA StepKeeps ==
    ASSUME OneWaiter, TypeInv, IInv, NEW t \in Threads, Step(t)
    PROVE  IInv'
  <1>1. /\ {"wait", "issued", "turn"} \subseteq Labels \ {"new"}
        /\ {"poll", "read", "start"} \subseteq Labels \ {"new", "boot"}
    BY DEF Labels
  <1>2. CASE GetCharEnter(t) \/ Printed(t) \/ Crawl(t)
    BY <1>2, QuietSteps
  <1>3. CASE GetCharPoll(t)
    BY <1>3, GetCharPollKeeps
  <1>4. CASE ReadBlock(t)
    BY <1>4, ReadBlockKeeps
  <1>5. CASE GetCharYield(t)
    BY <1>1, <1>5, YieldKeeps DEF GetCharYield
  <1>6. CASE ReadBlockYield(t)
    BY <1>1, <1>6, YieldKeeps DEF ReadBlockYield
  <1>7. CASE CrawlYield(t)
    BY <1>1, <1>7, YieldKeeps DEF CrawlYield
  <1>8. CASE ProcExit(t)
    BY <1>8, ExitKeeps
  <1> QED BY <1>2, <1>3, <1>4, <1>5, <1>6, <1>7, <1>8 DEF Step

LEMMA NextKeeps ==
    ASSUME OneWaiter, TypeInv, IInv, [Next]_vars
    PROVE  IInv'
  <1>1. CASE Kmain
    BY <1>1, AddThreadKeeps, ProcRunKeeps, BlockForIRQKeeps DEF Kmain
  <1>2. CASE Interrupt
    BY <1>2, KeyKeeps, DiskKeeps, SerialKeeps DEF Interrupt
  <1>3. CASE \E t \in Threads : Step(t)
    BY <1>3, StepKeeps
  <1>4. CASE UNCHANGED vars
    <2>1. /\ load' = load /\ sched' = sched /\ cpu' = cpu /\ pc' = pc /\ ring' = ring
          /\ disk' = disk /\ dst' = dst
      BY <1>4 DEF vars
    <2>2. Threads' = Threads /\ Added' = Added /\ Waiters' = Waiters /\ \A u : Body(u)' = Body(u)
      BY <2>1 DEF Threads, Added, Waiters, Body
    <2>3. Booting' /\ OnProcessor' /\ DiskOK' /\ KeysOK'
      BY <2>1, <2>2 DEF Booting, OnProcessor, DiskOK, KeysOK, IInv, Around
    <2>4. BuffersOK' /\ AskingOK'
      BY <2>1, <2>2 DEF BuffersOK, AskingOK, IInv, Around
    <2> QED BY <2>1, <2>2, <2>3, <2>4 DEF IInv, Around
  <1> QED BY <1>1, <1>2, <1>3, <1>4 DEF Next

\* In a boot with one waiter the queues, the scheduler and the drivers agree
\* at every step, whatever comes when.
THEOREM OneWaiterInvariant ==
    ASSUME OneWaiter
    PROVE  Spec => [](TypeInv /\ IInv)
  <1>1. Init => TypeInv /\ IInv
    BY InitType, InitSound
  <1>2. TypeInv /\ IInv /\ TypeInv' /\ [Next]_vars => IInv'
    BY NextKeeps
  <1>3. Spec => []TypeInv
    BY KernelInvariant
  <1> QED BY <1>1, <1>2, <1>3, PTL DEF Spec

\* Nothing that stops the machine happens: no entry is queued twice, no NULL
\* head followed, no freed process run, no disk interrupt without a request.
THEOREM OneWaiterNeverFaults ==
    ASSUME OneWaiter
    PROVE  Spec => []NeverFaults
  <1>1. IInv => NeverFaults
    BY DEF IInv, Sound, NeverFaults, Up
  <1> QED BY <1>1, OneWaiterInvariant, PTL

\* While the reader of the keyboard waits the ring is empty: no wake-up is lost
\* between GetChar's look at the ring and its wait.
THEOREM OneWaiterNoKeyWhileWaiting ==
    ASSUME OneWaiter
    PROVE  Spec => []NoKeyWhileWaiting
  <1>1. TypeInv /\ IInv => NoKeyWhileWaiting
    BY BootFacts DEF IInv, Around, KeysOK, NoKeyWhileWaiting
  <1> QED BY <1>1, OneWaiterInvariant, PTL

\* ReadBlock returns with the block that was asked for, however long the disk
\* takes and whoever runs meanwhile.
THEOREM OneWaiterReadReturnsItsBlock ==
    ASSUME OneWaiter
    PROVE  Spec => []ReadReturnsItsBlock
  <1>1. TypeInv /\ IInv => ReadReturnsItsBlock
    <2>1. SUFFICES ASSUME TypeInv, IInv, NEW t \in Threads, At(t, "read") \/ At(t, "exit"), Body(t) \in {"read", "mbr"}
                   PROVE  dst[t] = load[t].blk
      BY DEF ReadReturnsItsBlock
    <2>2. ~Waits(sched, t) /\ pc[t] \in {"read", "exit"}
      BY <2>1, OnCpu DEF IInv
    <2> QED BY <2>1, <2>2, QueueNames DEF IInv, Around, BuffersOK, Waits
  <1> QED BY <1>1, OneWaiterInvariant, PTL

\* A process that exited never gets the processor back.
THEOREM OneWaiterExitedNeverRuns ==
    ASSUME OneWaiter
    PROVE  Spec => []ExitedNeverRuns
  <1>1. TypeInv /\ IInv => ExitedNeverRuns
    BY QueueNames DEF TypeInv, IInv, Sound, Accounted, RunsCurProc, ExitedNeverRuns, Memories
  <1> QED BY <1>1, OneWaiterInvariant, PTL

\* The processor goes back to kmain only when every thread left is BLOCKED.
THEOREM OneWaiterParentRunsLast ==
    ASSUME OneWaiter
    PROVE  Spec => ParentRunsLast
  <1>1. TypeInv /\ IInv /\ [Next]_vars =>
           [cpu # Parent /\ cpu' = Parent /\ Up'
              => \A t \in Added \ sched'.freed : sched'.state[t] = "BLOCKED"]_vars
    <2>1. SUFFICES ASSUME TypeInv, IInv, Next, cpu # Parent, cpu' = Parent
                   PROVE  \A t \in Added \ sched'.freed : sched'.state[t] = "BLOCKED"
      OBVIOUS
    <2>2. /\ {"wait", "issued", "turn"} \subseteq Labels \ {"new"}
          /\ {"poll", "read", "start"} \subseteq Labels \ {"new", "boot"}
      BY DEF Labels
    <2>3. ~Kmain /\ ~Interrupt
      BY <2>1 DEF Kmain, AddThread, ProcRun, BlockForIRQ, KmainAt, Interrupt, TakeIRQ,
                  PS2_irq_handler, ata_irq_handler, serial_irq_handler
    <2>4. PICK t \in Threads : Step(t)
      BY <2>1, <2>3 DEF Next
    <2>5. CASE GetCharYield(t)
      BY <2>1, <2>2, <2>5, YieldKeeps DEF GetCharYield, Handed
    <2>6. CASE ReadBlockYield(t)
      BY <2>1, <2>2, <2>6, YieldKeeps DEF ReadBlockYield, Handed
    <2>7. CASE CrawlYield(t)
      BY <2>1, <2>2, <2>7, YieldKeeps DEF CrawlYield, Handed
    <2>8. CASE ProcExit(t)
      BY <2>1, <2>8, ExitKeeps DEF Handed
    <2>9. CASE GetCharEnter(t) \/ GetCharPoll(t) \/ ReadBlock(t) \/ Printed(t) \/ Crawl(t)
      BY <2>1, <2>9 DEF GetCharEnter, GetCharPoll, ReadBlock, Printed, Crawl
    <2> QED BY <2>4, <2>5, <2>6, <2>7, <2>8, <2>9 DEF Step
  <1> QED BY <1>1, OneWaiterInvariant, PTL DEF Spec, ParentRunsLast

-----------------------------------------------------------------------------
(***************************************************************************)
(* What Items reads off the links.                                         *)
(***************************************************************************)
Follows(m, q, n, s) ==
    /\ m.len[q] = n
    /\ s = [i \in 1 .. n |-> s[i]]
    /\ n > 0 => s[1] = m.head[q]
    /\ \A i \in 1 .. n - 1 : s[i + 1] = m.nxt[s[i]]
    /\ \A i \in 1 .. n : s[i] # NULL

LEMMA ItemsAre ==
    ASSUME NEW m, NEW q, NEW n \in Nat, NEW s, Follows(m, q, n, s)
    PROVE  Items(m, q) = s
  <1> DEFINE Walk(g) == g = [i \in 1 .. m.len[q] |-> IF i = 1 THEN m.head[q]
                                     ELSE IF g[i - 1] = NULL THEN NULL ELSE m.nxt[g[i - 1]]]
  <1>1. Walk(s)
    <2>1. ASSUME NEW i \in 1 .. n
          PROVE  s[i] = IF i = 1 THEN m.head[q] ELSE IF s[i - 1] = NULL THEN NULL ELSE m.nxt[s[i - 1]]
      <3>1. CASE i = 1
        BY <3>1 DEF Follows
      <3>2. CASE i # 1
        <4>1. i - 1 \in 1 .. n - 1 /\ i - 1 \in 1 .. n /\ (i - 1) + 1 = i
          BY <3>2
        <4>2. s[i] = m.nxt[s[i - 1]] /\ s[i - 1] # NULL
          BY <4>1 DEF Follows
        <4> QED BY <3>2, <4>2
      <3> QED BY <3>1, <3>2
    <2> QED BY <2>1 DEF Follows
  <1>2. PICK h : Walk(h) /\ Items(m, q) = h
    <2>1. Walk(CHOOSE g : Walk(g))
      BY <1>1
    <2> QED BY <2>1 DEF Items
  <1>3. /\ h = [i \in 1 .. n |-> h[i]]
        /\ \A i \in 1 .. n : h[i] = IF i = 1 THEN m.head[q] ELSE IF h[i - 1] = NULL THEN NULL ELSE m.nxt[h[i - 1]]
    BY <1>2 DEF Follows
  <1>4. ASSUME NEW i \in 1 .. n, i # 1, h[i - 1] = s[i - 1] PROVE h[i] = s[i]
    <2>1. i - 1 \in 1 .. n - 1 /\ i - 1 \in 1 .. n /\ (i - 1) + 1 = i
      BY <1>4
    <2>2. s[i] = m.nxt[s[i - 1]] /\ s[i - 1] # NULL
      BY <2>1 DEF Follows
    <2> QED BY <1>3, <1>4, <2>2
  <1>5. ASSUME 1 \in 1 .. n PROVE h[1] = s[1]
    <2>1. h[1] = m.head[q]
      BY <1>3, <1>5
    <2>2. n > 0
      BY <1>5
    <2> QED BY <2>1, <2>2 DEF Follows
  <1>6. ASSUME NEW i \in 1 .. n PROVE h[i] = s[i]
    <2> DEFINE S == {k \in 0 .. n : k = 0 \/ h[k] = s[k]}
    <2>1. 0 \in S
      OBVIOUS
    <2>2. ASSUME NEW k \in 0 .. n, k + 1 \in 0 .. n, k \in S PROVE k + 1 \in S
      <3>1. k + 1 \in 1 .. n /\ (k + 1) - 1 = k
        BY <2>2
      <3>2. CASE k = 0
        BY <1>5, <3>1, <3>2
      <3>3. CASE k # 0
        <4>1. k + 1 # 1 /\ h[(k + 1) - 1] = s[(k + 1) - 1]
          BY <2>2, <3>1, <3>3
        <4>2. h[k + 1] = s[k + 1]
          BY <1>4, <3>1, <4>1
        <4> QED BY <2>2, <4>2
      <3> QED BY <3>2, <3>3
    <2>3. \A k \in 0 .. n : k \in S
      <3> HIDE DEF S
      <3> QED BY <2>1, <2>2, Upward
    <2>4. i \in 0 .. n /\ i # 0
      OBVIOUS
    <2>5. i \in S
      <3> HIDE DEF S
      <3> QED BY <2>3, <2>4
    <2> QED BY <2>4, <2>5
  <1>7. s = [i \in 1 .. n |-> s[i]]
    BY DEF Follows
  <1> QED BY <1>2, <1>3, <1>6, <1>7

LEMMA SpellsItems ==
    ASSUME NEW m \in Memories, NEW s, Spells(m, s)
    PROVE  Items(m, runQueue) = s /\ WellLinked(m, runQueue)
  <1>1. PICK n \in Nat : n = Len(s) /\ s \in Seq(Entries) /\ Linked(m, s, n)
    BY DEF Spells
  <1>2. \A i \in 1 .. n : s[i] \in Entries /\ s[i] # NULL
    BY <1>1, ElementOfSeq, QueueNames
  <1>3. s = [i \in 1 .. n |-> s[i]] /\ DOMAIN s = 1 .. n
    BY <1>1
  <1>4. Items(m, runQueue) = s
    <2>1. m.len[runQueue] = n /\ (n > 0 => s[1] = m.head[runQueue])
      BY <1>1 DEF Linked
    <2>2. \A i \in 1 .. n - 1 : s[i + 1] = m.nxt[s[i]]
      BY <1>1 DEF Linked
    <2>3. Follows(m, runQueue, n, s)
      BY <1>2, <1>3, <2>1, <2>2 DEF Follows
    <2> QED BY <1>1, <2>3, ItemsAre
  <1>5. {s[i] : i \in 1 .. n} = {e \in Entries : m.queue[e] = runQueue}
    BY <1>1, <1>2 DEF Linked
  <1>6. \A i, j \in 1 .. n : s[i] = s[j] => i = j
    BY <1>1 DEF Linked
  <1>7. m.len[runQueue] > 0 => m.tail[runQueue] = s[m.len[runQueue]]
    BY <1>1 DEF Linked
  <1> QED BY <1>2, <1>3, <1>4, <1>5, <1>6, <1>7 DEF WellLinked

LEMMA LoneItems ==
    ASSUME NEW m \in Memories, NEW q \in Drivers, NEW W \in SUBSET Entries, Lone(m, q, W)
    PROVE  WellLinked(m, q)
  <1>1. PICK n \in {0, 1} : n = m.len[q]
    BY DEF Lone
  <1>2. PICK s : s = [i \in 1 .. n |-> m.head[q]]
    OBVIOUS
  <1>3. /\ \A i \in 1 .. n : i = 1 /\ s[i] = m.head[q] /\ s[i] # NULL /\ s[i] \in Entries
        /\ s = [i \in 1 .. n |-> s[i]] /\ DOMAIN s = 1 .. n /\ n \in Nat /\ (n > 0 => n = 1 /\ 1 \in 1 .. n)
    BY <1>1, <1>2 DEF Lone
  <1>4. Items(m, q) = s
    <2>1. \A i \in 1 .. n - 1 : s[i + 1] = m.nxt[s[i]]
      BY <1>1
    <2>2. Follows(m, q, n, s)
      BY <1>1, <1>3, <2>1 DEF Follows
    <2> QED BY <1>3, <2>2, ItemsAre
  <1>5. {s[i] : i \in 1 .. n} = {e \in Entries : m.queue[e] = q}
    <2>1. ASSUME NEW e \in Entries, m.queue[e] = q PROVE \E i \in 1 .. n : s[i] = e
      <3>1. n = 1 /\ e = m.head[q]
        BY <1>1, <2>1 DEF Lone
      <3> QED BY <1>3, <3>1
    <2>2. \A i \in 1 .. n : m.queue[s[i]] = q
      BY <1>1, <1>3 DEF Lone
    <2> QED BY <1>3, <2>1, <2>2
  <1>6. m.len[q] > 0 => m.tail[q] = s[m.len[q]]
    BY <1>1, <1>3 DEF Lone
  <1> QED BY <1>3, <1>4, <1>5, <1>6 DEF WellLinked

\* Every thread that was added and did not exit is the current process, on the
\* run queue once, or BLOCKED on one driver's queue; and every queue's links,
\* tail and length agree with the back pointers.
THEOREM OneWaiterEveryThreadAccounted ==
    ASSUME OneWaiter
    PROVE  Spec => []EveryThreadAccounted
  <1>1. TypeInv /\ IInv => EveryThreadAccounted
    <2>1. SUFFICES ASSUME TypeInv, IInv PROVE EveryThreadAccounted
      OBVIOUS
    <2>2. PICK s \in Seq(Entries) : Sound(sched, s, Added, Waiters)
      BY <2>1 DEF IInv
    <2>3. sched \in Memories /\ Waiters \in SUBSET Entries /\ Added \in SUBSET Entries
      BY <2>1, BootFacts
    <2>4. QueuesWellLinked
      <3>1. WellLinked(sched, runQueue)
        BY <2>2, <2>3, SpellsItems DEF Sound
      <3>2. \A q \in Drivers : WellLinked(sched, q)
        BY <2>2, <2>3, LoneItems DEF Sound
      <3> QED BY <3>1, <3>2, QueueNames DEF QueuesWellLinked
    <2>5. RunsCurProc
      BY <2>1 DEF TypeInv
    <2>6. ASSUME NEW t \in Added \ sched.freed
          PROVE  \/ sched.cur = t /\ CanRun(sched, t) /\ sched.queue[t] = NULL
                 \/ sched.queue[t] = runQueue /\ sched.state[t] = "RUNABLE" /\ sched.cur # t
                 \/ sched.queue[t] \in Queues \ {runQueue} /\ sched.state[t] = "BLOCKED"
      <3>1. Current(sched, t) => CanRun(sched, t)
        BY <2>1, <2>3, QueueNames DEF Current, CanRun, IInv, Around, OnProcessor
      <3>2. Queues \ {runQueue} = Drivers
        BY QueueNames
      <3> QED BY <2>2, <3>1, <3>2 DEF Sound, Accounted, Current, Queued, Blocked, Waits
    <2> QED BY <2>4, <2>5, <2>6 DEF EveryThreadAccounted
  <1> QED BY <1>1, OneWaiterInvariant, PTL

-----------------------------------------------------------------------------
(***************************************************************************)
(* The turns: what RoundRobin sees of a memory m whose run queue spells s. *)
(***************************************************************************)
Order(m, s) == (IF CurCanRun(m) THEN <<m.cur>> ELSE <<>>) \o s

Keeper(m) == IF m.cur = NULL \/ CurCanRun(m) THEN NULL ELSE m.cur

Asleep(m, A) == {t \in A : m.state[t] = "BLOCKED"}

\* The variables of RoundRobin, as Kernel maps them.
ready == Order(sched, Items(sched, runQueue))
waiting == Asleep(sched, Added)
kept == Keeper(sched)
gone == sched.freed

LEMMA HeadFirst ==
    ASSUME NEW S, NEW c \in S, NEW s \in Seq(S)
    PROVE  /\ <<c>> \o s \in Seq(S) /\ <<c>> \o s # <<>>
           /\ Head(<<c>> \o s) = c /\ Tail(<<c>> \o s) = s
  <1>1. <<c>> \in Seq(S) /\ Len(<<c>>) = 1 /\ <<c>>[1] = c
    OBVIOUS
  <1>2. Len(s) \in Nat
    BY LenProperties
  <1>3. PICK y \in Seq(S) : y = <<c>> \o s /\ Len(y) = 1 + Len(s) /\ y[1] = c /\ \A i \in 1 .. Len(s) : y[i + 1] = s[i]
    <2>1. /\ <<c>> \o s \in Seq(S) /\ Len(<<c>> \o s) = 1 + Len(s)
          /\ \A i \in 1 .. 1 + Len(s) : (<<c>> \o s)[i] = IF i <= 1 THEN <<c>>[i] ELSE s[i - 1]
      BY <1>1, ConcatProperties
    <2>2. (<<c>> \o s)[1] = c
      <3>1. 1 \in 1 .. 1 + Len(s)
        BY <1>2
      <3> QED BY <1>1, <2>1, <3>1
    <2>3. ASSUME NEW i \in 1 .. Len(s) PROVE (<<c>> \o s)[i + 1] = s[i]
      <3>1. i + 1 \in 1 .. 1 + Len(s) /\ ~(i + 1 <= 1) /\ (i + 1) - 1 = i
        BY <1>2
      <3> QED BY <2>1, <3>1
    <2> QED BY <2>1, <2>2, <2>3
  <1>4. y # <<>> /\ Len(y) - 1 = Len(s)
    BY <1>2, <1>3
  <1>5. Tail(y) = s
    <2>1. Tail(y) \in Seq(S) /\ Len(Tail(y)) = Len(s) /\ \A i \in 1 .. Len(Tail(y)) : Tail(y)[i] = y[i + 1]
      BY <1>4, HeadTailProperties
    <2>2. \A i \in 1 .. Len(Tail(y)) : Tail(y)[i] = s[i]
      BY <1>3, <2>1
    <2> QED BY <2>1, <2>2, SeqEqual
  <1>6. Head(y) = c
    BY <1>3, <1>4
  <1> QED BY <1>3, <1>4, <1>5, <1>6

\* The first of y followed by the rest of it.
LEMMA Whole ==
    ASSUME NEW S, NEW y \in Seq(S), y # <<>>
    PROVE  <<y[1]>> \o Tail(y) = y
  <1>1. PICK n \in Nat : n = Len(y) /\ n # 0 /\ y[1] \in S
    <2>1. Len(y) \in Nat \ {0}
      BY EmptySeq
    <2> QED BY <2>1, ElementOfSeq
  <1>2. Tail(y) \in Seq(S) /\ Len(Tail(y)) = n - 1 /\ \A i \in 1 .. n - 1 : Tail(y)[i] = y[i + 1]
    BY <1>1, HeadTailProperties
  <1>3. PICK t \in Seq(S) : t = Tail(y) /\ Len(t) = n - 1 /\ \A i \in 1 .. n - 1 : t[i] = y[i + 1]
    BY <1>2
  <1>4. <<y[1]>> \in Seq(S) /\ Len(<<y[1]>>) = 1 /\ <<y[1]>>[1] = y[1]
    BY <1>1
  <1>5. /\ <<y[1]>> \o t \in Seq(S) /\ Len(<<y[1]>> \o t) = n
        /\ \A i \in 1 .. n : (<<y[1]>> \o t)[i] = IF i <= 1 THEN <<y[1]>>[i] ELSE t[i - 1]
    <2>1. 1 + (n - 1) = n
      BY <1>1
    <2> QED BY <1>3, <1>4, <2>1, ConcatProperties
  <1>6. ASSUME NEW i \in 1 .. n PROVE (<<y[1]>> \o t)[i] = y[i]
    <2>1. CASE i = 1
      BY <1>4, <1>5, <2>1
    <2>2. CASE i # 1
      <3>1. i - 1 \in 1 .. n - 1 /\ (i - 1) + 1 = i /\ ~(i <= 1)
        BY <1>1, <2>2
      <3>2. t[i - 1] = y[(i - 1) + 1]
        BY <1>3, <3>1
      <3> QED BY <1>5, <3>1, <3>2
    <2> QED BY <2>1, <2>2
  <1>7. <<y[1]>> \o t = y
    BY <1>1, <1>5, <1>6, SeqEqual
  <1> QED BY <1>3, <1>7
-----------------------------------------------------------------------------
(***************************************************************************)
(* The operations of the scheduler, as RoundRobin sees them.               *)
(***************************************************************************)
SameOthers(m, w) ==
    /\ w.freed = m.freed
    /\ \A x \in Entries : w.state[x] = "BLOCKED" <=> m.state[x] = "BLOCKED"

\* The turn passes on, from one that can go on or from one that waits.
Passed(m, s, w, z) ==
    /\ SameOthers(m, w) /\ Keeper(w) = NULL /\ Order(m, s) # <<>>
    /\ \/ Keeper(m) = NULL /\ Order(w, z) = Append(Tail(Order(m, s)), Head(Order(m, s)))
       \/ Order(w, z) = Order(m, s)

LEMMA WentOrder ==
    ASSUME NEW m, NEW w, NEW z, NEW y \in Seq(Entries), y # <<>>, Went(m, w, z, y)
    PROVE  Order(w, z) = y /\ Keeper(w) = NULL /\ SameOthers(m, w)
  <1>1. w.cur # NULL /\ CurCanRun(w)
    BY QueueNames DEF Went, CurCanRun, CanRun
  <1>2. <<y[1]>> \o Tail(y) = y
    BY Whole
  <1> QED BY <1>1, <1>2 DEF Went, Order, Keeper, SameOthers

LEMMA CurFacts ==
    ASSUME NEW m \in Memories, NEW s, NEW A \in SUBSET Entries, NEW W \in SUBSET Entries, Sound(m, s, A, W)
    PROVE  /\ s \in Seq(Entries) /\ (Len(s) = 0 <=> s = <<>>)
           /\ m.cur # NULL => m.cur \in Entries /\ m.cur \in A /\ m.cur \notin m.freed
           /\ CurCanRun(m) => /\ Order(m, s) \in Seq(Entries) /\ Order(m, s) # <<>>
                              /\ Head(Order(m, s)) = m.cur /\ Tail(Order(m, s)) = s
           /\ ~CurCanRun(m) => Order(m, s) = s
  <1>1. s \in Seq(Entries)
    BY DEF Sound, Spells
  <1>2. Len(s) = 0 <=> s = <<>>
    BY <1>1, EmptySeq
  <1>3. m.cur # NULL => m.cur \in Entries /\ m.cur \in A /\ m.cur \notin m.freed
    BY DEF Sound, Accounted
  <1>4. ASSUME CurCanRun(m)
        PROVE  /\ Order(m, s) \in Seq(Entries) /\ Order(m, s) # <<>>
               /\ Head(Order(m, s)) = m.cur /\ Tail(Order(m, s)) = s
    <2>1. Order(m, s) = <<m.cur>> \o s /\ m.cur \in Entries
      BY <1>3, <1>4 DEF Order, CurCanRun
    <2> QED BY <1>1, <2>1, HeadFirst
  <1>5. ASSUME ~CurCanRun(m) PROVE Order(m, s) = s
    <2>1. <<>> \o s = s
      BY <1>1, ConcatEmptySeq
    <2> QED BY <1>5, <2>1 DEF Order
  <1> QED BY <1>1, <1>2, <1>3, <1>4, <1>5

\* Reschedule, called by one that did not exit.
LEMMA ChosePasses ==
    ASSUME NEW m \in Memories, NEW s, NEW A \in SUBSET Entries, NEW W \in SUBSET Entries, Sound(m, s, A, W),
           m.cur # NULL => m.state[m.cur] # "EXITED", NEW w, NEW z, Chose(m, s, w, z)
    PROVE  (w = m /\ z = s) \/ Passed(m, s, w, z)
  <1>1. Reap(m) = m
    BY DEF Reap
  <1>2. /\ s \in Seq(Entries) /\ (Len(s) = 0 <=> s = <<>>)
        /\ m.cur # NULL => m.cur \in Entries
        /\ CurCanRun(m) => Order(m, s) # <<>> /\ Head(Order(m, s)) = m.cur /\ Tail(Order(m, s)) = s
        /\ ~CurCanRun(m) => Order(m, s) = s
    BY CurFacts
  <1>3. CASE Len(s) = 0
    BY <1>1, <1>3 DEF Chose
  <1>4. CASE Len(s) # 0 /\ CurCanRun(m)
    <2>1. Went(m, w, z, Append(s, m.cur))
      BY <1>1, <1>4 DEF Chose
    <2>2. Append(s, m.cur) \in Seq(Entries) /\ Append(s, m.cur) # <<>>
      <3>1. m.cur \in Entries
        BY <1>2, <1>4 DEF CurCanRun
      <3> QED BY <1>2, <3>1, AppendProperties
    <2>3. Order(w, z) = Append(s, m.cur) /\ Keeper(w) = NULL /\ SameOthers(m, w)
      BY <2>1, <2>2, WentOrder
    <2>4. Keeper(m) = NULL
      BY <1>4 DEF Keeper
    <2> QED BY <1>2, <1>4, <2>3, <2>4 DEF Passed
  <1>5. CASE Len(s) # 0 /\ ~CurCanRun(m)
    <2>1. Went(m, w, z, s)
      BY <1>1, <1>5 DEF Chose
    <2>2. Order(w, z) = s /\ Keeper(w) = NULL /\ SameOthers(m, w)
      BY <1>2, <1>5, <2>1, WentOrder
    <2> QED BY <1>2, <1>5, <2>2 DEF Passed
  <1> QED BY <1>3, <1>4, <1>5

\* Reschedule, called by c that exited.
Dying(m, c) == m.cur = c /\ m.state[c] = "EXITED"

ReapedInto(m, c, s, w, z) ==
    /\ Order(w, z) = s /\ Keeper(w) = NULL /\ w.freed = m.freed \cup {c}
    /\ \A x \in Entries : w.state[x] = "BLOCKED" <=> m.state[x] = "BLOCKED"

LEMMA ChoseReaps ==
    ASSUME NEW m \in Memories, NEW s, NEW A \in SUBSET Entries, NEW W \in SUBSET Entries, Sound(m, s, A, W),
           NEW c \in Entries, Dying(m, c), NEW w, NEW z, Chose(m, s, w, z)
    PROVE  ReapedInto(m, c, s, w, z)
  <1>0. m.cur = c /\ m.state[c] = "EXITED"
    BY DEF Dying
  <1> SUFFICES /\ Order(w, z) = s /\ Keeper(w) = NULL /\ w.freed = m.freed \cup {c}
               /\ \A x \in Entries : w.state[x] = "BLOCKED" <=> m.state[x] = "BLOCKED"
    BY DEF ReapedInto
  <1> USE <1>0
  <1>1. c # NULL /\ c \notin m.freed
    BY CurFacts, QueueNames
  <1>2. PICK r \in Memories : ReapedSet(m, r, c)
    BY SetReaped
  <1>3. Reap(m) = r
    BY <1>1, <1>2 DEF Reap, ReapedSet
  <1>4. r.cur = NULL /\ r.state = m.state /\ r.freed = m.freed \cup {c} /\ ~CurCanRun(r)
    BY <1>2 DEF ReapedSet, CurCanRun
  <1>5. s \in Seq(Entries) /\ (Len(s) = 0 <=> s = <<>>)
    BY CurFacts
  <1>6. CASE Len(s) = 0
    <2>1. w = r /\ z = s
      BY <1>3, <1>6 DEF Chose
    <2>2. <<>> \o s = s
      BY <1>5, ConcatEmptySeq
    <2> QED BY <1>4, <2>1, <2>2 DEF Order, Keeper
  <1>7. CASE Len(s) # 0
    <2>1. Went(r, w, z, s)
      BY <1>3, <1>4, <1>7 DEF Chose
    <2>2. Order(w, z) = s /\ Keeper(w) = NULL /\ SameOthers(r, w)
      BY <1>5, <1>7, <2>1, WentOrder
    <2> QED BY <1>4, <2>2 DEF SameOthers
  <1> QED BY <1>6, <1>7

\* The wake-up of h.
Rises(m, s, w, z, A, h) ==
    /\ h \in Asleep(m, A) /\ Asleep(w, A) = Asleep(m, A) \ {h} /\ w.freed = m.freed
    /\ Order(w, z) = IF h = Keeper(m) THEN <<h>> \o Order(m, s) ELSE Append(Order(m, s), h)
    /\ Keeper(w) = IF h = Keeper(m) THEN NULL ELSE Keeper(m)

LEMMA WakeRises ==
    ASSUME NEW m \in Memories, NEW s, NEW A \in SUBSET Entries, NEW W \in SUBSET Entries, Sound(m, s, A, W),
           NEW w, NEW z, NEW h \in A \ m.freed, Wakes(m, s, w, z, h)
    PROVE  Rises(m, s, w, z, A, h)
  <1>1. h \in Entries /\ h # NULL
    BY QueueNames
  <1>2. h \in Asleep(m, A)
    BY DEF Asleep, Wakes
  <1>3. Asleep(w, A) = Asleep(m, A) \ {h}
    <2>1. w.state[h] # "BLOCKED"
      BY DEF Wakes
    <2>2. \A x \in A \ {h} : w.state[x] = m.state[x]
      BY DEF Wakes
    <2> QED BY <2>1, <2>2 DEF Asleep
  <1>4. /\ s \in Seq(Entries)
        /\ m.cur # NULL => m.cur \in Entries
        /\ CurCanRun(m) => Order(m, s) \in Seq(Entries)
        /\ ~CurCanRun(m) => Order(m, s) = s
    BY CurFacts
  <1>5. CASE h = m.cur
    <2>1. ~CurCanRun(m) /\ Keeper(m) = h
      BY <1>1, <1>5 DEF Wakes, CurCanRun, CanRun, Keeper
    <2>2. CurCanRun(w) /\ w.cur = h /\ z = s
      BY <1>1, <1>5 DEF Wakes, CurCanRun, CanRun
    <2>3. Order(w, z) = <<h>> \o Order(m, s) /\ Keeper(w) = NULL
      BY <1>4, <2>1, <2>2 DEF Order, Keeper
    <2> QED BY <1>2, <1>3, <2>1, <2>3 DEF Rises, Wakes
  <1>6. CASE h # m.cur
    <2>1. z = Append(s, h) /\ w.cur = m.cur /\ (m.cur # NULL => w.state[m.cur] = m.state[m.cur])
      BY <1>4, <1>6 DEF Wakes
    <2>2. (CurCanRun(w) <=> CurCanRun(m)) /\ Keeper(w) = Keeper(m)
      BY <2>1 DEF CurCanRun, CanRun, Keeper
    <2>3. h # Keeper(m)
      BY <1>1, <1>6 DEF Keeper
    <2>4. Order(w, z) = Append(Order(m, s), h)
      <3>1. PICK x \in Seq(Entries) : x = IF CurCanRun(m) THEN <<m.cur>> ELSE <<>>
        <4>1. CurCanRun(m) => <<m.cur>> \in Seq(Entries)
          BY <1>4 DEF CurCanRun
        <4>2. <<>> \in Seq(Entries)
          BY EmptySeq
        <4> QED BY <4>1, <4>2
      <3>2. Order(m, s) = x \o s /\ Order(w, z) = x \o Append(s, h)
        BY <2>1, <2>2, <3>1 DEF Order
      <3>3. x \o s \in Seq(Entries) /\ <<h>> \in Seq(Entries)
        BY <1>1, <1>4, ConcatProperties
      <3>4. Append(s, h) = s \o <<h>> /\ Append(x \o s, h) = (x \o s) \o <<h>>
        BY <1>1, <1>4, <3>3, AppendIsConcat
      <3>5. (x \o s) \o <<h>> = x \o (s \o <<h>>)
        BY <1>4, <3>3, ConcatAssociative
      <3> QED BY <3>2, <3>4, <3>5
    <2> QED BY <1>2, <1>3, <2>2, <2>3, <2>4 DEF Rises, Wakes
  <1> QED BY <1>5, <1>6

-----------------------------------------------------------------------------
(***************************************************************************)
(* The steps of the kernel, as RoundRobin sees them.                       *)
(***************************************************************************)
LEMMA Seen ==
    ASSUME TypeInv, NEW s, Sound(sched, s, Added, Waiters)
    PROVE  ready = Order(sched, s)
  <1>1. sched \in Memories /\ Spells(sched, s)
    BY DEF TypeInv, Sound
  <1> QED BY <1>1, SpellsItems DEF ready

LEMMA SeenNext ==
    ASSUME TypeInv', NEW s, Sound(sched', s, Added', Waiters')
    PROVE  ready' = Order(sched', s)
  <1>1. sched' \in Memories /\ Spells(sched', s)
    BY DEF TypeInv, Sound
  <1>2. Items(sched', runQueue) = s
    BY <1>1, SpellsItems
  <1> QED BY <1>2 DEF ready

\* Nothing the scheduler promises about changed.
LEMMA Stutters ==
    ASSUME ready' = ready, waiting' = waiting, kept' = kept, gone' = gone
    PROVE  UNCHANGED RR!vars
  BY DEF RR!vars, ready, waiting, kept, gone, Order, Asleep, Keeper

LEMMA Yields ==
    ASSUME kept = NULL, ready # <<>>, ready' = Append(Tail(ready), Head(ready)),
           waiting' = waiting, kept' = kept, gone' = gone
    PROVE  RR!Next
  BY DEF RR!Next, RR!Yield, RR!Turn, ready, waiting, kept, gone, Order, Asleep, Keeper

LEMMA GivesUp ==
    ASSUME kept # NULL, ready # <<>>, kept' = NULL, ready' = ready, waiting' = waiting, gone' = gone
    PROVE  RR!Next
  BY DEF RR!Next, RR!GiveUp, ready, waiting, kept, gone, Order, Asleep, Keeper

LEMMA Exits ==
    ASSUME kept = NULL, ready # <<>>, ready' = Tail(ready), gone' = gone \cup {Head(ready)},
           waiting' = waiting, kept' = kept
    PROVE  RR!Next
  BY DEF RR!Next, RR!Exit, RR!Turn, ready, waiting, kept, gone, Order, Asleep, Keeper

LEMMA BeginsToWait ==
    ASSUME kept = NULL, ready # <<>>, ready' = Tail(ready), waiting' = waiting \cup {Head(ready)},
           kept' = Head(ready), gone' = gone
    PROVE  RR!Next
  BY DEF RR!Next, RR!Wait, RR!Turn, ready, waiting, kept, gone, Order, Asleep, Keeper

LEMMA IsWoken ==
    ASSUME NEW t \in Entries, t \in waiting, waiting' = waiting \ {t}, gone' = gone,
           ready' = IF t = kept THEN <<t>> \o ready ELSE Append(ready, t),
           kept' = IF t = kept THEN NULL ELSE kept
    PROVE  RR!Next
  BY DEF RR!Next, RR!Wake, ready, waiting, kept, gone, Order, Asleep, Keeper

LEMMA Arrives ==
    ASSUME NEW t \in Entries, t \notin waiting, t \notin gone, \A i \in 1 .. Len(ready) : ready[i] # t,
           ready' = Append(ready, t), waiting' = waiting, kept' = kept, gone' = gone
    PROVE  RR!Next
  BY DEF RR!Next, RR!Arrive, RR!Ready, ready, waiting, kept, gone, Order, Asleep, Keeper

\* A step that leaves the scheduler alone.
LEMMA SameTurns ==
    ASSUME SameSched
    PROVE  UNCHANGED RR!vars
  <1>1. ready' = ready /\ waiting' = waiting /\ kept' = kept /\ gone' = gone
    BY DEF SameSched, ready, waiting, kept, gone
  <1> QED BY <1>1, Stutters

\* Who runs is not waiting: it is whose turn it is.
LEMMA RunnersTurn ==
    ASSUME OneWaiter, TypeInv, NEW s, Sound(sched, s, Added, Waiters), NEW t \in Entries,
           sched.cur = t, ~Waits(sched, t), sched.state[t] # "EXITED"
    PROVE  /\ ready = Order(sched, s) /\ ready # <<>> /\ Head(ready) = t /\ Tail(ready) = s
           /\ kept = NULL /\ sched.state[t] = "RUNNING"
  <1>1. t # NULL /\ sched \in Memories /\ Added \in SUBSET Entries /\ Waiters \in SUBSET Entries
    BY BootFacts, QueueNames
  <1>2. sched.state[t] = "RUNNING"
    BY <1>1 DEF Sound, Accounted, Current, Queued, Blocked
  <1>3. CurCanRun(sched)
    BY <1>1, <1>2 DEF CurCanRun, CanRun
  <1>4. Order(sched, s) # <<>> /\ Head(Order(sched, s)) = t /\ Tail(Order(sched, s)) = s
    BY <1>1, <1>3, CurFacts
  <1> QED BY <1>2, <1>3, <1>4, Seen DEF kept, Keeper

LEMMA TurnsPass ==
    ASSUME OneWaiter, TypeInv, TypeInv', IInv, TookTurn
    PROVE  RR!Next \/ UNCHANGED RR!vars
  <1>1. PICK s : Sound(sched, s, Added, Waiters) /\ TurnFrom(sched, s)
    BY DEF TookTurn
  <1>2. PICK z \in Seq(Entries) : Sound(sched', z, Added, Waiters) /\ Chose(sched, s, sched', z)
    BY <1>1 DEF TurnFrom
  <1>3. Added' = Added /\ Waiters' = Waiters /\ Added \in SUBSET Entries /\ Waiters \in SUBSET Entries /\ sched \in Memories
    BY BootFacts DEF TookTurn
  <1>4. ready = Order(sched, s) /\ ready' = Order(sched', z)
    BY <1>1, <1>2, <1>3, Seen, SeenNext
  <1>5. (sched' = sched /\ z = s) \/ Passed(sched, s, sched', z)
    <2>1. sched.cur # NULL => sched.state[sched.cur] # "EXITED"
      BY DEF IInv, Around, OnProcessor
    <2> QED BY <1>1, <1>2, <1>3, <2>1, ChosePasses
  <1>6. CASE sched' = sched /\ z = s
    <2>1. ready' = ready /\ waiting' = waiting /\ kept' = kept /\ gone' = gone
      BY <1>3, <1>4, <1>6 DEF waiting, kept, gone
    <2> QED BY <2>1, Stutters
  <1>7. CASE Passed(sched, s, sched', z)
    <2>1. waiting' = waiting /\ gone' = gone
      BY <1>3, <1>7 DEF Passed, SameOthers, waiting, gone, Asleep
    <2>2. kept' = NULL /\ ready # <<>>
      BY <1>4, <1>7 DEF Passed, kept
    <2>3. \/ kept = NULL /\ ready' = Append(Tail(ready), Head(ready))
          \/ ready' = ready
      BY <1>4, <1>7 DEF Passed, kept
    <2> QED BY <2>1, <2>2, <2>3, Yields, GivesUp, Stutters
  <1> QED BY <1>5, <1>6, <1>7

LEMMA TurnsEnd ==
    ASSUME OneWaiter, TypeInv, TypeInv', NEW t \in Entries, LeftFor(t)
    PROVE  RR!Next
  <1>1. PICK m : m = [sched EXCEPT !.state[t] = "EXITED"]
    OBVIOUS
  <1>2. PICK s : Sound(sched, s, Added, Waiters) /\ Sound(m, s, Added, Waiters) /\ TurnFrom(m, s)
    BY <1>1 DEF LeftFor
  <1>3. PICK z \in Seq(Entries) : Sound(sched', z, Added, Waiters) /\ Chose(m, s, sched', z)
    BY <1>2 DEF TurnFrom
  <1>4. /\ Added' = Added /\ Waiters' = Waiters /\ Added \in SUBSET Entries /\ Waiters \in SUBSET Entries
        /\ sched \in Memories /\ sched.cur = t /\ ~Waits(sched, t) /\ sched.state[t] # "EXITED"
    BY BootFacts DEF LeftFor
  <1>5. PICK w \in Memories : StateSet(sched, w, t, "EXITED")
    <2>1. "EXITED" \in ProcState
      BY DEF ProcState
    <2> QED BY <1>4, <2>1, SetState
  <1>6. /\ m = w /\ m.cur = t /\ m.freed = sched.freed /\ m.state[t] = "EXITED"
        /\ \A x \in Entries \ {t} : m.state[x] = sched.state[x]
    BY <1>1, <1>4, <1>5 DEF StateSet, Links, Memories
  <1>7. /\ ready = Order(sched, s) /\ ready # <<>> /\ Head(ready) = t /\ Tail(ready) = s
        /\ kept = NULL /\ sched.state[t] = "RUNNING"
    BY <1>2, <1>4, RunnersTurn
  <1>8. /\ Order(sched', z) = s /\ Keeper(sched') = NULL /\ sched'.freed = m.freed \cup {t}
        /\ \A x \in Entries : sched'.state[x] = "BLOCKED" <=> m.state[x] = "BLOCKED"
    <2>1. PICK v : v = sched'
      OBVIOUS
    <2>2. w \in Memories /\ Dying(w, t) /\ Sound(w, s, Added, Waiters)
      BY <1>2, <1>5, <1>6 DEF Dying
    <2>3. Chose(w, s, v, z)
      BY <1>3, <1>6, <2>1
    <2>4. PICK a \in SUBSET Entries, b \in SUBSET Entries : a = Added /\ b = Waiters
      BY <1>4
    <2>5. Sound(w, s, a, b)
      BY <2>2, <2>4
    <2>6. ReapedInto(w, t, s, v, z)
      BY <2>2, <2>3, <2>5, ChoseReaps
    <2>7. /\ Order(v, z) = s /\ Keeper(v) = NULL /\ v.freed = w.freed \cup {t}
          /\ \A x \in Entries : v.state[x] = "BLOCKED" <=> w.state[x] = "BLOCKED"
      BY <2>6 DEF ReapedInto
    <2> QED BY <2>1, <2>7, <1>6
  <1>9. ready' = Order(sched', z)
    BY <1>3, <1>4, SeenNext
  <1>10. waiting' = waiting
    BY <1>4, <1>6, <1>7, <1>8 DEF waiting, Asleep
  <1>11. ready' = Tail(ready) /\ gone' = gone \cup {Head(ready)} /\ kept' = kept
    BY <1>6, <1>7, <1>8, <1>9 DEF gone, kept
  <1> QED BY <1>7, <1>10, <1>11, Exits

LEMMA TurnsWait ==
    ASSUME OneWaiter, TypeInv, TypeInv', IInv, NEW t \in Entries, Parks(t)
    PROVE  RR!Next
  <1>1. PICK s : Sound(sched, s, Added, Waiters) /\ Sound(sched', s, Added, Waiters)
    BY DEF Parks
  <1>2. PICK q \in Drivers : BlockedOn(sched, sched', t, q)
    BY DEF Parks
  <1>3. /\ Added' = Added /\ Waiters' = Waiters /\ Added \in SUBSET Entries /\ Waiters \in SUBSET Entries
        /\ sched \in Memories /\ sched.cur = t /\ ~Waits(sched, t) /\ t # NULL
    BY BootFacts, QueueNames DEF Parks
  <1>4. sched.state[t] # "EXITED"
    BY <1>3 DEF IInv, Around, OnProcessor
  <1>5. /\ ready = Order(sched, s) /\ ready # <<>> /\ Head(ready) = t /\ Tail(ready) = s
        /\ kept = NULL /\ sched.state[t] = "RUNNING"
    BY <1>1, <1>3, <1>4, RunnersTurn
  <1>6. /\ sched'.cur = t /\ sched'.freed = sched.freed /\ sched'.state[t] = "BLOCKED"
        /\ \A x \in Entries \ {t} : sched'.state[x] = sched.state[x]
    BY <1>2, <1>3 DEF BlockedOn, Memories
  <1>7. ~CurCanRun(sched')
    BY <1>6 DEF CurCanRun, CanRun
  <1>8. ready' = s
    <2>1. ready' = Order(sched', s)
      BY <1>1, <1>3, SeenNext
    <2>2. sched' \in Memories
      BY DEF TypeInv
    <2>3. Order(sched', s) = s
      BY <1>1, <1>3, <1>7, <2>2, CurFacts
    <2> QED BY <2>1, <2>3
  <1>9. t \in Added
    BY <1>1, <1>3 DEF Sound, Accounted
  <1>10. waiting' = waiting \cup {t}
    BY <1>3, <1>6, <1>9 DEF waiting, Asleep
  <1>11. kept' = t /\ gone' = gone
    BY <1>3, <1>6, <1>7 DEF kept, gone, Keeper
  <1> QED BY <1>5, <1>8, <1>10, <1>11, BeginsToWait

LEMMA TurnsResume ==
    ASSUME OneWaiter, TypeInv, TypeInv', Stirred
    PROVE  RR!Next \/ UNCHANGED RR!vars
  <1>1. PICK s, z : Sound(sched, s, Added, Waiters) /\ Sound(sched', z, Added, Waiters) /\ Woke(sched, s, sched', z, Added)
    BY DEF Stirred
  <1>2. /\ Added' = Added /\ Waiters' = Waiters /\ Added \in SUBSET Entries /\ Waiters \in SUBSET Entries
        /\ sched \in Memories
    BY BootFacts DEF Stirred
  <1>3. ready = Order(sched, s) /\ ready' = Order(sched', z)
    BY <1>1, <1>2, Seen, SeenNext
  <1>4. CASE sched' = sched /\ z = s
    <2>1. ready' = ready /\ waiting' = waiting /\ kept' = kept /\ gone' = gone
      BY <1>2, <1>3, <1>4 DEF waiting, kept, gone
    <2> QED BY <2>1, Stutters
  <1>5. ASSUME NEW h \in Added \ sched.freed, Wakes(sched, s, sched', z, h) PROVE RR!Next
    <2>1. Rises(sched, s, sched', z, Added, h)
      BY <1>1, <1>2, <1>5, WakeRises
    <2>2. h \in Entries /\ h \in waiting /\ waiting' = waiting \ {h} /\ gone' = gone
      BY <1>2, <2>1 DEF Rises, waiting, gone
    <2>3. /\ ready' = IF h = kept THEN <<h>> \o ready ELSE Append(ready, h)
          /\ kept' = IF h = kept THEN NULL ELSE kept
      BY <1>3, <2>1 DEF Rises, kept
    <2> QED BY <2>2, <2>3, IsWoken
  <1> QED BY <1>1, <1>4, <1>5 DEF Woke

LEMMA TurnsBegin ==
    ASSUME OneWaiter, TypeInv, TypeInv', Arrived
    PROVE  RR!Next
  <1>1. PICK t \in Threads \ Added : \E s, z :
           /\ Added' = Added \cup {t} /\ Waiters' = Waiters /\ sched.cur = NULL /\ sched.freed = {}
           /\ Sound(sched, s, Added, Waiters) /\ Born(sched, s, sched', z, t, Added, Waiters)
    BY DEF Arrived
  <1>2. PICK s, z :
           /\ Added' = Added \cup {t} /\ Waiters' = Waiters /\ sched.cur = NULL /\ sched.freed = {}
           /\ Sound(sched, s, Added, Waiters) /\ Born(sched, s, sched', z, t, Added, Waiters)
    BY <1>1
  <1>3. /\ Added \in SUBSET Entries /\ Waiters \in SUBSET Entries /\ sched \in Memories /\ t \in Entries
        /\ t \notin Added
    BY BootFacts
  <1>4. Sound(sched', z, Added', Waiters') /\ z = Append(s, t) /\ sched'.cur = NULL /\ sched'.freed = {}
        /\ sched'.state[t] = "RUNABLE" /\ \A x \in Entries \ {t} : sched'.state[x] = sched.state[x]
    BY <1>2 DEF Born
  <1>5. ~CurCanRun(sched) /\ ~CurCanRun(sched')
    BY <1>2, <1>4 DEF CurCanRun
  <1>6. s \in Seq(Entries) /\ ready = s
    <2>1. ready = Order(sched, s)
      BY <1>2, Seen
    <2> QED BY <1>2, <1>3, <1>5, <2>1, CurFacts
  <1>7. ready' = Append(s, t)
    <2>1. ready' = Order(sched', z)
      BY <1>4, SeenNext
    <2>2. z \in Seq(Entries)
      BY <1>3, <1>4, <1>6, AppendProperties
    <2>3. <<>> \o z = z
      BY <2>2, ConcatEmptySeq
    <2> QED BY <1>4, <1>5, <2>1, <2>3 DEF Order
  <1>8. waiting' = waiting /\ kept' = kept /\ gone' = gone
    BY <1>2, <1>3, <1>4, <1>5 DEF waiting, kept, gone, Asleep, Keeper
  <1>9. t \notin waiting /\ t \notin gone
    BY <1>2, <1>3 DEF waiting, gone, Asleep
  <1>10. \A i \in 1 .. Len(ready) : ready[i] # t
    <2>1. sched.queue[t] = NULL
      BY <1>2, <1>3 DEF Sound, Accounted
    <2>2. \A i \in 1 .. Len(s) : sched.queue[s[i]] = runQueue
      BY <1>2 DEF Sound, Spells, Linked
    <2> QED BY <1>6, <2>1, <2>2, QueueNames
  <1> QED BY <1>3, <1>6, <1>7, <1>8, <1>9, <1>10, Arrives

-----------------------------------------------------------------------------
LEMMA NextTurns ==
    ASSUME OneWaiter, TypeInv, TypeInv', IInv, [Next]_vars
    PROVE  RR!Next \/ UNCHANGED RR!vars
  <1>1. CASE AddThread
    BY <1>1, AddThreadKeeps, TurnsBegin
  <1>2. CASE ProcRun
    BY <1>2, ProcRunKeeps, TurnsPass
  <1>3. CASE BlockForIRQ
    BY <1>3, BlockForIRQKeeps, SameTurns
  <1>4. CASE PS2_irq_handler
    BY <1>4, KeyKeeps, TurnsResume
  <1>5. CASE ata_irq_handler
    BY <1>5, DiskKeeps, TurnsResume
  <1>6. CASE serial_irq_handler
    BY <1>6, SerialKeeps, SameTurns
  <1>7. ASSUME NEW t \in Threads, Step(t) PROVE RR!Next \/ UNCHANGED RR!vars
    <2>1. /\ {"wait", "issued", "turn"} \subseteq Labels \ {"new"}
          /\ {"poll", "read", "start"} \subseteq Labels \ {"new", "boot"}
          /\ t \in Entries
      BY BootFacts DEF Labels
    <2>2. CASE GetCharEnter(t) \/ Printed(t) \/ Crawl(t)
      BY <2>2, QuietSteps, SameTurns
    <2>3. CASE GetCharPoll(t)
      BY <2>1, <2>3, GetCharPollKeeps, SameTurns, TurnsWait
    <2>4. CASE ReadBlock(t)
      BY <2>1, <2>4, ReadBlockKeeps, TurnsWait
    <2>5. CASE GetCharYield(t)
      BY <2>1, <2>5, YieldKeeps, TurnsPass DEF GetCharYield
    <2>6. CASE ReadBlockYield(t)
      BY <2>1, <2>6, YieldKeeps, TurnsPass DEF ReadBlockYield
    <2>7. CASE CrawlYield(t)
      BY <2>1, <2>7, YieldKeeps, TurnsPass DEF CrawlYield
    <2>8. CASE ProcExit(t)
      BY <2>1, <2>8, ExitKeeps, TurnsEnd
    <2> QED BY <1>7, <2>2, <2>3, <2>4, <2>5, <2>6, <2>7, <2>8 DEF Step
  <1>8. CASE UNCHANGED vars
    <2>1. SameSched
      BY <1>8 DEF vars, SameSched, Added, Threads
    <2> QED BY <2>1, SameTurns
  <1> QED BY <1>1, <1>2, <1>3, <1>4, <1>5, <1>6, <1>7, <1>8 DEF Next, Kmain, Interrupt

LEMMA InitTurns ==
    ASSUME Init
    PROVE  RR!Init
  <1>1. TypeInv /\ IInv
    BY InitType, InitSound
  <1>2. sched = Idle /\ sched.cur = NULL /\ sched.freed = {} /\ sched.len = [q \in Queues |-> 0]
    BY DEF Init, Idle, EmptyQueues
  <1>3. Added = {}
    <2>1. pc = [t \in Entries \cup {Parent} |-> IF t = Parent THEN "boot" ELSE "new"] /\ load \in Workloads
      BY DEF Init
    <2>2. Threads \subseteq Entries /\ Parent \notin Entries
      BY <2>1, KernelAssumption DEF Threads
    <2> QED BY <2>1, <2>2 DEF Added
  <1>4. PICK s : Sound(sched, s, Added, Waiters)
    BY <1>1 DEF IInv
  <1>5. s = <<>>
    <2>1. s \in Seq(Entries) /\ Len(s) = 0
      BY <1>2, <1>4, QueueNames DEF Sound, Spells, Linked
    <2> QED BY <2>1, EmptySeq
  <1>6. Items(sched, runQueue) = <<>> /\ ~CurCanRun(sched)
    <2>1. sched \in Memories /\ Spells(sched, s)
      BY <1>1, <1>4 DEF TypeInv, Sound
    <2> QED BY <1>2, <1>5, <2>1, SpellsItems DEF CurCanRun
  <1> QED BY <1>2, <1>3, <1>6 DEF RR!Init

\* In a boot with one waiter the links of the run queue, curProc and the states
\* of the processes implement turns in order: Reschedule passes the turn on,
\* BlockCurProc takes a thread out of the order, and Unblock puts it back, at the
\* end or, if it had not yet left the processor, where it was.
THEOREM OneWaiterTakesTurns ==
    ASSUME OneWaiter
    PROVE  Spec => TakesTurns
  <1>1. Init => RR!Init
    BY InitTurns
  <1>2. TypeInv /\ IInv /\ TypeInv' /\ [Next]_vars => [RR!Next]_RR!vars
    BY NextTurns
  <1> QED BY <1>1, <1>2, OneWaiterInvariant, PTL DEF Spec, TakesTurns, RR!Spec
=============================================================================
