---------------------------- MODULE KernelProofs ----------------------------
(***************************************************************************)
(* For any workload, any number of threads and whatever a fresh QueueEntry *)
(* holds, the boots in which the queues fail among them: every variable    *)
(* keeps its type, who holds the processor is curProc, kmain never halts   *)
(* with interrupts disabled, and the keyboard's ring is a FIFO that drops  *)
(* its oldest code.                                                        *)
(***************************************************************************)
EXTENDS Kernel, FiniteSetTheorems, SequenceTheorems, WellFoundedInduction, TLAPS

(***************************************************************************)
(* Induction up to n, on a set: the smallest number missed would be the    *)
(* top of the smallest of the intervals that miss the set.                 *)
(***************************************************************************)
LEMMA Upward ==
    ASSUME NEW n \in Nat, NEW S, 0 \in S, \A i \in 0 .. n : i + 1 \in 0 .. n /\ i \in S => i + 1 \in S
    PROVE  \A i \in 0 .. n : i \in S
  <1> DEFINE Below(i) == 0 .. i
             Missed == {Below(i) : i \in {j \in 0 .. n : j \notin S}}
  <1>1. SUFFICES ASSUME Missed # {} PROVE FALSE
    OBVIOUS
  <1>2. FiniteSubsetsOf(0 .. n) = SUBSET (0 .. n)
    <2>1. 0 \in Int /\ n \in Int
      OBVIOUS
    <2>2. IsFiniteSet(0 .. n)
      BY <2>1, FS_Interval
    <2> QED BY <2>2, FS_FiniteSubsetsOfFinite
  <1>3. IsWellFoundedOn(StrictSubsetOrdering(0 .. n), SUBSET (0 .. n))
    BY <1>2, FS_StrictSubsetOrderingWellFounded
  <1>4. Missed \subseteq SUBSET (0 .. n)
    OBVIOUS
  <1> HIDE DEF Missed
  <1>5. PICK x \in Missed : \A y \in Missed : ~ (<<y, x>> \in StrictSubsetOrdering(0 .. n))
    BY <1>1, <1>3, <1>4, WFMin
  <1> USE DEF Missed
  <1>6. PICK k \in 0 .. n : x = Below(k) /\ k \notin S
    OBVIOUS
  <1>7. k # 0 /\ k - 1 \in 0 .. n /\ (k - 1) + 1 = k
    BY <1>6
  <1>8. k - 1 \notin S
    BY <1>6, <1>7
  <1>9. Below(k - 1) \in Missed
    BY <1>7, <1>8
  <1>10. Below(k - 1) \subseteq Below(k) /\ Below(k - 1) # Below(k) /\ Below(k) \subseteq 0 .. n
    BY <1>7
  <1>11. <<Below(k - 1), x>> \in StrictSubsetOrdering(0 .. n)
    BY <1>6, <1>10 DEF StrictSubsetOrdering
  <1> QED BY <1>5, <1>9, <1>11

(***************************************************************************)
(* The memory the queues and the scheduler work on.                        *)
(***************************************************************************)
Faults == {"none", "requeued", "wild", "ata", "returned"}

Pointers == Entries \cup {NULL}

Data == [blk : Blocks, dst : Pointers]

Memories ==
    [nxt   : [Entries -> Pointers],
     queue : [Entries -> Queues \cup {NULL} \cup Residues],
     head  : [Queues -> Pointers],
     tail  : [Queues -> Pointers],
     len   : [Queues -> Nat],
     fault : Faults,
     state : [Entries -> ProcState],
     data  : [Entries -> Data],
     cur   : Pointers,
     freed : SUBSET Entries]

\* What the operations on queues leave alone.
Beside(m, w) == w.state = m.state /\ w.data = m.data /\ w.cur = m.cur /\ w.freed = m.freed

LEMMA FatalFields ==
    ASSUME NEW m \in Memories, NEW why \in Faults \ {"none"}
    PROVE  /\ Fatal(m, why) \in Memories /\ ~Running(Fatal(m, why)) /\ Beside(m, Fatal(m, why))
           /\ Fatal(m, why).fault = IF Running(m) THEN why ELSE m.fault
  BY DEF Fatal, Running, Memories, Beside

\* What Push does to each field.
LEMMA PushFields ==
    ASSUME NEW m \in Memories, NEW q \in Queues, NEW e \in Entries
    PROVE  /\ Push(m, q, e) \in Memories /\ Beside(m, Push(m, q, e))
           /\ ~Running(m) => Push(m, q, e) = m
           /\ Running(m) /\ m.queue[e] # NULL => ~Running(Push(m, q, e))
           /\ Running(m) /\ m.queue[e] = NULL =>
                 /\ Running(Push(m, q, e))
                 /\ Push(m, q, e).len = [m.len EXCEPT ![q] = @ + 1]
                 /\ Push(m, q, e).tail = [m.tail EXCEPT ![q] = e]
                 /\ Push(m, q, e).queue = [m.queue EXCEPT ![e] = q]
                 /\ Push(m, q, e).head = IF m.head[q] = NULL THEN [m.head EXCEPT ![q] = e] ELSE m.head
                 /\ Push(m, q, e).nxt = IF m.head[q] = NULL THEN [m.nxt EXCEPT ![e] = e]
                                        ELSE [[m.nxt EXCEPT ![e] = NULL] EXCEPT ![m.tail[q]] = e]
  <1>1. CASE ~Running(m)
    BY <1>1 DEF Push, Beside
  <1>2. CASE Running(m) /\ m.queue[e] # NULL
    <2>1. Push(m, q, e) = Fatal(m, "requeued") /\ "requeued" \in Faults \ {"none"}
      BY <1>2 DEF Push, Faults
    <2> QED BY <1>2, <2>1, FatalFields
  <1>3. CASE Running(m) /\ m.queue[e] = NULL
    <2> DEFINE nxt == IF m.head[q] = NULL THEN [m.nxt EXCEPT ![e] = e]
                      ELSE [[m.nxt EXCEPT ![e] = NULL] EXCEPT ![m.tail[q]] = e]
               head == IF m.head[q] = NULL THEN [m.head EXCEPT ![q] = e] ELSE m.head
               linked == [m EXCEPT !.nxt = nxt, !.head = head]
               pushed == [m EXCEPT !.nxt = nxt, !.head = head,
                                   !.len = [m.len EXCEPT ![q] = @ + 1],
                                   !.queue = [m.queue EXCEPT ![e] = q],
                                   !.tail = [m.tail EXCEPT ![q] = e]]
    <2>1. LinkAtTail(m, q, e) = linked
      BY DEF LinkAtTail, Memories
    <2>2. Push(m, q, e) = pushed
      BY <1>3, <2>1 DEF Push, Memories
    <2>3. nxt \in [Entries -> Pointers]
      BY DEF Memories, Pointers
    <2>4. head \in [Queues -> Pointers]
      BY DEF Memories, Pointers
    <2> HIDE DEF nxt, head
    <2>5. /\ [m.len EXCEPT ![q] = @ + 1] \in [Queues -> Nat]
          /\ [m.queue EXCEPT ![e] = q] \in [Entries -> Queues \cup {NULL} \cup Residues]
          /\ [m.tail EXCEPT ![q] = e] \in [Queues -> Pointers]
      BY DEF Memories, Pointers
    <2>6. pushed \in Memories
      BY <2>3, <2>4, <2>5 DEF Memories
    <2>7. /\ pushed.nxt = nxt /\ pushed.head = head /\ pushed.fault = m.fault
          /\ pushed.len = [m.len EXCEPT ![q] = @ + 1]
          /\ pushed.tail = [m.tail EXCEPT ![q] = e]
          /\ pushed.queue = [m.queue EXCEPT ![e] = q]
          /\ Beside(m, pushed)
      BY DEF Memories, Beside
    <2> QED BY <1>3, <2>2, <2>6, <2>7 DEF nxt, head, Running
  <1> QED BY <1>1, <1>2, <1>3

\* What Pop does to each field.
LEMMA PopFields ==
    ASSUME NEW m \in Memories, NEW q \in Queues
    PROVE  /\ Pop(m, q) \in Memories /\ Beside(m, Pop(m, q))
           /\ ~Running(m) \/ m.len[q] = 0 => Pop(m, q) = m
           /\ Running(m) /\ m.len[q] # 0 /\ m.head[q] = NULL => ~Running(Pop(m, q))
           /\ Running(m) /\ m.len[q] # 0 /\ m.head[q] # NULL =>
                 /\ m.head[q] \in Entries /\ Running(Pop(m, q))
                 /\ Pop(m, q).len = [m.len EXCEPT ![q] = @ - 1]
                 /\ Pop(m, q).tail = m.tail
                 /\ Pop(m, q).head = [m.head EXCEPT ![q] = m.nxt[m.head[q]]]
                 /\ Pop(m, q).queue = [m.queue EXCEPT ![m.head[q]] = NULL]
                 /\ Pop(m, q).nxt = [m.nxt EXCEPT ![m.head[q]] = NULL]
  <1>1. CASE ~Running(m) \/ m.len[q] = 0
    BY <1>1 DEF Pop, Beside
  <1>2. CASE Running(m) /\ m.len[q] # 0 /\ m.head[q] = NULL
    <2>1. Pop(m, q) = Fatal(m, "wild") /\ "wild" \in Faults \ {"none"}
      BY <1>2 DEF Pop, Faults
    <2> QED BY <1>2, <2>1, FatalFields
  <1>3. CASE Running(m) /\ m.len[q] # 0 /\ m.head[q] # NULL
    <2>1. PICK h \in Entries : h = m.head[q]
      BY <1>3 DEF Memories, Pointers
    <2> DEFINE popped == [m EXCEPT !.len = [m.len EXCEPT ![q] = @ - 1],
                                   !.head = [m.head EXCEPT ![q] = m.nxt[h]],
                                   !.queue = [m.queue EXCEPT ![h] = NULL],
                                   !.nxt = [m.nxt EXCEPT ![h] = NULL]]
    <2>2. Pop(m, q) = popped
      BY <1>3, <2>1 DEF Pop, Memories
    <2>3. m.len[q] - 1 \in Nat
      BY <1>3 DEF Memories
    <2>4. popped \in Memories
      BY <2>3 DEF Memories, Pointers
    <2>5. /\ popped.fault = m.fault /\ popped.tail = m.tail
          /\ popped.len = [m.len EXCEPT ![q] = @ - 1]
          /\ popped.head = [m.head EXCEPT ![q] = m.nxt[h]]
          /\ popped.queue = [m.queue EXCEPT ![h] = NULL]
          /\ popped.nxt = [m.nxt EXCEPT ![h] = NULL]
          /\ Beside(m, popped)
      BY DEF Memories, Beside
    <2> QED BY <1>3, <2>1, <2>2, <2>4, <2>5 DEF Running
  <1> QED BY <1>1, <1>2, <1>3

(***************************************************************************)
(* The loop of Unblock: what is counted from 0 to n exists.                *)
(***************************************************************************)
Iterates(f, G, m, n) == f[0] = m /\ \A i \in 1 .. n : f[i] = G[i][f[i - 1]]

LEMMA Iteration ==
    ASSUME NEW n \in Nat, NEW M, NEW m \in M, NEW G \in [1 .. n -> [M -> M]]
    PROVE  \E f \in [0 .. n -> M] : Iterates(f, G, m, n)
  <1> DEFINE Good(k, f) == f[0] = m /\ \A i \in 1 .. k : f[i] = G[i][f[i - 1]]
             Reached == {k \in 0 .. n : \E f \in [0 .. n -> M] : Good(k, f)}
  <1>1. 0 \in Reached
    <2>1. PICK f \in [0 .. n -> M] : f = [i \in 0 .. n |-> m]
      OBVIOUS
    <2>2. f[0] = m /\ 1 .. 0 = {}
      BY <2>1
    <2> QED BY <2>2
  <1>2. ASSUME NEW k \in 0 .. n, k + 1 \in 0 .. n, k \in Reached PROVE k + 1 \in Reached
    <2>1. PICK f \in [0 .. n -> M] : Good(k, f)
      BY <1>2
    <2>2. G[k + 1][f[k]] \in M
      BY <1>2, <2>1
    <2>3. PICK g \in [0 .. n -> M] : g = [f EXCEPT ![k + 1] = G[k + 1][f[k]]]
      BY <1>2, <2>2
    <2>4. g[0] = m
      BY <1>2, <2>1, <2>3
    <2>5. ASSUME NEW i \in 1 .. k + 1 PROVE g[i] = G[i][g[i - 1]]
      <3>1. i - 1 \in 0 .. n /\ i - 1 # k + 1 /\ g[i - 1] = f[i - 1]
        BY <1>2, <2>3
      <3>2. CASE i = k + 1
        BY <1>2, <2>3, <3>1, <3>2
      <3>3. CASE i # k + 1
        <4>1. i \in 1 .. k /\ g[i] = f[i]
          BY <1>2, <2>3, <3>3
        <4> QED BY <2>1, <3>1, <4>1
      <3> QED BY <3>2, <3>3
    <2> QED BY <1>2, <2>4, <2>5
  <1>3. \A k \in 0 .. n : k + 1 \in 0 .. n /\ k \in Reached => k + 1 \in Reached
    BY <1>2
  <1> HIDE DEF Reached
  <1>4. n \in Reached
    <2>1. \A k \in 0 .. n : k \in Reached
      BY <1>1, <1>3, Upward
    <2> QED BY <2>1
  <1> USE DEF Reached
  <1> QED BY <1>4 DEF Iterates

\* One turn of Unblock's loop, counting i.
Turn(m, q, i) == IF i - 1 < Length(m, q) THEN UnblockOne(m, q) ELSE m

Turns(f, m, q) ==
    /\ f[0] = m /\ \A i \in 1 .. Length(m, q) : f[i] = Turn(f[i - 1], q, i)
    /\ Unblock(m, q) = f[Length(m, q)]

LEMMA UnblockTurns ==
    ASSUME NEW M, NEW m \in M, NEW q, Length(m, q) \in Nat,
           \A w \in M, i \in 1 .. Length(m, q) : Turn(w, q, i) \in M
    PROVE  \E f \in [0 .. Length(m, q) -> M] : Turns(f, m, q)
  <1>1. PICK n \in Nat : n = Length(m, q)
    OBVIOUS
  <1>2. PICK G : G = [i \in 1 .. n |-> [w \in M |-> Turn(w, q, i)]]
    OBVIOUS
  <1>3. G \in [1 .. n -> [M -> M]] /\ \A i \in 1 .. n, w \in M : G[i][w] = Turn(w, q, i)
    BY <1>1, <1>2
  <1>4. PICK f \in [0 .. n -> M] : f[0] = m /\ \A i \in 1 .. n : f[i] = G[i][f[i - 1]]
    <2>1. \E f \in [0 .. n -> M] : Iterates(f, G, m, n)
      BY <1>3, Iteration
    <2> QED BY <2>1 DEF Iterates
  <1>5. ASSUME NEW i \in 1 .. n PROVE f[i] = Turn(f[i - 1], q, i)
    <2>1. i - 1 \in 0 .. n /\ f[i - 1] \in M
      BY <1>1, <1>4
    <2> QED BY <1>3, <1>4, <2>1
  <1>6. f = [i \in 0 .. n |-> IF i = 0 THEN m
                              ELSE IF i - 1 < Length(f[i - 1], q) THEN UnblockOne(f[i - 1], q) ELSE f[i - 1]]
    <2>1. ASSUME NEW i \in 0 .. n
          PROVE  f[i] = IF i = 0 THEN m
                        ELSE IF i - 1 < Length(f[i - 1], q) THEN UnblockOne(f[i - 1], q) ELSE f[i - 1]
      BY <1>4, <1>5 DEF Turn
    <2> QED BY <2>1
  <1> DEFINE Loop(g) == g = [i \in 0 .. n |-> IF i = 0 THEN m
                              ELSE IF i - 1 < Length(g[i - 1], q) THEN UnblockOne(g[i - 1], q) ELSE g[i - 1]]
  <1>7. Loop(CHOOSE g : Loop(g))
    BY <1>6
  <1>8. PICK h : Loop(h) /\ Unblock(m, q) = h[n]
    BY <1>1, <1>7 DEF Unblock
  <1>9. h[0] = m /\ DOMAIN h = 0 .. n
    BY <1>8
  <1>10. ASSUME NEW i \in 1 .. n PROVE h[i] = Turn(h[i - 1], q, i)
    <2>1. i \in 0 .. n /\ i # 0
      OBVIOUS
    <2> QED BY <1>8, <2>1 DEF Turn
  <1>11. \A i \in 0 .. n : h[i] \in M
    <2> DEFINE S == {i \in 0 .. n : h[i] \in M}
    <2>1. 0 \in S
      BY <1>9
    <2>2. ASSUME NEW i \in 0 .. n, i + 1 \in 0 .. n, i \in S PROVE i + 1 \in S
      <3>1. i + 1 \in 1 .. n /\ (i + 1) - 1 = i
        BY <2>2
      <3>2. h[i + 1] = Turn(h[i], q, i + 1)
        BY <1>10, <3>1
      <3> QED BY <1>1, <2>2, <3>1, <3>2
    <2>3. \A i \in 0 .. n : i \in S
      <3> HIDE DEF S
      <3> QED BY <2>1, <2>2, Upward
    <2> QED BY <2>3
  <1>12. h \in [0 .. n -> M]
    <2>1. h = [i \in 0 .. n |-> h[i]]
      BY <1>8
    <2> QED BY <1>11, <2>1
  <1> QED BY <1>1, <1>8, <1>9, <1>10, <1>12 DEF Turns

(***************************************************************************)
(* What the scheduler's assignments do to each field.                      *)
(***************************************************************************)
\* What they leave of the queues.
Links(m, w) ==
    /\ w.nxt = m.nxt /\ w.queue = m.queue /\ w.head = m.head /\ w.tail = m.tail
    /\ w.len = m.len /\ w.fault = m.fault

StateSet(m, w, t, st) ==
    /\ w = [m EXCEPT !.state[t] = st]
    /\ Links(m, w) /\ w.data = m.data /\ w.cur = m.cur /\ w.freed = m.freed
    /\ w.state = [m.state EXCEPT ![t] = st]

LEMMA SetState ==
    ASSUME NEW m \in Memories, NEW t \in Entries, NEW st \in ProcState
    PROVE  \E w \in Memories : StateSet(m, w, t, st)
  <1> DEFINE x == [m EXCEPT !.state[t] = st]
  <1>1. t \in Pointers
    BY DEF Pointers
  <1>2. x \in Memories
    BY <1>1 DEF Memories, Pointers
  <1>3. /\ Links(m, x) /\ x.data = m.data /\ x.cur = m.cur /\ x.freed = m.freed
        /\ x.state = [m.state EXCEPT ![t] = st]
    BY DEF Memories, Links
  <1> QED BY <1>2, <1>3 DEF StateSet

DataSet(m, w, t, d) ==
    /\ w = [m EXCEPT !.data[t] = d]
    /\ Links(m, w) /\ w.state = m.state /\ w.cur = m.cur /\ w.freed = m.freed
    /\ w.data = [m.data EXCEPT ![t] = d]

LEMMA SetData ==
    ASSUME NEW m \in Memories, NEW t \in Entries, NEW d \in Data
    PROVE  \E w \in Memories : DataSet(m, w, t, d)
  <1> DEFINE x == [m EXCEPT !.data[t] = d]
  <1>1. t \in Pointers
    BY DEF Pointers
  <1>2. x \in Memories
    BY <1>1 DEF Memories, Pointers
  <1>3. /\ Links(m, x) /\ x.state = m.state /\ x.cur = m.cur /\ x.freed = m.freed
        /\ x.data = [m.data EXCEPT ![t] = d]
    BY DEF Memories, Links
  <1> QED BY <1>2, <1>3 DEF DataSet

BlockedSet(m, w, t, d) ==
    /\ w = [m EXCEPT !.state[t] = "BLOCKED", !.data[t] = d]
    /\ Links(m, w) /\ w.cur = m.cur /\ w.freed = m.freed
    /\ w.state = [m.state EXCEPT ![t] = "BLOCKED"] /\ w.data = [m.data EXCEPT ![t] = d]

LEMMA SetBlocked ==
    ASSUME NEW m \in Memories, NEW t \in Entries, NEW d \in Data
    PROVE  \E w \in Memories : BlockedSet(m, w, t, d)
  <1> DEFINE x == [m EXCEPT !.state[t] = "BLOCKED", !.data[t] = d]
  <1>1. "BLOCKED" \in ProcState /\ t \in Pointers
    BY DEF ProcState, Pointers
  <1>2. x \in Memories
    BY <1>1 DEF Memories, Pointers
  <1>3. /\ Links(m, x) /\ x.cur = m.cur /\ x.freed = m.freed
        /\ x.state = [m.state EXCEPT ![t] = "BLOCKED"] /\ x.data = [m.data EXCEPT ![t] = d]
    BY DEF Memories, Links
  <1> QED BY <1>2, <1>3 DEF BlockedSet

CurSet(m, w, t) ==
    /\ w = [m EXCEPT !.cur = t, !.state[t] = "RUNNING"]
    /\ Links(m, w) /\ w.data = m.data /\ w.cur = t /\ w.freed = m.freed
    /\ w.state = [m.state EXCEPT ![t] = "RUNNING"]

LEMMA SetCur ==
    ASSUME NEW m \in Memories, NEW t \in Entries
    PROVE  \E w \in Memories : CurSet(m, w, t)
  <1> DEFINE x == [m EXCEPT !.cur = t, !.state[t] = "RUNNING"]
  <1>1. "RUNNING" \in ProcState /\ t \in Pointers
    BY DEF ProcState, Pointers
  <1>2. x \in Memories
    BY <1>1 DEF Memories, Pointers
  <1>3. /\ Links(m, x) /\ x.data = m.data /\ x.cur = t /\ x.freed = m.freed
        /\ x.state = [m.state EXCEPT ![t] = "RUNNING"]
    BY DEF Memories, Links
  <1> QED BY <1>2, <1>3 DEF CurSet

ReapedSet(m, w, t) ==
    /\ w = [m EXCEPT !.freed = @ \cup {t}, !.cur = NULL]
    /\ Links(m, w) /\ w.data = m.data /\ w.state = m.state
    /\ w.cur = NULL /\ w.freed = m.freed \cup {t}

LEMMA SetReaped ==
    ASSUME NEW m \in Memories, NEW t \in Entries
    PROVE  \E w \in Memories : ReapedSet(m, w, t)
  <1> DEFINE x == [m EXCEPT !.freed = @ \cup {t}, !.cur = NULL]
  <1>1. t \in Pointers
    BY DEF Pointers
  <1>2. x \in Memories
    BY <1>1 DEF Memories, Pointers
  <1>3. /\ Links(m, x) /\ x.data = m.data /\ x.state = m.state
        /\ x.cur = NULL /\ x.freed = m.freed \cup {t}
    BY DEF Memories, Links
  <1> QED BY <1>2, <1>3 DEF ReapedSet

AddedSet(m, w, t, residue) ==
    /\ w = [m EXCEPT !.state[t] = "RUNABLE", !.nxt[t] = t, !.queue[t] = residue]
    /\ w.head = m.head /\ w.tail = m.tail /\ w.len = m.len /\ w.fault = m.fault
    /\ w.data = m.data /\ w.cur = m.cur /\ w.freed = m.freed
    /\ w.state = [m.state EXCEPT ![t] = "RUNABLE"]
    /\ w.nxt = [m.nxt EXCEPT ![t] = t] /\ w.queue = [m.queue EXCEPT ![t] = residue]

LEMMA SetAdded ==
    ASSUME NEW m \in Memories, NEW t \in Entries, NEW residue \in Residues
    PROVE  \E w \in Memories : AddedSet(m, w, t, residue)
  <1> DEFINE x == [m EXCEPT !.state[t] = "RUNABLE", !.nxt[t] = t, !.queue[t] = residue]
  <1>1. "RUNABLE" \in ProcState /\ t \in Pointers
    BY DEF ProcState, Pointers
  <1>2. x \in Memories
    BY <1>1 DEF Memories, Pointers
  <1>3. /\ x.head = m.head /\ x.tail = m.tail /\ x.len = m.len /\ x.fault = m.fault
        /\ x.data = m.data /\ x.cur = m.cur /\ x.freed = m.freed
        /\ x.state = [m.state EXCEPT ![t] = "RUNABLE"]
        /\ x.nxt = [m.nxt EXCEPT ![t] = t] /\ x.queue = [m.queue EXCEPT ![t] = residue]
    BY DEF Memories, Links
  <1> QED BY <1>2, <1>3 DEF AddedSet

(***************************************************************************)
(* The operations keep the types, and curProc changes only in Reschedule.  *)
(***************************************************************************)
LEMMA NoDataType == NoData \in Data
  BY SchedulerAssumption DEF NoData, Data, Pointers

LEMMA UnblockOneType ==
    ASSUME NEW m \in Memories, NEW q \in Queues, m.len[q] # 0
    PROVE  UnblockOne(m, q) \in Memories /\ UnblockOne(m, q).cur = m.cur
  <1>1. PICK p \in Memories : p = Pop(m, q) /\ p.cur = m.cur
    BY PopFields DEF Beside
  <1>2. CASE ~Running(p)
    BY <1>1, <1>2 DEF UnblockOne
  <1>3. CASE Running(p)
    <2>1. Running(m)
      BY <1>1, <1>3, PopFields
    <2>2. PICK e \in Entries : e = Popped(m, q)
      BY <1>1, <1>3, <2>1, PopFields DEF Popped
    <2>3. PICK c \in Memories : DataSet(p, c, e, NoData)
      BY NoDataType, SetData
    <2>4. "RUNNING" \in ProcState /\ "RUNABLE" \in ProcState
      BY DEF ProcState
    <2>5. PICK r \in Memories : StateSet(c, r, e, "RUNNING")
      BY <2>4, SetState
    <2>6. PICK u \in Memories : StateSet(c, u, e, "RUNABLE")
      BY <2>4, SetState
    <2>7. UnblockOne(m, q) = IF e = m.cur THEN r ELSE Push(u, runQueue, e)
      BY <1>1, <1>3, <2>2, <2>3, <2>5, <2>6 DEF UnblockOne, DataSet, StateSet
    <2>8. Push(u, runQueue, e) \in Memories /\ Push(u, runQueue, e).cur = u.cur
      BY PushFields, SchedulerAssumption DEF Beside
    <2> QED BY <1>1, <2>3, <2>5, <2>6, <2>7, <2>8 DEF DataSet, StateSet
  <1> QED BY <1>2, <1>3

LEMMA UnblockType ==
    ASSUME NEW m \in Memories, NEW q \in Queues
    PROVE  Unblock(m, q) \in Memories /\ Unblock(m, q).cur = m.cur
  <1>1. PICK M \in SUBSET Memories : M = {w \in Memories : w.cur = m.cur}
    OBVIOUS
  <1>2. m \in M /\ Length(m, q) \in Nat
    BY <1>1 DEF Memories, Length
  <1>3. ASSUME NEW w \in M, NEW i \in 1 .. Length(m, q) PROVE Turn(w, q, i) \in M
    <2>1. w \in Memories /\ w.len[q] \in Nat
      BY <1>1 DEF Memories
    <2>2. CASE i - 1 < w.len[q] /\ w.len[q] # 0
      <3>1. Turn(w, q, i) = UnblockOne(w, q)
        BY <2>2 DEF Turn, Length
      <3> QED BY <1>1, <2>1, <2>2, <3>1, UnblockOneType
    <2>3. CASE ~(i - 1 < w.len[q])
      BY <2>3 DEF Turn, Length
    <2>4. CASE w.len[q] = 0
      BY <1>2, <2>4 DEF Turn, Length
    <2> QED BY <2>2, <2>3, <2>4
  <1>4. \E f \in [0 .. Length(m, q) -> M] : Turns(f, m, q)
    BY <1>2, <1>3, UnblockTurns
  <1>5. Unblock(m, q) \in M
    BY <1>2, <1>4 DEF Turns
  <1> QED BY <1>1, <1>5

LEMMA AddType ==
    ASSUME NEW m \in Memories, NEW t \in Entries, NEW residue \in Residues
    PROVE  Add(m, t, residue) \in Memories /\ Add(m, t, residue).cur = m.cur
  <1>1. PICK w \in Memories : AddedSet(m, w, t, residue)
    BY SetAdded
  <1>2. Add(m, t, residue) = Push(w, runQueue, t) /\ w.cur = m.cur
    BY <1>1 DEF Add, AddedSet
  <1>3. Push(w, runQueue, t) \in Memories /\ Push(w, runQueue, t).cur = w.cur
    BY PushFields, SchedulerAssumption DEF Beside
  <1> QED BY <1>2, <1>3

LEMMA BlockCurProcType ==
    ASSUME NEW m \in Memories, m.cur \in Entries, NEW q \in Queues, NEW blk \in Blocks, NEW to \in Pointers
    PROVE  BlockCurProc(m, q, blk, to) \in Memories /\ BlockCurProc(m, q, blk, to).cur = m.cur
  <1>1. PICK c \in Entries, d \in Data : c = m.cur /\ d = [blk |-> blk, dst |-> to]
    BY DEF Data
  <1>2. PICK w \in Memories : BlockedSet(m, w, c, d)
    BY SetBlocked
  <1>3. BlockCurProc(m, q, blk, to) = Push(w, q, c) /\ w.cur = m.cur
    BY <1>1, <1>2 DEF BlockCurProc, BlockedSet
  <1>4. Push(w, q, c) \in Memories /\ Push(w, q, c).cur = w.cur
    BY PushFields DEF Beside
  <1> QED BY <1>3, <1>4

LEMMA ReapType ==
    ASSUME NEW m \in Memories
    PROVE  Reap(m) \in Memories
  <1>1. CASE m.cur \in Entries
    <2>1. PICK c \in Entries : c = m.cur
      BY <1>1
    <2>2. PICK w \in Memories : ReapedSet(m, w, c)
      BY SetReaped
    <2>3. "wild" \in Faults \ {"none"}
      BY DEF Faults
    <2>4. Fatal(m, "wild") \in Memories
      BY <2>3, FatalFields
    <2> QED BY <2>1, <2>2, <2>4 DEF Reap, ReapedSet
  <1>2. CASE m.cur = NULL
    BY <1>2 DEF Reap
  <1> QED BY <1>1, <1>2 DEF Memories, Pointers

LEMMA RequeueType ==
    ASSUME NEW m \in Memories
    PROVE  Requeue(m) \in Memories
  <1>1. CASE CurCanRun(m)
    <2>1. PICK c \in Entries : c = m.cur
      BY <1>1 DEF CurCanRun, Memories, Pointers
    <2>2. "RUNABLE" \in ProcState
      BY DEF ProcState
    <2>3. PICK w \in Memories : StateSet(m, w, c, "RUNABLE")
      BY <2>2, SetState
    <2>4. Requeue(m) = Push(w, runQueue, c)
      BY <1>1, <2>1, <2>3 DEF Requeue, StateSet
    <2> QED BY <2>4, PushFields, SchedulerAssumption
  <1>2. CASE ~CurCanRun(m)
    BY <1>2 DEF Requeue
  <1> QED BY <1>1, <1>2

LEMMA DispatchType ==
    ASSUME NEW m \in Memories, m.len[runQueue] # 0
    PROVE  Dispatch(m) \in Memories
  <1>1. PICK p \in Memories : p = Pop(m, runQueue)
    BY PopFields, SchedulerAssumption
  <1>2. CASE ~Running(p)
    BY <1>1, <1>2 DEF Dispatch
  <1>3. CASE Running(p)
    <2>1. PICK e \in Entries : e = Popped(m, runQueue)
      BY <1>1, <1>3, PopFields, SchedulerAssumption DEF Popped
    <2>2. PICK w \in Memories : CurSet(p, w, e)
      BY SetCur
    <2>3. Dispatch(m) = w
      BY <1>1, <1>3, <2>1, <2>2 DEF Dispatch, CurSet
    <2> QED BY <2>3
  <1> QED BY <1>2, <1>3

\* What Requeue pushes cannot make the run queue empty.
LEMMA RequeueLen ==
    ASSUME NEW m \in Memories, m.len[runQueue] # 0
    PROVE  Requeue(m).len[runQueue] # 0 \/ ~Running(Requeue(m))
  <1>1. CASE CurCanRun(m)
    <2>1. PICK c \in Entries : c = m.cur
      BY <1>1 DEF CurCanRun, Memories, Pointers
    <2>2. "RUNABLE" \in ProcState
      BY DEF ProcState
    <2>3. PICK w \in Memories : StateSet(m, w, c, "RUNABLE")
      BY <2>2, SetState
    <2>4. Requeue(m) = Push(w, runQueue, c)
      BY <1>1, <2>1, <2>3 DEF Requeue, StateSet
    <2>5. w.len[runQueue] \in Nat /\ runQueue \in Queues
      BY SchedulerAssumption DEF Memories
    <2>6. Running(w) /\ w.queue[c] = NULL => Push(w, runQueue, c).len[runQueue] = w.len[runQueue] + 1
      <3>1. SUFFICES ASSUME Running(w) /\ w.queue[c] = NULL
                     PROVE  Push(w, runQueue, c).len[runQueue] = w.len[runQueue] + 1
        OBVIOUS
      <3>2. Push(w, runQueue, c).len = [w.len EXCEPT ![runQueue] = @ + 1]
        BY <2>5, <3>1, PushFields
      <3>3. w.len \in [Queues -> Nat]
        BY DEF Memories
      <3> QED BY <2>5, <3>2, <3>3
    <2>7. ~(Running(w) /\ w.queue[c] = NULL) => ~Running(Push(w, runQueue, c))
      BY <2>5, PushFields
    <2> QED BY <2>4, <2>5, <2>6, <2>7
  <1>2. CASE ~CurCanRun(m)
    BY <1>2 DEF Requeue
  <1> QED BY <1>1, <1>2

LEMMA RescheduleType ==
    ASSUME NEW m \in Memories
    PROVE  Reschedule(m) \in Memories
  <1>1. PICK r \in Memories : r = Reap(m)
    BY ReapType
  <1>2. CASE ~Running(r) \/ r.len[runQueue] = 0
    BY <1>1, <1>2 DEF Reschedule, Length
  <1>3. CASE Running(r) /\ r.len[runQueue] # 0
    <2>1. PICK u \in Memories : u = Requeue(r)
      BY RequeueType
    <2>2. Reschedule(m) = Dispatch(u)
      BY <1>1, <1>3, <2>1 DEF Reschedule, Length
    <2>3. u.len[runQueue] # 0 \/ ~Running(u)
      BY <1>3, <2>1, RequeueLen
    <2>4. CASE ~Running(u)
      <3>1. Pop(u, runQueue) = u
        BY <2>4, PopFields, SchedulerAssumption
      <3> QED BY <2>2, <2>4, <3>1 DEF Dispatch
    <2> QED BY <2>2, <2>3, <2>4, DispatchType
  <1> QED BY <1>2, <1>3

\* The driver's next request: from its waiting queue to its queue in progress.
LEMMA StartNextType ==
    ASSUME NEW m \in Memories, m.len[blockedQueue] # 0 \/ ~Running(m)
    PROVE  /\ StartNext(m) \in Memories /\ StartNext(m).cur = m.cur
           /\ Running(StartNext(m)) => StartNext(m).head[inProgress] \in Entries
  <1>1. blockedQueue \in Queues /\ inProgress \in Queues
    BY KernelAssumption
  <1>2. PICK p \in Memories : p = Pop(m, blockedQueue) /\ p.cur = m.cur
    BY <1>1, PopFields DEF Beside
  <1>3. CASE ~Running(p)
    <2>1. StartNext(m) = p
      BY <1>2, <1>3 DEF StartNext, Push
    <2> QED BY <1>2, <1>3, <2>1
  <1>4. CASE Running(p)
    <2>1. Running(m) /\ m.len[blockedQueue] # 0
      BY <1>1, <1>2, <1>4, PopFields
    <2>2. PICK e \in Entries : e = Popped(m, blockedQueue)
      BY <1>1, <1>2, <1>4, <2>1, PopFields DEF Popped
    <2>3. PICK w \in Memories : w = Push(p, inProgress, e) /\ w.cur = p.cur
      BY <1>1, PushFields DEF Beside
    <2>4. StartNext(m) = w
      BY <1>2, <2>2, <2>3 DEF StartNext
    <2>5. Running(w) => w.head = IF p.head[inProgress] = NULL THEN [p.head EXCEPT ![inProgress] = e] ELSE p.head
      BY <1>1, <1>4, <2>3, PushFields
    <2>6. Running(w) => w.head[inProgress] \in Entries
      BY <1>1, <2>5 DEF Memories, Pointers
    <2> QED BY <1>2, <2>3, <2>4, <2>6
  <1> QED BY <1>3, <1>4

LEMMA RequestedType ==
    ASSUME NEW m \in Memories, Running(m) => m.head[inProgress] \in Entries
    PROVE  Requested(m) \in Blocks \cup {NoBlock}
  BY DEF Requested, Peak, Memories, Data

(***************************************************************************)
(* The ring.                                                               *)
(***************************************************************************)
LEMMA IndexFacts ==
    ASSUME NEW v \in 0 .. BUF_SIZE - 1
    PROVE  BUF_INC(v) \in 0 .. BUF_SIZE - 1 /\ BUF_INC(v) = IF v + 1 = BUF_SIZE THEN 0 ELSE v + 1
  <1>1. BUF_SIZE \in Nat \ {0}
    BY RingAssumption
  <1>2. BUF_SIZE % BUF_SIZE = 0
    BY <1>1
  <1>3. v + 1 # BUF_SIZE => (v + 1) % BUF_SIZE = v + 1
    BY <1>1
  <1> QED BY <1>1, <1>2, <1>3 DEF BUF_INC

LEMMA RingPutType ==
    ASSUME NEW r \in Rings, NEW c \in Codes
    PROVE  RingPut(r, c) \in Rings
  <1>1. r.prod \in 0 .. BUF_SIZE - 1 /\ r.cons \in 0 .. BUF_SIZE - 1
        /\ r.buf \in [0 .. BUF_SIZE - 1 -> Codes \cup {Blank}]
    BY DEF Rings
  <1>2. BUF_INC(r.prod) \in 0 .. BUF_SIZE - 1 /\ BUF_INC(r.cons) \in 0 .. BUF_SIZE - 1
    BY <1>1, IndexFacts
  <1> QED BY <1>1, <1>2 DEF RingPut, Rings

LEMMA RingTakeType ==
    ASSUME NEW r \in Rings
    PROVE  RingTake(r) \in Rings
  <1>1. r.cons \in 0 .. BUF_SIZE - 1
    BY DEF Rings
  <1>2. BUF_INC(r.cons) \in 0 .. BUF_SIZE - 1
    BY <1>1, IndexFacts
  <1> QED BY <1>1, <1>2 DEF RingTake, Rings

-----------------------------------------------------------------------------
(***************************************************************************)
(* The inductive invariant: the types, who holds the processor, and that   *)
(* kmain has interrupts enabled or saved as enabled.                       *)
(***************************************************************************)
Saved == [Entries \cup {Parent} -> BOOLEAN]

FlagOK == (cpu = Parent => intr) /\ (cpu # Parent => rflags[Parent])

TypeInv ==
    /\ load \in Workloads /\ sched \in Memories
    /\ cpu \in Entries \cup {Parent} /\ intr \in BOOLEAN
    /\ pc \in [Entries \cup {Parent} -> Labels] /\ rflags \in Saved
    /\ ring \in Rings /\ disk \in Blocks \cup {NoBlock}
    /\ dst \in [Entries -> Blocks \cup {NoBytes}] /\ uart \in BOOLEAN
    /\ RunsCurProc /\ FlagOK

LEMMA InitType ==
    ASSUME Init
    PROVE  TypeInv
  <1>1. Idle \in Memories
    BY NoDataType DEF Idle, EmptyQueues, Memories, Pointers, Faults, ProcState
  <1>2. EmptyRing \in Rings
    BY RingAssumption DEF EmptyRing, Rings
  <1>3. pc \in [Entries \cup {Parent} -> Labels]
    BY DEF Init, Labels
  <1> QED BY <1>1, <1>2, <1>3 DEF Init, TypeInv, Saved, RunsCurProc, FlagOK

\* A thread that makes a step holds the processor, and is curProc.
LEMMA StepFacts ==
    ASSUME TypeInv, NEW t \in Threads, NEW label, At(t, label)
    PROVE  /\ t \in Entries /\ t # Parent /\ sched.cur = t /\ cpu = t /\ rflags[Parent] = TRUE
           /\ load[t].blk \in Blocks /\ Running(sched) /\ pc[t] = label
  <1>1. t \in Entries /\ load[t].blk \in Blocks
    BY KernelAssumption DEF TypeInv, Threads
  <1>2. t # Parent
    BY <1>1, KernelAssumption
  <1> QED BY <1>1, <1>2 DEF At, Up, TypeInv, RunsCurProc, FlagOK, Saved

\* Load gives the processor to curProc or, with its flag enabled, to kmain.
LEMMA LoadType ==
    ASSUME NEW s \in Memories, NEW saved \in Saved, saved[Parent] = TRUE, LoadContext(s, saved)
    PROVE  /\ sched' \in Memories /\ cpu' \in Entries \cup {Parent} /\ intr' \in BOOLEAN
           /\ rflags' \in Saved /\ RunsCurProc' /\ FlagOK'
  <1>1. PICK p \in Pointers : p = Chosen(s) /\ (p # NULL => p = s.cur)
    BY DEF Chosen, Memories, Pointers
  <1>2. PICK to \in Entries \cup {Parent} : to = IF p = NULL THEN Parent ELSE p
    BY DEF Pointers
  <1>3. sched' = (IF p \in s.freed THEN Fatal(s, "wild") ELSE s)
        /\ cpu' = to /\ rflags' = saved /\ intr' = saved[to]
    BY <1>1, <1>2 DEF LoadContext
  <1>4. "wild" \in Faults \ {"none"}
    BY DEF Faults
  <1>5. Fatal(s, "wild") \in Memories /\ Fatal(s, "wild").cur = s.cur
    BY <1>4, FatalFields DEF Beside
  <1>6. sched' \in Memories /\ sched'.cur = s.cur
    BY <1>3, <1>5
  <1>7. intr' \in BOOLEAN
    BY <1>3 DEF Saved
  <1>8. to # Parent => to = s.cur
    BY <1>1, <1>2
  <1> QED BY <1>3, <1>6, <1>7, <1>8 DEF RunsCurProc, FlagOK

LEMMA SaveType ==
    ASSUME TypeInv, NEW p \in Entries \cup {Parent}, rflags[Parent] = TRUE \/ (p = Parent /\ intr)
    PROVE  Save(p) \in Saved /\ (p # Parent \/ intr => Save(p)[Parent] = TRUE)
  BY DEF TypeInv, Save, Saved

\* The label a step leaves.
LEMMA PcType ==
    ASSUME TypeInv, NEW t \in Entries \cup {Parent}, NEW next \in Labels
    PROVE  [pc EXCEPT ![t] = next] \in [Entries \cup {Parent} -> Labels]
  BY DEF TypeInv

LEMMA AddThreadType ==
    ASSUME TypeInv, AddThread
    PROVE  TypeInv'
  <1>1. PICK t \in Threads \ Added, residue \in Residues :
           /\ sched' = Add(sched, t, residue)
           /\ pc' = [pc EXCEPT ![t] = "start",
                               ![Parent] = IF Threads \ Added = {t} THEN "run" ELSE @]
    BY DEF AddThread
  <1>2. t \in Entries
    BY KernelAssumption DEF TypeInv, Threads
  <1>3. sched' \in Memories /\ sched'.cur = sched.cur
    BY <1>1, <1>2, AddType DEF TypeInv
  <1>4. pc' \in [Entries \cup {Parent} -> Labels]
    BY <1>1 DEF TypeInv, Labels
  <1>5. cpu = Parent /\ intr' = TRUE /\ UNCHANGED <<load, cpu, rflags, ring, disk, dst, uart>>
    BY DEF AddThread, KmainAt
  <1> QED BY <1>3, <1>4, <1>5 DEF TypeInv, RunsCurProc, FlagOK

LEMMA ProcRunType ==
    ASSUME TypeInv, ProcRun
    PROVE  TypeInv'
  <1>1. cpu = Parent /\ intr = TRUE /\ UNCHANGED <<load, ring, disk, dst, uart>>
    BY DEF ProcRun, KmainAt, TypeInv, FlagOK
  <1>2. PICK s \in Memories : s = Reschedule(sched)
    BY RescheduleType DEF TypeInv
  <1>3. PICK saved \in Saved : saved = Save(Parent) /\ saved[Parent] = TRUE
    BY <1>1, SaveType
  <1>4. pc' \in [Entries \cup {Parent} -> Labels]
    BY PcType DEF ProcRun, Labels
  <1>5. CASE Chosen(s) = NULL
    <2>1. sched' = s /\ rflags' = saved /\ cpu' = cpu /\ intr' = intr
      BY <1>2, <1>3, <1>5 DEF ProcRun, syscall_run
    <2> QED BY <1>1, <1>4, <2>1 DEF TypeInv, RunsCurProc, FlagOK
  <1>6. CASE Chosen(s) # NULL
    <2>1. LoadContext(s, saved)
      BY <1>2, <1>3, <1>6 DEF ProcRun, syscall_run
    <2>2. /\ sched' \in Memories /\ cpu' \in Entries \cup {Parent} /\ intr' \in BOOLEAN
          /\ rflags' \in Saved /\ RunsCurProc' /\ FlagOK'
      BY <1>3, <2>1, LoadType
    <2> QED BY <1>1, <1>4, <2>2 DEF TypeInv
  <1> QED BY <1>5, <1>6

LEMMA BlockForIRQType ==
    ASSUME TypeInv, BlockForIRQ
    PROVE  TypeInv'
  <1>1. pc' \in [Entries \cup {Parent} -> Labels]
    BY PcType DEF BlockForIRQ, Labels
  <1> QED BY <1>1 DEF BlockForIRQ, TypeInv, RunsCurProc, FlagOK

LEMMA YieldType ==
    ASSUME TypeInv, NEW t \in Threads, NEW label, At(t, label), NEW next \in Labels, ProcYield(t, next)
    PROVE  TypeInv'
  <1>1. t \in Entries /\ t # Parent /\ sched.cur = t /\ rflags[Parent] = TRUE
    BY StepFacts
  <1>2. PICK s \in Memories : s = Reschedule(sched)
    BY RescheduleType DEF TypeInv
  <1>3. PICK saved \in Saved : saved = Save(t) /\ saved[Parent] = TRUE
    BY <1>1, SaveType
  <1>4. LoadContext(s, saved) /\ pc' = [pc EXCEPT ![t] = next] /\ UNCHANGED <<load, ring, disk, dst, uart>>
    BY <1>1, <1>2, <1>3 DEF ProcYield, syscall_yield
  <1>5. pc' \in [Entries \cup {Parent} -> Labels]
    BY <1>1, <1>4, PcType
  <1>6. /\ sched' \in Memories /\ cpu' \in Entries \cup {Parent} /\ intr' \in BOOLEAN
        /\ rflags' \in Saved /\ RunsCurProc' /\ FlagOK'
    BY <1>3, <1>4, LoadType
  <1> QED BY <1>4, <1>5, <1>6 DEF TypeInv

LEMMA ProcExitType ==
    ASSUME TypeInv, NEW t \in Threads, ProcExit(t)
    PROVE  TypeInv'
  <1>1. t \in Entries /\ t # Parent /\ sched.cur = t /\ rflags[Parent] = TRUE
    BY StepFacts DEF ProcExit
  <1>2. "EXITED" \in ProcState /\ "gone" \in Labels
    BY DEF ProcState, Labels
  <1>3. PICK w \in Memories : StateSet(sched, w, t, "EXITED")
    BY <1>1, <1>2, SetState DEF TypeInv
  <1>4. PICK s \in Memories : s = Reschedule(w)
    BY RescheduleType
  <1>5. LoadContext(s, rflags) /\ pc' = [pc EXCEPT ![t] = "gone"] /\ UNCHANGED <<load, ring, disk, dst, uart>>
    BY <1>1, <1>3, <1>4 DEF ProcExit, syscall_exit, StateSet
  <1>6. pc' \in [Entries \cup {Parent} -> Labels]
    BY <1>1, <1>2, <1>5, PcType
  <1>7. /\ sched' \in Memories /\ cpu' \in Entries \cup {Parent} /\ intr' \in BOOLEAN
        /\ rflags' \in Saved /\ RunsCurProc' /\ FlagOK'
    BY <1>1, <1>5, LoadType DEF TypeInv
  <1> QED BY <1>5, <1>6, <1>7 DEF TypeInv

LEMMA GetCharType ==
    ASSUME TypeInv, NEW t \in Threads, GetCharEnter(t) \/ GetCharPoll(t)
    PROVE  TypeInv'
  <1>1. t \in Entries /\ t # Parent /\ sched.cur = t /\ cpu = t /\ rflags[Parent] = TRUE
    BY StepFacts DEF GetCharEnter, GetCharPoll
  <1>2. "start" \in Labels /\ "poll" \in Labels /\ "wait" \in Labels
    BY DEF Labels
  <1>3. CASE GetCharEnter(t)
    <2>1. pc' \in [Entries \cup {Parent} -> Labels]
      BY <1>1, <1>2, <1>3, PcType DEF GetCharEnter
    <2> QED BY <1>1, <1>3, <2>1 DEF GetCharEnter, TypeInv, RunsCurProc, FlagOK
  <1>4. CASE GetCharPoll(t)
    <2>1. intr' = TRUE /\ UNCHANGED <<load, cpu, rflags, disk, dst, uart>>
      BY <1>4 DEF GetCharPoll
    <2>2. CASE /\ HasCode(ring) /\ ring' = RingTake(ring)
               /\ pc' = [pc EXCEPT ![t] = "start"] /\ UNCHANGED sched
      <3>1. pc' \in [Entries \cup {Parent} -> Labels]
        BY <1>1, <1>2, <2>2, PcType
      <3>2. ring' \in Rings
        BY <2>2, RingTakeType DEF TypeInv
      <3> QED BY <1>1, <2>1, <2>2, <3>1, <3>2 DEF TypeInv, RunsCurProc, FlagOK
    <2>3. CASE /\ ~HasCode(ring) /\ sched' = BlockCurProc(sched, kbdQueue, 0, NULL)
               /\ pc' = [pc EXCEPT ![t] = "wait"] /\ UNCHANGED ring
      <3>1. pc' \in [Entries \cup {Parent} -> Labels]
        BY <1>1, <1>2, <2>3, PcType
      <3>2. kbdQueue \in Queues /\ NULL \in Pointers /\ 0 \in Blocks
        BY KernelAssumption, SchedulerAssumption DEF Pointers
      <3>3. sched' \in Memories /\ sched'.cur = sched.cur
        BY <1>1, <2>3, <3>2, BlockCurProcType DEF TypeInv
      <3> QED BY <1>1, <2>1, <2>3, <3>1, <3>3 DEF TypeInv, RunsCurProc, FlagOK
    <2> QED BY <1>4, <2>2, <2>3 DEF GetCharPoll
  <1> QED BY <1>3, <1>4

LEMMA ReadBlockType ==
    ASSUME TypeInv, NEW t \in Threads, ReadBlock(t)
    PROVE  TypeInv'
  <1>1. t \in Entries /\ t # Parent /\ sched.cur = t /\ cpu = t /\ rflags[Parent] = TRUE /\ load[t].blk \in Blocks
    BY StepFacts DEF ReadBlock
  <1>2. blockedQueue \in Queues /\ inProgress \in Queues /\ t \in Pointers
    BY <1>1, KernelAssumption DEF Pointers
  <1>3. PICK d \in Data : d = [blk |-> load[t].blk, dst |-> t]
    BY <1>1, <1>2 DEF Data
  <1>4. PICK w \in Memories : BlockedSet(sched, w, t, d)
    BY <1>1, SetBlocked DEF TypeInv
  <1>5. PICK b \in Memories : b = Push(w, blockedQueue, t) /\ b.cur = t
    <2>1. Push(w, blockedQueue, t) \in Memories /\ Push(w, blockedQueue, t).cur = w.cur
      <3>1. Push(w, blockedQueue, t) \in Memories /\ Beside(w, Push(w, blockedQueue, t))
        BY <1>1, <1>2, PushFields
      <3> QED BY <3>1 DEF Beside
    <2> QED BY <1>1, <1>4, <2>1 DEF BlockedSet
  <1>6. b = BlockCurProc(sched, blockedQueue, load[t].blk, t)
    BY <1>1, <1>3, <1>4, <1>5 DEF BlockCurProc, BlockedSet
  <1>7. b.len[blockedQueue] # 0 \/ ~Running(b)
    <2>1. w.len[blockedQueue] + 1 # 0 /\ w.len \in [Queues -> Nat]
      BY <1>2 DEF Memories
    <2>2. Running(w) /\ w.queue[t] = NULL => b.len[blockedQueue] = w.len[blockedQueue] + 1
      <3>1. SUFFICES ASSUME Running(w) /\ w.queue[t] = NULL PROVE b.len[blockedQueue] = w.len[blockedQueue] + 1
        OBVIOUS
      <3>2. b.len = [w.len EXCEPT ![blockedQueue] = @ + 1]
        BY <1>1, <1>2, <1>5, <3>1, PushFields
      <3> QED BY <1>2, <2>1, <3>2
    <2>3. ~(Running(w) /\ w.queue[t] = NULL) => ~Running(b)
      <3>1. CASE ~Running(w)
        <4>1. Push(w, blockedQueue, t) = w
          BY <3>1 DEF Push
        <4> QED BY <1>5, <3>1, <4>1
      <3>2. CASE Running(w) /\ w.queue[t] # NULL
        BY <1>1, <1>2, <1>5, <3>2, PushFields
      <3> QED BY <3>1, <3>2
    <2> QED BY <2>1, <2>2, <2>3
  <1>8. PICK n \in Memories : n = StartNext(b) /\ n.cur = t /\ (Running(n) => n.head[inProgress] \in Entries)
    BY <1>5, <1>7, StartNextType
  <1>9. Requested(n) \in Blocks \cup {NoBlock}
    BY <1>8, RequestedType
  <1>10. /\ sched' = IF Length(b, inProgress) = 0 THEN n ELSE b
         /\ disk' = IF Length(b, inProgress) = 0 THEN Requested(n) ELSE disk
         /\ intr' = TRUE /\ pc' = [pc EXCEPT ![t] = "issued"]
         /\ UNCHANGED <<load, cpu, rflags, ring, dst, uart>>
    BY <1>6, <1>8 DEF ReadBlock
  <1>11. "issued" \in Labels
    BY DEF Labels
  <1>12. pc' \in [Entries \cup {Parent} -> Labels]
    BY <1>1, <1>10, <1>11, PcType
  <1>13. sched' \in Memories /\ sched'.cur = t
    BY <1>5, <1>8, <1>10
  <1>14. disk' \in Blocks \cup {NoBlock}
    BY <1>9, <1>10 DEF TypeInv
  <1> QED BY <1>1, <1>10, <1>12, <1>13, <1>14 DEF TypeInv, RunsCurProc, FlagOK

LEMMA PrintedType ==
    ASSUME TypeInv, NEW t \in Threads, Printed(t)
    PROVE  TypeInv'
  <1>1. t \in Entries /\ t # Parent /\ sched.cur = t /\ cpu = t /\ rflags[Parent] = TRUE
    BY StepFacts DEF Printed
  <1>2. "exit" \in Labels /\ "returned" \in Faults \ {"none"}
    BY DEF Labels, Faults
  <1>3. Fatal(sched, "returned") \in Memories /\ Fatal(sched, "returned").cur = t
    BY <1>1, <1>2, FatalFields DEF TypeInv, Beside
  <1>4. sched' \in Memories /\ sched'.cur = t /\ pc' = [pc EXCEPT ![t] = "exit"]
        /\ intr' \in BOOLEAN /\ uart' \in BOOLEAN /\ UNCHANGED <<load, cpu, rflags, ring, disk, dst>>
    BY <1>1, <1>3 DEF Printed, printc, TypeInv
  <1>5. pc' \in [Entries \cup {Parent} -> Labels]
    BY <1>1, <1>2, <1>4, PcType
  <1> QED BY <1>1, <1>4, <1>5 DEF TypeInv, RunsCurProc, FlagOK

LEMMA CrawlType ==
    ASSUME TypeInv, NEW t \in Threads, Crawl(t)
    PROVE  TypeInv'
  <1>1. t \in Entries /\ t # Parent /\ sched.cur = t /\ cpu = t /\ rflags[Parent] = TRUE
    BY StepFacts DEF Crawl
  <1>2. PICK next \in Labels : pc' = [pc EXCEPT ![t] = next]
    BY DEF Crawl, Labels
  <1>3. pc' \in [Entries \cup {Parent} -> Labels]
    BY <1>1, <1>2, PcType
  <1>4. intr' \in BOOLEAN /\ uart' = TRUE /\ UNCHANGED <<load, sched, cpu, rflags, ring, disk, dst>>
    BY DEF Crawl, printc
  <1> QED BY <1>1, <1>3, <1>4 DEF TypeInv, RunsCurProc, FlagOK

LEMMA TakeIRQType ==
    ASSUME TypeInv, TakeIRQ, sched' \in Memories, sched'.cur = sched.cur, ring' \in Rings,
           disk' \in Blocks \cup {NoBlock}, dst' \in [Entries -> Blocks \cup {NoBytes}], uart' \in BOOLEAN
    PROVE  TypeInv'
  <1>1. "run" \in Labels
    BY DEF Labels
  <1>2. pc' \in [Entries \cup {Parent} -> Labels]
    BY <1>1, PcType DEF TakeIRQ, TypeInv
  <1> QED BY <1>2 DEF TakeIRQ, TypeInv, RunsCurProc, FlagOK

LEMMA InterruptType ==
    ASSUME TypeInv, Interrupt
    PROVE  TypeInv'
  <1>1. kbdQueue \in Queues /\ blockedQueue \in Queues /\ inProgress \in Queues
    BY KernelAssumption
  <1>2. CASE PS2_irq_handler
    <2>1. ring' \in Rings
      BY <1>2, RingPutType DEF PS2_irq_handler, TypeInv
    <2>2. sched' \in Memories /\ sched'.cur = sched.cur
      BY <1>1, <1>2, UnblockType DEF PS2_irq_handler, TypeInv
    <2> QED BY <1>2, <2>1, <2>2, TakeIRQType DEF PS2_irq_handler, TypeInv
  <1>3. CASE ata_irq_handler
    <2>1. PICK w \in Memories : w = Unblock(sched, inProgress) /\ w.cur = sched.cur
      BY <1>1, UnblockType DEF TypeInv
    <2>2. CASE Length(sched, inProgress) = 0
      <3>1. sched' = Fatal(sched, "ata") /\ UNCHANGED <<disk, dst>>
        BY <1>3, <2>2 DEF ata_irq_handler
      <3>2. "ata" \in Faults \ {"none"}
        BY DEF Faults
      <3>3. sched' \in Memories /\ sched'.cur = sched.cur
        BY <3>1, <3>2, FatalFields DEF TypeInv, Beside
      <3> QED BY <1>3, <3>1, <3>3, TakeIRQType DEF ata_irq_handler, TypeInv
    <2>3. CASE Length(sched, inProgress) # 0
      <3> DEFINE more == Length(w, blockedQueue) > 0
      <3>1. /\ sched' = IF more THEN StartNext(w) ELSE w
            /\ disk' = IF more THEN Requested(sched') ELSE NoBlock
            /\ UNCHANGED <<ring, uart>> /\ TakeIRQ
        BY <1>3, <2>1, <2>3 DEF ata_irq_handler
      <3>2. more => /\ StartNext(w) \in Memories /\ StartNext(w).cur = w.cur
                    /\ Requested(StartNext(w)) \in Blocks \cup {NoBlock}
        <4>1. more => w.len[blockedQueue] # 0
          BY <1>1 DEF Length, Memories
        <4> QED BY <4>1, StartNextType, RequestedType
      <3>3. sched' \in Memories /\ sched'.cur = sched.cur /\ disk' \in Blocks \cup {NoBlock}
        BY <2>1, <3>1, <3>2
      <3>4. disk \in Blocks /\ \E to : dst' = [dst EXCEPT ![to] = disk]
        BY <1>3, <2>3 DEF ata_irq_handler, TypeInv
      <3>5. dst' \in [Entries -> Blocks \cup {NoBytes}]
        BY <3>4 DEF TypeInv
      <3> QED BY <3>1, <3>3, <3>5, TakeIRQType DEF TypeInv
    <2> QED BY <2>2, <2>3
  <1>4. CASE serial_irq_handler
    BY <1>4, TakeIRQType DEF serial_irq_handler, TypeInv
  <1> QED BY <1>2, <1>3, <1>4 DEF Interrupt

LEMMA StepType ==
    ASSUME TypeInv, NEW t \in Threads, Step(t)
    PROVE  TypeInv'
  <1>1. "poll" \in Labels /\ "read" \in Labels /\ "start" \in Labels
    BY DEF Labels
  <1>2. CASE GetCharEnter(t) \/ GetCharPoll(t)
    BY <1>2, GetCharType
  <1>3. CASE GetCharYield(t)
    BY <1>1, <1>3, YieldType DEF GetCharYield
  <1>4. CASE ReadBlock(t)
    BY <1>4, ReadBlockType
  <1>5. CASE ReadBlockYield(t)
    BY <1>1, <1>5, YieldType DEF ReadBlockYield
  <1>6. CASE Printed(t)
    BY <1>6, PrintedType
  <1>7. CASE Crawl(t)
    BY <1>7, CrawlType
  <1>8. CASE CrawlYield(t)
    BY <1>1, <1>8, YieldType DEF CrawlYield
  <1>9. CASE ProcExit(t)
    BY <1>9, ProcExitType
  <1> QED BY <1>2, <1>3, <1>4, <1>5, <1>6, <1>7, <1>8, <1>9 DEF Step

(***************************************************************************)
(* Whatever the boot, every step of the code keeps the invariant.          *)
(***************************************************************************)
THEOREM KernelInvariant == Spec => []TypeInv
  <1>1. Init => TypeInv
    BY InitType
  <1>2. TypeInv /\ [Next]_vars => TypeInv'
    <2>1. SUFFICES ASSUME TypeInv, [Next]_vars PROVE TypeInv'
      OBVIOUS
    <2>2. CASE Kmain
      BY <2>1, <2>2, AddThreadType, ProcRunType, BlockForIRQType DEF Kmain
    <2>3. CASE Interrupt
      BY <2>1, <2>3, InterruptType
    <2>4. CASE \E t \in Threads : Step(t)
      BY <2>1, <2>4, StepType
    <2>5. CASE UNCHANGED vars
      BY <2>1, <2>5 DEF vars, TypeInv, RunsCurProc, FlagOK
    <2> QED BY <2>1, <2>2, <2>3, <2>4, <2>5 DEF Next
  <1> QED BY <1>1, <1>2, PTL DEF Spec

\* The state variables keep their ranges, in every boot and at every fault.
THEOREM KernelTypeCorrect == Spec => []TypeOK
  <1>1. TypeInv => TypeOK
    BY DEF TypeInv, TypeOK, Memories, Pointers, Data, Faults, Saved
  <1> QED BY <1>1, KernelInvariant, PTL

\* kmain executes hlt only with interrupts enabled: whoever hands the
\* processor back, kmain goes on with the flag it had, and that was set.
THEOREM KernelHaltedCanWake == Spec => []HaltedCanWake
  <1>1. TypeInv => HaltedCanWake
    BY DEF TypeInv, HaltedCanWake, FlagOK
  <1> QED BY <1>1, KernelInvariant, PTL

-----------------------------------------------------------------------------
(***************************************************************************)
(* The driver's counts agree with the disk.  Only Push and Pop of the two  *)
(* queues of the driver change what they count, stale head or not.         *)
(***************************************************************************)
Counts(m, d) ==
    Running(m) => /\ m.len[inProgress] = IF d = NoBlock THEN 0 ELSE 1
                  /\ m.len[blockedQueue] > 0 => d # NoBlock

SameCounts(m, w) ==
    Running(w) => /\ Running(m) /\ w.len[inProgress] = m.len[inProgress]
                  /\ w.len[blockedQueue] = m.len[blockedQueue]

Others == Queues \ {inProgress, blockedQueue}

LEMMA OtherQueues ==
    /\ runQueue \in Others /\ kbdQueue \in Others /\ inProgress \in Queues /\ blockedQueue \in Queues
    /\ inProgress # blockedQueue
  BY KernelAssumption DEF Others

LEMMA PushCounts ==
    ASSUME NEW m \in Memories, NEW q \in Others, NEW e \in Entries
    PROVE  SameCounts(m, Push(m, q, e))
  <1>1. q \in Queues /\ q # inProgress /\ q # blockedQueue
    BY DEF Others
  <1>2. CASE Running(m) /\ m.queue[e] = NULL
    <2>1. Push(m, q, e).len = [m.len EXCEPT ![q] = @ + 1]
      BY <1>1, <1>2, PushFields
    <2> QED BY <1>1, <1>2, <2>1, OtherQueues DEF SameCounts, Memories
  <1>3. CASE ~Running(m) \/ m.queue[e] # NULL
    BY <1>1, <1>3, PushFields DEF SameCounts
  <1> QED BY <1>2, <1>3

LEMMA PopCounts ==
    ASSUME NEW m \in Memories, NEW q \in Others
    PROVE  SameCounts(m, Pop(m, q))
  <1>1. q \in Queues /\ q # inProgress /\ q # blockedQueue
    BY DEF Others
  <1>2. CASE Running(m) /\ m.len[q] # 0 /\ m.head[q] # NULL
    <2>1. Pop(m, q).len = [m.len EXCEPT ![q] = @ - 1]
      BY <1>1, <1>2, PopFields
    <2> QED BY <1>1, <1>2, <2>1, OtherQueues DEF SameCounts, Memories
  <1>3. CASE ~Running(m) \/ m.len[q] = 0
    BY <1>1, <1>3, PopFields DEF SameCounts
  <1>4. CASE Running(m) /\ m.len[q] # 0 /\ m.head[q] = NULL
    BY <1>1, <1>4, PopFields DEF SameCounts
  <1> QED BY <1>2, <1>3, <1>4

\* A turn of Unblock pops its queue and may push on the run queue.
LEMMA UnblockOneCounts ==
    ASSUME NEW m \in Memories, NEW q \in Queues, m.len[q] # 0
    PROVE  SameCounts(Pop(m, q), UnblockOne(m, q))
  <1>1. PICK p \in Memories : p = Pop(m, q)
    BY PopFields
  <1>2. CASE ~Running(p)
    BY <1>1, <1>2 DEF UnblockOne, SameCounts
  <1>3. CASE Running(p)
    <2>1. Running(m)
      BY <1>1, <1>3, PopFields
    <2>2. PICK e \in Entries : e = Popped(m, q)
      BY <1>1, <1>3, <2>1, PopFields DEF Popped
    <2>3. PICK c \in Memories : DataSet(p, c, e, NoData)
      BY NoDataType, SetData
    <2>4. "RUNNING" \in ProcState /\ "RUNABLE" \in ProcState
      BY DEF ProcState
    <2>5. PICK r \in Memories : StateSet(c, r, e, "RUNNING")
      BY <2>4, SetState
    <2>6. PICK u \in Memories : StateSet(c, u, e, "RUNABLE")
      BY <2>4, SetState
    <2>7. UnblockOne(m, q) = IF e = m.cur THEN r ELSE Push(u, runQueue, e)
      BY <1>1, <1>3, <2>2, <2>3, <2>5, <2>6 DEF UnblockOne, DataSet, StateSet
    <2>8. SameCounts(u, Push(u, runQueue, e))
      BY PushCounts, OtherQueues
    <2>9. r.len = p.len /\ r.fault = p.fault /\ u.len = p.len /\ u.fault = p.fault
      BY <2>3, <2>5, <2>6 DEF DataSet, StateSet, Links
    <2> QED BY <1>1, <2>7, <2>8, <2>9 DEF SameCounts, Running
  <1> QED BY <1>2, <1>3

\* Waking up a reader of the keyboard leaves the disk's queues alone.
LEMMA UnblockCounts ==
    ASSUME NEW m \in Memories, NEW q \in Others
    PROVE  SameCounts(m, Unblock(m, q))
  <1>1. q \in Queues
    BY DEF Others
  <1>2. PICK M \in SUBSET Memories : M = {w \in Memories : SameCounts(m, w)}
    OBVIOUS
  <1>3. m \in M /\ Length(m, q) \in Nat
    BY <1>1, <1>2 DEF Memories, Length, SameCounts
  <1>4. ASSUME NEW w \in M, NEW i \in 1 .. Length(m, q) PROVE Turn(w, q, i) \in M
    <2>1. w \in Memories /\ w.len[q] \in Nat /\ SameCounts(m, w)
      BY <1>1, <1>2 DEF Memories
    <2>2. CASE i - 1 < w.len[q] /\ w.len[q] # 0
      <3>1. Turn(w, q, i) = UnblockOne(w, q) /\ UnblockOne(w, q) \in Memories
        BY <1>1, <2>1, <2>2, UnblockOneType DEF Turn, Length
      <3>2. SameCounts(w, Pop(w, q)) /\ SameCounts(Pop(w, q), UnblockOne(w, q))
        BY <1>1, <2>1, <2>2, PopCounts, UnblockOneCounts
      <3> QED BY <1>2, <2>1, <3>1, <3>2 DEF SameCounts
    <2>3. CASE ~(i - 1 < w.len[q])
      BY <2>3 DEF Turn, Length
    <2>4. CASE w.len[q] = 0
      BY <1>3, <2>4 DEF Turn, Length
    <2> QED BY <2>2, <2>3, <2>4
  <1>5. \E f \in [0 .. Length(m, q) -> M] : Turns(f, m, q)
    BY <1>3, <1>4, UnblockTurns
  <1>6. Unblock(m, q) \in M
    BY <1>3, <1>5 DEF Turns
  <1> QED BY <1>2, <1>6

\* Of the one request in progress nothing is left.
LEMMA UnblockLast ==
    ASSUME NEW m \in Memories, m.len[inProgress] = 1, Running(Unblock(m, inProgress))
    PROVE  /\ Unblock(m, inProgress).len[inProgress] = 0
           /\ Unblock(m, inProgress).len[blockedQueue] = m.len[blockedQueue]
  <1>1. Length(m, inProgress) = 1 /\ m.len[inProgress] # 0
    BY DEF Length
  <1>2. PICK u \in Memories : u = UnblockOne(m, inProgress)
    BY <1>1, UnblockOneType, OtherQueues
  <1>3. PICK M \in SUBSET Memories : M = {m, u}
    BY <1>2
  <1>4. ASSUME NEW w \in M, NEW i \in 1 .. Length(m, inProgress), w = m PROVE Turn(w, inProgress, i) = u
    BY <1>1, <1>2, <1>4 DEF Turn, Length
  <1>5. Unblock(m, inProgress) = u
    <2>1. Length(m, inProgress) \in Nat
      BY <1>1
    <2>2. \A w \in Memories, i \in 1 .. Length(m, inProgress) : Turn(w, inProgress, i) \in Memories
      <3>1. SUFFICES ASSUME NEW w \in Memories, NEW i \in 1 .. Length(m, inProgress)
                     PROVE  Turn(w, inProgress, i) \in Memories
        OBVIOUS
      <3>2. i = 1 /\ w.len[inProgress] \in Nat
        BY <1>1, OtherQueues DEF Memories
      <3>3. w.len[inProgress] # 0 => UnblockOne(w, inProgress) \in Memories
        BY UnblockOneType, OtherQueues
      <3> QED BY <3>2, <3>3 DEF Turn, Length
    <2>3. \E f \in [0 .. Length(m, inProgress) -> Memories] : Turns(f, m, inProgress)
      BY <2>1, <2>2, UnblockTurns
    <2>4. PICK f : Turns(f, m, inProgress)
      BY <2>3
    <2>5. f[0] = m /\ f[1] = Turn(f[1 - 1], inProgress, 1) /\ Unblock(m, inProgress) = f[1]
      BY <1>1, <2>4 DEF Turns
    <2> QED BY <1>1, <1>3, <1>4, <2>5
  <1>6. SameCounts(Pop(m, inProgress), u)
    BY <1>1, <1>2, OtherQueues, UnblockOneCounts
  <1>7. Running(Pop(m, inProgress))
    BY <1>5, <1>6 DEF SameCounts
  <1>8. Pop(m, inProgress).len = [m.len EXCEPT ![inProgress] = @ - 1]
    BY <1>1, <1>7, OtherQueues, PopFields
  <1>9. Pop(m, inProgress).len[inProgress] = 0 /\ Pop(m, inProgress).len[blockedQueue] = m.len[blockedQueue]
    BY <1>8, OtherQueues DEF Memories
  <1> QED BY <1>5, <1>6, <1>9 DEF SameCounts

\* The disk is told to read a block, and one request moves up.
LEMMA StartNextCounts ==
    ASSUME NEW m \in Memories, m.len[blockedQueue] # 0 \/ ~Running(m), Running(StartNext(m))
    PROVE  /\ StartNext(m).len[inProgress] = m.len[inProgress] + 1
           /\ Requested(StartNext(m)) \in Blocks \ {NoBlock}
  <1>1. PICK p \in Memories : p = Pop(m, blockedQueue)
    BY OtherQueues, PopFields
  <1>2. Running(p)
    BY <1>1 DEF StartNext, Push
  <1>3. Running(m) /\ m.len[blockedQueue] # 0
    BY <1>1, <1>2, OtherQueues, PopFields
  <1>4. PICK e \in Entries : e = Popped(m, blockedQueue)
    BY <1>1, <1>2, <1>3, OtherQueues, PopFields DEF Popped
  <1>5. StartNext(m) = Push(p, inProgress, e)
    BY <1>1, <1>4 DEF StartNext
  <1>6. p.len = [m.len EXCEPT ![blockedQueue] = @ - 1]
    BY <1>1, <1>2, <1>3, OtherQueues, PopFields
  <1>7. StartNext(m).len = [p.len EXCEPT ![inProgress] = @ + 1]
    <2>1. PICK q \in Queues : q = inProgress
      BY OtherQueues
    <2>2. Running(Push(p, q, e))
      BY <1>5, <2>1
    <2>3. p.queue[e] = NULL
      BY <1>2, <2>2, PushFields
    <2>4. Push(p, q, e).len = [p.len EXCEPT ![q] = @ + 1]
      BY <1>2, <2>3, PushFields
    <2> QED BY <1>5, <2>1, <2>4
  <1>8. PICK n \in Memories : n = StartNext(m) /\ n.head[inProgress] \in Entries
    BY StartNextType
  <1>9. Requested(StartNext(m)) \in Blocks \ {NoBlock}
    <2>1. PICK h \in Entries : h = n.head[inProgress]
      BY <1>8
    <2>2. Requested(n) = n.data[h].blk
      BY <1>8, <2>1 DEF Requested, Peak
    <2>3. n.data[h] \in Data
      BY DEF Memories
    <2>4. n.data[h].blk \in Blocks
      BY <2>3 DEF Data
    <2> QED BY <1>8, <2>2, <2>4, KernelAssumption
  <1> QED BY <1>6, <1>7, <1>9, OtherQueues DEF Memories

LEMMA ReapCounts ==
    ASSUME NEW m \in Memories
    PROVE  SameCounts(m, Reap(m))
  <1>1. CASE m.cur \in Entries
    <2>1. PICK c \in Entries : c = m.cur
      BY <1>1
    <2>2. PICK w \in Memories : ReapedSet(m, w, c)
      BY SetReaped
    <2>3. "wild" \in Faults \ {"none"}
      BY DEF Faults
    <2>4. ~Running(Fatal(m, "wild"))
      BY <2>3, FatalFields
    <2> QED BY <2>1, <2>2, <2>4 DEF Reap, ReapedSet, Links, SameCounts, Running
  <1>2. CASE m.cur = NULL
    BY <1>2 DEF Reap, SameCounts
  <1> QED BY <1>1, <1>2 DEF Memories, Pointers

LEMMA RequeueCounts ==
    ASSUME NEW m \in Memories
    PROVE  SameCounts(m, Requeue(m))
  <1>1. CASE CurCanRun(m)
    <2>1. PICK c \in Entries : c = m.cur
      BY <1>1 DEF CurCanRun, Memories, Pointers
    <2>2. "RUNABLE" \in ProcState
      BY DEF ProcState
    <2>3. PICK w \in Memories : StateSet(m, w, c, "RUNABLE")
      BY <2>2, SetState
    <2>4. Requeue(m) = Push(w, runQueue, c)
      BY <1>1, <2>1, <2>3 DEF Requeue, StateSet
    <2>5. SameCounts(w, Push(w, runQueue, c))
      BY PushCounts, OtherQueues
    <2> QED BY <2>3, <2>4, <2>5 DEF StateSet, Links, SameCounts, Running
  <1>2. CASE ~CurCanRun(m)
    BY <1>2 DEF Requeue, SameCounts
  <1> QED BY <1>1, <1>2

LEMMA DispatchCounts ==
    ASSUME NEW m \in Memories, m.len[runQueue] # 0
    PROVE  SameCounts(m, Dispatch(m))
  <1>1. PICK p \in Memories : p = Pop(m, runQueue) /\ SameCounts(m, p)
    BY PopFields, PopCounts, OtherQueues, SchedulerAssumption
  <1>2. CASE ~Running(p)
    BY <1>1, <1>2 DEF Dispatch
  <1>3. CASE Running(p)
    <2>1. PICK e \in Entries : e = Popped(m, runQueue)
      BY <1>1, <1>3, PopFields, SchedulerAssumption DEF Popped
    <2>2. PICK w \in Memories : CurSet(p, w, e)
      BY SetCur
    <2>3. Dispatch(m) = w
      BY <1>1, <1>3, <2>1, <2>2 DEF Dispatch, CurSet
    <2> QED BY <1>1, <2>2, <2>3 DEF CurSet, Links, SameCounts, Running
  <1> QED BY <1>2, <1>3

\* Reschedule works on the run queue only.
LEMMA RescheduleCounts ==
    ASSUME NEW m \in Memories
    PROVE  SameCounts(m, Reschedule(m))
  <1>1. PICK r \in Memories : r = Reap(m) /\ SameCounts(m, r)
    BY ReapType, ReapCounts
  <1>2. CASE ~Running(r) \/ r.len[runQueue] = 0
    BY <1>1, <1>2 DEF Reschedule, Length
  <1>3. CASE Running(r) /\ r.len[runQueue] # 0
    <2>1. PICK u \in Memories : u = Requeue(r) /\ SameCounts(r, u)
      BY RequeueType, RequeueCounts
    <2>2. Reschedule(m) = Dispatch(u)
      BY <1>1, <1>3, <2>1 DEF Reschedule, Length
    <2>3. CASE ~Running(u)
      <3>1. Pop(u, runQueue) = u
        BY <2>3, PopFields, SchedulerAssumption
      <3> QED BY <2>2, <2>3, <3>1 DEF Dispatch, SameCounts
    <2>4. CASE Running(u)
      <3>1. u.len[runQueue] # 0
        BY <1>3, <2>1, <2>4, RequeueLen
      <3>2. SameCounts(u, Dispatch(u))
        BY <3>1, DispatchCounts
      <3> QED BY <1>1, <2>1, <2>2, <3>2 DEF SameCounts
    <2> QED BY <2>3, <2>4
  <1> QED BY <1>2, <1>3

LEMMA LoadCounts ==
    ASSUME NEW s \in Memories, NEW saved, LoadContext(s, saved)
    PROVE  SameCounts(s, sched')
  <1>1. "wild" \in Faults \ {"none"}
    BY DEF Faults
  <1>2. ~Running(Fatal(s, "wild"))
    BY <1>1, FatalFields
  <1> QED BY <1>2 DEF LoadContext, SameCounts

\* A step that counts as before keeps what the disk is told.
LEMMA KeptCounts ==
    ASSUME Counts(sched, disk), SameCounts(sched, sched'), disk' = disk
    PROVE  Counts(sched', disk')
  BY DEF Counts, SameCounts

LEMMA ReadBlockCounts ==
    ASSUME TypeInv, Counts(sched, disk), NEW t \in Threads, ReadBlock(t)
    PROVE  Counts(sched', disk')
  <1>1. t \in Entries /\ sched.cur = t /\ load[t].blk \in Blocks /\ Running(sched)
    BY StepFacts DEF ReadBlock
  <1>2. PICK d \in Data : d = [blk |-> load[t].blk, dst |-> t]
    BY <1>1 DEF Data, Pointers
  <1>3. PICK w \in Memories : BlockedSet(sched, w, t, d)
    BY <1>1, SetBlocked DEF TypeInv
  <1>4. PICK b \in Memories : b = Push(w, blockedQueue, t)
    BY <1>1, OtherQueues, PushFields
  <1>5. b = BlockCurProc(sched, blockedQueue, load[t].blk, t)
    BY <1>1, <1>2, <1>3, <1>4 DEF BlockCurProc, BlockedSet
  <1>6. /\ sched' = IF Length(b, inProgress) = 0 THEN StartNext(b) ELSE b
        /\ disk' = IF Length(b, inProgress) = 0 THEN Requested(sched') ELSE disk
    BY <1>5 DEF ReadBlock
  <1>7. Running(w) /\ w.len = sched.len
    BY <1>1, <1>3 DEF BlockedSet, Links, Running
  <1>8. Running(b) => /\ b.len[inProgress] = sched.len[inProgress]
                      /\ b.len[blockedQueue] # 0
    <2>1. Running(b) => w.queue[t] = NULL
      BY <1>1, <1>4, <1>7, OtherQueues, PushFields
    <2>2. Running(b) => b.len = [sched.len EXCEPT ![blockedQueue] = @ + 1]
      <3>1. SUFFICES ASSUME Running(b) PROVE b.len = [w.len EXCEPT ![blockedQueue] = @ + 1]
        BY <1>7
      <3>2. w.queue[t] = NULL /\ blockedQueue \in Queues
        BY <2>1, <3>1, OtherQueues
      <3>3. Push(w, blockedQueue, t).len = [w.len EXCEPT ![blockedQueue] = @ + 1]
        BY <1>1, <1>7, <3>2, PushFields
      <3> QED BY <1>4, <3>3
    <2> QED BY <2>2, OtherQueues DEF TypeInv, Memories
  <1>9. CASE Length(b, inProgress) = 0
    <2>1. SUFFICES ASSUME Running(StartNext(b))
                   PROVE  Counts(sched', disk')
      BY <1>6, <1>9 DEF Counts
    <2>2. b.len[blockedQueue] # 0 \/ ~Running(b)
      BY <1>8
    <2>3. /\ StartNext(b).len[inProgress] = b.len[inProgress] + 1
          /\ Requested(StartNext(b)) \in Blocks \ {NoBlock}
      BY <2>1, <2>2, StartNextCounts
    <2> QED BY <1>6, <1>9, <2>3 DEF Counts, Length
  <1>10. CASE Length(b, inProgress) # 0
    <2>1. Running(b) => disk # NoBlock
      BY <1>1, <1>8, <1>10 DEF Counts, Length
    <2> QED BY <1>1, <1>6, <1>8, <1>10, <2>1 DEF Counts
  <1> QED BY <1>9, <1>10

LEMMA HandlerCounts ==
    ASSUME TypeInv, Counts(sched, disk), ata_irq_handler
    PROVE  Counts(sched', disk')
  <1>1. disk # NoBlock /\ Running(sched)
    BY DEF ata_irq_handler, TakeIRQ, Up
  <1>2. sched \in Memories /\ sched.len[inProgress] = 1 /\ Length(sched, inProgress) # 0
    BY <1>1 DEF Counts, TypeInv, Length
  <1>3. PICK w \in Memories : w = Unblock(sched, inProgress)
    BY <1>2, UnblockType, OtherQueues
  <1>4. /\ sched' = IF Length(w, blockedQueue) > 0 THEN StartNext(w) ELSE w
        /\ disk' = IF Length(w, blockedQueue) > 0 THEN Requested(sched') ELSE NoBlock
    BY <1>2, <1>3 DEF ata_irq_handler
  <1>5. Running(w) => w.len[inProgress] = 0
    BY <1>2, <1>3, UnblockLast
  <1>6. w.len[blockedQueue] \in Nat
    BY OtherQueues DEF Memories
  <1>7. CASE w.len[blockedQueue] > 0
    <2>1. sched' = StartNext(w) /\ disk' = Requested(StartNext(w))
      BY <1>4, <1>7 DEF Length
    <2>2. SUFFICES ASSUME Running(StartNext(w))
                   PROVE  Counts(sched', disk')
      BY <2>1 DEF Counts
    <2>3. w.len[blockedQueue] # 0
      BY <1>6, <1>7
    <2>4. /\ StartNext(w).len[inProgress] = w.len[inProgress] + 1
          /\ Requested(StartNext(w)) \in Blocks \ {NoBlock}
      BY <2>2, <2>3, StartNextCounts
    <2>5. Running(w)
      <3>1. ~Running(w) => Pop(w, blockedQueue) = w
        BY OtherQueues, PopFields
      <3>2. ~Running(w) => StartNext(w) = w
        BY <3>1 DEF StartNext, Push
      <3> QED BY <2>2, <3>2
    <2> QED BY <1>5, <2>1, <2>4, <2>5 DEF Counts
  <1>8. CASE ~(w.len[blockedQueue] > 0)
    <2>1. sched' = w /\ disk' = NoBlock
      BY <1>4, <1>8 DEF Length
    <2> QED BY <1>5, <1>8, <2>1 DEF Counts
  <1> QED BY <1>7, <1>8

\* The other steps leave the two queues' counts alone.
LEMMA KmainCounts ==
    ASSUME TypeInv, Kmain
    PROVE  SameCounts(sched, sched') /\ disk' = disk
  <1>1. sched \in Memories
    BY DEF TypeInv
  <1>2. CASE AddThread
    <2>1. PICK t \in Threads \ Added, residue \in Residues : sched' = Add(sched, t, residue)
      BY <1>2 DEF AddThread
    <2>2. t \in Entries
      BY KernelAssumption DEF TypeInv, Threads
    <2>3. PICK w \in Memories : AddedSet(sched, w, t, residue)
      BY <1>1, <2>2, SetAdded
    <2>4. Add(sched, t, residue) = Push(w, runQueue, t)
      BY <2>3 DEF Add, AddedSet
    <2>5. SameCounts(w, Push(w, runQueue, t))
      BY <2>2, PushCounts, OtherQueues
    <2> QED BY <1>2, <2>1, <2>3, <2>4, <2>5 DEF AddThread, AddedSet, SameCounts, Running
  <1>3. CASE ProcRun
    <2>1. PICK s \in Memories : s = Reschedule(sched) /\ SameCounts(sched, s)
      BY <1>1, RescheduleType, RescheduleCounts
    <2>2. SameCounts(s, sched')
      <3>1. CASE Chosen(s) = NULL
        BY <1>3, <2>1, <3>1 DEF ProcRun, syscall_run, SameCounts
      <3>2. CASE Chosen(s) # NULL
        <4>1. LoadContext(s, Save(Parent))
          BY <1>3, <2>1, <3>2 DEF ProcRun, syscall_run
        <4> QED BY <4>1, LoadCounts
      <3> QED BY <3>1, <3>2
    <2> QED BY <1>3, <2>1, <2>2 DEF ProcRun, SameCounts
  <1>4. CASE BlockForIRQ
    BY <1>4 DEF BlockForIRQ, SameCounts
  <1> QED BY <1>2, <1>3, <1>4 DEF Kmain

LEMMA YieldCounts ==
    ASSUME TypeInv, NEW next, NEW t, ProcYield(t, next)
    PROVE  SameCounts(sched, sched') /\ disk' = disk
  <1>1. PICK s \in Memories : s = Reschedule(sched) /\ SameCounts(sched, s)
    BY RescheduleType, RescheduleCounts DEF TypeInv
  <1>2. LoadContext(s, Save(sched.cur)) /\ disk' = disk
    BY <1>1 DEF ProcYield, syscall_yield
  <1>3. SameCounts(s, sched')
    BY <1>2, LoadCounts
  <1> QED BY <1>1, <1>2, <1>3 DEF SameCounts

LEMMA ExitCounts ==
    ASSUME TypeInv, NEW t \in Threads, ProcExit(t)
    PROVE  SameCounts(sched, sched') /\ disk' = disk
  <1>1. t \in Entries /\ sched.cur = t
    BY StepFacts DEF ProcExit
  <1>2. "EXITED" \in ProcState
    BY DEF ProcState
  <1>3. PICK w \in Memories : StateSet(sched, w, t, "EXITED")
    BY <1>1, <1>2, SetState DEF TypeInv
  <1>4. PICK s \in Memories : s = Reschedule(w) /\ SameCounts(w, s)
    BY RescheduleType, RescheduleCounts
  <1>5. LoadContext(s, rflags) /\ disk' = disk
    BY <1>1, <1>3, <1>4 DEF ProcExit, syscall_exit, StateSet
  <1>6. SameCounts(s, sched')
    BY <1>5, LoadCounts
  <1> QED BY <1>3, <1>4, <1>5, <1>6 DEF StateSet, Links, SameCounts, Running

LEMMA GetCharCounts ==
    ASSUME TypeInv, NEW t \in Threads, GetCharEnter(t) \/ GetCharPoll(t)
    PROVE  SameCounts(sched, sched') /\ disk' = disk
  <1>1. t \in Entries /\ sched.cur = t
    BY StepFacts DEF GetCharEnter, GetCharPoll
  <1>2. CASE sched' = sched
    BY <1>2 DEF GetCharEnter, GetCharPoll, SameCounts
  <1>3. CASE sched' = BlockCurProc(sched, kbdQueue, 0, NULL)
    <2>1. PICK d \in Data : d = [blk |-> 0, dst |-> NULL]
      BY SchedulerAssumption DEF Data, Pointers
    <2>2. PICK w \in Memories : BlockedSet(sched, w, t, d)
      BY <1>1, SetBlocked DEF TypeInv
    <2>3. BlockCurProc(sched, kbdQueue, 0, NULL) = Push(w, kbdQueue, t)
      BY <1>1, <2>1, <2>2 DEF BlockCurProc, BlockedSet
    <2>4. SameCounts(w, Push(w, kbdQueue, t))
      BY <1>1, PushCounts, OtherQueues
    <2> QED BY <1>3, <2>2, <2>3, <2>4 DEF BlockedSet, Links, SameCounts, Running, GetCharEnter, GetCharPoll
  <1> QED BY <1>2, <1>3 DEF GetCharEnter, GetCharPoll

LEMMA StepCounts ==
    ASSUME TypeInv, Counts(sched, disk), NEW t \in Threads, Step(t)
    PROVE  Counts(sched', disk')
  <1>1. CASE GetCharEnter(t) \/ GetCharPoll(t)
    BY <1>1, GetCharCounts, KeptCounts
  <1>2. CASE GetCharYield(t) \/ ReadBlockYield(t) \/ CrawlYield(t)
    <2>1. SameCounts(sched, sched') /\ disk' = disk
      BY <1>2, YieldCounts DEF GetCharYield, ReadBlockYield, CrawlYield
    <2> QED BY <2>1, KeptCounts
  <1>3. CASE ReadBlock(t)
    BY <1>3, ReadBlockCounts
  <1>4. CASE Printed(t)
    <2>1. "returned" \in Faults \ {"none"} /\ sched \in Memories
      BY DEF Faults, TypeInv
    <2>2. ~Running(Fatal(sched, "returned"))
      BY <2>1, FatalFields
    <2>3. SameCounts(sched, sched') /\ disk' = disk
      BY <1>4, <2>2 DEF Printed, SameCounts
    <2> QED BY <2>3, KeptCounts
  <1>5. CASE Crawl(t)
    <2>1. SameCounts(sched, sched') /\ disk' = disk
      BY <1>5 DEF Crawl, SameCounts
    <2> QED BY <2>1, KeptCounts
  <1>6. CASE ProcExit(t)
    BY <1>6, ExitCounts, KeptCounts
  <1> QED BY <1>1, <1>2, <1>3, <1>4, <1>5, <1>6 DEF Step

\* In every boot, with any number of readers, stale queue heads or not: the
\* disk works exactly while one request is counted in progress, and none is
\* counted as waiting for a disk that is idle.
THEOREM KernelDiskMatchesCounts == Spec => []DiskMatchesCounts
  <1> DEFINE DiskInv == Counts(sched, disk)
  <1>1. Init => DiskInv
    BY OtherQueues DEF Init, Counts, Idle, EmptyQueues
  <1>2. TypeInv /\ DiskInv /\ [Next]_vars => DiskInv'
    <2>1. SUFFICES ASSUME TypeInv, Counts(sched, disk), [Next]_vars PROVE Counts(sched', disk')
      OBVIOUS
    <2>2. CASE Kmain
      BY <2>1, <2>2, KmainCounts, KeptCounts
    <2>3. CASE PS2_irq_handler
      <3>1. SameCounts(sched, sched') /\ disk' = disk
        BY <2>1, <2>3, UnblockCounts, OtherQueues DEF PS2_irq_handler, TypeInv
      <3> QED BY <2>1, <3>1, KeptCounts
    <2>4. CASE ata_irq_handler
      BY <2>1, <2>4, HandlerCounts
    <2>5. CASE serial_irq_handler
      <3>1. SameCounts(sched, sched') /\ disk' = disk
        BY <2>5 DEF serial_irq_handler, SameCounts
      <3> QED BY <2>1, <3>1, KeptCounts
    <2>6. CASE \E t \in Threads : Step(t)
      BY <2>1, <2>6, StepCounts
    <2>7. CASE UNCHANGED vars
      BY <2>1, <2>7 DEF vars
    <2> QED BY <2>1, <2>2, <2>3, <2>4, <2>5, <2>6, <2>7 DEF Next, Interrupt
  <1>3. DiskInv => DiskMatchesCounts
    BY DEF Counts, DiskMatchesCounts, Up, Length
  <1> QED BY <1>1, <1>2, <1>3, KernelInvariant, PTL DEF Spec

-----------------------------------------------------------------------------
(***************************************************************************)
(* The ring implements the lossy FIFO.                                     *)
(***************************************************************************)
Size(r) == (BUF_SIZE + r.prod - r.cons) % BUF_SIZE

\* An index a turn ahead or not.
LEMMA Modulo ==
    ASSUME NEW n \in Nat \ {0}
    PROVE  /\ \A a \in 0 .. n - 1 : a % n = a /\ (n + a) % n = a
           /\ \A a, b \in 0 .. n - 1 : n + a - b = IF a >= b THEN n + (a - b) ELSE n - (b - a)
  <1>1. ASSUME NEW a \in 0 .. n - 1 PROVE a % n = a /\ (n + a) % n = a
    OBVIOUS
  <1> QED BY <1>1

LEMMA SizeFacts ==
    ASSUME NEW r \in Rings
    PROVE  /\ Size(r) \in 0 .. BUF_SIZE - 1
           /\ Size(r) = IF r.prod >= r.cons THEN r.prod - r.cons ELSE BUF_SIZE + r.prod - r.cons
  <1>1. BUF_SIZE \in Nat \ {0, 1} /\ r.prod \in 0 .. BUF_SIZE - 1 /\ r.cons \in 0 .. BUF_SIZE - 1
    BY RingAssumption DEF Rings
  <1>2. CASE r.prod >= r.cons
    <2>1. PICK d \in 0 .. BUF_SIZE - 1 : d = r.prod - r.cons
      BY <1>1, <1>2
    <2>2. BUF_SIZE + r.prod - r.cons = BUF_SIZE + d
      BY <1>1, <2>1
    <2>3. (BUF_SIZE + d) % BUF_SIZE = d
      BY <1>1, Modulo
    <2> QED BY <1>2, <2>1, <2>2, <2>3 DEF Size
  <1>3. CASE ~(r.prod >= r.cons)
    <2>1. PICK d \in 0 .. BUF_SIZE - 1 : d = BUF_SIZE + r.prod - r.cons
      BY <1>1, <1>3
    <2>2. d % BUF_SIZE = d
      BY <1>1, Modulo
    <2> QED BY <1>3, <2>1, <2>2 DEF Size
  <1> QED BY <1>2, <1>3

\* The slot of the i-th code held.
Slot(r, i) == IF r.cons + i - 1 < BUF_SIZE THEN r.cons + i - 1 ELSE r.cons + i - 1 - BUF_SIZE

LEMMA HeldFacts ==
    ASSUME NEW r \in Rings
    PROVE  /\ Held(r) = [i \in 1 .. Size(r) |-> r.buf[Slot(r, i)]]
           /\ Held(r) \in Seq(Codes \cup {Blank}) /\ Len(Held(r)) = Size(r)
           /\ \A i \in 1 .. Size(r) : Slot(r, i) \in 0 .. BUF_SIZE - 1
  <1>1. BUF_SIZE \in Nat \ {0, 1} /\ r.prod \in 0 .. BUF_SIZE - 1 /\ r.cons \in 0 .. BUF_SIZE - 1
        /\ r.buf \in [0 .. BUF_SIZE - 1 -> Codes \cup {Blank}]
    BY RingAssumption DEF Rings
  <1>2. Size(r) \in 0 .. BUF_SIZE - 1
    BY SizeFacts
  <1>3. ASSUME NEW i \in 1 .. Size(r)
        PROVE  (r.cons + i - 1) % BUF_SIZE = Slot(r, i) /\ Slot(r, i) \in 0 .. BUF_SIZE - 1
    <2>1. CASE r.cons + i - 1 < BUF_SIZE
      <3>1. PICK d \in 0 .. BUF_SIZE - 1 : d = r.cons + i - 1
        BY <1>1, <1>2, <2>1
      <3> QED BY <1>1, <2>1, <3>1, Modulo DEF Slot
    <2>2. CASE ~(r.cons + i - 1 < BUF_SIZE)
      <3>1. PICK d \in 0 .. BUF_SIZE - 1 : d = r.cons + i - 1 - BUF_SIZE
        BY <1>1, <1>2, <2>2
      <3>2. r.cons + i - 1 = BUF_SIZE + d
        BY <1>1, <1>2, <3>1
      <3>3. (BUF_SIZE + d) % BUF_SIZE = d
        BY <1>1, Modulo
      <3> QED BY <2>2, <3>1, <3>2, <3>3 DEF Slot
    <2> QED BY <2>1, <2>2
  <1>4. Held(r) = [i \in 1 .. Size(r) |-> r.buf[Slot(r, i)]]
    BY <1>3 DEF Held, Size
  <1>5. \A i \in 1 .. Size(r) : r.buf[Slot(r, i)] \in Codes \cup {Blank}
    BY <1>1, <1>3
  <1>6. Held(r) \in Seq(Codes \cup {Blank}) /\ Len(Held(r)) = Size(r)
    <2>1. PICK n \in Nat : n = Size(r)
      BY <1>2
    <2>2. Held(r) \in [1 .. n -> Codes \cup {Blank}]
      BY <1>4, <1>5, <2>1
    <2> QED BY <2>1, <2>2
  <1> QED BY <1>3, <1>4, <1>6

\* Tail and Append, index by index.
LEMMA Slices ==
    ASSUME NEW S, NEW s \in Seq(S), NEW e \in S
    PROVE  /\ Append(s, e) = [i \in 1 .. Len(s) + 1 |-> IF i = Len(s) + 1 THEN e ELSE s[i]]
           /\ Len(s) # 0 => /\ Tail(s) = [i \in 1 .. Len(s) - 1 |-> s[i + 1]]
                            /\ Tail(s) \in Seq(S) /\ Len(Tail(s)) = Len(s) - 1
  <1>1. PICK a \in Seq(S) : a = Append(s, e)
    BY AppendProperties
  <1>2. /\ Len(a) = Len(s) + 1 /\ a[Len(s) + 1] = e /\ Len(s) \in Nat
        /\ \A i \in 1 .. Len(s) : a[i] = s[i]
    BY <1>1, AppendProperties, LenProperties
  <1>3. a = [i \in 1 .. Len(s) + 1 |-> a[i]]
    BY <1>2, LenProperties
  <1>4. ASSUME Len(s) # 0
        PROVE  /\ Tail(s) = [i \in 1 .. Len(s) - 1 |-> s[i + 1]]
               /\ Tail(s) \in Seq(S) /\ Len(Tail(s)) = Len(s) - 1
    <2>1. s # <<>>
      BY <1>4
    <2>2. PICK t \in Seq(S) : t = Tail(s) /\ Len(t) = Len(s) - 1 /\ \A i \in 1 .. Len(t) : t[i] = s[i + 1]
      BY <2>1, HeadTailProperties
    <2>3. t = [i \in 1 .. Len(s) - 1 |-> t[i]]
      BY <2>2, LenProperties
    <2>4. \A i \in 1 .. Len(s) - 1 : t[i] = s[i + 1]
      BY <2>2
    <2>5. t = [i \in 1 .. Len(s) - 1 |-> s[i + 1]]
      BY <2>3, <2>4
    <2> QED BY <2>2, <2>5
  <1>5. \A i \in 1 .. Len(s) + 1 : a[i] = IF i = Len(s) + 1 THEN e ELSE s[i]
    BY <1>2
  <1>6. Append(s, e) = [i \in 1 .. Len(s) + 1 |-> IF i = Len(s) + 1 THEN e ELSE s[i]]
    BY <1>1, <1>3, <1>5
  <1> QED BY <1>4, <1>6

LEMMA TakeIsTake ==
    ASSUME NEW r \in Rings, HasCode(r)
    PROVE  Held(r) # <<>> /\ Held(RingTake(r)) = Tail(Held(r))
  <1>1. PICK w \in Rings : w = RingTake(r) /\ w.cons = BUF_INC(r.cons) /\ w.prod = r.prod /\ w.buf = r.buf
    BY RingTakeType DEF RingTake, Rings
  <1>2. BUF_SIZE \in Nat \ {0, 1} /\ r.prod \in 0 .. BUF_SIZE - 1 /\ r.cons \in 0 .. BUF_SIZE - 1
    BY RingAssumption DEF Rings
  <1>3. w.cons = IF r.cons + 1 = BUF_SIZE THEN 0 ELSE r.cons + 1
    BY <1>1, <1>2, IndexFacts
  <1>4. Size(r) \in 1 .. BUF_SIZE - 1 /\ Size(w) = Size(r) - 1
    BY <1>1, <1>2, <1>3, SizeFacts DEF HasCode
  <1>5. \A i \in 1 .. Size(w) : Slot(w, i) = Slot(r, i + 1)
    BY <1>2, <1>3, <1>4 DEF Slot
  <1>6. Tail(Held(r)) = [i \in 1 .. Size(w) |-> Held(r)[i + 1]]
    <2>1. Blank \in Codes \cup {Blank} /\ Held(r) \in Seq(Codes \cup {Blank}) /\ Len(Held(r)) # 0
      BY <1>4, HeldFacts
    <2> QED BY <1>4, <2>1, HeldFacts, Slices
  <1>7. \A i \in 1 .. Size(w) : Held(r)[i + 1] = r.buf[Slot(r, i + 1)]
    BY <1>4, HeldFacts
  <1>8. Held(w) = [i \in 1 .. Size(w) |-> w.buf[Slot(w, i)]]
    BY HeldFacts
  <1>9. Held(r) # <<>>
    BY <1>4, HeldFacts
  <1> QED BY <1>1, <1>5, <1>6, <1>7, <1>8, <1>9

LEMMA PutIsPut ==
    ASSUME NEW r \in Rings, NEW c \in Codes
    PROVE  Held(RingPut(r, c)) = Append(IF Len(Held(r)) = BUF_SIZE - 1 THEN Tail(Held(r)) ELSE Held(r), c)
  <1>1. PICK w \in Rings :
           /\ w = RingPut(r, c) /\ w.buf = [r.buf EXCEPT ![r.prod] = c] /\ w.prod = BUF_INC(r.prod)
           /\ w.cons = IF BUF_INC(r.prod) = r.cons THEN BUF_INC(r.cons) ELSE r.cons
    <2>1. RingPut(r, c) \in Rings
      BY RingPutType
    <2> QED BY <2>1 DEF RingPut
  <1>2. BUF_SIZE \in Nat \ {0, 1} /\ r.prod \in 0 .. BUF_SIZE - 1 /\ r.cons \in 0 .. BUF_SIZE - 1
        /\ r.buf \in [0 .. BUF_SIZE - 1 -> Codes \cup {Blank}]
    BY RingAssumption DEF Rings
  <1>3. w.prod = IF r.prod + 1 = BUF_SIZE THEN 0 ELSE r.prod + 1
    BY <1>1, <1>2, IndexFacts
  <1>4. Size(r) \in 0 .. BUF_SIZE - 1 /\ Len(Held(r)) = Size(r)
    BY SizeFacts, HeldFacts
  <1>5. Held(w) = [i \in 1 .. Size(w) |-> w.buf[Slot(w, i)]]
    BY HeldFacts
  <1>6. \A i \in 1 .. Size(r) : Slot(r, i) # r.prod /\ Slot(r, i) \in 0 .. BUF_SIZE - 1
    BY <1>2, <1>4, SizeFacts DEF Slot
  <1>7. CASE w.prod = r.cons
    <2>1. w.cons = IF r.cons + 1 = BUF_SIZE THEN 0 ELSE r.cons + 1
      BY <1>1, <1>2, <1>7, IndexFacts
    <2>2. Size(r) = BUF_SIZE - 1 /\ Size(w) = BUF_SIZE - 1
      BY <1>2, <1>3, <1>7, <2>1, SizeFacts
    <2>3. \A i \in 1 .. BUF_SIZE - 2 : Slot(w, i) = Slot(r, i + 1)
      BY <1>2, <2>1 DEF Slot
    <2>4. Slot(w, BUF_SIZE - 1) = r.prod
      BY <1>2, <1>3, <1>7, <2>1 DEF Slot
    <2>5. \A i \in 1 .. BUF_SIZE - 2 : i + 1 \in 1 .. Size(r)
      BY <1>2, <2>2
    <2>6. \A i \in 1 .. BUF_SIZE - 2 : w.buf[Slot(w, i)] = r.buf[Slot(r, i + 1)]
      BY <1>1, <1>2, <1>6, <2>3, <2>5
    <2>7. w.buf[Slot(w, BUF_SIZE - 1)] = c
      BY <1>1, <1>2, <2>4
    <2>8. PICK s \in Seq(Codes \cup {Blank}) : s = Tail(Held(r)) /\ Len(s) = BUF_SIZE - 2
      <3>1. Held(r) \in Seq(Codes \cup {Blank}) /\ Len(Held(r)) = BUF_SIZE - 1 /\ BUF_SIZE - 1 # 0
        BY <1>2, <2>2, HeldFacts
      <3>2. Blank \in Codes \cup {Blank} /\ (BUF_SIZE - 1) - 1 = BUF_SIZE - 2
        BY <1>2
      <3>3. Tail(Held(r)) \in Seq(Codes \cup {Blank}) /\ Len(Tail(Held(r))) = Len(Held(r)) - 1
        BY <1>2, <3>1, <3>2, Slices
      <3> QED BY <3>1, <3>2, <3>3
    <2>9. \A i \in 1 .. BUF_SIZE - 2 : s[i] = r.buf[Slot(r, i + 1)]
      BY <1>2, <2>2, <2>8, HeldFacts
    <2>10. Append(s, c) = [i \in 1 .. BUF_SIZE - 1 |-> IF i = BUF_SIZE - 1 THEN c ELSE s[i]]
      <3>1. c \in Codes \cup {Blank} /\ Len(s) + 1 = BUF_SIZE - 1
        BY <1>2, <2>8
      <3> QED BY <3>1, Slices
    <2>11. ASSUME NEW i \in 1 .. BUF_SIZE - 1
           PROVE  w.buf[Slot(w, i)] = IF i = BUF_SIZE - 1 THEN c ELSE s[i]
      BY <1>2, <2>6, <2>7, <2>9
    <2>12. Held(w) = Append(s, c)
      BY <1>5, <2>2, <2>10, <2>11
    <2> QED BY <1>1, <1>4, <2>2, <2>8, <2>12
  <1>8. CASE w.prod # r.cons
    <2>1. w.cons = r.cons
      BY <1>1, <1>8
    <2>2. Size(w) = Size(r) + 1 /\ Size(r) # BUF_SIZE - 1
      BY <1>2, <1>3, <1>8, <2>1, SizeFacts
    <2>3. \A i \in 1 .. Size(r) : Slot(w, i) = Slot(r, i)
      BY <2>1 DEF Slot
    <2>4. Slot(w, Size(r) + 1) = r.prod
      BY <1>2, <1>4, <2>1, SizeFacts DEF Slot
    <2>5. \A i \in 1 .. Size(r) : w.buf[Slot(w, i)] = r.buf[Slot(r, i)]
      BY <1>1, <1>2, <1>6, <2>3
    <2>6. w.buf[Slot(w, Size(r) + 1)] = c
      BY <1>1, <1>2, <2>4
    <2>7. Append(Held(r), c) = [i \in 1 .. Size(r) + 1 |-> IF i = Size(r) + 1 THEN c ELSE Held(r)[i]]
      <3>1. c \in Codes \cup {Blank} /\ Held(r) \in Seq(Codes \cup {Blank})
        BY HeldFacts
      <3> QED BY <1>4, <3>1, Slices
    <2>8. \A i \in 1 .. Size(r) : Held(r)[i] = r.buf[Slot(r, i)]
      BY HeldFacts
    <2>9. ASSUME NEW i \in 1 .. Size(r) + 1
          PROVE  w.buf[Slot(w, i)] = IF i = Size(r) + 1 THEN c ELSE Held(r)[i]
      BY <1>4, <2>5, <2>6, <2>8
    <2>10. Held(w) = Append(Held(r), c)
      BY <1>5, <2>2, <2>7, <2>9
    <2> QED BY <1>1, <1>4, <2>2, <2>10
  <1> QED BY <1>7, <1>8

\* A step of the kernel is a put, a take, or leaves the ring alone.
LEMMA RingSteps ==
    ASSUME [Next]_vars
    PROVE  ring' = ring \/ (HasCode(ring) /\ ring' = RingTake(ring)) \/ \E c \in Codes : ring' = RingPut(ring, c)
  <1>1. CASE Kmain
    BY <1>1 DEF Kmain, AddThread, ProcRun, BlockForIRQ
  <1>2. CASE Interrupt
    BY <1>2 DEF Interrupt, PS2_irq_handler, ata_irq_handler, serial_irq_handler
  <1>3. ASSUME NEW t \in Threads, Step(t)
        PROVE  ring' = ring \/ (HasCode(ring) /\ ring' = RingTake(ring))
    BY <1>3 DEF Step, GetCharEnter, GetCharPoll, GetCharYield, ReadBlock, ReadBlockYield, Printed,
                Crawl, CrawlYield, ProcExit, ProcYield
  <1>4. CASE UNCHANGED vars
    BY <1>4 DEF vars
  <1> QED BY <1>1, <1>2, <1>3, <1>4 DEF Next

\* Codes are taken in the order they were typed; a code is lost only when
\* BUF_SIZE - 1 newer ones have come: the interrupt handler's puts and
\* GetChar's takes, with any number of readers, make a lossy FIFO of the ring.
THEOREM KernelKeysInOrder == Spec => KeysInOrder
  <1>1. Init => Keys!Init
    <2>1. SUFFICES ASSUME Init PROVE Held(ring) = <<>>
      BY DEF Keys!Init
    <2>2. ring = EmptyRing /\ ring \in Rings
      BY <2>1, InitType DEF Init, TypeInv
    <2>3. Size(ring) = 0
      BY <2>2, SizeFacts, RingAssumption DEF EmptyRing
    <2> QED BY <2>2, <2>3, HeldFacts
  <1>2. TypeInv /\ [Next]_vars => [Keys!Next]_(Held(ring))
    <2>1. SUFFICES ASSUME TypeInv, [Next]_vars PROVE Keys!Next \/ Held(ring)' = Held(ring)
      OBVIOUS
    <2>2. ring \in Rings
      BY <2>1 DEF TypeInv
    <2>3. CASE ring' = ring
      BY <2>3
    <2>4. CASE HasCode(ring) /\ ring' = RingTake(ring)
      BY <2>2, <2>4, TakeIsTake DEF Keys!Next, Keys!Take
    <2>5. CASE \E c \in Codes : ring' = RingPut(ring, c)
      BY <2>2, <2>5, PutIsPut DEF Keys!Next, Keys!Put
    <2> QED BY <2>1, <2>3, <2>4, <2>5, RingSteps
  <1> QED BY <1>1, <1>2, KernelInvariant, PTL DEF Spec, KeysInOrder, Keys!Spec
=============================================================================
