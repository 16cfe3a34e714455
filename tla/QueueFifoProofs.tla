-------------------------- MODULE QueueFifoProofs --------------------------
(***************************************************************************)
(* For any number of entries: the links always spell out the FIFO's        *)
(* contents (IInv is inductive), no fault is reached, and the queue        *)
(* implements module Fifo.                                                 *)
(***************************************************************************)
EXTENDS QueueFifo, TLAPS

USE DEF Running, Peak, Length, Popped

(***************************************************************************)
(* What Push and Pop do to each field.                                     *)
(***************************************************************************)
Pushed(m, w, e) ==
    /\ w \in Memories /\ Running(w)
    /\ w.len[q] = m.len[q] + 1 /\ w.tail[q] = e
    /\ w.head[q] = IF m.head[q] = NULL THEN e ELSE m.head[q]
    /\ w.queue = [m.queue EXCEPT ![e] = q]
    /\ w.nxt = IF m.head[q] = NULL THEN [m.nxt EXCEPT ![e] = e]
               ELSE [[m.nxt EXCEPT ![e] = NULL] EXCEPT ![m.tail[q]] = e]

LEMMA PushFields ==
    ASSUME NEW m \in Memories, Running(m), NEW e \in Entries, m.queue[e] = NULL,
           m.head[q] # NULL => m.tail[q] \in Entries
    PROVE  Pushed(m, Push(m, q, e), e)
  <1> DEFINE nxt == IF m.head[q] = NULL THEN [m.nxt EXCEPT ![e] = e]
                    ELSE [[m.nxt EXCEPT ![e] = NULL] EXCEPT ![m.tail[q]] = e]
             head == IF m.head[q] = NULL THEN [m.head EXCEPT ![q] = e] ELSE m.head
             linked == [m EXCEPT !.nxt = nxt, !.head = head]
             pushed == [m EXCEPT !.nxt = nxt, !.head = head,
                                 !.len = [m.len EXCEPT ![q] = @ + 1],
                                 !.queue = [m.queue EXCEPT ![e] = q],
                                 !.tail = [m.tail EXCEPT ![q] = e]]
  <1>1. LinkAtTail(m, q, e) = linked
    BY DEF LinkAtTail, Memories
  <1>2. Push(m, q, e) = pushed
    BY <1>1 DEF Push, Memories
  <1>3. nxt \in [Entries -> Entries \cup {NULL}]
    BY DEF Memories
  <1>4. head \in [{q} -> Entries \cup {NULL}] /\ head[q] = IF m.head[q] = NULL THEN e ELSE m.head[q]
    BY DEF Memories
  <1>5. /\ pushed \in Memories
        /\ pushed.nxt = nxt /\ pushed.head = head /\ pushed.fault = m.fault
        /\ pushed.len[q] = m.len[q] + 1 /\ pushed.tail[q] = e
        /\ pushed.queue = [m.queue EXCEPT ![e] = q]
    <2> HIDE DEF nxt, head
    <2>1. /\ [m.len EXCEPT ![q] = @ + 1] \in [{q} -> Nat]
          /\ [m.queue EXCEPT ![e] = q] \in [Entries -> {q, NULL}]
          /\ [m.tail EXCEPT ![q] = e] \in [{q} -> Entries \cup {NULL}]
          /\ m.fault \in {"none", "requeued", "wild"}
      BY DEF Memories
    <2>2. pushed \in Memories
      BY <1>3, <1>4, <2>1 DEF Memories
    <2>3. /\ pushed.nxt = nxt /\ pushed.head = head /\ pushed.fault = m.fault
          /\ pushed.len = [m.len EXCEPT ![q] = @ + 1]
          /\ pushed.tail = [m.tail EXCEPT ![q] = e]
          /\ pushed.queue = [m.queue EXCEPT ![e] = q]
      BY DEF Memories
    <2>4. [m.len EXCEPT ![q] = @ + 1][q] = m.len[q] + 1 /\ [m.tail EXCEPT ![q] = e][q] = e
      BY DEF Memories
    <2> QED BY <2>2, <2>3, <2>4
  <1>6. Pushed(m, pushed, e)
    BY <1>4, <1>5 DEF Pushed
  <1> QED BY <1>2, <1>6

\* The fields of the memory Pop leaves.
LEMMA PopFields ==
    ASSUME NEW m \in Memories, Running(m), m.len[q] # 0, m.head[q] \in Entries
    PROVE  /\ Pop(m, q) \in Memories
           /\ Running(Pop(m, q))
           /\ Pop(m, q).len[q] = m.len[q] - 1
           /\ Pop(m, q).tail[q] = m.tail[q]
           /\ Pop(m, q).head[q] = m.nxt[m.head[q]]
           /\ Pop(m, q).queue = [m.queue EXCEPT ![m.head[q]] = NULL]
           /\ Pop(m, q).nxt = [m.nxt EXCEPT ![m.head[q]] = NULL]
  <1> DEFINE h == m.head[q]
             popped == [m EXCEPT !.len = [m.len EXCEPT ![q] = @ - 1],
                                 !.head = [m.head EXCEPT ![q] = m.nxt[h]],
                                 !.queue = [m.queue EXCEPT ![h] = NULL],
                                 !.nxt = [m.nxt EXCEPT ![h] = NULL]]
  <1>1. Pop(m, q) = popped
    BY NULLAssumption DEF Pop, Memories
  <1>2. m.len[q] - 1 \in Nat
    BY DEF Memories
  <1>3. popped \in Memories
    BY <1>2 DEF Memories
  <1>4. /\ popped.fault = m.fault
        /\ popped.len[q] = m.len[q] - 1 /\ popped.tail[q] = m.tail[q]
        /\ popped.head[q] = m.nxt[h]
        /\ popped.queue = [m.queue EXCEPT ![h] = NULL]
        /\ popped.nxt = [m.nxt EXCEPT ![h] = NULL]
    BY DEF Memories
  <1> QED BY <1>1, <1>3, <1>4

-----------------------------------------------------------------------------
\* A constructed Queue satisfies the inductive invariant.
LEMMA InitIInv == Init => IInv
  <1> SUFFICES ASSUME Init PROVE IInv
    OBVIOUS
  <1>1. mem = EmptyQueues /\ items = <<>> /\ out = NULL
    BY DEF Init
  <1>2. mem \in Memories
    BY <1>1, QueueAssumption DEF EmptyQueues, Memories
  <1>3. TypeOK /\ NeverFaults
    BY <1>1, <1>2 DEF TypeOK, NeverFaults, EmptyQueues
  <1>4. LinksSpellItems
    BY <1>1, QueueAssumption, NULLAssumption DEF LinksSpellItems, Held, EmptyQueues
  <1> QED BY <1>3, <1>4 DEF IInv

-----------------------------------------------------------------------------
(***************************************************************************)
(* Sequence facts in the form the steps need.                              *)
(***************************************************************************)
LEMMA AppendFacts ==
    ASSUME NEW s \in Seq(Entries), NEW e \in Entries
    PROVE  /\ Append(s, e) \in Seq(Entries)
           /\ Len(Append(s, e)) = Len(s) + 1
           /\ \A i \in 1 .. Len(s) : Append(s, e)[i] = s[i]
           /\ Append(s, e)[Len(s) + 1] = e
  OBVIOUS

\* Tail drops the first element.
LEMMA TailFacts ==
    ASSUME NEW s \in Seq(Entries), Len(s) # 0
    PROVE  /\ Tail(s) \in Seq(Entries)
           /\ Len(Tail(s)) = Len(s) - 1
           /\ \A i \in 1 .. Len(s) - 1 : Tail(s)[i] = s[i + 1]
           /\ Head(s) = s[1] /\ s # <<>>
  OBVIOUS

\* What a FIFO of entries holds are entries.
LEMMA ItemsAreEntries ==
    ASSUME TypeOK
    PROVE  /\ Len(items) \in Nat
           /\ \A i \in 1 .. Len(items) : items[i] \in Entries
  BY DEF TypeOK

(***************************************************************************)
(* A push the discipline allows keeps the links in step with items.        *)
(***************************************************************************)
LEMMA PushKeepsIInv ==
    ASSUME IInv, NEW e \in Entries, DoPush(e)
    PROVE  IInv'
  <1> DEFINE n == Len(items)
  <1> USE DEF IInv
  <1>1. n \in Nat /\ \A i \in 1 .. n : items[i] \in Entries
    BY ItemsAreEntries
  <1>2. mem \in Memories /\ Running(mem) /\ mem.queue[e] = NULL
    BY DEF DoPush, MayPush, TypeOK, NeverFaults, LinksSpellItems, Memories
  <1>3. n = 0 => mem.head[q] \in {NULL, e} /\ (mem.head[q] = e => mem.tail[q] = e)
    BY <1>1, NULLAssumption DEF DoPush, MayPush, Stale, LinksSpellItems
  <1>4. n > 0 => mem.head[q] = items[1] /\ mem.tail[q] = items[n]
                 /\ items[1] \in Entries /\ items[n] \in Entries
    BY <1>1 DEF LinksSpellItems
  <1>5. mem.head[q] # NULL => mem.tail[q] \in Entries
    BY <1>1, <1>3, <1>4
  <1>6. /\ mem' \in Memories
        /\ Running(mem')
        /\ mem'.len[q] = mem.len[q] + 1
        /\ mem'.tail[q] = e
        /\ mem'.head[q] = IF mem.head[q] = NULL THEN e ELSE mem.head[q]
        /\ mem'.queue = [mem.queue EXCEPT ![e] = q]
        /\ mem'.nxt = IF mem.head[q] = NULL THEN [mem.nxt EXCEPT ![e] = e]
                      ELSE [[mem.nxt EXCEPT ![e] = NULL] EXCEPT ![mem.tail[q]] = e]
    <2>1. mem' = Push(mem, q, e)
      BY DEF DoPush
    <2>2. Pushed(mem, mem', e)
      BY <1>2, <1>5, <2>1, PushFields
    <2> QED BY <2>2 DEF Pushed
  <1>7. /\ items' \in Seq(Entries) /\ Len(items') = n + 1
        /\ \A i \in 1 .. n : items'[i] = items[i]
        /\ items'[n + 1] = e
    BY AppendFacts DEF DoPush, TypeOK
  <1>8. \A i \in 1 .. n : items[i] # e
    BY DEF DoPush, MayPush, Held
  <1>9. TypeOK' /\ NeverFaults'
    BY <1>6, <1>7 DEF TypeOK, NeverFaults, DoPush
  <1>10. Held' = Held \cup {e}
    <2>1. ASSUME NEW x PROVE x \in Held' <=> x \in Held \cup {e}
      BY <1>1, <1>7 DEF Held
    <2> QED BY <2>1
  <1>11. \A x \in Entries : mem'.queue[x] = q <=> x \in Held'
    BY <1>6, <1>10, <1>2 DEF LinksSpellItems, Memories
  <1>12. mem'.len[q] = Len(items')
    BY <1>6, <1>7 DEF LinksSpellItems
  <1>13. \A i, j \in 1 .. Len(items') : items'[i] = items'[j] => i = j
    BY <1>1, <1>7, <1>8 DEF LinksSpellItems
  <1>14. mem'.head[q] = items'[1] /\ mem'.tail[q] = items'[Len(items')]
    <2>1. CASE n = 0
      BY <2>1, <1>3, <1>6, <1>7
    <2>2. CASE n > 0
      BY <2>2, <1>1, <1>4, <1>6, <1>7, NULLAssumption
    <2> QED BY <1>1, <2>1, <2>2
  <1>15. n = 0 => mem'.nxt[e] = e
    BY <1>2, <1>3, <1>6 DEF Memories
  <1>16. n > 0 => /\ mem'.nxt[items[n]] = e
                  /\ mem'.nxt[e] = NULL
                  /\ \A i \in 1 .. n - 1 : mem'.nxt[items[i]] = mem.nxt[items[i]]
    <2> SUFFICES ASSUME n > 0
                 PROVE  /\ mem'.nxt[items[n]] = e
                        /\ mem'.nxt[e] = NULL
                        /\ \A i \in 1 .. n - 1 : mem'.nxt[items[i]] = mem.nxt[items[i]]
      OBVIOUS
    <2>1. mem'.nxt = [[mem.nxt EXCEPT ![e] = NULL] EXCEPT ![items[n]] = e]
      BY <1>4, <1>6, NULLAssumption
    <2>2. items[n] # e /\ items[n] \in Entries
      BY <1>1, <1>8
    <2>3. \A i \in 1 .. n - 1 : items[i] # items[n] /\ items[i] # e /\ items[i] \in Entries
      BY <1>1, <1>8 DEF LinksSpellItems
    <2>4. mem.nxt \in [Entries -> Entries \cup {NULL}]
      BY <1>2 DEF Memories
    <2> QED BY <2>1, <2>2, <2>3, <2>4
  <1>17. \A i \in 1 .. Len(items') - 1 : mem'.nxt[items'[i]] = items'[i + 1]
    <2> SUFFICES ASSUME NEW i \in 1 .. n PROVE mem'.nxt[items'[i]] = items'[i + 1]
      BY <1>1, <1>7
    <2>1. CASE i = n
      BY <2>1, <1>1, <1>7, <1>16
    <2>2. CASE i < n
      <3>1. i \in 1 .. n - 1 /\ i + 1 \in 1 .. n
        BY <1>1, <2>2
      <3>2. mem.nxt[items[i]] = items[i + 1]
        BY <3>1 DEF LinksSpellItems
      <3> QED BY <3>1, <3>2, <1>1, <1>7, <1>16
    <2> QED BY <1>1, <2>1, <2>2
  <1>18. /\ Len(items') > 1 => mem'.nxt[items'[Len(items')]] = NULL
         /\ Len(items') = 1 => mem'.nxt[items'[1]] \in {NULL, items'[1]}
    BY <1>1, <1>7, <1>15, <1>16
  <1>19. Len(items') > 0
    BY <1>1, <1>7
  <1>20. LinksSpellItems'
    BY <1>11, <1>12, <1>13, <1>14, <1>17, <1>18, <1>19 DEF LinksSpellItems
  <1> QED BY <1>9, <1>20

(***************************************************************************)
(* A pop returns the oldest item and keeps the links in step.              *)
(***************************************************************************)
LEMMA PopKeepsIInv ==
    ASSUME IInv, DoPop
    PROVE  /\ IInv'
           /\ items = <<>> => out' = NULL /\ items' = items
           /\ items # <<>> => out' = Head(items) /\ items' = Tail(items)
  <1> DEFINE n == Len(items)
  <1> USE DEF IInv
  <1>1. n \in Nat /\ \A i \in 1 .. n : items[i] \in Entries
    BY ItemsAreEntries
  <1>2. mem \in Memories /\ Running(mem) /\ mem.len[q] = n
    BY DEF TypeOK, NeverFaults, LinksSpellItems
  <1>3. CASE n = 0
    <2>1. items = <<>>
      BY <1>3 DEF TypeOK
    <2>2. mem' = mem /\ items' = items /\ out' = NULL
      BY <1>2, <1>3, <2>1 DEF DoPop, Pop
    <2>3. IInv'
      BY <2>2 DEF TypeOK, NeverFaults, LinksSpellItems, Held
    <2> QED BY <2>1, <2>2, <2>3
  <1>4. CASE n > 0
    <2>1. items # <<>> /\ items' = Tail(items) /\ out' = items[1] /\ Head(items) = items[1]
      BY <1>1, <1>2, <1>4, TailFacts DEF DoPop, LinksSpellItems, TypeOK
    <2>2. /\ items' \in Seq(Entries) /\ Len(items') = n - 1
          /\ \A i \in 1 .. n - 1 : items'[i] = items[i + 1]
      BY <1>4, <2>1, TailFacts DEF TypeOK
    <2>3. mem.head[q] = items[1] /\ items[1] \in Entries /\ mem.tail[q] = items[n]
      BY <1>1, <1>4 DEF LinksSpellItems
    <2>4. /\ mem' \in Memories
          /\ Running(mem')
          /\ mem'.len[q] = n - 1
          /\ mem'.tail[q] = mem.tail[q]
          /\ mem'.head[q] = mem.nxt[items[1]]
          /\ mem'.queue = [mem.queue EXCEPT ![items[1]] = NULL]
          /\ mem'.nxt = [mem.nxt EXCEPT ![items[1]] = NULL]
      <3>1. mem.len[q] # 0 /\ mem.head[q] \in Entries /\ mem' = Pop(mem, q)
        BY <1>1, <1>2, <1>4, <2>3 DEF DoPop
      <3> HIDE DEF IInv
      <3> QED BY <1>2, <2>3, <3>1, PopFields
    <2>5. TypeOK' /\ NeverFaults'
      BY <2>1, <2>2, <2>3, <2>4 DEF TypeOK, NeverFaults
    <2>6. \A i, j \in 1 .. n : items[i] = items[j] => i = j
      BY DEF LinksSpellItems
    <2>7. \A x \in Entries : mem'.queue[x] = q <=> x \in Held'
      <3> TAKE x \in Entries
      <3>1. CASE x = items[1]
        <4>1. mem'.queue[x] = NULL
          BY <3>1, <2>4, <1>2 DEF Memories
        <4>2. \A i \in 1 .. n - 1 : items'[i] # x
          BY <1>1, <1>4, <2>2, <2>6, <3>1
        <4> QED BY <4>1, <4>2, <2>2, NULLAssumption, QueueAssumption DEF Held
      <3>2. CASE x # items[1]
        <4>1. mem'.queue[x] = mem.queue[x]
          BY <3>2, <2>4, <1>2 DEF Memories
        <4>2. x \in Held => x \in Held'
          <5> SUFFICES ASSUME NEW i \in 1 .. n, x = items[i]
                       PROVE  \E k \in 1 .. n - 1 : items'[k] = x
            BY <2>2 DEF Held
          <5>1. i # 1 /\ i - 1 \in 1 .. n - 1 /\ (i - 1) + 1 = i
            BY <1>1, <3>2
          <5> QED BY <5>1, <2>2
        <4>3. x \in Held' => x \in Held
          <5> SUFFICES ASSUME NEW i \in 1 .. n - 1, x = items'[i]
                       PROVE  \E k \in 1 .. n : items[k] = x
            BY <2>2 DEF Held
          <5>1. i + 1 \in 1 .. n
            BY <1>1
          <5> QED BY <5>1, <2>2
        <4> QED BY <4>1, <4>2, <4>3 DEF LinksSpellItems
      <3> QED BY <3>1, <3>2
    <2>8. \A i, j \in 1 .. Len(items') : items'[i] = items'[j] => i = j
      <3> SUFFICES ASSUME NEW i \in 1 .. n - 1, NEW j \in 1 .. n - 1, items'[i] = items'[j]
                   PROVE  i = j
        BY <2>2
      <3>1. i + 1 \in 1 .. n /\ j + 1 \in 1 .. n /\ items[i + 1] = items[j + 1]
        BY <1>1, <2>2
      <3> QED BY <3>1, <2>6
    <2>9. \A i \in 2 .. n : mem'.nxt[items[i]] = mem.nxt[items[i]]
      <3>1. \A i \in 2 .. n : i \in 1 .. n /\ items[i] # items[1] /\ items[i] \in Entries
        BY <1>1, <1>4, <2>6
      <3> QED BY <3>1, <2>4, <1>2 DEF Memories
    <2>10. \A i \in 1 .. n - 1 : mem.nxt[items[i]] = items[i + 1]
      BY DEF LinksSpellItems
    <2>11. \A i \in 1 .. Len(items') - 1 : mem'.nxt[items'[i]] = items'[i + 1]
      <3> SUFFICES ASSUME NEW i \in 1 .. n - 2 PROVE mem'.nxt[items'[i]] = items'[i + 1]
        BY <1>1, <2>2
      <3>1. /\ i \in 1 .. n - 1 /\ i + 1 \in 1 .. n - 1 /\ i + 1 \in 2 .. n
        BY <1>1
      <3>2. items'[i] = items[i + 1] /\ items'[i + 1] = items[(i + 1) + 1]
        BY <3>1, <2>2
      <3> QED BY <3>1, <3>2, <2>9, <2>10
    <2>12. Len(items') > 0 => /\ mem'.head[q] = items'[1]
                              /\ mem'.tail[q] = items'[Len(items')]
      <3> SUFFICES ASSUME n - 1 > 0
                   PROVE  mem'.head[q] = items'[1] /\ mem'.tail[q] = items'[n - 1]
        BY <2>2
      <3>1. 1 \in 1 .. n - 1 /\ n - 1 \in 1 .. n - 1 /\ (n - 1) + 1 = n
        BY <1>1
      <3>2. items'[1] = items[1 + 1] /\ items'[n - 1] = items[n]
        BY <3>1, <2>2
      <3> QED BY <3>1, <3>2, <2>3, <2>4, <2>10
    <2>13. Len(items') > 1 => mem'.nxt[items'[Len(items')]] = NULL
      <3> SUFFICES ASSUME n - 1 > 1 PROVE mem'.nxt[items'[n - 1]] = NULL
        BY <2>2
      <3>1. n - 1 \in 1 .. n - 1 /\ (n - 1) + 1 = n /\ n \in 2 .. n
        BY <1>1
      <3>2. items'[n - 1] = items[n]
        BY <3>1, <2>2
      <3> QED BY <3>1, <3>2, <2>9 DEF LinksSpellItems
    <2>14. Len(items') = 1 => mem'.nxt[items'[1]] \in {NULL, items'[1]}
      <3>1. ASSUME n = 2 PROVE mem'.nxt[items'[1]] = NULL
        <4>1. 1 \in 1 .. n - 1 /\ n \in 2 .. n /\ n > 1 /\ 1 + 1 = n
          BY <3>1
        <4>2. items'[1] = items[n]
          BY <4>1, <2>2
        <4>3. mem.nxt[items[n]] = NULL
          BY <4>1 DEF LinksSpellItems
        <4>4. mem'.nxt[items[n]] = mem.nxt[items[n]]
          BY <4>1, <2>9
        <4> QED BY <4>2, <4>3, <4>4
      <3>2. Len(items') = n - 1
        BY <2>2
      <3>3. ASSUME n - 1 = 1 PROVE n = 2
        BY <1>1, <3>3
      <3> QED BY <3>1, <3>2, <3>3
    <2>15. Len(items') = 0 => mem'.head[q] \in {NULL, mem'.tail[q]}
      <3> SUFFICES ASSUME n = 1 PROVE mem'.head[q] \in {NULL, mem'.tail[q]}
        BY <1>1, <2>2
      <3> QED BY <2>3, <2>4 DEF LinksSpellItems
    <2>16. LinksSpellItems'
      BY <2>2, <2>4, <2>7, <2>8, <2>11, <2>12, <2>13, <2>14, <2>15 DEF LinksSpellItems
    <2> QED BY <2>1, <2>5, <2>16
  <1> QED BY <1>1, <1>3, <1>4

\* Peak changes nothing.
LEMMA PeekKeepsIInv ==
    ASSUME IInv, DoPeak
    PROVE  IInv' /\ items # <<>> /\ out' = Head(items) /\ items' = items
  <1>1. Len(items) \in Nat /\ \A i \in 1 .. Len(items) : items[i] \in Entries
    BY ItemsAreEntries DEF IInv
  <1>2. Len(items) > 0 /\ out' = items[1] /\ mem' = mem /\ items' = items
    BY <1>1 DEF DoPeak, IInv, LinksSpellItems
  <1>3. Head(items) = items[1] /\ items # <<>>
    BY <1>1, <1>2, TailFacts DEF IInv, TypeOK
  <1>4. IInv'
    BY <1>1, <1>2 DEF IInv, TypeOK, NeverFaults, LinksSpellItems, Held
  <1> QED BY <1>2, <1>3, <1>4

\* Every step keeps the inductive invariant.
LEMMA NextKeepsIInv == IInv /\ [Next]_vars => IInv'
  <1> SUFFICES ASSUME IInv, [Next]_vars PROVE IInv'
    OBVIOUS
  <1>1. CASE DoPop
    BY <1>1, PopKeepsIInv
  <1>2. CASE DoPeak
    BY <1>2, PeekKeepsIInv
  <1>3. ASSUME NEW e \in Entries, DoPush(e) PROVE IInv'
    BY <1>3, PushKeepsIInv
  <1>4. CASE UNCHANGED vars
    BY <1>4 DEF vars, IInv, TypeOK, NeverFaults, LinksSpellItems, Held
  <1> QED BY <1>1, <1>2, <1>3, <1>4 DEF Next

-----------------------------------------------------------------------------
(***************************************************************************)
(* Theorems.                                                               *)
(***************************************************************************)
\* The inductive invariant holds: Queue::Push and Queue::Pop keep their
\* links, back pointers, tail and len in step with the FIFO's contents.
THEOREM QueueInvariant == Spec => []IInv
  <1> QED BY InitIInv, NextKeepsIInv, PTL DEF Spec

\* Every field keeps its type.
THEOREM QueueTypeCorrect == Spec => []TypeOK
  <1>1. IInv => TypeOK
    BY DEF IInv
  <1> QED BY <1>1, QueueInvariant, PTL

\* Push's FATAL and Pop's walk through a NULL head are unreachable for a
\* client that keeps to MayPush.
THEOREM QueueNeverFaults == Spec => []NeverFaults
  <1>1. IInv => NeverFaults
    BY DEF IInv
  <1> QED BY <1>1, QueueInvariant, PTL

\* The links spell out the FIFO's contents.
THEOREM QueueLinksSpellItems == Spec => []LinksSpellItems
  <1>1. IInv => LinksSpellItems
    BY DEF IInv
  <1> QED BY <1>1, QueueInvariant, PTL

\* Pop and Peak answer what a FIFO would: the queue implements module Fifo.
THEOREM QueueImplementsFifo == Spec => ImplementsFifo
  <1>1. Init => F!Init
    BY DEF Init, F!Init
  <1>2. IInv /\ [Next]_vars => [F!Next]_F!vars
    <2> SUFFICES ASSUME IInv, [Next]_vars PROVE [F!Next]_F!vars
      OBVIOUS
    <2>1. CASE DoPop
      <3>1. F!Take
        BY <2>1, PopKeepsIInv DEF F!Take
      <3> QED BY <3>1 DEF F!Next
    <2>2. CASE DoPeak
      <3>1. F!Look
        BY <2>2, PeekKeepsIInv DEF F!Look
      <3> QED BY <3>1 DEF F!Next
    <2>3. ASSUME NEW e \in Entries, DoPush(e) PROVE F!Put(e)
      BY <2>3 DEF DoPush, MayPush, Held, F!Put
    <2>4. CASE UNCHANGED vars
      BY <2>4 DEF vars, F!vars
    <2> QED BY <2>1, <2>2, <2>3, <2>4 DEF Next, F!Next
  <1> QED BY <1>1, <1>2, QueueInvariant, PTL DEF Spec, ImplementsFifo, F!Spec
=============================================================================
