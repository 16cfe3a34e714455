-------------------------- MODULE FramePoolProofs --------------------------
(***************************************************************************)
(* For any machines whose boot leaves what Booted says, any number of      *)
(* frames and any client: no frame is in two places, the list threaded     *)
(* through the freed frames survives, the kernel is never handed out, and  *)
(* the allocator implements module Pool.                                   *)
(***************************************************************************)
EXTENDS FramePool, SequenceTheorems, TLAPS

(***************************************************************************)
(* The fields of a memory, one at a time.                                  *)
(***************************************************************************)
LEMMA ElementFacts ==
    ASSUME NEW S, NEW s \in Seq(S), NEW i \in DOMAIN s
    PROVE  s[i] \in S /\ i \in Nat
  OBVIOUS

\* The fields of a memory have their types.
LEMMA FieldFacts ==
    ASSUME NEW f \in Memories
    PROVE  /\ f.reg \in Seq(Regions) /\ f.ex \in Seq(Spans)
           /\ f.tail \in Frames \cup {NoFrame}
           /\ f.prev \in [Frames -> Words \cup Frames \cup {NoFrame}]
  BY DEF Memories

\* The places a region can go on from are natural numbers.
LEMMA StartsNat ==
    ASSUME NEW f \in Memories, NEW i \in DOMAIN f.reg
    PROVE  /\ f.reg[i] \in Regions
           /\ f.reg[i].start \in Nat /\ f.reg[i].end \in Nat /\ f.reg[i].nxt \in Nat
           /\ f.reg[i].end <= TopFrame + 1
           /\ Starts(f, f.reg[i]) \subseteq Nat /\ f.reg[i].nxt \in Starts(f, f.reg[i])
  <1>1. f.reg[i] \in Regions
    BY FieldFacts, ElementFacts
  <1>2. \A k \in DOMAIN f.ex : f.ex[k].end + 1 \in Nat
    <2> TAKE k \in DOMAIN f.ex
    <2>1. f.ex[k] \in Spans
      BY FieldFacts, ElementFacts
    <2> QED BY <2>1 DEF Spans
  <1>3. f.reg[i].end \in 0 .. TopFrame + 1 /\ f.reg[i].start \in Nat /\ f.reg[i].nxt \in Nat
    BY <1>1 DEF Regions
  <1> QED BY <1>1, <1>2, <1>3, FrameAssumption DEF Starts, Past

\* What replacing reg by RegionsAfter(f, i, frame) changes.
LEMMA RegionsAfterFacts ==
    ASSUME NEW f \in Memories, NEW i \in Nat, NEW frame \in Nat
    PROVE  /\ RegionsAfter(f, i, frame) \in Seq(Regions)
           /\ DOMAIN RegionsAfter(f, i, frame) = DOMAIN f.reg
           /\ \A j \in DOMAIN f.reg :
                 /\ RegionsAfter(f, i, frame)[j].start = f.reg[j].start
                 /\ RegionsAfter(f, i, frame)[j].end = f.reg[j].end
                 /\ RegionsAfter(f, i, frame)[j].nxt =
                       IF j < i THEN f.reg[j].end
                       ELSE IF j = i THEN frame + 1
                       ELSE f.reg[j].nxt
  <1> DEFINE R == RegionsAfter(f, i, frame)
             nxt(j) == IF j < i THEN f.reg[j].end ELSE IF j = i THEN frame + 1 ELSE f.reg[j].nxt
  <1>1. R = [j \in DOMAIN f.reg |-> [f.reg[j] EXCEPT !.nxt = nxt(j)]]
    BY DEF RegionsAfter
  <1>2. \A j \in DOMAIN f.reg : R[j] = [f.reg[j] EXCEPT !.nxt = nxt(j)]
    BY <1>1
  <1>3. \A j \in DOMAIN f.reg : f.reg[j] \in Regions /\ nxt(j) \in Nat
    BY StartsNat
  <1>4. \A j \in DOMAIN f.reg :
           R[j] \in Regions /\ R[j].start = f.reg[j].start
           /\ R[j].end = f.reg[j].end /\ R[j].nxt = nxt(j)
    <2> TAKE j \in DOMAIN f.reg
    <2> HIDE DEF R, nxt
    <2> QED BY <1>2, <1>3 DEF Regions
  <1>5. DOMAIN R = DOMAIN f.reg /\ R \in Seq(Regions)
    <2>1. DOMAIN f.reg = 1 .. Len(f.reg) /\ Len(f.reg) \in Nat
      BY FieldFacts
    <2>2. R \in [1 .. Len(f.reg) -> Regions]
      BY <1>1, <1>4, <2>1
    <2> HIDE DEF R
    <2> QED BY <2>1, <2>2
  <1> QED BY <1>4, <1>5

(***************************************************************************)
(* Fresh depends on reg and ex alone.                                      *)
(***************************************************************************)
LEMMA FreshFacts ==
    ASSUME NEW f \in Memories, NEW g \in Memories, g.reg = f.reg, g.ex = f.ex
    PROVE  Fresh(g) = Fresh(f) /\ (RegionsApart(f) => RegionsApart(g))
  BY DEF Fresh, Starts, Past, RegionsApart

\* A frame a region gives was fresh, and is the one frame that stops to be.
LEMMA FromRegionFacts ==
    ASSUME NEW f \in Memories, RegionsApart(f), NEW r \in FromRegion(f)
    PROVE  /\ r.frame \in Fresh(f)
           /\ Fresh(r.mem) = Fresh(f) \ {r.frame}
           /\ r.mem \in Memories /\ RegionsApart(r.mem)
           /\ r.mem.ex = f.ex /\ r.mem.tail = f.tail /\ r.mem.prev = f.prev
  <1>1. PICK i \in Givers(f) : \E p \in Heads(f, f.reg[i]) :
           r = [mem |-> [f EXCEPT !.reg = RegionsAfter(f, i, p)], frame |-> p]
    BY DEF FromRegion
  <1>0. PICK p \in Heads(f, f.reg[i]) :
           r = [mem |-> [f EXCEPT !.reg = RegionsAfter(f, i, p)], frame |-> p]
    BY <1>1
  <1> DEFINE R == RegionsAfter(f, i, p)
             g == [f EXCEPT !.reg = R]
  <1>2. /\ i \in DOMAIN f.reg /\ i \in Nat /\ ~Exhausted(f, f.reg[i])
        /\ \A j \in 1 .. i - 1 : Exhausted(f, f.reg[j])
    BY FieldFacts DEF Givers
  <1>3. p \in Starts(f, f.reg[i]) /\ p \in Nat /\ \A c \in Starts(f, f.reg[i]) : c <= p
    BY <1>2, StartsNat DEF Heads
  <1>4. f.reg[i].nxt <= p /\ p < f.reg[i].end
    BY <1>2, <1>3, StartsNat DEF Exhausted
  <1>5. f.reg[i].start <= p /\ p # 0 /\ p \in Frames
    BY <1>2, <1>3, <1>4, StartsNat, FrameAssumption DEF RegionsApart, Frames
  <1>6. p \in Fresh(f)
    BY <1>2, <1>3, <1>4, <1>5 DEF Fresh
  <1>7. /\ R \in Seq(Regions) /\ DOMAIN R = DOMAIN f.reg
        /\ \A j \in DOMAIN f.reg :
              /\ R[j].start = f.reg[j].start /\ R[j].end = f.reg[j].end
              /\ R[j].nxt = IF j < i THEN f.reg[j].end ELSE IF j = i THEN p + 1 ELSE f.reg[j].nxt
    <2>1. i \in Nat /\ p \in Nat
      BY <1>2, <1>3
    <2> QED BY <2>1, RegionsAfterFacts
  <1>8. /\ g \in Memories /\ g.reg = R /\ g.ex = f.ex
        /\ g.tail = f.tail /\ g.prev = f.prev
    <2> HIDE DEF R
    <2> QED BY <1>7 DEF Memories
  <1>9. RegionsApart(g)
    <2> HIDE DEF R, g
    <2>1. ASSUME NEW j \in DOMAIN R
          PROVE  /\ R[j].start <= R[j].end /\ R[j].start <= R[j].nxt
                 /\ R[j].nxt = 0 => R[j].end = 0
      BY <1>3, <1>5, <1>7, StartsNat DEF RegionsApart
    <2>2. \A j, k \in DOMAIN R : j # k => R[j].end <= R[k].start \/ R[k].end <= R[j].start
      BY <1>7 DEF RegionsApart
    <2> QED BY <1>8, <2>1, <2>2 DEF RegionsApart
  <1>10. \A j \in DOMAIN f.reg : Starts(g, R[j]) = {R[j].nxt} \cup Past(f, f.reg[j])
    <2> TAKE j \in DOMAIN f.reg
    <2>1. R[j].start = f.reg[j].start /\ R[j].end = f.reg[j].end
      BY <1>7
    <2>2. \A x : Touches(R[j], x) <=> Touches(f.reg[j], x)
      BY <2>1 DEF Touches
    <2> HIDE DEF R, g
    <2> QED BY <1>8, <2>2 DEF Starts, Past
  <1>11. \A a \in Frames : a \in Fresh(g) <=>
            \E j \in DOMAIN f.reg : /\ a < f.reg[j].end /\ R[j].nxt <= a
                                    /\ \A c \in Past(f, f.reg[j]) : c <= a
    <2> HIDE DEF R, g
    <2> QED BY <1>7, <1>8, <1>10 DEF Fresh
  <1>12. \A a \in Frames : a \in Fresh(f) <=>
            \E j \in DOMAIN f.reg : /\ a < f.reg[j].end /\ f.reg[j].nxt <= a
                                    /\ \A c \in Past(f, f.reg[j]) : c <= a
    BY DEF Fresh, Starts
  <1>13. ASSUME NEW a \in Frames, a \in Fresh(g) PROVE a \in Fresh(f) /\ a # p
    <2>1. PICK j \in DOMAIN f.reg : /\ a < f.reg[j].end /\ R[j].nxt <= a
                                    /\ \A c \in Past(f, f.reg[j]) : c <= a
      BY <1>11, <1>13
    <2>2. j \in Nat /\ a \in Nat
      BY FieldFacts, ElementFacts DEF Frames
    <2>3. ~(j < i)
      BY <2>1, <2>2, <1>7, StartsNat
    <2>4. CASE j = i
      BY <2>1, <2>2, <2>4, <1>3, <1>4, <1>7, <1>12, StartsNat
    <2>5. CASE j > i
      <3>1. R[j].nxt = f.reg[j].nxt
        BY <2>2, <2>5, <1>2, <1>7
      <3>2. f.reg[j].start <= a
        BY <2>1, <2>2, <3>1, StartsNat DEF RegionsApart
      <3>3. f.reg[i].end <= f.reg[j].start \/ f.reg[j].end <= f.reg[i].start
        BY <1>2, <2>2, <2>5 DEF RegionsApart
      <3>4. a # p
        BY <2>1, <2>2, <3>2, <3>3, <1>2, <1>3, <1>4, <1>5, StartsNat
      <3> QED BY <3>1, <3>4, <2>1, <1>12
    <2> QED BY <2>2, <2>3, <2>4, <2>5, <1>2
  <1>14. ASSUME NEW a \in Frames, a \in Fresh(f), a # p PROVE a \in Fresh(g)
    <2>1. PICK j \in DOMAIN f.reg : /\ a < f.reg[j].end /\ f.reg[j].nxt <= a
                                    /\ \A c \in Past(f, f.reg[j]) : c <= a
      BY <1>12, <1>14
    <2>2. j \in Nat /\ a \in Nat
      BY FieldFacts, ElementFacts DEF Frames
    <2>3. ~(j < i)
      <3> SUFFICES ASSUME j < i PROVE FALSE
        OBVIOUS
      <3>1. j \in 1 .. i - 1
        BY FieldFacts, <1>2
      <3>2. Exhausted(f, f.reg[j])
        BY <1>2, <3>1
      <3> QED BY <3>2, <2>1, <2>2, StartsNat DEF Exhausted, Starts
    <2>4. R[j].nxt <= a
      <3>1. CASE j = i
        <4>1. p <= a
          BY <3>1, <2>1, <1>3 DEF Starts
        <4> QED BY <4>1, <3>1, <2>2, <1>3, <1>7, <1>14
      <3>2. CASE j > i
        BY <3>2, <2>1, <2>2, <1>2, <1>7
      <3> QED BY <3>1, <3>2, <2>2, <2>3, <1>2
    <2> QED BY <2>1, <2>4, <1>11
  <1>15. Fresh(g) = Fresh(f) \ {p}
    <2>1. Fresh(g) \subseteq Frames /\ Fresh(f) \subseteq Frames
      BY DEF Fresh
    <2> QED BY <2>1, <1>13, <1>14
  <1>16. r.mem = g /\ r.frame = p
    BY <1>0
  <1> HIDE DEF g
  <1> QED BY <1>6, <1>8, <1>9, <1>15, <1>16
\* The list gives only when nothing is fresh, and leaves nothing fresh.
LEMMA FromListFacts ==
    ASSUME NEW f \in Memories, RegionsApart(f), NEW r \in FromList(f),
           f.tail # NoFrame => f.prev[f.tail] \in Frames \cup {NoFrame}
    PROVE  /\ Fresh(f) = {} /\ Fresh(r.mem) = {}
           /\ r.frame = f.tail
           /\ r.mem \in Memories /\ RegionsApart(r.mem)
           /\ r.mem.ex = f.ex /\ r.mem.prev = f.prev
           /\ r.mem.tail = IF f.tail = NoFrame THEN NoFrame ELSE f.prev[f.tail]
  <1> DEFINE n == Len(f.reg) + 1
             R == RegionsAfter(f, n, NoFrame)
             next == IF f.tail = NoFrame THEN NoFrame ELSE f.prev[f.tail]
             g == [f EXCEPT !.reg = R, !.tail = next]
  <1>1. /\ \A j \in DOMAIN f.reg : Exhausted(f, f.reg[j])
        /\ r = [mem |-> g, frame |-> f.tail]
    BY DEF FromList
  <1>2. n \in Nat /\ \A j \in DOMAIN f.reg : j \in Nat /\ j < n
    BY FieldFacts
  <1>3. /\ R \in Seq(Regions) /\ DOMAIN R = DOMAIN f.reg
        /\ \A j \in DOMAIN f.reg :
              R[j].start = f.reg[j].start /\ R[j].end = f.reg[j].end /\ R[j].nxt = f.reg[j].end
    <2>1. NoFrame \in Nat
      BY DEF NoFrame
    <2>2. PICK k \in Nat, x \in Nat : k = n /\ x = NoFrame
      BY <1>2, <2>1
    <2>3. PICK S : S = RegionsAfter(f, k, x)
      OBVIOUS
    <2>4. S \in Seq(Regions) /\ DOMAIN S = DOMAIN f.reg
      BY <2>3, RegionsAfterFacts
    <2>5. ASSUME NEW j \in DOMAIN f.reg
          PROVE  S[j].start = f.reg[j].start /\ S[j].end = f.reg[j].end /\ S[j].nxt = f.reg[j].end
      <3>1. j < k
        BY <1>2, <2>2
      <3> QED BY <2>3, <3>1, RegionsAfterFacts
    <2>6. R = S
      BY <2>2, <2>3
    <2> QED BY <2>4, <2>5, <2>6
  <1>4. next \in Frames \cup {NoFrame}
    OBVIOUS
  <1>5. /\ g \in Memories /\ g.reg = R /\ g.ex = f.ex
        /\ g.tail = next /\ g.prev = f.prev
    <2> HIDE DEF R, next
    <2> QED BY <1>3, <1>4 DEF Memories
  <1>6. RegionsApart(g)
    <2> HIDE DEF R, g
    <2> QED BY <1>3, <1>5, StartsNat DEF RegionsApart
  <1>7. Fresh(g) = {}
    <2> HIDE DEF R, g
    <2>1. ASSUME NEW a \in Frames, NEW j \in DOMAIN R, a < R[j].end
          PROVE  ~(R[j].nxt <= a)
      BY <2>1, <1>3, StartsNat DEF Frames
    <2> QED BY <2>1, <1>5 DEF Fresh, Starts
  <1>8. Fresh(f) = {}
    <2>1. ASSUME NEW a \in Frames, NEW j \in DOMAIN f.reg, a < f.reg[j].end,
                 \A c \in Starts(f, f.reg[j]) : c <= a
          PROVE  FALSE
      <3>1. f.reg[j].nxt <= a /\ a \in Nat
        BY <2>1, StartsNat DEF Frames
      <3>2. Exhausted(f, f.reg[j])
        BY <1>1
      <3> QED BY <2>1, <3>1, <3>2, StartsNat DEF Exhausted
    <2> QED BY <2>1 DEF Fresh
  <1> HIDE DEF g
  <1> QED BY <1>1, <1>5, <1>6, <1>7, <1>8

\* An excluded frame is never fresh.
LEMMA FreshNotExcluded ==
    ASSUME NEW f \in Memories, RegionsApart(f), NEW a \in Fresh(f)
    PROVE  ~Excluded(f, a)
  <1> SUFFICES ASSUME NEW x \in DOMAIN f.ex, f.ex[x].start <= a, a < f.ex[x].end
               PROVE  FALSE
    BY DEF Excluded
  <1>1. PICK j \in DOMAIN f.reg :
           a < f.reg[j].end /\ \A c \in Starts(f, f.reg[j]) : c <= a
    BY DEF Fresh
  <1>2. a \in Nat /\ f.ex[x].start \in Nat /\ f.ex[x].end \in Nat
    <2>1. f.ex[x] \in Spans
      BY FieldFacts, ElementFacts
    <2> QED BY <2>1 DEF Spans, Fresh, Frames
  <1>3. f.reg[j].start <= a
    BY <1>1, <1>2, StartsNat DEF RegionsApart
  <1>4. Touches(f.reg[j], f.ex[x])
    BY <1>1, <1>2, <1>3, StartsNat DEF Touches
  <1>5. f.ex[x].end + 1 \in Starts(f, f.reg[j])
    BY <1>4 DEF Starts, Past
  <1> QED BY <1>1, <1>2, <1>5
-----------------------------------------------------------------------------
\* Front drops the last element.
LEMMA FrontFacts ==
    ASSUME NEW S, NEW s \in Seq(S), s # <<>>
    PROVE  /\ Front(s) \in Seq(S) /\ Len(Front(s)) = Len(s) - 1
           /\ Len(s) \in Nat /\ Len(s) > 0
           /\ \A i \in 1 .. Len(s) - 1 : Front(s)[i] = s[i]
  <1>1. Len(s) \in Nat /\ Len(s) > 0 /\ \A i \in 1 .. Len(s) : s[i] \in S
    OBVIOUS
  <1>2. 1 \in 1 .. Len(s) + 1 /\ Len(s) - 1 \in (1 - 1) .. Len(s)
    BY <1>1
  <1>3. /\ Front(s) \in Seq(S)
        /\ Len(Front(s)) = IF 1 <= Len(s) - 1 THEN Len(s) - 1 ELSE 0
        /\ \A i \in 1 .. Len(s) - 1 : Front(s)[i] = s[i]
    BY <1>1, <1>2, SubSeqProperties DEF Front
  <1>4. \A n \in Nat : n > 0 => (IF 1 <= n - 1 THEN n - 1 ELSE 0) = n - 1
    OBVIOUS
  <1>5. Len(Front(s)) = Len(s) - 1
    BY <1>1, <1>3, <1>4
  <1> QED BY <1>1, <1>3, <1>5

\* init_mem_regions leaves the inductive invariant true.
LEMMA InitIInv == Init => IInv
  <1> SUFFICES ASSUME Init PROVE IInv
    OBVIOUS
  <1>1. Booted(mem, machine) /\ machine \in Machines /\ mem = init_mem_regions(machine)
    BY BootAssumption DEF Init
  <1>2. held = {} /\ freed = <<>> /\ out = NoFrame
    BY DEF Init
  <1>3. TypeOK /\ RegionsApart(mem)
    BY <1>1, <1>2 DEF TypeOK, Booted
  <1>4. NoneExcluded /\ FramesPartitioned
    BY <1>1, <1>2 DEF NoneExcluded, FramesPartitioned, Freed
  <1>5. LinksSpellFreed
    BY <1>1, <1>2 DEF LinksSpellFreed, Booted
  <1> QED BY <1>3, <1>4, <1>5 DEF IInv

(***************************************************************************)
(* The end of the list, as the links spell it.                             *)
(***************************************************************************)
LEMMA TailFacts ==
    ASSUME TypeOK, LinksSpellFreed
    PROVE  /\ freed = <<>> <=> mem.tail = NoFrame
           /\ freed # <<>> =>
                 /\ Len(freed) \in Nat /\ Len(freed) > 0 /\ mem.tail = freed[Len(freed)]
                 /\ mem.tail \in Frames
                 /\ mem.prev[mem.tail] = IF Len(freed) = 1 THEN NoFrame
                                         ELSE freed[Len(freed) - 1]
                 /\ mem.prev[mem.tail] \in Frames \cup {NoFrame}
  <1>1. CASE freed = <<>>
    BY <1>1 DEF LinksSpellFreed
  <1>2. CASE freed # <<>>
    <2>1. Len(freed) \in Nat /\ Len(freed) > 0 /\ \A i \in 1 .. Len(freed) : freed[i] \in Frames
      BY <1>2 DEF TypeOK
    <2>2. Len(freed) \in 1 .. Len(freed)
          /\ (Len(freed) # 1 => Len(freed) - 1 \in 1 .. Len(freed))
      BY <2>1
    <2>3. mem.tail = freed[Len(freed)] /\ mem.tail \in Frames
      BY <1>2, <2>1, <2>2 DEF LinksSpellFreed
    <2>4. mem.prev[mem.tail] = IF Len(freed) = 1 THEN NoFrame ELSE freed[Len(freed) - 1]
      BY <2>2, <2>3 DEF LinksSpellFreed
    <2> QED BY <1>2, <2>1, <2>2, <2>3, <2>4 DEF Frames, NoFrame
  <1> QED BY <1>1, <1>2

\* What Alloc or AllocZeroed changes: reg and tail, and at most the first
\* word of the frame handed out.
LEMMA AllocFields ==
    ASSUME IInv, DoAlloc
    PROVE  \E r \in FromRegion(mem) \cup FromList(mem) :
             /\ out' = r.frame
             /\ mem' \in Memories /\ r.mem \in Memories
             /\ mem'.reg = r.mem.reg /\ mem'.ex = r.mem.ex /\ mem'.tail = r.mem.tail
             /\ \A a \in Frames : a # r.frame => mem'.prev[a] = r.mem.prev[a]
  <1>1. ASSUME NEW r \in Alloc(mem) PROVE r.mem \in Memories
    <2>1. mem \in Memories /\ RegionsApart(mem)
      BY DEF IInv, TypeOK
    <2>2. CASE r \in FromRegion(mem)
      BY <2>1, <2>2, FromRegionFacts
    <2>3. CASE r \in FromList(mem)
      <3>1. mem.tail # NoFrame => mem.prev[mem.tail] \in Frames \cup {NoFrame}
        BY TailFacts DEF IInv
      <3> QED BY <2>1, <2>3, <3>1, FromListFacts
    <2> QED BY <1>1, <2>2, <2>3 DEF Alloc
  <1>2. CASE \E r \in Alloc(mem) : mem' = r.mem /\ out' = r.frame
    BY <1>1, <1>2 DEF Alloc
  <1>3. CASE \E r \in AllocZeroed(mem) : mem' = r.mem /\ out' = r.frame
    <2>0. PICK z \in AllocZeroed(mem) : mem' = z.mem /\ out' = z.frame
      BY <1>3
    <2>a. PICK r \in Alloc(mem) :
             z = [mem |-> [r.mem EXCEPT !.prev[r.frame] = NoFrame], frame |-> r.frame]
      BY DEF AllocZeroed
    <2>1. mem' = [r.mem EXCEPT !.prev[r.frame] = NoFrame] /\ out' = r.frame
      BY <2>0, <2>a
    <2>2. r.mem \in Memories
      BY <1>1
    <2> DEFINE m == r.mem
    <2> HIDE DEF m
    <2>3. m \in Memories /\ mem' = [m EXCEPT !.prev = [m.prev EXCEPT ![r.frame] = NoFrame]]
      BY <2>1, <2>2 DEF m
    <2>4. m.prev \in [Frames -> Words \cup Frames \cup {NoFrame}]
      BY <2>3, FieldFacts
    <2>5. [m.prev EXCEPT ![r.frame] = NoFrame] \in [Frames -> Words \cup Frames \cup {NoFrame}]
      BY <2>4
    <2>6. /\ mem' \in Memories
          /\ mem'.reg = m.reg /\ mem'.ex = m.ex /\ mem'.tail = m.tail
          /\ mem'.prev = [m.prev EXCEPT ![r.frame] = NoFrame]
      BY <2>3, <2>5 DEF Memories
    <2>7. \A a \in Frames : a # r.frame => mem'.prev[a] = m.prev[a]
      BY <2>4, <2>6
    <2> QED BY <2>1, <2>2, <2>6, <2>7 DEF Alloc, m
  <1> QED BY <1>2, <1>3 DEF DoAlloc

\* The conjuncts of the inductive invariant the steps start from.
LEMMA StateFacts ==
    ASSUME TypeOK
    PROVE  /\ mem \in Memories /\ freed \in Seq(Frames) /\ held \subseteq Frames
           /\ Fresh(mem) \subseteq Frames /\ NoFrame \notin Frames
           /\ Len(freed) \in Nat /\ \A i \in 1 .. Len(freed) : freed[i] \in Frames
  <1>1. mem \in Memories /\ freed \in Seq(Frames) /\ held \subseteq Frames
    BY DEF TypeOK
  <1>2. Len(freed) \in Nat /\ \A i \in 1 .. Len(freed) : freed[i] \in Frames
    BY <1>1
  <1>3. Fresh(mem) \subseteq Frames
    BY DEF Fresh
  <1>4. NoFrame \notin Frames
    BY DEF Frames, NoFrame
  <1> QED BY <1>1, <1>2, <1>3, <1>4

(***************************************************************************)
(* Alloc keeps the invariant, and gives a frame of the pool or, when there *)
(* is none, NULL.                                                          *)
(***************************************************************************)
LEMMA AllocKeepsIInv ==
    ASSUME IInv, DoAlloc
    PROVE  IInv' /\ (P!Miss \/ \E a \in Fresh(mem) \cup Freed : P!Get(a))
  <1>1. PICK r \in FromRegion(mem) \cup FromList(mem) :
             /\ out' = r.frame
             /\ mem' \in Memories /\ r.mem \in Memories
             /\ mem'.reg = r.mem.reg /\ mem'.ex = r.mem.ex /\ mem'.tail = r.mem.tail
             /\ \A a \in Frames : a # r.frame => mem'.prev[a] = r.mem.prev[a]
    BY AllocFields
  <1>2. Fresh(mem') = Fresh(r.mem) /\ (RegionsApart(r.mem) => RegionsApart(mem'))
    BY <1>1, FreshFacts
  <1>3. /\ held' = held \cup ({out'} \ {NoFrame})
        /\ freed' = IF Fresh(mem) # {} \/ freed = <<>> THEN freed ELSE Front(freed)
        /\ machine' = machine
    BY DEF DoAlloc
  <1>4. /\ TypeOK /\ RegionsApart(mem) /\ NoneExcluded /\ LinksSpellFreed /\ FramesPartitioned
        /\ mem \in Memories /\ freed \in Seq(Frames) /\ held \subseteq Frames
        /\ Fresh(mem) \subseteq Frames /\ NoFrame \notin Frames
        /\ \A i \in 1 .. Len(freed) : freed[i] \in Frames
    BY StateFacts DEF IInv
  <1>5. CASE r \in FromRegion(mem)
    <2>1. /\ out' \in Fresh(mem) /\ Fresh(mem') = Fresh(mem) \ {out'}
          /\ RegionsApart(mem')
          /\ mem'.ex = mem.ex /\ mem'.tail = mem.tail
          /\ \A a \in Frames : a # out' => mem'.prev[a] = mem.prev[a]
      BY <1>1, <1>2, <1>4, <1>5, FromRegionFacts
    <2>2. freed' = freed /\ held' = held \cup {out'} /\ Freed' = Freed /\ out' \in Frames
      BY <1>3, <1>4, <2>1 DEF Freed
    <2>3. TypeOK'
      BY <1>1, <1>3, <1>4, <2>2 DEF TypeOK
    <2>4. NoneExcluded'
      <3>1. ~Excluded(mem, out')
        BY <1>4, <2>1, FreshNotExcluded
      <3> QED BY <1>3, <1>4, <2>1, <2>2, <3>1 DEF NoneExcluded, Excluded
    <2>5. LinksSpellFreed'
      <3>1. \A i \in 1 .. Len(freed) : freed[i] # out'
        BY <1>4, <2>1 DEF FramesPartitioned, Freed
      <3> QED BY <1>4, <2>1, <2>2, <3>1 DEF LinksSpellFreed
    <2>6. FramesPartitioned'
      BY <1>4, <2>1, <2>2 DEF FramesPartitioned
    <2>7. P!Get(out')
      BY <1>4, <2>1, <2>2 DEF P!Get, FramesPartitioned
    <2> QED BY <2>1, <2>3, <2>4, <2>5, <2>6, <2>7 DEF IInv
  <1>6. CASE r \in FromList(mem)
    <2>1. mem.tail # NoFrame => mem.prev[mem.tail] \in Frames \cup {NoFrame}
      BY <1>4, TailFacts
    <2>2. /\ Fresh(mem) = {} /\ Fresh(mem') = {} /\ RegionsApart(mem')
          /\ out' = mem.tail
          /\ mem'.ex = mem.ex
          /\ mem'.tail = IF mem.tail = NoFrame THEN NoFrame ELSE mem.prev[mem.tail]
          /\ \A a \in Frames : a # out' => mem'.prev[a] = mem.prev[a]
      BY <1>1, <1>2, <1>4, <1>6, <2>1, FromListFacts
    <2>3. CASE freed = <<>>
      <3>1. out' = NoFrame /\ mem'.tail = NoFrame /\ freed' = freed /\ held' = held
        BY <1>3, <1>4, <2>2, <2>3, TailFacts
      <3>2. TypeOK'
        BY <1>1, <1>3, <1>4, <3>1 DEF TypeOK
      <3>3. Freed = {} /\ Freed' = {}
        BY <2>3, <3>1 DEF Freed
      <3>4. NoneExcluded' /\ FramesPartitioned'
        BY <1>3, <1>4, <2>2, <2>3, <3>1, <3>3 DEF NoneExcluded, Excluded, FramesPartitioned
      <3>5. LinksSpellFreed'
        BY <2>3, <3>1 DEF LinksSpellFreed
      <3>6. P!Miss
        BY <2>2, <3>1, <3>3 DEF P!Miss
      <3> QED BY <2>2, <3>2, <3>4, <3>5, <3>6 DEF IInv
    <2>4. CASE freed # <<>>
      <3> DEFINE n == Len(freed)
      <3>1. /\ n \in Nat /\ n > 0
            /\ freed' = Front(freed) /\ freed' \in Seq(Frames) /\ Len(freed') = n - 1
            /\ \A i \in 1 .. n - 1 : freed'[i] = freed[i]
        BY <1>3, <1>4, <2>2, <2>4, FrontFacts
      <3>2. out' = freed[n] /\ out' \in Frames /\ held' = held \cup {out'}
        BY <1>3, <1>4, <2>2, <2>4, TailFacts
      <3>3. mem'.tail = IF n = 1 THEN NoFrame ELSE freed[n - 1]
        BY <1>4, <2>2, <2>4, TailFacts
      <3>4. \A i \in 1 .. n - 1 : i \in 1 .. n /\ i # n /\ n \in 1 .. n /\ freed[i] # out'
        BY <1>4, <3>1, <3>2 DEF FramesPartitioned
      <3>5. Freed' = Freed \ {out'} /\ out' \in Freed
        <4>1. ASSUME NEW a \in Freed' PROVE a \in Freed /\ a # out'
          BY <3>1, <3>4 DEF Freed
        <4>2. ASSUME NEW a \in Freed, a # out' PROVE a \in Freed'
          BY <3>1, <3>2, <4>2 DEF Freed
        <4>3. out' \in Freed
          BY <3>1, <3>2 DEF Freed
        <4> QED BY <4>1, <4>2, <4>3
      <3>6. TypeOK'
        BY <1>1, <1>3, <1>4, <3>1, <3>2 DEF TypeOK
      <3>7. NoneExcluded'
        BY <1>3, <1>4, <2>2, <3>2, <3>5 DEF NoneExcluded, Excluded
      <3>8. LinksSpellFreed'
        <4>1. mem'.tail = IF freed' = <<>> THEN NoFrame ELSE freed'[Len(freed')]
          BY <3>1, <3>3
        <4>2. ASSUME NEW i \in 1 .. Len(freed')
              PROVE  mem'.prev[freed'[i]] = IF i = 1 THEN NoFrame ELSE freed'[i - 1]
          <5>1. i \in 1 .. n - 1 /\ (i # 1 => i - 1 \in 1 .. n - 1)
            BY <3>1
          <5>2. mem'.prev[freed[i]] = mem.prev[freed[i]]
            BY <5>1, <3>4, <2>2, <1>4
          <5> QED BY <5>1, <5>2, <3>1, <3>4, <1>4 DEF LinksSpellFreed
        <4> QED BY <4>1, <4>2 DEF LinksSpellFreed
      <3>9. FramesPartitioned'
        <4>1. \A i, j \in 1 .. Len(freed') : freed'[i] = freed'[j] => i = j
          BY <3>1, <3>4, <1>4 DEF FramesPartitioned
        <4> QED BY <4>1, <1>4, <2>2, <3>2, <3>5 DEF FramesPartitioned
      <3>10. P!Get(out')
        BY <1>4, <2>2, <3>2, <3>5 DEF P!Get, FramesPartitioned
      <3> QED BY <2>2, <3>5, <3>6, <3>7, <3>8, <3>9, <3>10 DEF IInv
    <2> QED BY <2>3, <2>4
  <1> QED BY <1>1, <1>5, <1>6

(***************************************************************************)
(* So do a frame given back and a word written into a frame that is held.  *)
(***************************************************************************)
LEMMA FreeKeepsIInv ==
    ASSUME IInv, NEW a \in held, DoFree(a)
    PROVE  IInv' /\ P!Put(a)
  <1> DEFINE n == Len(freed)
  <1>1. /\ TypeOK /\ RegionsApart(mem) /\ NoneExcluded /\ LinksSpellFreed /\ FramesPartitioned
        /\ mem \in Memories /\ freed \in Seq(Frames) /\ held \subseteq Frames
        /\ Fresh(mem) \subseteq Frames /\ NoFrame \notin Frames
        /\ n \in Nat /\ \A i \in 1 .. n : freed[i] \in Frames
    BY StateFacts DEF IInv
  <1>2. /\ mem' = Free(mem, a) /\ held' = held \ {a} /\ freed' = Append(freed, a)
        /\ machine' = machine /\ out' = out /\ a \in Frames
    BY <1>1 DEF DoFree
  <1>3. /\ freed' \in Seq(Frames) /\ Len(freed') = n + 1
        /\ \A i \in 1 .. n : freed'[i] = freed[i]
        /\ freed'[n + 1] = a
    BY <1>1, <1>2
  <1>4. /\ mem' \in Memories /\ mem'.reg = mem.reg /\ mem'.ex = mem.ex /\ mem'.tail = a
        /\ mem'.prev = [mem.prev EXCEPT ![a] = mem.tail]
    <2>1. [mem.prev EXCEPT ![a] = mem.tail] \in [Frames -> Words \cup Frames \cup {NoFrame}]
      BY <1>1, <1>2, FieldFacts
    <2> QED BY <1>1, <1>2, <2>1 DEF Free, Memories
  <1>5. /\ mem'.prev[a] = mem.tail
        /\ \A b \in Frames : b # a => mem'.prev[b] = mem.prev[b]
    BY <1>1, <1>2, <1>4, FieldFacts
  <1>6. Fresh(mem') = Fresh(mem) /\ RegionsApart(mem')
    BY <1>1, <1>4, FreshFacts
  <1>7. a \notin Freed /\ \A i \in 1 .. n : freed[i] # a
    BY <1>1 DEF FramesPartitioned, Freed
  <1>8. Freed' = Freed \cup {a}
    <2>1. ASSUME NEW x PROVE x \in Freed' <=> x \in Freed \cup {a}
      BY <1>1, <1>3 DEF Freed
    <2> QED BY <2>1
  <1>9. TypeOK'
    BY <1>1, <1>2, <1>3, <1>4 DEF TypeOK
  <1>10. NoneExcluded'
    BY <1>1, <1>2, <1>4, <1>8 DEF NoneExcluded, Excluded
  <1>11. LinksSpellFreed'
    <2>1. mem'.tail = IF freed' = <<>> THEN NoFrame ELSE freed'[Len(freed')]
      BY <1>1, <1>3, <1>4
    <2>2. ASSUME NEW i \in 1 .. n + 1
          PROVE  mem'.prev[freed'[i]] = IF i = 1 THEN NoFrame ELSE freed'[i - 1]
      <3>1. CASE i = n + 1
        <4>1. mem'.prev[freed'[i]] = mem.tail
          BY <3>1, <1>3, <1>5
        <4>2. CASE n = 0
          <5>1. freed = <<>>
            BY <4>2, <1>1
          <5> QED BY <3>1, <4>1, <4>2, <5>1, <1>1 DEF LinksSpellFreed
        <4>3. CASE n # 0
          <5>1. freed # <<>> /\ n \in 1 .. n /\ i - 1 = n /\ i # 1
            BY <3>1, <4>3, <1>1
          <5> QED BY <4>1, <5>1, <1>1, <1>3 DEF LinksSpellFreed
        <4> QED BY <4>2, <4>3
      <3>2. CASE i # n + 1
        <4>1. i \in 1 .. n /\ (i # 1 => i - 1 \in 1 .. n)
          BY <3>2, <1>1
        <4>2. mem'.prev[freed[i]] = mem.prev[freed[i]]
          BY <4>1, <1>1, <1>5, <1>7
        <4> QED BY <4>1, <4>2, <1>1, <1>3 DEF LinksSpellFreed
      <3> QED BY <3>1, <3>2
    <2> QED BY <2>1, <2>2, <1>3 DEF LinksSpellFreed
  <1>12. FramesPartitioned'
    <2>1. \A i, j \in 1 .. n + 1 : freed'[i] = freed'[j] => i = j
      BY <1>1, <1>3, <1>7 DEF FramesPartitioned
    <2>2. /\ held' \cap Freed' = {} /\ held' \cap Fresh(mem') = {}
          /\ Freed' \cap Fresh(mem') = {}
      BY <1>1, <1>2, <1>6, <1>8 DEF FramesPartitioned
    <2> QED BY <2>1, <2>2, <1>3 DEF FramesPartitioned
  <1>13. P!Put(a)
    BY <1>2, <1>6, <1>8 DEF P!Put
  <1> QED BY <1>6, <1>9, <1>10, <1>11, <1>12, <1>13 DEF IInv

\* A client writing into its own frame disturbs neither the list nor a region.
LEMMA WriteKeepsIInv ==
    ASSUME IInv, NEW a \in held, NEW word \in Words, Write(a, word)
    PROVE  IInv' /\ UNCHANGED P!vars
  <1>1. /\ TypeOK /\ RegionsApart(mem) /\ NoneExcluded /\ LinksSpellFreed /\ FramesPartitioned
        /\ mem \in Memories /\ freed \in Seq(Frames) /\ held \subseteq Frames
        /\ \A i \in 1 .. Len(freed) : freed[i] \in Frames
    BY StateFacts DEF IInv
  <1>2. /\ mem' = [mem EXCEPT !.prev = [mem.prev EXCEPT ![a] = word]]
        /\ held' = held /\ freed' = freed /\ machine' = machine /\ out' = out
    BY DEF Write
  <1>3. [mem.prev EXCEPT ![a] = word] \in [Frames -> Words \cup Frames \cup {NoFrame}]
    BY <1>1, FieldFacts
  <1>4. /\ mem' \in Memories /\ mem'.reg = mem.reg /\ mem'.ex = mem.ex
        /\ mem'.tail = mem.tail /\ mem'.prev = [mem.prev EXCEPT ![a] = word]
    BY <1>1, <1>2, <1>3 DEF Memories
  <1>5. Fresh(mem') = Fresh(mem) /\ RegionsApart(mem')
    BY <1>1, <1>4, FreshFacts
  <1>6. \A i \in 1 .. Len(freed) : mem'.prev[freed[i]] = mem.prev[freed[i]]
    <2>1. \A i \in 1 .. Len(freed) : freed[i] # a
      BY <1>1 DEF FramesPartitioned, Freed
    <2> QED BY <2>1, <1>1, <1>4, FieldFacts
  <1>7. TypeOK' /\ NoneExcluded' /\ FramesPartitioned'
    <2>1. TypeOK'
      BY <1>1, <1>2, <1>4 DEF TypeOK
    <2>2. Freed' = Freed
      BY <1>2 DEF Freed
    <2>3. NoneExcluded'
      BY <1>1, <1>2, <1>4, <2>2 DEF NoneExcluded, Excluded
    <2>4. FramesPartitioned'
      BY <1>1, <1>2, <1>5, <2>2 DEF FramesPartitioned
    <2> QED BY <2>1, <2>3, <2>4
  <1>8. LinksSpellFreed'
    BY <1>1, <1>2, <1>4, <1>6 DEF LinksSpellFreed
  <1>9. UNCHANGED P!vars
    BY <1>2, <1>5 DEF P!vars, Freed
  <1> QED BY <1>5, <1>7, <1>8, <1>9 DEF IInv

\* Nothing changes in a stuttering step.
LEMMA StutterKeepsIInv ==
    ASSUME IInv, UNCHANGED vars
    PROVE  IInv' /\ UNCHANGED P!vars
  <1>1. /\ machine' = machine /\ mem' = mem /\ held' = held
        /\ freed' = freed /\ out' = out
    BY DEF vars
  <1>2. Freed' = Freed /\ Fresh(mem') = Fresh(mem)
    BY <1>1 DEF Freed
  <1>3. TypeOK' /\ RegionsApart(mem')
    BY <1>1 DEF IInv, TypeOK
  <1>4. NoneExcluded'
    BY <1>1, <1>2 DEF IInv, NoneExcluded, Excluded
  <1>5. LinksSpellFreed'
    BY <1>1 DEF IInv, LinksSpellFreed
  <1>6. FramesPartitioned'
    BY <1>1, <1>2 DEF IInv, FramesPartitioned
  <1>7. UNCHANGED P!vars
    BY <1>1, <1>2 DEF P!vars
  <1> QED BY <1>3, <1>4, <1>5, <1>6, <1>7 DEF IInv

\* Every step keeps the inductive invariant.
LEMMA NextKeepsIInv == IInv /\ [Next]_vars => IInv'
  <1> SUFFICES ASSUME IInv, [Next]_vars PROVE IInv'
    OBVIOUS
  <1>1. CASE DoAlloc
    BY <1>1, AllocKeepsIInv
  <1>2. ASSUME NEW a \in held, DoFree(a) PROVE IInv'
    BY <1>2, FreeKeepsIInv
  <1>3. ASSUME NEW a \in held, NEW word \in Words, Write(a, word) PROVE IInv'
    BY <1>3, WriteKeepsIInv
  <1>4. CASE UNCHANGED vars
    BY <1>4, StutterKeepsIInv
  <1> QED BY <1>1, <1>2, <1>3, <1>4 DEF Next

-----------------------------------------------------------------------------
(***************************************************************************)
(* Theorems.                                                               *)
(***************************************************************************)
\* The inductive invariant of Frame::Alloc, AllocZeroed and Free holds.
THEOREM FrameInvariant == Spec => []IInv
  <1> QED BY InitIInv, NextKeepsIInv, PTL DEF Spec

\* Every variable keeps its type: in particular Alloc never gives frame 0
\* away as memory, nor a frame past the end of the machine.
THEOREM FrameTypeCorrect == Spec => []TypeOK
  <1>1. IInv => TypeOK
    BY DEF IInv
  <1> QED BY <1>1, FrameInvariant, PTL

\* The list threaded through the freed frames is never broken by a client
\* that writes only into frames it holds.
THEOREM FrameLinksSpellFreed == Spec => []LinksSpellFreed
  <1>1. IInv => LinksSpellFreed
    BY DEF IInv
  <1> QED BY <1>1, FrameInvariant, PTL

\* No frame is handed out while somebody holds it, nor twice from the list.
THEOREM FrameFramesPartitioned == Spec => []FramesPartitioned
  <1>1. IInv => FramesPartitioned
    BY DEF IInv
  <1> QED BY <1>1, FrameInvariant, PTL

\* The kernel's own frames are never handed out.
THEOREM FrameKernelUntouched == Spec => []KernelUntouched
  <1>1. IInv => KernelUntouched
    <2> SUFFICES ASSUME IInv, NEW k \in DOMAIN machine.elf,
                        NEW a \in FramesOf(machine.elf[k]), a \in held
                 PROVE  FALSE
      BY DEF KernelUntouched
    <2>1. Excluded(init_mem_regions(machine), a)
      BY BootAssumption DEF IInv, TypeOK, Booted
    <2>2. Excluded(mem, a)
      BY <2>1 DEF IInv, NoneExcluded, Excluded
    <2> QED BY <2>2 DEF IInv, NoneExcluded
  <1> QED BY <1>1, FrameInvariant, PTL

\* Alloc gives a free frame whenever there is one: the allocator implements
\* module Pool.
THEOREM FrameImplementsPool == Spec => ImplementsPool
  <1>1. Init => P!Init
    BY DEF Init, P!Init
  <1>2. IInv /\ [Next]_vars => [P!Next]_P!vars
    <2> SUFFICES ASSUME IInv, [Next]_vars PROVE [P!Next]_P!vars
      OBVIOUS
    <2>1. CASE DoAlloc
      BY <2>1, AllocKeepsIInv DEF P!Next
    <2>2. ASSUME NEW a \in held, DoFree(a) PROVE P!Next
      BY <2>2, FreeKeepsIInv DEF P!Next
    <2>3. ASSUME NEW a \in held, NEW word \in Words, Write(a, word)
          PROVE  UNCHANGED P!vars
      BY <2>3, WriteKeepsIInv
    <2>4. CASE UNCHANGED vars
      BY <2>4, StutterKeepsIInv
    <2> QED BY <2>1, <2>2, <2>3, <2>4 DEF Next
  <1> QED BY <1>1, <1>2, FrameInvariant, PTL DEF Spec, ImplementsPool, P!Spec

-----------------------------------------------------------------------------
(***************************************************************************)
(* Frames are neither lost nor invented: what boot's regions had to give   *)
(* is, at any time, in the client's hands, on the list or still theirs.    *)
(***************************************************************************)
Known == held \cup Freed \cup Fresh(mem)

Conserved == Known = Fresh(init_mem_regions(machine))

LEMMA StepConserves ==
    ASSUME IInv, [Next]_vars
    PROVE  Known' = Known /\ machine' = machine
  <1>1. CASE DoAlloc
    <2>1. P!Miss \/ \E a \in Fresh(mem) \cup Freed : P!Get(a)
      BY <1>1, AllocKeepsIInv
    <2>2. machine' = machine
      BY <1>1 DEF DoAlloc
    <2> QED BY <2>1, <2>2 DEF P!Miss, P!Get, Known
  <1>2. ASSUME NEW a \in held, DoFree(a) PROVE Known' = Known /\ machine' = machine
    <2>1. P!Put(a)
      BY <1>2, FreeKeepsIInv
    <2>2. machine' = machine
      BY <1>2 DEF DoFree
    <2> QED BY <2>1, <2>2 DEF P!Put, Known
  <1>3. ASSUME NEW a \in held, NEW word \in Words, Write(a, word)
        PROVE  Known' = Known /\ machine' = machine
    <2>1. UNCHANGED P!vars
      BY <1>3, WriteKeepsIInv
    <2>2. machine' = machine
      BY <1>3 DEF Write
    <2> QED BY <2>1, <2>2 DEF P!vars, Known
  <1>4. CASE UNCHANGED vars
    <2>1. UNCHANGED P!vars
      BY <1>4, StutterKeepsIInv
    <2>2. machine' = machine
      BY <1>4 DEF vars
    <2> QED BY <2>1, <2>2 DEF P!vars, Known
  <1> QED BY <1>1, <1>2, <1>3, <1>4 DEF Next

\* Whatever is allocated, written and freed, in any order, no frame leaks out
\* of the allocator and none comes up that boot did not give it.
THEOREM FramesConserved == Spec => []Conserved
  <1>1. Init => Conserved
    <2>1. ASSUME Init PROVE held = {} /\ Freed = {} /\ mem = init_mem_regions(machine)
      <3>1. Len(freed) = 0 /\ 1 .. 0 = {}
        BY <2>1 DEF Init
      <3> QED BY <2>1, <3>1 DEF Init, Freed
    <2> QED BY <2>1 DEF Conserved, Known
  <1>2. IInv /\ Conserved /\ [Next]_vars => Conserved'
    BY StepConserves DEF Conserved
  <1> QED BY <1>1, <1>2, FrameInvariant, PTL DEF Spec

\* A frame in the client's hands lies in a region that init_mem_regions added,
\* between its first frame and its end, and in no span that it excluded.
HeldInRegion ==
    \A a \in held :
        LET boot == init_mem_regions(machine)
        IN  /\ \E i \in DOMAIN boot.reg : boot.reg[i].start <= a /\ a < boot.reg[i].end
            /\ ~Excluded(boot, a)

\* Alloc's loops over MemReg and MemEx never leave the regions boot added.
THEOREM HandsOutRegionsOnly == Spec => []HeldInRegion
  <1>1. ASSUME IInv, Conserved PROVE HeldInRegion
    <2> SUFFICES ASSUME NEW a \in held, NEW boot, boot = init_mem_regions(machine)
                 PROVE  /\ \E i \in DOMAIN boot.reg :
                              boot.reg[i].start <= a /\ a < boot.reg[i].end
                        /\ ~Excluded(boot, a)
      BY DEF HeldInRegion
    <2>1. boot \in Memories /\ RegionsApart(boot)
      BY <1>1, BootAssumption DEF IInv, TypeOK, Booted
    <2>2. a \in Fresh(boot)
      BY <1>1 DEF Conserved, Known
    <2>3. PICK i \in DOMAIN boot.reg :
            a \in Nat /\ a < boot.reg[i].end /\ boot.reg[i].nxt <= a
      BY <2>2 DEF Fresh, Starts, Frames
    <2>4. /\ boot.reg[i].start \in Nat /\ boot.reg[i].nxt \in Nat
          /\ boot.reg[i].start <= boot.reg[i].nxt
      BY <2>1, StartsNat DEF RegionsApart
    <2>5. ~Excluded(boot, a)
      BY <1>1 DEF IInv, NoneExcluded, Excluded
    <2> QED BY <2>3, <2>4, <2>5
  <1> QED BY <1>1, FrameInvariant, FramesConserved, PTL
=============================================================================
