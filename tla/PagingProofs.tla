---------------------------- MODULE PagingProofs ----------------------------
(***************************************************************************)
(* For any size of tables, any room, any number of frames: every frame is  *)
(* free or what one entry of one table points to, the tables' marks say    *)
(* what was handed out, and no translation the processor kept is stale.    *)
(***************************************************************************)
EXTENDS Paging, FiniteSetTheorems, TLAPS

(***************************************************************************)
(* The digits of a page number.                                            *)
(***************************************************************************)
LEMMA DivMod ==
    ASSUME NEW a \in Nat, NEW d \in Nat \ {0}
    PROVE  a \div d \in Nat /\ a % d \in 0 .. d - 1 /\ a = d * (a \div d) + (a % d)
  OBVIOUS

LEMMA DivUnique ==
    ASSUME NEW d \in Nat \ {0}, NEW k \in Nat, NEW r \in 0 .. d - 1, NEW m \in Nat,
           NEW s \in 0 .. d - 1, d * k + r = d * m + s
    PROVE  k = m
  <1>1. ASSUME NEW x \in Nat, NEW y \in Nat, x < y PROVE d * x + d <= d * y
    <2>1. d * (x + 1) <= d * y
      BY <1>1
    <2> QED BY <2>1
  <1>2. ~(k < m)
    <2>1. k < m => d * k + d <= d * m
      BY <1>1
    <2> QED BY <2>1
  <1>3. ~(m < k)
    <2>1. m < k => d * m + d <= d * k
      BY <1>1
    <2> QED BY <2>1
  <1> QED BY <1>2, <1>3

\* Dividing twice by d is dividing by its square.
LEMMA DivTwice ==
    ASSUME NEW n \in Nat, NEW d \in Nat \ {0}
    PROVE  n \div (d * d) = (n \div d) \div d
  <1> DEFINE q == n \div d
             k == q \div d
             r == d * (q % d) + (n % d)
             dd == d * d
  <1>1. q \in Nat /\ n % d \in 0 .. d - 1 /\ n = d * q + (n % d)
    BY DivMod
  <1>2. k \in Nat /\ q % d \in 0 .. d - 1 /\ q = d * k + (q % d)
    BY <1>1, DivMod
  <1>3. dd \in Nat \ {0} /\ n \div dd \in Nat /\ n % dd \in 0 .. dd - 1
        /\ n = dd * (n \div dd) + (n % dd)
    <2>1. dd \in Nat \ {0}
      OBVIOUS
    <2> HIDE DEF dd
    <2> QED BY <2>1, DivMod
  <1>4. r \in 0 .. dd - 1
    <2> DEFINE x == q % d
               y == n % d
    <2>1. x \in 0 .. d - 1 /\ y \in 0 .. d - 1
      BY <1>1, <1>2
    <2> HIDE DEF x, y
    <2>2. d * x + d <= d * d
      <3>1. d * (x + 1) <= d * d
        BY <2>1
      <3> QED BY <3>1, <2>1
    <2> QED BY <2>1, <2>2 DEF x, y
  <1>5. n = dd * k + r
    <2> DEFINE x == q % d
               y == n % d
    <2>1. x \in Nat /\ y \in Nat /\ k \in Nat /\ q \in Nat /\ n = d * q + y /\ q = d * k + x
      BY <1>1, <1>2
    <2> HIDE DEF x, y, k, q
    <2>2. d * q = d * (d * k) + d * x
      BY <2>1
    <2>3. d * (d * k) = (d * d) * k
      BY <2>1
    <2> QED BY <2>1, <2>2, <2>3 DEF x, y
  <1> HIDE DEF r, k, dd
  <1>6. n \div dd = k
    <2> DEFINE m == n \div dd
               s == n % dd
    <2> HIDE DEF m, s
    <2>1. dd * k + r = dd * m + s
      BY <1>3, <1>5 DEF m, s
    <2>2. m \in Nat /\ s \in 0 .. dd - 1
      BY <1>3 DEF m, s
    <2>3. k = m
      BY <2>1, <2>2, <1>2, <1>3, <1>4, DivUnique
    <2> QED BY <2>3 DEF m
  <1> QED BY <1>6 DEF k, dd

LEMMA AddressFacts ==
    ASSUME NEW a \in Addresses
    PROVE  /\ a = [reg |-> a.reg, n |-> a.n] /\ a.reg \in Regions /\ a.n \in Nat
           /\ a.n < Room[a.reg] /\ Room[a.reg] \in Nat
           /\ a.n < PAGE_TABLE_SIZE * PAGE_TABLE_SIZE * PAGE_TABLE_SIZE
  <1>1. a = [reg |-> a.reg, n |-> a.n] /\ a.reg \in Regions /\ a.n \in 0 .. Room[a.reg] - 1
    BY DEF Addresses
  <1>2. PAGE_TABLE_SIZE * PAGE_TABLE_SIZE * PAGE_TABLE_SIZE \in Nat
    BY PagingAssumption
  <1>3. Room[a.reg] \in 1 .. PAGE_TABLE_SIZE * PAGE_TABLE_SIZE * PAGE_TABLE_SIZE
    BY <1>1, PagingAssumption
  <1> QED BY <1>1, <1>2, <1>3

\* The two addresses go through the same table of level 2, and of level 1.
SameL2(a, b) == a.reg = b.reg /\ l3(a) = l3(b)

SameL1(a, b) == SameL2(a, b) /\ l2(a) = l2(b)

\* A page number in its digits.
LEMMA Digits ==
    ASSUME NEW a \in Addresses
    PROVE  /\ l1(a) \in Index /\ l2(a) \in Index /\ l3(a) \in Index
           /\ l1(a) \in Nat /\ l1(a) < PAGE_TABLE_SIZE
           /\ a.n = PAGE_TABLE_SIZE * (PAGE_TABLE_SIZE * l3(a) + l2(a)) + l1(a)
  <1> DEFINE d == PAGE_TABLE_SIZE
             n == a.n
             q == n \div d
             k == q \div d
  <1>1. d \in Nat \ {0} /\ n \in Nat /\ n < d * d * d
    BY AddressFacts, PagingAssumption
  <1>2. q \in Nat /\ n % d \in 0 .. d - 1 /\ n = d * q + (n % d)
    <2> HIDE DEF d, n
    <2> QED BY <1>1, DivMod
  <1>3. k \in Nat /\ q % d \in 0 .. d - 1 /\ q = d * k + (q % d)
    <2> HIDE DEF d, q
    <2> QED BY <1>1, <1>2, DivMod
  <1>4. l3(a) = k
    <2>1. n \div (d * d) = q \div d
      <3> HIDE DEF d, n
      <3> QED BY <1>1, DivTwice
    <2> QED BY <2>1 DEF l3
  <1>5. l1(a) = n % d /\ l2(a) = q % d
    BY DEF l1, l2
  <1>6. k < d
    <2> DEFINE x == q % d
               y == n % d
    <2>1. x \in Nat /\ y \in Nat /\ q = d * k + x /\ n = d * q + y
      BY <1>2, <1>3
    <2> HIDE DEF x, y, k, q, n, d
    <2>2. SUFFICES ASSUME d <= k PROVE FALSE
      BY <1>1, <1>3
    <2>3. d * d <= d * k
      BY <2>2, <1>1, <1>3
    <2>4. d * d <= q /\ q \in Nat /\ d * d \in Nat
      BY <2>1, <2>3, <1>1, <1>3
    <2>5. d * (d * d) <= d * q
      BY <2>4, <1>1
    <2>6. d * (d * d) = d * d * d
      BY <1>1
    <2> QED BY <2>1, <2>4, <2>5, <2>6, <1>1
  <1> HIDE DEF q, k
  <1>7. l1(a) \in 0 .. d - 1 /\ l2(a) \in 0 .. d - 1 /\ l3(a) \in 0 .. d - 1
    BY <1>1, <1>2, <1>3, <1>4, <1>5, <1>6
  <1>8. a.n = d * (d * l3(a) + l2(a)) + l1(a)
    BY <1>2, <1>3, <1>4, <1>5
  <1> QED BY <1>1, <1>7, <1>8 DEF Index

\* An address is known by its digits.
LEMMA SamePage ==
    ASSUME NEW a \in Addresses, NEW b \in Addresses, SameL1(a, b), l1(a) = l1(b)
    PROVE  a = b
  <1>1. a.n = b.n /\ a.reg = b.reg
    BY Digits DEF SameL1, SameL2
  <1> QED BY <1>1, AddressFacts

\* The pages of a table of level 1 are the PAGE_TABLE_SIZE from its first.
LEMMA TableSpan ==
    ASSUME NEW a \in Addresses, NEW b \in Addresses, l1(a) = 0, a.reg = b.reg
    PROVE  SameL1(a, b) <=> a.n <= b.n /\ b.n < a.n + PAGE_TABLE_SIZE
  <1> DEFINE d == PAGE_TABLE_SIZE
             p == d * l3(a) + l2(a)
             q == d * l3(b) + l2(b)
  <1>1. d \in Nat \ {0} /\ l1(b) \in 0 .. d - 1
        /\ l2(a) \in 0 .. d - 1 /\ l3(a) \in Nat /\ l2(b) \in 0 .. d - 1 /\ l3(b) \in Nat
    BY Digits, PagingAssumption DEF Index
  <1>2. a.n = d * p + 0 /\ b.n = d * q + l1(b)
    BY Digits
  <1>3. p \in Nat /\ q \in Nat
    <2> HIDE DEF d
    <2> QED BY <1>1
  <1>4. ASSUME SameL1(a, b) PROVE a.n <= b.n /\ b.n < a.n + d
    <2>1. p = q
      BY <1>4 DEF SameL1, SameL2
    <2> HIDE DEF p, q, d
    <2> QED BY <2>1, <1>1, <1>2, <1>3
  <1>5. ASSUME a.n <= b.n, b.n < a.n + d PROVE SameL1(a, b)
    <2>1. p = q
      <3> HIDE DEF p, q, d
      <3>1. b.n = d * p + (b.n - a.n) /\ b.n - a.n \in 0 .. d - 1
        BY <1>1, <1>2, <1>3, <1>5, AddressFacts
      <3>2. d * p + (b.n - a.n) = d * q + l1(b)
        BY <3>1, <1>2
      <3> QED BY <3>1, <3>2, <1>1, <1>3, DivUnique
    <2>2. l3(a) = l3(b)
      <3> HIDE DEF d
      <3>1. d * l3(a) + l2(a) = d * l3(b) + l2(b)
        BY <2>1
      <3> QED BY <3>1, <1>1, DivUnique
    <2>3. l2(a) = l2(b)
      <3> HIDE DEF d
      <3>1. PICK x \in Nat : x = d * l3(a)
        BY <1>1
      <3>2. x + l2(a) = x + l2(b)
        BY <3>1, <2>1, <2>2
      <3> QED BY <3>2, <1>1
    <2> QED BY <2>2, <2>3 DEF SameL1, SameL2
  <1> QED BY <1>4, <1>5
-----------------------------------------------------------------------------
(***************************************************************************)
(* The tables as a tree.  A level and an address name an entry that leads  *)
(* to a frame: to the table of level 2, to that of level 1, to the page.   *)
(***************************************************************************)
Machines == [p3    : [Regions -> Tables],
             rows  : [Frames -> Tables],
             free  : SUBSET Frames,
             fault : {"none", "frame 0", "unallocated"}]

Levels == {0, 1, 2}

Leads(v, l, a) ==
    IF l = 2 THEN TableL2(v, a) ELSE IF l = 1 THEN TableL1(v, a) ELSE FrameOf(v, a)

\* The two addresses use the same entry of the level.
Same(l, a, b) == IF l = 2 THEN SameL2(a, b) ELSE IF l = 1 THEN SameL1(a, b) ELSE a = b

RowL2(v, a) == v.rows[TableL2(v, a)]

RowL1(v, a) == v.rows[TableL1(v, a)]

\* No two entries lead to one frame, and the frames none leads to are free.
Accounted(v) ==
    /\ \A l, m \in Levels, a, b \in Addresses :
          Leads(v, l, a) = Leads(v, m, b) /\ Leads(v, l, a) # NULL => l = m /\ Same(l, a, b)
    /\ \A f \in Frames : f \in v.free <=> \A l \in Levels, a \in Addresses : Leads(v, l, a) # f

\* The entries beyond the room lead nowhere.
BeyondIsClear(v) ==
    /\ \A reg \in Regions, i \in Index :
          (\A a \in Addresses : a.reg = reg => l3(a) # i) => v.p3[reg][i].base = NULL
    /\ \A a \in Addresses, i \in Index :
          TableL2(v, a) # NULL /\ (\A b \in Addresses : SameL2(a, b) => l2(b) # i)
             => RowL2(v, a)[i].base = NULL
    /\ \A a \in Addresses, i \in Index :
          TableL1(v, a) # NULL /\ (\A b \in Addresses : SameL1(a, b) => l1(b) # i)
             => RowL1(v, a)[i].base = NULL

\* What has a table or a page is marked.
MarkedWhereUsed(v) ==
    \A a \in Addresses :
        /\ TableL1(v, a) # NULL => EntryL2(v, a).avl
        /\ FrameOf(v, a) # NULL => EntryL1(v, a).avl

Tree(v) == v \in Machines /\ Accounted(v) /\ BeyondIsClear(v) /\ MarkedWhereUsed(v)

LEMMA EntryFacts ==
    ASSUME NEW v \in Machines, NEW a \in Addresses
    PROVE  /\ v.rows \in [Frames -> Tables] /\ v.p3 \in [Regions -> Tables] /\ v.free \subseteq Frames
           /\ TableL2(v, a) \in Frames \cup {NULL} /\ TableL1(v, a) \in Frames \cup {NULL}
           /\ FrameOf(v, a) \in Frames \cup {NULL}
           /\ TableL2(v, a) # NULL =>
                 /\ RowL2(v, a) \in Tables /\ RowL2(v, a)[l2(a)] = EntryL2(v, a)
                 /\ EntryL2(v, a) \in Entries /\ TableL1(v, a) = EntryL2(v, a).base
           /\ TableL2(v, a) = NULL => TableL1(v, a) = NULL
           /\ TableL1(v, a) # NULL =>
                 /\ RowL1(v, a) \in Tables /\ RowL1(v, a)[l1(a)] = EntryL1(v, a)
                 /\ EntryL1(v, a) \in Entries /\ FrameOf(v, a) = EntryL1(v, a).base
                 /\ TableL2(v, a) # NULL
           /\ TableL1(v, a) = NULL => FrameOf(v, a) = NULL
  <1>1. v.rows \in [Frames -> Tables] /\ v.p3 \in [Regions -> Tables] /\ v.free \subseteq Frames
    BY DEF Machines
  <1>2. l1(a) \in Index /\ l2(a) \in Index /\ l3(a) \in Index /\ a.reg \in Regions
    BY Digits, AddressFacts
  <1>3. \A t \in Tables, i \in Index : t[i] \in Entries /\ t[i].base \in Frames \cup {NULL}
    BY DEF Tables, Entries
  <1>4. TableL2(v, a) \in Frames \cup {NULL}
    BY <1>1, <1>2, <1>3 DEF TableL2
  <1>5. TableL2(v, a) # NULL =>
           /\ RowL2(v, a) \in Tables /\ RowL2(v, a)[l2(a)] = EntryL2(v, a)
           /\ EntryL2(v, a) \in Entries /\ TableL1(v, a) = EntryL2(v, a).base
           /\ TableL1(v, a) \in Frames \cup {NULL}
    BY <1>1, <1>2, <1>3, <1>4 DEF RowL2, EntryL2, TableL1
  <1>6. TableL2(v, a) = NULL => TableL1(v, a) = NULL
    BY DEF TableL1
  <1>7. TableL1(v, a) # NULL =>
           /\ RowL1(v, a) \in Tables /\ RowL1(v, a)[l1(a)] = EntryL1(v, a)
           /\ EntryL1(v, a) \in Entries /\ FrameOf(v, a) = EntryL1(v, a).base
           /\ FrameOf(v, a) \in Frames \cup {NULL}
    BY <1>1, <1>2, <1>3, <1>5, <1>6 DEF RowL1, EntryL1, FrameOf
  <1>8. TableL1(v, a) = NULL => FrameOf(v, a) = NULL
    BY DEF FrameOf
  <1> QED BY <1>1, <1>4, <1>5, <1>6, <1>7, <1>8

\* Which entries lead to the same frame, level by level.
LEMMA ApartFacts ==
    ASSUME NEW v, Accounted(v), NEW a \in Addresses, NEW b \in Addresses
    PROVE  /\ TableL2(v, a) # NULL /\ TableL2(v, a) = TableL2(v, b) => SameL2(a, b)
           /\ TableL1(v, a) # NULL /\ TableL1(v, a) = TableL1(v, b) => SameL1(a, b)
           /\ FrameOf(v, a) # NULL /\ FrameOf(v, a) = FrameOf(v, b) => a = b
           /\ TableL2(v, a) # NULL => TableL2(v, a) # TableL1(v, b) /\ TableL2(v, a) # FrameOf(v, b)
           /\ TableL1(v, a) # NULL => TableL1(v, a) # FrameOf(v, b)
  <1>1. 0 \in Levels /\ 1 \in Levels /\ 2 \in Levels
    BY DEF Levels
  <1>2. /\ Leads(v, 2, a) = TableL2(v, a) /\ Leads(v, 2, b) = TableL2(v, b)
        /\ Leads(v, 1, a) = TableL1(v, a) /\ Leads(v, 1, b) = TableL1(v, b)
        /\ Leads(v, 0, a) = FrameOf(v, a) /\ Leads(v, 0, b) = FrameOf(v, b)
    BY DEF Leads
  <1>3. \A l, m \in Levels :
           Leads(v, l, a) = Leads(v, m, b) /\ Leads(v, l, a) # NULL => l = m /\ Same(l, a, b)
    BY DEF Accounted
  <1>4. (Same(2, a, b) <=> SameL2(a, b)) /\ (Same(1, a, b) <=> SameL1(a, b)) /\ (Same(0, a, b) <=> a = b)
    BY DEF Same
  <1> QED BY <1>1, <1>2, <1>3, <1>4

\* A free frame is no table and no page.
LEMMA FreeFacts ==
    ASSUME NEW v \in Machines, Accounted(v), NEW f \in v.free, NEW a \in Addresses
    PROVE  f \in Frames /\ f # NULL /\ TableL2(v, a) # f /\ TableL1(v, a) # f /\ FrameOf(v, a) # f
  <1>1. f \in Frames /\ f # NULL
    BY PagingAssumption DEF Machines
  <1>2. Leads(v, 2, a) # f /\ Leads(v, 1, a) # f /\ Leads(v, 0, a) # f
    BY <1>1 DEF Accounted, Levels
  <1> QED BY <1>1, <1>2 DEF Leads

\* The tables b goes through are the same in both.
KeptAt(v, w, b) ==
    /\ TableL2(w, b) = TableL2(v, b) /\ TableL1(w, b) = TableL1(v, b) /\ FrameOf(w, b) = FrameOf(v, b)
    /\ TableL2(v, b) # NULL => RowL2(w, b) = RowL2(v, b) /\ EntryL2(w, b) = EntryL2(v, b)
    /\ TableL1(v, b) # NULL => RowL1(w, b) = RowL1(v, b) /\ EntryL1(w, b) = EntryL1(v, b)

\* A store to what is no table changes no table.
LEMMA NoTableKept ==
    ASSUME NEW v \in Machines, NEW w \in Machines, NEW f \in Frames,
           \A b \in Addresses : TableL2(v, b) # f /\ TableL1(v, b) # f,
           w.p3 = v.p3, \A x \in Frames : x # f => w.rows[x] = v.rows[x],
           NEW b \in Addresses
    PROVE  KeptAt(v, w, b)
  <1>1. TableL2(w, b) = TableL2(v, b)
    BY DEF TableL2
  <1>2. TableL2(v, b) # NULL => RowL2(w, b) = RowL2(v, b) /\ EntryL2(w, b) = EntryL2(v, b)
    BY <1>1, EntryFacts DEF RowL2, EntryL2
  <1>3. TableL1(w, b) = TableL1(v, b)
    BY <1>1, <1>2 DEF TableL1
  <1>4. TableL1(v, b) # NULL => RowL1(w, b) = RowL1(v, b) /\ EntryL1(w, b) = EntryL1(v, b)
    BY <1>3, EntryFacts DEF RowL1, EntryL1
  <1>5. FrameOf(w, b) = FrameOf(v, b)
    BY <1>3, <1>4 DEF FrameOf
  <1> QED BY <1>1, <1>2, <1>3, <1>4, <1>5 DEF KeptAt

\* So the tables stay a tree while no frame is taken or given back.
LEMMA KeptTree ==
    ASSUME NEW v, Tree(v), NEW w \in Machines, w.p3 = v.p3, w.free = v.free,
           \A b \in Addresses : KeptAt(v, w, b)
    PROVE  Tree(w)
  <1>1. Accounted(w)
    <2>1. \A l \in Levels, b \in Addresses : Leads(w, l, b) = Leads(v, l, b)
      BY DEF KeptAt, Leads
    <2> QED BY <2>1 DEF Accounted, Tree
  <1>2. BeyondIsClear(w)
    BY DEF KeptAt, BeyondIsClear, Tree
  <1>3. MarkedWhereUsed(w)
    <2>1. v \in Machines
      BY DEF Tree
    <2> QED BY <2>1, EntryFacts DEF KeptAt, MarkedWhereUsed, Tree
  <1> QED BY <1>1, <1>2, <1>3 DEF Tree

(***************************************************************************)
(* A frame that was free gets an entry to lead to it, and an entry is      *)
(* cleared whose frame is free again.                                      *)
(***************************************************************************)
LEMMA SameFacts ==
    ASSUME NEW l \in Levels, NEW a \in Addresses, NEW b \in Addresses, NEW c \in Addresses
    PROVE  Same(l, a, a) /\ (Same(l, a, b) => Same(l, b, a))
           /\ (Same(l, a, b) /\ Same(l, a, c) => Same(l, b, c))
  BY DEF Same, SameL2, SameL1

LEMMA AccountedAdd ==
    ASSUME NEW v \in Machines, Accounted(v), NEW w, NEW g \in v.free, w.free = v.free \ {g},
           NEW k \in Levels, NEW a \in Addresses, Leads(v, k, a) = NULL,
           \A l \in Levels, b \in Addresses :
              Leads(w, l, b) = IF l = k /\ Same(k, a, b) THEN g ELSE Leads(v, l, b)
    PROVE  Accounted(w)
  <1>1. g \in Frames /\ g # NULL /\ \A l \in Levels, b \in Addresses : Leads(v, l, b) # g
    BY PagingAssumption DEF Machines, Accounted
  <1>2. ASSUME NEW l \in Levels, NEW m \in Levels, NEW b \in Addresses, NEW c \in Addresses,
               Leads(w, l, b) = Leads(w, m, c), Leads(w, l, b) # NULL
        PROVE  l = m /\ Same(l, b, c)
    <2>1. CASE Leads(w, l, b) = g
      <3>1. l = k /\ Same(k, a, b) /\ m = k /\ Same(k, a, c)
        BY <1>1, <1>2, <2>1
      <3> QED BY <3>1, SameFacts
    <2>2. CASE Leads(w, l, b) # g
      <3>1. Leads(w, l, b) = Leads(v, l, b)
        BY <2>2
      <3>2. Leads(w, m, c) = Leads(v, m, c)
        BY <1>2, <2>2
      <3>3. Leads(v, l, b) = Leads(v, m, c) /\ Leads(v, l, b) # NULL
        BY <3>1, <3>2, <1>2
      <3> QED BY <3>3 DEF Accounted
    <2> QED BY <2>1, <2>2
  <1>3. ASSUME NEW f \in Frames
        PROVE  f \in w.free <=> \A l \in Levels, b \in Addresses : Leads(w, l, b) # f
    <2>1. CASE f = g
      <3>1. Leads(w, k, a) = g
        BY SameFacts
      <3> QED BY <3>1, <2>1
    <2>2. CASE f # g /\ f \in v.free
      <3>1. \A l \in Levels, b \in Addresses : Leads(v, l, b) # f
        BY <2>2 DEF Accounted
      <3> QED BY <3>1, <2>2
    <2>3. CASE f # g /\ f \notin v.free
      <3>1. PICK l \in Levels, b \in Addresses : Leads(v, l, b) = f
        BY <2>3 DEF Accounted
      <3>2. f # NULL
        BY PagingAssumption
      <3>3. Leads(w, l, b) = f
        <4>1. ASSUME l = k, Same(k, a, b) PROVE FALSE
          <5>1. Leads(v, k, a) = Leads(v, k, b)
            BY <4>1 DEF Same, Leads, SameL2, SameL1, TableL2, TableL1, EntryL2
          <5> QED BY <5>1, <3>1, <3>2, <4>1
        <4> QED BY <4>1, <3>1
      <3> QED BY <3>3, <2>3
    <2> QED BY <2>1, <2>2, <2>3
  <1> QED BY <1>2, <1>3 DEF Accounted

LEMMA AccountedRemove ==
    ASSUME NEW v \in Machines, Accounted(v), NEW w, NEW a \in Addresses,
           w.free = v.free \cup ({FrameOf(v, a)} \ {NULL}),
           \A l \in Levels, b \in Addresses :
              Leads(w, l, b) = IF l = 0 /\ b = a THEN NULL ELSE Leads(v, l, b)
    PROVE  Accounted(w)
  <1>1. 0 \in Levels /\ Leads(v, 0, a) = FrameOf(v, a)
    BY DEF Levels, Leads
  <1>2. ASSUME NEW l \in Levels, NEW m \in Levels, NEW b \in Addresses, NEW c \in Addresses,
               Leads(w, l, b) = Leads(w, m, c), Leads(w, l, b) # NULL
        PROVE  l = m /\ Same(l, b, c)
    BY <1>2 DEF Accounted
  <1>3. ASSUME NEW f \in Frames
        PROVE  f \in w.free <=> \A l \in Levels, b \in Addresses : Leads(w, l, b) # f
    <2>1. f # NULL
      BY PagingAssumption
    <2>2. CASE f = FrameOf(v, a)
      <3>1. \A l \in Levels, b \in Addresses : Leads(v, l, b) = f => l = 0 /\ b = a
        BY <1>1, <2>1, <2>2 DEF Accounted, Same
      <3> QED BY <3>1, <2>1, <2>2
    <2>3. CASE f # FrameOf(v, a)
      <3>1. f \in w.free <=> f \in v.free
        BY <2>3
      <3>2. f \in v.free <=> \A l \in Levels, b \in Addresses : Leads(v, l, b) # f
        BY DEF Accounted
      <3>3. \A l \in Levels, b \in Addresses : Leads(w, l, b) = f <=> Leads(v, l, b) = f
        BY <2>1, <2>3, <1>1
      <3> QED BY <3>1, <3>2, <3>3
    <2> QED BY <2>2, <2>3
  <1> QED BY <1>2, <1>3 DEF Accounted

(***************************************************************************)
(* One entry of a table changes.                                           *)
(***************************************************************************)
\* An entry of a table of level 2, and what was free before.
LEMMA PutL2 ==
    ASSUME NEW v, Tree(v), NEW w \in Machines, NEW a \in Addresses, TableL2(v, a) # NULL,
           NEW e \in Entries, w.p3 = v.p3,
           w.rows[TableL2(v, a)] = [v.rows[TableL2(v, a)] EXCEPT ![l2(a)] = e],
           \A x \in Frames \ v.free : x # TableL2(v, a) => w.rows[x] = v.rows[x],
           NEW b \in Addresses
    PROVE  /\ TableL2(w, b) = TableL2(v, b)
           /\ TableL2(v, b) # NULL =>
                 /\ \A i \in Index : RowL2(w, b)[i] = IF SameL2(a, b) /\ i = l2(a) THEN e ELSE RowL2(v, b)[i]
                 /\ EntryL2(w, b) = IF SameL1(a, b) THEN e ELSE EntryL2(v, b)
           /\ TableL1(w, b) = IF SameL1(a, b) THEN e.base ELSE TableL1(v, b)
           /\ TableL1(v, b) # NULL => w.rows[TableL1(v, b)] = v.rows[TableL1(v, b)]
  <1>1. v \in Machines /\ Accounted(v)
    BY DEF Tree
  <1>2. TableL2(w, b) = TableL2(v, b)
    BY DEF TableL2
  <1>3. TableL2(v, b) \in Frames \cup {NULL} /\ TableL2(v, b) \notin v.free
        /\ TableL1(v, b) \in Frames \cup {NULL} /\ TableL1(v, b) \notin v.free
    BY <1>1, EntryFacts, FreeFacts
  <1>4. SameL2(a, b) <=> TableL2(v, b) = TableL2(v, a)
    <2>1. SameL2(a, b) => TableL2(v, b) = TableL2(v, a)
      BY DEF SameL2, TableL2
    <2> QED BY <2>1, <1>1, ApartFacts
  <1>5. ASSUME TableL2(v, b) # NULL
        PROVE  \A i \in Index : RowL2(w, b)[i] = IF SameL2(a, b) /\ i = l2(a) THEN e ELSE RowL2(v, b)[i]
    <2>1. CASE SameL2(a, b)
      <3>1. v.rows[TableL2(v, a)] \in Tables
        BY <1>1, EntryFacts DEF RowL2
      <3>2. RowL2(w, b) = [RowL2(v, b) EXCEPT ![l2(a)] = e] /\ RowL2(v, b) \in Tables
        BY <2>1, <3>1, <1>2, <1>4 DEF RowL2
      <3> QED BY <3>2, <2>1 DEF Tables
    <2>2. CASE ~SameL2(a, b)
      <3>1. RowL2(w, b) = RowL2(v, b)
        BY <2>2, <1>2, <1>3, <1>4, <1>5 DEF RowL2
      <3> QED BY <3>1, <2>2
    <2> QED BY <2>1, <2>2
  <1>6. ASSUME TableL2(v, b) # NULL PROVE EntryL2(w, b) = IF SameL1(a, b) THEN e ELSE EntryL2(v, b)
    <2>1. l2(b) \in Index /\ EntryL2(w, b) = RowL2(w, b)[l2(b)] /\ EntryL2(v, b) = RowL2(v, b)[l2(b)]
      BY <1>6, <1>2, Digits DEF EntryL2, RowL2
    <2>2. RowL2(w, b)[l2(b)] = IF SameL2(a, b) /\ l2(b) = l2(a) THEN e ELSE RowL2(v, b)[l2(b)]
      BY <2>1, <1>5, <1>6
    <2>3. SameL1(a, b) <=> SameL2(a, b) /\ l2(b) = l2(a)
      BY DEF SameL1
    <2> QED BY <2>1, <2>2, <2>3
  <1>7. TableL1(w, b) = IF SameL1(a, b) THEN e.base ELSE TableL1(v, b)
    <2>1. CASE TableL2(v, b) = NULL
      BY <2>1, <1>2, <1>4 DEF TableL1, SameL1
    <2>2. CASE TableL2(v, b) # NULL
      BY <2>2, <1>2, <1>6 DEF TableL1
    <2> QED BY <2>1, <2>2
  <1>8. TableL1(v, b) # NULL => w.rows[TableL1(v, b)] = v.rows[TableL1(v, b)]
    BY <1>1, <1>3, ApartFacts
  <1> QED BY <1>2, <1>5, <1>6, <1>7, <1>8

\* An entry of a table of level 1.
LEMMA PutL1 ==
    ASSUME NEW v, Tree(v), NEW w \in Machines, NEW a \in Addresses, TableL1(v, a) # NULL,
           NEW e \in Entries, w.p3 = v.p3,
           w.rows[TableL1(v, a)] = [v.rows[TableL1(v, a)] EXCEPT ![l1(a)] = e],
           \A x \in Frames : x # TableL1(v, a) => w.rows[x] = v.rows[x],
           NEW b \in Addresses
    PROVE  /\ TableL2(w, b) = TableL2(v, b) /\ TableL1(w, b) = TableL1(v, b)
           /\ TableL2(v, b) # NULL => RowL2(w, b) = RowL2(v, b) /\ EntryL2(w, b) = EntryL2(v, b)
           /\ TableL1(v, b) # NULL =>
                 /\ \A i \in Index : RowL1(w, b)[i] = IF SameL1(a, b) /\ i = l1(a) THEN e ELSE RowL1(v, b)[i]
                 /\ EntryL1(w, b) = IF b = a THEN e ELSE EntryL1(v, b)
           /\ FrameOf(w, b) = IF b = a THEN e.base ELSE FrameOf(v, b)
  <1>1. v \in Machines /\ Accounted(v)
    BY DEF Tree
  <1>2. TableL2(w, b) = TableL2(v, b)
    BY DEF TableL2
  <1>3. TableL2(v, b) \in Frames \cup {NULL} /\ TableL1(v, b) \in Frames \cup {NULL}
    BY <1>1, EntryFacts
  <1>4. TableL2(v, b) # NULL => RowL2(w, b) = RowL2(v, b) /\ EntryL2(w, b) = EntryL2(v, b)
    BY <1>1, <1>2, <1>3, ApartFacts DEF RowL2, EntryL2
  <1>5. TableL1(w, b) = TableL1(v, b)
    BY <1>2, <1>4 DEF TableL1
  <1>6. SameL1(a, b) <=> TableL1(v, b) = TableL1(v, a)
    <2>1. SameL1(a, b) => TableL1(v, b) = TableL1(v, a)
      BY DEF SameL1, SameL2, TableL1, EntryL2, TableL2
    <2> QED BY <2>1, <1>1, ApartFacts
  <1>7. ASSUME TableL1(v, b) # NULL
        PROVE  \A i \in Index : RowL1(w, b)[i] = IF SameL1(a, b) /\ i = l1(a) THEN e ELSE RowL1(v, b)[i]
    <2>1. CASE SameL1(a, b)
      <3>1. v.rows[TableL1(v, a)] \in Tables
        BY <1>1, EntryFacts DEF RowL1
      <3>2. RowL1(w, b) = [RowL1(v, b) EXCEPT ![l1(a)] = e] /\ RowL1(v, b) \in Tables
        BY <2>1, <3>1, <1>5, <1>6 DEF RowL1
      <3> QED BY <3>2, <2>1 DEF Tables
    <2>2. CASE ~SameL1(a, b)
      <3>1. RowL1(w, b) = RowL1(v, b)
        BY <2>2, <1>3, <1>5, <1>6, <1>7 DEF RowL1
      <3> QED BY <3>1, <2>2
    <2> QED BY <2>1, <2>2
  <1>8. ASSUME TableL1(v, b) # NULL PROVE EntryL1(w, b) = IF b = a THEN e ELSE EntryL1(v, b)
    <2>1. l1(b) \in Index /\ EntryL1(w, b) = RowL1(w, b)[l1(b)] /\ EntryL1(v, b) = RowL1(v, b)[l1(b)]
      BY <1>8, <1>5, Digits DEF EntryL1, RowL1
    <2>2. RowL1(w, b)[l1(b)] = IF SameL1(a, b) /\ l1(b) = l1(a) THEN e ELSE RowL1(v, b)[l1(b)]
      BY <2>1, <1>7, <1>8
    <2>3. b = a <=> SameL1(a, b) /\ l1(b) = l1(a)
      BY SamePage DEF SameL1, SameL2
    <2> QED BY <2>1, <2>2, <2>3
  <1>9. FrameOf(w, b) = IF b = a THEN e.base ELSE FrameOf(v, b)
    <2>1. CASE TableL1(v, b) = NULL
      BY <2>1, <1>5 DEF FrameOf
    <2>2. CASE TableL1(v, b) # NULL
      BY <2>2, <1>5, <1>8 DEF FrameOf
    <2> QED BY <2>1, <2>2
  <1> QED BY <1>2, <1>4, <1>5, <1>7, <1>8, <1>9

\* The tree stays one when an entry of level 2 that led nowhere still leads nowhere.
LEMMA MarkL2Tree ==
    ASSUME NEW v, Tree(v), NEW w \in Machines, NEW a \in Addresses,
           TableL2(v, a) # NULL, TableL1(v, a) = NULL,
           NEW e \in Entries, e.base = NULL, w.p3 = v.p3, w.free = v.free,
           w.rows[TableL2(v, a)] = [v.rows[TableL2(v, a)] EXCEPT ![l2(a)] = e],
           \A x \in Frames : x # TableL2(v, a) => w.rows[x] = v.rows[x]
    PROVE  /\ Tree(w)
           /\ \A b \in Addresses :
                 /\ TableL2(w, b) = TableL2(v, b) /\ TableL1(w, b) = TableL1(v, b)
                 /\ FrameOf(w, b) = FrameOf(v, b)
                 /\ TableL2(v, b) # NULL => EntryL2(w, b) = IF SameL1(a, b) THEN e ELSE EntryL2(v, b)
                 /\ TableL1(v, b) # NULL => EntryL1(w, b) = EntryL1(v, b)
  <1>1. v \in Machines /\ Accounted(v) /\ BeyondIsClear(v) /\ MarkedWhereUsed(v)
    BY DEF Tree
  <1>2. ASSUME NEW b \in Addresses
        PROVE  /\ TableL2(w, b) = TableL2(v, b)
               /\ TableL2(v, b) # NULL =>
                     /\ \A i \in Index :
                           RowL2(w, b)[i] = IF SameL2(a, b) /\ i = l2(a) THEN e ELSE RowL2(v, b)[i]
                     /\ EntryL2(w, b) = IF SameL1(a, b) THEN e ELSE EntryL2(v, b)
               /\ TableL1(w, b) = TableL1(v, b)
               /\ TableL1(v, b) # NULL => RowL1(w, b) = RowL1(v, b) /\ EntryL1(w, b) = EntryL1(v, b)
               /\ FrameOf(w, b) = FrameOf(v, b)
    <2>1. SameL1(a, b) => TableL1(v, b) = NULL
      BY DEF SameL1, SameL2, TableL1, EntryL2, TableL2
    <2>2. TableL1(w, b) = TableL1(v, b)
      BY <2>1, PutL2
    <2>3. TableL1(v, b) # NULL => RowL1(w, b) = RowL1(v, b) /\ EntryL1(w, b) = EntryL1(v, b)
      BY <2>2, PutL2 DEF RowL1, EntryL1
    <2>4. FrameOf(w, b) = FrameOf(v, b)
      BY <2>2, <2>3 DEF FrameOf
    <2> QED BY <2>2, <2>3, <2>4, PutL2
  <1>3. Accounted(w)
    <2>1. \A l \in Levels, b \in Addresses : Leads(w, l, b) = Leads(v, l, b)
      BY <1>2 DEF Leads
    <2> QED BY <2>1, <1>1 DEF Accounted
  <1>4. BeyondIsClear(w)
    <2>1. ASSUME NEW b \in Addresses, NEW i \in Index, TableL2(w, b) # NULL,
                 \A c \in Addresses : SameL2(b, c) => l2(c) # i
          PROVE  RowL2(w, b)[i].base = NULL
      <3>1. RowL2(v, b)[i].base = NULL
        BY <2>1, <1>1, <1>2 DEF BeyondIsClear
      <3> QED BY <3>1, <2>1, <1>2
    <2>2. ASSUME NEW b \in Addresses, NEW i \in Index, TableL1(w, b) # NULL,
                 \A c \in Addresses : SameL1(b, c) => l1(c) # i
          PROVE  RowL1(w, b)[i].base = NULL
      <3>1. RowL1(v, b)[i].base = NULL
        BY <2>2, <1>1, <1>2 DEF BeyondIsClear
      <3> QED BY <3>1, <2>2, <1>2
    <2>3. \A reg \in Regions, i \in Index :
             (\A c \in Addresses : c.reg = reg => l3(c) # i) => w.p3[reg][i].base = NULL
      BY <1>1 DEF BeyondIsClear
    <2> QED BY <2>1, <2>2, <2>3 DEF BeyondIsClear
  <1>5. MarkedWhereUsed(w)
    <2>1. ASSUME NEW b \in Addresses
          PROVE  /\ TableL1(w, b) # NULL => EntryL2(w, b).avl
                 /\ FrameOf(w, b) # NULL => EntryL1(w, b).avl
      <3>1. SameL1(a, b) => TableL1(v, b) = NULL
        BY DEF SameL1, SameL2, TableL1, EntryL2, TableL2
      <3> QED BY <3>1, <1>1, <1>2, EntryFacts DEF MarkedWhereUsed
    <2> QED BY <2>1 DEF MarkedWhereUsed
  <1> QED BY <1>2, <1>3, <1>4, <1>5 DEF Tree

\* The tree grows by a table of level 1 whose entries lead nowhere.
LEMMA AddL1Tree ==
    ASSUME NEW v, Tree(v), NEW w \in Machines, NEW a \in Addresses,
           TableL2(v, a) # NULL, TableL1(v, a) = NULL,
           NEW g \in v.free, w.free = v.free \ {g}, NEW R \in Tables, \A i \in Index : R[i].base = NULL,
           NEW e \in Entries, e.base = g, e.avl, w.p3 = v.p3, w.rows[g] = R,
           w.rows[TableL2(v, a)] = [v.rows[TableL2(v, a)] EXCEPT ![l2(a)] = e],
           \A x \in Frames \ {g} : x # TableL2(v, a) => w.rows[x] = v.rows[x]
    PROVE  /\ Tree(w)
           /\ \A b \in Addresses :
                 /\ TableL2(w, b) = TableL2(v, b)
                 /\ TableL1(w, b) = IF SameL1(a, b) THEN g ELSE TableL1(v, b)
                 /\ FrameOf(w, b) = FrameOf(v, b)
                 /\ TableL2(v, b) # NULL => EntryL2(w, b) = IF SameL1(a, b) THEN e ELSE EntryL2(v, b)
                 /\ TableL1(v, b) # NULL => EntryL1(w, b) = EntryL1(v, b)
                 /\ SameL1(a, b) => EntryL1(w, b) = R[l1(b)]
  <1>1. v \in Machines /\ Accounted(v) /\ BeyondIsClear(v) /\ MarkedWhereUsed(v)
    BY DEF Tree
  <1>2. g \in Frames /\ g # NULL
    BY <1>1, FreeFacts
  <1>3. ASSUME NEW b \in Addresses
        PROVE  /\ TableL2(w, b) = TableL2(v, b)
               /\ TableL2(v, b) # NULL =>
                     /\ \A i \in Index :
                           RowL2(w, b)[i] = IF SameL2(a, b) /\ i = l2(a) THEN e ELSE RowL2(v, b)[i]
                     /\ EntryL2(w, b) = IF SameL1(a, b) THEN e ELSE EntryL2(v, b)
               /\ TableL1(w, b) = IF SameL1(a, b) THEN g ELSE TableL1(v, b)
               /\ TableL1(v, b) # NULL => RowL1(w, b) = RowL1(v, b) /\ EntryL1(w, b) = EntryL1(v, b)
               /\ SameL1(a, b) => RowL1(w, b) = R /\ EntryL1(w, b) = R[l1(b)] /\ TableL1(v, b) = NULL
               /\ FrameOf(w, b) = FrameOf(v, b)
    <2>1. \A x \in Frames \ v.free : x # TableL2(v, a) => w.rows[x] = v.rows[x]
      OBVIOUS
    <2>2. /\ TableL2(w, b) = TableL2(v, b)
          /\ TableL2(v, b) # NULL =>
                /\ \A i \in Index :
                      RowL2(w, b)[i] = IF SameL2(a, b) /\ i = l2(a) THEN e ELSE RowL2(v, b)[i]
                /\ EntryL2(w, b) = IF SameL1(a, b) THEN e ELSE EntryL2(v, b)
          /\ TableL1(w, b) = IF SameL1(a, b) THEN e.base ELSE TableL1(v, b)
          /\ TableL1(v, b) # NULL => w.rows[TableL1(v, b)] = v.rows[TableL1(v, b)]
      BY <2>1, PutL2
    <2>3. SameL1(a, b) => TableL1(v, b) = NULL
      BY DEF SameL1, SameL2, TableL1, EntryL2, TableL2
    <2>4. TableL1(w, b) = IF SameL1(a, b) THEN g ELSE TableL1(v, b)
      BY <2>2
    <2>5. TableL1(v, b) # NULL => RowL1(w, b) = RowL1(v, b) /\ EntryL1(w, b) = EntryL1(v, b)
      BY <2>2, <2>3, <2>4 DEF RowL1, EntryL1
    <2>6. SameL1(a, b) => RowL1(w, b) = R /\ EntryL1(w, b) = R[l1(b)]
      BY <2>4 DEF RowL1, EntryL1
    <2>7. FrameOf(w, b) = FrameOf(v, b)
      <3>1. l1(b) \in Index
        BY Digits
      <3>2. CASE SameL1(a, b)
        BY <3>1, <3>2, <2>3, <2>4, <2>6, <1>2 DEF FrameOf
      <3>3. CASE ~SameL1(a, b)
        BY <3>3, <2>4, <2>5 DEF FrameOf
      <3> QED BY <3>2, <3>3
    <2> QED BY <2>2, <2>3, <2>4, <2>5, <2>6, <2>7
  <1>4. Accounted(w)
    <2>1. PICK k \in Levels : k = 1
      BY DEF Levels
    <2>2. Leads(v, k, a) = NULL
      BY <2>1 DEF Leads
    <2>3. \A l \in Levels, b \in Addresses :
             Leads(w, l, b) = IF l = k /\ Same(k, a, b) THEN g ELSE Leads(v, l, b)
      BY <2>1, <1>3 DEF Leads, Same
    <2> QED BY <2>2, <2>3, <1>1, AccountedAdd
  <1>5. BeyondIsClear(w)
    <2>1. ASSUME NEW b \in Addresses, NEW i \in Index, TableL2(w, b) # NULL,
                 \A c \in Addresses : SameL2(b, c) => l2(c) # i
          PROVE  RowL2(w, b)[i].base = NULL
      <3>1. RowL2(v, b)[i].base = NULL
        BY <2>1, <1>1, <1>3 DEF BeyondIsClear
      <3>2. SameL2(a, b) => l2(a) # i
        BY <2>1 DEF SameL2
      <3> QED BY <3>1, <3>2, <2>1, <1>3
    <2>2. ASSUME NEW b \in Addresses, NEW i \in Index, TableL1(w, b) # NULL,
                 \A c \in Addresses : SameL1(b, c) => l1(c) # i
          PROVE  RowL1(w, b)[i].base = NULL
      <3>1. CASE SameL1(a, b)
        BY <3>1, <1>3
      <3>2. CASE ~SameL1(a, b)
        <4>1. RowL1(v, b)[i].base = NULL
          BY <3>2, <2>2, <1>1, <1>3 DEF BeyondIsClear
        <4> QED BY <4>1, <3>2, <2>2, <1>3
      <3> QED BY <3>1, <3>2
    <2>3. \A reg \in Regions, i \in Index :
             (\A c \in Addresses : c.reg = reg => l3(c) # i) => w.p3[reg][i].base = NULL
      BY <1>1 DEF BeyondIsClear
    <2> QED BY <2>1, <2>2, <2>3 DEF BeyondIsClear
  <1>6. MarkedWhereUsed(w)
    <2>1. ASSUME NEW b \in Addresses
          PROVE  /\ TableL1(w, b) # NULL => EntryL2(w, b).avl
                 /\ FrameOf(w, b) # NULL => EntryL1(w, b).avl
      <3>1. SameL1(a, b) => TableL2(v, b) # NULL
        BY DEF SameL1, SameL2, TableL2
      <3>2. SameL1(a, b) => FrameOf(v, b) = NULL
        BY <1>3 DEF FrameOf
      <3> QED BY <3>1, <3>2, <1>1, <1>3, EntryFacts DEF MarkedWhereUsed
    <2> QED BY <2>1 DEF MarkedWhereUsed
  <1> QED BY <1>3, <1>4, <1>5, <1>6 DEF Tree

\* The tree grows by an empty table of level 2.
LEMMA AddL2Tree ==
    ASSUME NEW v, Tree(v), NEW w \in Machines, NEW a \in Addresses, TableL2(v, a) = NULL,
           NEW g \in v.free, w.free = v.free \ {g}, w.rows[g] = ZeroTable,
           \A x \in Frames \ {g} : w.rows[x] = v.rows[x],
           \A reg \in Regions, i \in Index :
              w.p3[reg][i].base = IF reg = a.reg /\ i = l3(a) THEN g ELSE v.p3[reg][i].base
    PROVE  /\ Tree(w)
           /\ \A b \in Addresses :
                 /\ TableL2(w, b) = IF SameL2(a, b) THEN g ELSE TableL2(v, b)
                 /\ TableL1(w, b) = TableL1(v, b)
                 /\ FrameOf(w, b) = FrameOf(v, b)
                 /\ TableL2(v, b) # NULL => EntryL2(w, b) = EntryL2(v, b)
                 /\ TableL1(v, b) # NULL => EntryL1(w, b) = EntryL1(v, b)
                 /\ SameL2(a, b) => EntryL2(w, b) = Clear
  <1>1. v \in Machines /\ Accounted(v) /\ BeyondIsClear(v) /\ MarkedWhereUsed(v)
    BY DEF Tree
  <1>2. g \in Frames /\ g # NULL
    BY <1>1, FreeFacts
  <1>3. ASSUME NEW b \in Addresses
        PROVE  /\ TableL2(w, b) = IF SameL2(a, b) THEN g ELSE TableL2(v, b)
               /\ TableL2(v, b) # NULL => RowL2(w, b) = RowL2(v, b) /\ EntryL2(w, b) = EntryL2(v, b)
               /\ SameL2(a, b) => RowL2(w, b) = ZeroTable /\ EntryL2(w, b) = Clear /\ TableL2(v, b) = NULL
               /\ TableL1(w, b) = TableL1(v, b)
               /\ TableL1(v, b) # NULL => RowL1(w, b) = RowL1(v, b) /\ EntryL1(w, b) = EntryL1(v, b)
               /\ FrameOf(w, b) = FrameOf(v, b)
    <2>1. b.reg \in Regions /\ l3(b) \in Index /\ l2(b) \in Index
      BY AddressFacts, Digits
    <2>2. TableL2(w, b) = IF SameL2(a, b) THEN g ELSE TableL2(v, b)
      BY <2>1 DEF TableL2, SameL2
    <2>3. SameL2(a, b) => TableL2(v, b) = NULL
      BY DEF SameL2, TableL2
    <2>4. TableL2(v, b) \in Frames \cup {NULL} /\ TableL1(v, b) \in Frames \cup {NULL}
          /\ TableL2(v, b) # g /\ TableL1(v, b) # g
      BY <1>1, EntryFacts, FreeFacts
    <2>5. TableL2(v, b) # NULL => RowL2(w, b) = RowL2(v, b) /\ EntryL2(w, b) = EntryL2(v, b)
      BY <2>2, <2>3, <2>4 DEF RowL2, EntryL2
    <2>6. SameL2(a, b) => RowL2(w, b) = ZeroTable /\ EntryL2(w, b) = Clear
      BY <2>1, <2>2 DEF RowL2, EntryL2, ZeroTable
    <2>7. TableL1(w, b) = TableL1(v, b)
      BY <2>2, <2>3, <2>5, <2>6, <1>2 DEF TableL1, Clear
    <2>8. TableL1(v, b) # NULL => RowL1(w, b) = RowL1(v, b) /\ EntryL1(w, b) = EntryL1(v, b)
      BY <2>4, <2>7 DEF RowL1, EntryL1
    <2>9. FrameOf(w, b) = FrameOf(v, b)
      BY <2>7, <2>8 DEF FrameOf
    <2> QED BY <2>2, <2>3, <2>5, <2>6, <2>7, <2>8, <2>9
  <1>4. Accounted(w)
    <2>1. PICK k \in Levels : k = 2
      BY DEF Levels
    <2>2. Leads(v, k, a) = NULL
      BY <2>1 DEF Leads
    <2>3. \A l \in Levels, b \in Addresses :
             Leads(w, l, b) = IF l = k /\ Same(k, a, b) THEN g ELSE Leads(v, l, b)
      BY <2>1, <1>3 DEF Leads, Same, Levels
    <2> QED BY <2>2, <2>3, <1>1, AccountedAdd
  <1>5. BeyondIsClear(w)
    <2>1. ASSUME NEW b \in Addresses, NEW i \in Index, TableL2(w, b) # NULL,
                 \A c \in Addresses : SameL2(b, c) => l2(c) # i
          PROVE  RowL2(w, b)[i].base = NULL
      <3>1. CASE SameL2(a, b)
        BY <3>1, <1>3 DEF ZeroTable, Clear
      <3>2. CASE ~SameL2(a, b)
        <4>1. RowL2(v, b)[i].base = NULL
          BY <3>2, <2>1, <1>1, <1>3 DEF BeyondIsClear
        <4> QED BY <4>1, <3>2, <2>1, <1>3
      <3> QED BY <3>1, <3>2
    <2>2. \A b \in Addresses, i \in Index :
             TableL1(w, b) # NULL /\ (\A c \in Addresses : SameL1(b, c) => l1(c) # i)
                => RowL1(w, b)[i].base = NULL
      BY <1>1, <1>3 DEF BeyondIsClear
    <2>3. ASSUME NEW reg \in Regions, NEW i \in Index, \A c \in Addresses : c.reg = reg => l3(c) # i
          PROVE  w.p3[reg][i].base = NULL
      <3>1. ~(reg = a.reg /\ i = l3(a))
        BY <2>3
      <3>2. v.p3[reg][i].base = NULL
        BY <2>3, <1>1 DEF BeyondIsClear
      <3> QED BY <3>1, <3>2
    <2> QED BY <2>1, <2>2, <2>3 DEF BeyondIsClear
  <1>6. MarkedWhereUsed(w)
    <2>1. ASSUME NEW b \in Addresses
          PROVE  /\ TableL1(w, b) # NULL => EntryL2(w, b).avl
                 /\ FrameOf(w, b) # NULL => EntryL1(w, b).avl
      BY <1>1, <1>3, EntryFacts DEF MarkedWhereUsed
    <2> QED BY <2>1 DEF MarkedWhereUsed
  <1> QED BY <1>3, <1>4, <1>5, <1>6 DEF Tree

\* The tree with another entry of level 1, as far as the free frames agree.
LEMMA PutL1Tree ==
    ASSUME NEW v, Tree(v), NEW w \in Machines, NEW a \in Addresses, TableL1(v, a) # NULL,
           NEW e \in Entries, e.base # NULL => e.avl, w.p3 = v.p3,
           w.rows[TableL1(v, a)] = [v.rows[TableL1(v, a)] EXCEPT ![l1(a)] = e],
           \A x \in Frames : x # TableL1(v, a) => w.rows[x] = v.rows[x],
           \/ e.base = FrameOf(v, a) /\ w.free = v.free
           \/ e.base \in v.free /\ w.free = v.free \ {e.base} /\ FrameOf(v, a) = NULL
           \/ e.base = NULL /\ w.free = v.free \cup ({FrameOf(v, a)} \ {NULL})
    PROVE  Tree(w)
  <1>1. v \in Machines /\ Accounted(v) /\ BeyondIsClear(v) /\ MarkedWhereUsed(v)
    BY DEF Tree
  <1>2. \A b \in Addresses :
           /\ TableL2(w, b) = TableL2(v, b) /\ TableL1(w, b) = TableL1(v, b)
           /\ TableL2(v, b) # NULL => RowL2(w, b) = RowL2(v, b) /\ EntryL2(w, b) = EntryL2(v, b)
           /\ TableL1(v, b) # NULL =>
                 /\ \A i \in Index : RowL1(w, b)[i] = IF SameL1(a, b) /\ i = l1(a) THEN e ELSE RowL1(v, b)[i]
                 /\ EntryL1(w, b) = IF b = a THEN e ELSE EntryL1(v, b)
           /\ FrameOf(w, b) = IF b = a THEN e.base ELSE FrameOf(v, b)
    BY PutL1
  <1>3. Accounted(w)
    <2>1. CASE e.base = FrameOf(v, a) /\ w.free = v.free
      <3>1. \A l \in Levels, b \in Addresses : Leads(w, l, b) = Leads(v, l, b)
        BY <2>1, <1>2 DEF Leads
      <3> QED BY <3>1, <2>1, <1>1 DEF Accounted
    <2>2. CASE e.base \in v.free /\ w.free = v.free \ {e.base} /\ FrameOf(v, a) = NULL
      <3>1. PICK k \in Levels : k = 0
        BY DEF Levels
      <3>2. Leads(v, k, a) = NULL
        BY <3>1, <2>2 DEF Leads
      <3>3. PICK g \in v.free : g = e.base
        BY <2>2
      <3>4. w.free = v.free \ {g}
        BY <3>3, <2>2
      <3>5. \A l \in Levels, b \in Addresses :
               Leads(w, l, b) = IF l = k /\ Same(k, a, b) THEN g ELSE Leads(v, l, b)
        BY <3>1, <3>3, <1>2 DEF Leads, Same, Levels
      <3> QED BY <3>2, <3>4, <3>5, <1>1, AccountedAdd
    <2>3. CASE e.base = NULL /\ w.free = v.free \cup ({FrameOf(v, a)} \ {NULL})
      <3>1. \A l \in Levels, b \in Addresses :
               Leads(w, l, b) = IF l = 0 /\ b = a THEN NULL ELSE Leads(v, l, b)
        BY <2>3, <1>2 DEF Leads, Levels
      <3> QED BY <3>1, <2>3, <1>1, AccountedRemove
    <2> QED BY <2>1, <2>2, <2>3
  <1>4. BeyondIsClear(w)
    <2>1. ASSUME NEW b \in Addresses, NEW i \in Index, TableL1(w, b) # NULL,
                 \A c \in Addresses : SameL1(b, c) => l1(c) # i
          PROVE  RowL1(w, b)[i].base = NULL
      <3>1. SameL1(a, b) => l1(a) # i
        BY <2>1 DEF SameL1, SameL2
      <3>2. RowL1(v, b)[i].base = NULL
        BY <2>1, <1>1, <1>2 DEF BeyondIsClear
      <3> QED BY <3>1, <3>2, <2>1, <1>2
    <2>2. \A b \in Addresses, i \in Index :
             TableL2(w, b) # NULL /\ (\A c \in Addresses : SameL2(b, c) => l2(c) # i)
                => RowL2(w, b)[i].base = NULL
      BY <1>1, <1>2 DEF BeyondIsClear
    <2>3. \A reg \in Regions, i \in Index :
             (\A c \in Addresses : c.reg = reg => l3(c) # i) => w.p3[reg][i].base = NULL
      BY <1>1 DEF BeyondIsClear
    <2> QED BY <2>1, <2>2, <2>3 DEF BeyondIsClear
  <1>5. MarkedWhereUsed(w)
    <2>1. ASSUME NEW b \in Addresses
          PROVE  /\ TableL1(w, b) # NULL => EntryL2(w, b).avl
                 /\ FrameOf(w, b) # NULL => EntryL1(w, b).avl
      BY <1>1, <1>2, EntryFacts DEF MarkedWhereUsed
    <2> QED BY <2>1 DEF MarkedWhereUsed
  <1> QED BY <1>3, <1>4, <1>5 DEF Tree
-----------------------------------------------------------------------------
(***************************************************************************)
(* What the operations of Page.cpp do to the machine, field by field.      *)
(***************************************************************************)
LEMMA SetRow ==
    ASSUME NEW v \in Machines, NEW f \in Frames, NEW R \in Tables
    PROVE  \E w \in Machines :
              /\ w = [v EXCEPT !.rows[f] = R]
              /\ w.p3 = v.p3 /\ w.free = v.free /\ w.fault = v.fault
              /\ w.rows[f] = R /\ \A x \in Frames : x # f => w.rows[x] = v.rows[x]
  <1>1. PICK w : w = [v EXCEPT !.rows[f] = R]
    OBVIOUS
  <1>2. /\ w \in Machines /\ w.p3 = v.p3 /\ w.free = v.free /\ w.fault = v.fault
        /\ w.rows[f] = R /\ \A x \in Frames : x # f => w.rows[x] = v.rows[x]
    BY <1>1 DEF Machines
  <1> QED BY <1>1, <1>2

LEMMA SetEntry ==
    ASSUME NEW v \in Machines, NEW f \in Frames, NEW i \in Index, NEW e \in Entries
    PROVE  \E w \in Machines :
              /\ w = [v EXCEPT !.rows[f][i] = e]
              /\ w.p3 = v.p3 /\ w.free = v.free /\ w.fault = v.fault
              /\ w.rows[f] = [v.rows[f] EXCEPT ![i] = e]
              /\ \A x \in Frames : x # f => w.rows[x] = v.rows[x]
  <1>1. v.rows[f] \in Tables
    BY DEF Machines
  <1>2. PICK R \in Tables : R = [v.rows[f] EXCEPT ![i] = e]
    BY <1>1 DEF Tables
  <1>3. PICK w \in Machines :
           /\ w = [v EXCEPT !.rows[f] = R]
           /\ w.p3 = v.p3 /\ w.free = v.free /\ w.fault = v.fault
           /\ w.rows[f] = R /\ \A x \in Frames : x # f => w.rows[x] = v.rows[x]
    BY SetRow
  <1>4. w = [v EXCEPT !.rows[f][i] = e]
    BY <1>2, <1>3
  <1> QED BY <1>2, <1>3, <1>4

LEMMA SetFree ==
    ASSUME NEW v \in Machines, NEW S \in SUBSET Frames
    PROVE  \E w \in Machines :
              /\ w = [v EXCEPT !.free = S]
              /\ w.p3 = v.p3 /\ w.free = S /\ w.fault = v.fault /\ w.rows = v.rows
  <1>1. PICK w : w = [v EXCEPT !.free = S]
    OBVIOUS
  <1>2. w \in Machines /\ w.p3 = v.p3 /\ w.free = S /\ w.fault = v.fault /\ w.rows = v.rows
    BY <1>1 DEF Machines
  <1> QED BY <1>1, <1>2

LEMMA SetL3 ==
    ASSUME NEW v \in Machines, NEW reg \in Regions, NEW i \in Index, NEW g \in Frames
    PROVE  \E w \in Machines :
              /\ w = [v EXCEPT !.p3[reg][i].base = g]
              /\ w.rows = v.rows /\ w.free = v.free /\ w.fault = v.fault
              /\ \A r \in Regions, j \in Index :
                    w.p3[r][j].base = IF r = reg /\ j = i THEN g ELSE v.p3[r][j].base
  <1>1. v.p3 \in [Regions -> Tables]
    BY DEF Machines
  <1>2. v.p3[reg] \in Tables /\ v.p3[reg][i] \in Entries
    BY <1>1 DEF Tables
  <1>3. PICK e : e = [v.p3[reg][i] EXCEPT !.base = g]
    OBVIOUS
  <1>4. e \in Entries /\ e.base = g
    BY <1>2, <1>3 DEF Entries
  <1>5. PICK u : u = [v.p3[reg] EXCEPT ![i] = e]
    OBVIOUS
  <1>6. u \in Tables /\ \A j \in Index : u[j].base = IF j = i THEN g ELSE v.p3[reg][j].base
    BY <1>2, <1>4, <1>5 DEF Tables
  <1>7. PICK q \in [Regions -> Tables] : q = [v.p3 EXCEPT ![reg] = u]
    BY <1>1, <1>6
  <1>8. \A r \in Regions, j \in Index : q[r][j].base = IF r = reg /\ j = i THEN g ELSE v.p3[r][j].base
    BY <1>1, <1>6, <1>7
  <1>9. PICK w : w = [v EXCEPT !.p3 = q]
    OBVIOUS
  <1>10. w \in Machines /\ w.p3 = q /\ w.rows = v.rows /\ w.free = v.free /\ w.fault = v.fault
    BY <1>9 DEF Machines
  <1>11. w = [v EXCEPT !.p3[reg][i].base = g]
    BY <1>3, <1>5, <1>7, <1>9
  <1> QED BY <1>8, <1>10, <1>11

LEMMA EntriesFacts ==
    /\ Clear \in Entries /\ ZeroTable \in Tables /\ FullTable \in Tables
    /\ \A i \in Index : ZeroTable[i] = Clear /\ FullTable[i] = [base |-> NULL, avl |-> TRUE]
    /\ \A e \in Entries : [e EXCEPT !.avl = TRUE] \in Entries
                          /\ [e EXCEPT !.avl = TRUE].base = e.base /\ [e EXCEPT !.avl = TRUE].avl = TRUE
    /\ \A e \in Entries, g \in Frames :
          [e EXCEPT !.base = g] \in Entries
          /\ [e EXCEPT !.base = g].base = g /\ [e EXCEPT !.base = g].avl = e.avl
  BY DEF Clear, ZeroTable, FullTable, Entries, Tables

\* The allocator gives a frame that was free.
LEMMA GrantedFacts ==
    ASSUME NEW v \in Machines, v.free # {}
    PROVE  /\ Granted(v) \in v.free /\ Granted(v) \in Frames /\ Granted(v) # NULL
           /\ Taken(v) \in Machines /\ Taken(v).p3 = v.p3 /\ Taken(v).rows = v.rows
           /\ Taken(v).free = v.free \ {Granted(v)} /\ Taken(v).fault = v.fault
           /\ TakenZeroed(v) \in Machines /\ TakenZeroed(v).p3 = v.p3
           /\ TakenZeroed(v).free = v.free \ {Granted(v)} /\ TakenZeroed(v).fault = v.fault
           /\ TakenZeroed(v).rows[Granted(v)] = ZeroTable
           /\ \A x \in Frames : x # Granted(v) => TakenZeroed(v).rows[x] = v.rows[x]
  <1>1. Granted(v) \in v.free /\ v.free \subseteq Frames
    BY DEF Granted, Machines
  <1>2. Granted(v) \in Frames /\ Granted(v) # NULL
    BY <1>1, PagingAssumption
  <1>3. PICK S \in SUBSET Frames : S = v.free \ {Granted(v)}
    BY <1>1
  <1>4. PICK u \in Machines :
           /\ u = [v EXCEPT !.free = S]
           /\ u.p3 = v.p3 /\ u.free = S /\ u.fault = v.fault /\ u.rows = v.rows
    BY SetFree
  <1>5. Taken(v) = u
    BY <1>3, <1>4 DEF Taken
  <1>6. PICK w \in Machines :
           /\ w = [u EXCEPT !.rows[Granted(v)] = ZeroTable]
           /\ w.p3 = u.p3 /\ w.free = u.free /\ w.fault = u.fault
           /\ w.rows[Granted(v)] = ZeroTable
           /\ \A x \in Frames : x # Granted(v) => w.rows[x] = u.rows[x]
    BY <1>2, EntriesFacts, SetRow
  <1>7. TakenZeroed(v) = w
    BY <1>5, <1>6 DEF TakenZeroed
  <1> QED BY <1>1, <1>2, <1>3, <1>4, <1>5, <1>6, <1>7

(***************************************************************************)
(* What they do to the marks and to the pages.                             *)
(***************************************************************************)
IsMarked(v, a) ==
    TableL2(v, a) # NULL /\ EntryL2(v, a).avl /\ (TableL1(v, a) # NULL => EntryL1(v, a).avl)

\* Marked at level 2, before there is a table of level 1.
Lazy(v, a) == TableL2(v, a) # NULL /\ EntryL2(v, a).avl /\ TableL1(v, a) = NULL

\* The page has the frame it had, with what was in it.
PageKept(v, w, b) ==
    /\ FrameOf(w, b) = FrameOf(v, b)
    /\ FrameOf(v, b) # NULL => w.rows[FrameOf(v, b)] = v.rows[FrameOf(v, b)]

LEMMA MarkFacts ==
    ASSUME NEW v, NEW a \in Addresses, NEW zero \in BOOLEAN
    PROVE  /\ ~Unallocated(v, a, TRUE) <=> IsMarked(v, a)
           /\ ~Unallocated(v, a, zero) => IsMarked(v, a)
  BY DEF Unallocated, IsMarked

\* A table of level 2 more, and nothing is marked by it.
LEMMA AddL2Step ==
    ASSUME NEW v, Tree(v), NEW a \in Addresses, TableL2(v, a) = NULL, v.free # {}
    PROVE  \E w \in Machines :
              /\ w = AddL2(v, a) /\ Tree(w)
              /\ w.free = v.free \ {Granted(v)} /\ w.fault = v.fault
              /\ TableL2(w, a) # NULL
              /\ \A b \in Addresses :
                    /\ TableL1(w, b) = TableL1(v, b) /\ PageKept(v, w, b)
                    /\ IsMarked(w, b) <=> IsMarked(v, b)
                    /\ Lazy(w, b) <=> Lazy(v, b)
  <1>1. v \in Machines /\ Accounted(v)
    BY DEF Tree
  <1>2. PICK g \in v.free : g = Granted(v) /\ g \in Frames /\ g # NULL
    BY <1>1, GrantedFacts
  <1>3. PICK u \in Machines :
           /\ u = TakenZeroed(v) /\ u.p3 = v.p3 /\ u.free = v.free \ {g} /\ u.fault = v.fault
           /\ u.rows[g] = ZeroTable /\ \A x \in Frames : x # g => u.rows[x] = v.rows[x]
    BY <1>1, <1>2, GrantedFacts
  <1>4. PICK reg \in Regions, i \in Index : reg = a.reg /\ i = l3(a)
    BY AddressFacts, Digits
  <1>5. PICK w \in Machines :
           /\ w = [u EXCEPT !.p3[reg][i].base = g]
           /\ w.rows = u.rows /\ w.free = u.free /\ w.fault = u.fault
           /\ \A r \in Regions, j \in Index :
                 w.p3[r][j].base = IF r = reg /\ j = i THEN g ELSE u.p3[r][j].base
    BY <1>2, SetL3
  <1>6. w = AddL2(v, a)
    BY <1>2, <1>3, <1>4, <1>5 DEF AddL2
  <1>7. w.free = v.free \ {g} /\ w.rows[g] = ZeroTable /\ \A x \in Frames \ {g} : w.rows[x] = v.rows[x]
    BY <1>3, <1>5
  <1>8. \A r \in Regions, j \in Index :
           w.p3[r][j].base = IF r = a.reg /\ j = l3(a) THEN g ELSE v.p3[r][j].base
    BY <1>3, <1>4, <1>5
  <1>9. /\ Tree(w)
        /\ \A b \in Addresses :
              /\ TableL2(w, b) = IF SameL2(a, b) THEN g ELSE TableL2(v, b)
              /\ TableL1(w, b) = TableL1(v, b)
              /\ FrameOf(w, b) = FrameOf(v, b)
              /\ TableL2(v, b) # NULL => EntryL2(w, b) = EntryL2(v, b)
              /\ TableL1(v, b) # NULL => EntryL1(w, b) = EntryL1(v, b)
              /\ SameL2(a, b) => EntryL2(w, b) = Clear
    BY <1>7, <1>8, AddL2Tree
  <1>10. ASSUME NEW b \in Addresses
         PROVE  /\ TableL1(w, b) = TableL1(v, b) /\ PageKept(v, w, b)
                /\ IsMarked(w, b) <=> IsMarked(v, b)
                /\ Lazy(w, b) <=> Lazy(v, b)
    <2>1. SameL2(a, b) => TableL2(v, b) = NULL
      BY DEF SameL2, TableL2
    <2>2. TableL2(v, b) = NULL => TableL1(v, b) = NULL
      BY <1>1, EntryFacts
    <2>3. (IsMarked(w, b) <=> IsMarked(v, b)) /\ (Lazy(w, b) <=> Lazy(v, b))
      BY <2>1, <2>2, <1>2, <1>9 DEF IsMarked, Lazy, Clear
    <2>4. FrameOf(v, b) # g /\ FrameOf(v, b) \in Frames \cup {NULL}
      BY <1>1, EntryFacts, FreeFacts
    <2>5. PageKept(v, w, b)
      BY <2>4, <1>7, <1>9 DEF PageKept
    <2> QED BY <2>3, <2>5, <1>9
  <1>11. TableL2(w, a) # NULL
    BY <1>2, <1>9 DEF SameL2
  <1> QED BY <1>2, <1>3, <1>5, <1>6, <1>9, <1>10, <1>11

\* A table of level 1 more, of entries R: where none was marked before, R marks.
LEMMA AddL1Step ==
    ASSUME NEW v, Tree(v), NEW w \in Machines, NEW a \in Addresses,
           TableL2(v, a) # NULL, TableL1(v, a) = NULL,
           NEW g \in v.free, w.free = v.free \ {g}, NEW R \in Tables, \A i \in Index : R[i].base = NULL,
           NEW e \in Entries, e.base = g, e.avl, w.p3 = v.p3, w.rows[g] = R,
           w.rows[TableL2(v, a)] = [v.rows[TableL2(v, a)] EXCEPT ![l2(a)] = e],
           \A x \in Frames \ {g} : x # TableL2(v, a) => w.rows[x] = v.rows[x]
    PROVE  /\ Tree(w)
           /\ TableL1(w, a) = g /\ g \in Frames /\ g # NULL
           /\ \A b \in Addresses :
                 /\ PageKept(v, w, b)
                 /\ IsMarked(w, b) <=> IF SameL1(a, b) THEN R[l1(b)].avl ELSE IsMarked(v, b)
                 /\ Lazy(w, b) <=> Lazy(v, b) /\ ~SameL1(a, b)
                 /\ SameL1(a, b) => EntryL1(w, b) = R[l1(b)]
  <1>1. v \in Machines /\ Accounted(v)
    BY DEF Tree
  <1>2. g \in Frames /\ g # NULL
    BY <1>1, FreeFacts
  <1>3. /\ Tree(w)
        /\ \A b \in Addresses :
              /\ TableL2(w, b) = TableL2(v, b)
              /\ TableL1(w, b) = IF SameL1(a, b) THEN g ELSE TableL1(v, b)
              /\ FrameOf(w, b) = FrameOf(v, b)
              /\ TableL2(v, b) # NULL => EntryL2(w, b) = IF SameL1(a, b) THEN e ELSE EntryL2(v, b)
              /\ TableL1(v, b) # NULL => EntryL1(w, b) = EntryL1(v, b)
              /\ SameL1(a, b) => EntryL1(w, b) = R[l1(b)]
    BY AddL1Tree
  <1>4. ASSUME NEW b \in Addresses
        PROVE  /\ PageKept(v, w, b)
               /\ IsMarked(w, b) <=> IF SameL1(a, b) THEN R[l1(b)].avl ELSE IsMarked(v, b)
               /\ Lazy(w, b) <=> Lazy(v, b) /\ ~SameL1(a, b)
    <2>1. SameL1(a, b) => TableL2(v, b) # NULL /\ TableL1(v, b) = NULL
      BY DEF SameL1, SameL2, TableL1, EntryL2, TableL2
    <2>2. IsMarked(w, b) <=> IF SameL1(a, b) THEN R[l1(b)].avl ELSE IsMarked(v, b)
      <3>1. CASE SameL1(a, b)
        BY <3>1, <2>1, <1>2, <1>3 DEF IsMarked
      <3>2. CASE ~SameL1(a, b)
        BY <3>2, <1>1, <1>3, EntryFacts DEF IsMarked
      <3> QED BY <3>1, <3>2
    <2>3. Lazy(w, b) <=> Lazy(v, b) /\ ~SameL1(a, b)
      BY <2>1, <1>2, <1>3 DEF Lazy
    <2>4. FrameOf(v, b) # g /\ FrameOf(v, b) \in Frames \cup {NULL} /\ FrameOf(v, b) # TableL2(v, a)
      BY <1>1, EntryFacts, FreeFacts, ApartFacts
    <2>5. PageKept(v, w, b)
      BY <2>4, <1>3 DEF PageKept
    <2> QED BY <2>2, <2>3, <2>5
  <1>5. TableL1(w, a) = g
    BY <1>3 DEF SameL1, SameL2
  <1> QED BY <1>2, <1>3, <1>4, <1>5

LEMMA AddL1Fields ==
    ASSUME NEW v, Tree(v), NEW a \in Addresses, TableL2(v, a) # NULL, v.free # {}
    PROVE  \E w \in Machines, e \in Entries :
              /\ w = AddL1(v, a) /\ w.p3 = v.p3 /\ w.free = v.free \ {Granted(v)} /\ w.fault = v.fault
              /\ e.base = Granted(v) /\ e.avl
              /\ w.rows[Granted(v)] = ZeroTable
              /\ w.rows[TableL2(v, a)] = [v.rows[TableL2(v, a)] EXCEPT ![l2(a)] = e]
              /\ \A x \in Frames \ {Granted(v)} : x # TableL2(v, a) => w.rows[x] = v.rows[x]
  <1>1. v \in Machines /\ Accounted(v)
    BY DEF Tree
  <1>2. PICK g \in Frames : g = Granted(v) /\ g \in v.free /\ g # NULL
    BY <1>1, GrantedFacts
  <1>3. PICK u \in Machines :
           /\ u = TakenZeroed(v) /\ u.p3 = v.p3 /\ u.free = v.free \ {g} /\ u.fault = v.fault
           /\ u.rows[g] = ZeroTable /\ \A x \in Frames : x # g => u.rows[x] = v.rows[x]
    BY <1>1, <1>2, GrantedFacts
  <1>4. PICK e \in Entries : e = [base |-> g, avl |-> TRUE]
    BY <1>2 DEF Entries
  <1>5. PICK t \in Frames, i \in Index : t = TableL2(v, a) /\ i = l2(a) /\ t # g
    BY <1>1, <1>2, EntryFacts, FreeFacts, Digits
  <1>6. PICK w \in Machines :
           /\ w = [u EXCEPT !.rows[t][i] = e]
           /\ w.p3 = u.p3 /\ w.free = u.free /\ w.fault = u.fault
           /\ w.rows[t] = [u.rows[t] EXCEPT ![i] = e]
           /\ \A x \in Frames : x # t => w.rows[x] = u.rows[x]
    BY SetEntry
  <1>7. TableL2(u, a) = t
    BY <1>3, <1>5 DEF TableL2
  <1>8. w = AddL1(v, a)
    BY <1>2, <1>3, <1>4, <1>5, <1>6, <1>7 DEF AddL1, SetL2
  <1>9. e.base = g /\ e.avl
    BY <1>4
  <1>10. /\ w.rows[g] = ZeroTable /\ w.rows[t] = [v.rows[t] EXCEPT ![i] = e]
         /\ \A x \in Frames \ {g} : x # t => w.rows[x] = v.rows[x]
    BY <1>3, <1>5, <1>6
  <1>11. w.p3 = v.p3 /\ w.free = v.free \ {g} /\ w.fault = v.fault
    BY <1>3, <1>6
  <1> QED BY <1>2, <1>5, <1>8, <1>9, <1>10, <1>11

\* An entry of level 2 that leads nowhere, as it is marked or cleared.
LEMMA SetL2Step ==
    ASSUME NEW v, Tree(v), NEW a \in Addresses, TableL2(v, a) # NULL, TableL1(v, a) = NULL,
           NEW e \in Entries, e.base = NULL
    PROVE  \E w \in Machines :
              /\ w = SetL2(v, a, e) /\ Tree(w) /\ w.fault = v.fault /\ w.free = v.free
              /\ \A b \in Addresses :
                    /\ PageKept(v, w, b) /\ TableL1(w, b) = TableL1(v, b)
                    /\ IsMarked(w, b) <=> IF SameL1(a, b) THEN e.avl ELSE IsMarked(v, b)
                    /\ Lazy(w, b) <=> IF SameL1(a, b) THEN e.avl ELSE Lazy(v, b)
  <1>1. v \in Machines /\ Accounted(v)
    BY DEF Tree
  <1>2. PICK t \in Frames, i \in Index : t = TableL2(v, a) /\ i = l2(a)
    BY <1>1, EntryFacts, Digits
  <1>3. PICK w \in Machines :
           /\ w = [v EXCEPT !.rows[t][i] = e]
           /\ w.p3 = v.p3 /\ w.free = v.free /\ w.fault = v.fault
           /\ w.rows[t] = [v.rows[t] EXCEPT ![i] = e]
           /\ \A x \in Frames : x # t => w.rows[x] = v.rows[x]
    BY <1>1, SetEntry
  <1>4. w = SetL2(v, a, e)
    BY <1>2, <1>3 DEF SetL2
  <1>5. /\ w.p3 = v.p3 /\ w.free = v.free
        /\ w.rows[TableL2(v, a)] = [v.rows[TableL2(v, a)] EXCEPT ![l2(a)] = e]
        /\ \A x \in Frames : x # TableL2(v, a) => w.rows[x] = v.rows[x]
    BY <1>2, <1>3
  <1>6. /\ Tree(w)
        /\ \A b \in Addresses :
              /\ TableL2(w, b) = TableL2(v, b) /\ TableL1(w, b) = TableL1(v, b)
              /\ FrameOf(w, b) = FrameOf(v, b)
              /\ TableL2(v, b) # NULL => EntryL2(w, b) = IF SameL1(a, b) THEN e ELSE EntryL2(v, b)
              /\ TableL1(v, b) # NULL => EntryL1(w, b) = EntryL1(v, b)
    BY <1>5, MarkL2Tree
  <1>7. ASSUME NEW b \in Addresses
        PROVE  /\ PageKept(v, w, b)
               /\ IsMarked(w, b) <=> IF SameL1(a, b) THEN e.avl ELSE IsMarked(v, b)
               /\ Lazy(w, b) <=> IF SameL1(a, b) THEN e.avl ELSE Lazy(v, b)
    <2>1. SameL1(a, b) => TableL2(v, b) # NULL /\ TableL1(v, b) = NULL
      BY DEF SameL1, SameL2, TableL1, EntryL2, TableL2
    <2>2. /\ IsMarked(w, b) <=> IF SameL1(a, b) THEN e.avl ELSE IsMarked(v, b)
          /\ Lazy(w, b) <=> IF SameL1(a, b) THEN e.avl ELSE Lazy(v, b)
      <3>1. CASE SameL1(a, b)
        BY <3>1, <2>1, <1>6 DEF IsMarked, Lazy
      <3>2. CASE ~SameL1(a, b)
        BY <3>2, <1>1, <1>6, EntryFacts DEF IsMarked, Lazy
      <3> QED BY <3>1, <3>2
    <2>3. FrameOf(v, b) \in Frames \cup {NULL} /\ FrameOf(v, b) # TableL2(v, a)
      BY <1>1, EntryFacts, ApartFacts
    <2>4. PageKept(v, w, b)
      BY <2>3, <1>5, <1>6 DEF PageKept
    <2> QED BY <2>2, <2>4
  <1> QED BY <1>3, <1>4, <1>6, <1>7

\* Of the pages and the marks, only the mark and the frame of page a changed.
OnlyPage(v, w, a, frame, mark) ==
    \A b \in Addresses :
        /\ b # a => PageKept(v, w, b)
        /\ FrameOf(w, a) = frame
        /\ FrameOf(v, b) # NULL => w.rows[FrameOf(v, b)] = v.rows[FrameOf(v, b)]
        /\ IsMarked(w, b) <=> IF b = a THEN mark ELSE IsMarked(v, b)
        /\ Lazy(w, b) <=> Lazy(v, b)

\* An entry of level 1, as it is marked, filled or cleared: u is v but for the
\* frames that are free.
LEMMA SetL1Step ==
    ASSUME NEW v, Tree(v), NEW a \in Addresses, TableL1(v, a) # NULL,
           NEW u \in Machines, u.p3 = v.p3, u.rows = v.rows, u.fault = v.fault,
           NEW e \in Entries, e.base # NULL => e.avl,
           \/ e.base = FrameOf(v, a) /\ u.free = v.free
           \/ e.base \in v.free /\ u.free = v.free \ {e.base} /\ FrameOf(v, a) = NULL
           \/ e.base = NULL /\ u.free = v.free \cup ({FrameOf(v, a)} \ {NULL})
    PROVE  \E w \in Machines :
              /\ w = SetL1(u, a, e) /\ Tree(w) /\ w.fault = v.fault /\ w.free = u.free
              /\ OnlyPage(v, w, a, e.base, e.avl)
  <1>1. v \in Machines /\ Accounted(v) /\ MarkedWhereUsed(v)
    BY DEF Tree
  <1>2. PICK t \in Frames, i \in Index : t = TableL1(v, a) /\ i = l1(a)
    BY <1>1, EntryFacts, Digits
  <1>3. PICK w \in Machines :
           /\ w = [u EXCEPT !.rows[t][i] = e]
           /\ w.p3 = u.p3 /\ w.free = u.free /\ w.fault = u.fault
           /\ w.rows[t] = [u.rows[t] EXCEPT ![i] = e]
           /\ \A x \in Frames : x # t => w.rows[x] = u.rows[x]
    BY SetEntry
  <1>4. w = SetL1(u, a, e)
    <2>1. TableL1(u, a) = TableL1(v, a)
      BY DEF TableL1, EntryL2, TableL2
    <2> QED BY <2>1, <1>2, <1>3 DEF SetL1
  <1>5. /\ w.p3 = v.p3
        /\ w.rows[TableL1(v, a)] = [v.rows[TableL1(v, a)] EXCEPT ![l1(a)] = e]
        /\ \A x \in Frames : x # TableL1(v, a) => w.rows[x] = v.rows[x]
    BY <1>2, <1>3
  <1>6. \/ e.base = FrameOf(v, a) /\ w.free = v.free
        \/ e.base \in v.free /\ w.free = v.free \ {e.base} /\ FrameOf(v, a) = NULL
        \/ e.base = NULL /\ w.free = v.free \cup ({FrameOf(v, a)} \ {NULL})
    BY <1>3
  <1>7. Tree(w)
    BY <1>5, <1>6, PutL1Tree
  <1>8. ASSUME NEW b \in Addresses
        PROVE  /\ b # a => PageKept(v, w, b)
               /\ FrameOf(w, a) = e.base
               /\ FrameOf(v, b) # NULL => w.rows[FrameOf(v, b)] = v.rows[FrameOf(v, b)]
               /\ IsMarked(w, b) <=> IF b = a THEN e.avl ELSE IsMarked(v, b)
               /\ Lazy(w, b) <=> Lazy(v, b)
    <2>1. /\ TableL2(w, b) = TableL2(v, b) /\ TableL1(w, b) = TableL1(v, b)
          /\ TableL2(v, b) # NULL => EntryL2(w, b) = EntryL2(v, b)
          /\ TableL1(v, b) # NULL => EntryL1(w, b) = IF b = a THEN e ELSE EntryL1(v, b)
          /\ FrameOf(w, b) = IF b = a THEN e.base ELSE FrameOf(v, b)
      BY <1>5, PutL1
    <2>2. IsMarked(w, b) <=> IF b = a THEN e.avl ELSE IsMarked(v, b)
      BY <2>1, <1>1, EntryFacts DEF IsMarked, MarkedWhereUsed
    <2>3. Lazy(w, b) <=> Lazy(v, b)
      BY <2>1 DEF Lazy
    <2>4. FrameOf(v, b) \in Frames \cup {NULL} /\ FrameOf(v, b) # TableL1(v, a)
      BY <1>1, EntryFacts, ApartFacts
    <2>5. FrameOf(v, b) # NULL => w.rows[FrameOf(v, b)] = v.rows[FrameOf(v, b)]
      BY <2>4, <1>5
    <2>6. FrameOf(w, a) = e.base
      BY <1>5, PutL1
    <2>7. b # a => PageKept(v, w, b)
      BY <2>1, <2>5 DEF PageKept
    <2> QED BY <2>2, <2>3, <2>5, <2>6, <2>7
  <1>9. w.free = u.free /\ w.fault = v.fault
    BY <1>3
  <1>10. OnlyPage(v, w, a, e.base, e.avl)
    BY <1>8 DEF OnlyPage
  <1> QED BY <1>4, <1>7, <1>9, <1>10

LEMMA MarkL1Step ==
    ASSUME NEW v, Tree(v), NEW a \in Addresses, TableL1(v, a) # NULL
    PROVE  \E w \in Machines :
              /\ w = MarkL1(v, a) /\ Tree(w) /\ w.fault = v.fault /\ w.free = v.free
              /\ \A b \in Addresses :
                    /\ PageKept(v, w, b)
                    /\ IsMarked(w, b) <=> b = a \/ IsMarked(v, b)
                    /\ Lazy(w, b) <=> Lazy(v, b)
  <1>1. v \in Machines
    BY DEF Tree
  <1>2. PICK e \in Entries : e = [EntryL1(v, a) EXCEPT !.avl = TRUE] /\ e.base = FrameOf(v, a) /\ e.avl
    <2>1. PICK q \in Entries : q = EntryL1(v, a) /\ q.base = FrameOf(v, a)
      BY <1>1, EntryFacts
    <2>2. PICK e : e = [q EXCEPT !.avl = TRUE]
      OBVIOUS
    <2>3. e \in Entries /\ e.base = q.base /\ e.avl
      BY <2>2 DEF Entries
    <2> QED BY <2>1, <2>2, <2>3
  <1>3. PICK u \in Machines : u = v
    BY <1>1
  <1>4. /\ u.p3 = v.p3 /\ u.rows = v.rows /\ u.fault = v.fault /\ u.free = v.free
        /\ e.base = FrameOf(v, a) /\ (e.base # NULL => e.avl)
    BY <1>2, <1>3
  <1>5. PICK w \in Machines :
           /\ w = SetL1(u, a, e) /\ Tree(w) /\ w.fault = v.fault /\ w.free = u.free
           /\ OnlyPage(v, w, a, e.base, e.avl)
    BY <1>4, SetL1Step
  <1>6. w = MarkL1(v, a)
    BY <1>2, <1>3, <1>5 DEF MarkL1
  <1>7. PageKept(v, w, a)
    BY <1>2, <1>5 DEF PageKept, OnlyPage
  <1>8. \A b \in Addresses :
           /\ PageKept(v, w, b)
           /\ IsMarked(w, b) <=> b = a \/ IsMarked(v, b)
           /\ Lazy(w, b) <=> Lazy(v, b)
    BY <1>2, <1>3, <1>5, <1>7 DEF OnlyPage
  <1> QED BY <1>3, <1>5, <1>6, <1>8

PagesKept(v, w) == \A b \in Addresses : PageKept(v, w, b)

MarksKept(v, w) ==
    \A b \in Addresses : (IsMarked(w, b) <=> IsMarked(v, b)) /\ (Lazy(w, b) <=> Lazy(v, b))

\* Page a was marked, with the whole table of level 1 it would go through or not.
MarksAdded(v, w, a, whole) ==
    \A b \in Addresses :
        /\ IsMarked(w, b) <=> (b = a \/ (whole /\ SameL1(a, b)) \/ IsMarked(v, b))
        /\ Lazy(w, b) <=> ((whole /\ SameL1(a, b)) \/ Lazy(v, b))

\* Stopping the machine leaves its memory alone.
LEMMA FatalStep ==
    ASSUME NEW v, Tree(v), NEW why \in {"none", "frame 0", "unallocated"}
    PROVE  \E w \in Machines :
              /\ w = Fatal(v, why) /\ w.fault = why /\ w.free = v.free
              /\ Tree(w) /\ PagesKept(v, w) /\ MarksKept(v, w)
  <1>1. v \in Machines
    BY DEF Tree
  <1>2. PICK w : w = [v EXCEPT !.fault = why]
    OBVIOUS
  <1>3. w \in Machines /\ w.p3 = v.p3 /\ w.free = v.free /\ w.fault = why /\ w.rows = v.rows
    BY <1>1, <1>2 DEF Machines
  <1>4. \A b \in Addresses : KeptAt(v, w, b)
    BY <1>3 DEF KeptAt, TableL2, EntryL2, TableL1, EntryL1, FrameOf, RowL2, RowL1
  <1>5. Tree(w)
    BY <1>3, <1>4, KeptTree
  <1>6. PagesKept(v, w)
    BY <1>3, <1>4 DEF KeptAt, PagesKept, PageKept
  <1>7. MarksKept(v, w)
    BY <1>4 DEF KeptAt, MarksKept, IsMarked, Lazy
  <1> QED BY <1>2, <1>3, <1>5, <1>6, <1>7 DEF Fatal

\* A turn of the loop that marks, once there is a table of level 2.
LEMMA AllocChunk ==
    ASSUME NEW v, Tree(v), NEW a \in Addresses, TableL2(v, a) # NULL, ~Lazy(v, a), v.fault = "none", NEW left
    PROVE  \E w \in Machines :
              /\ w = alloc_chunk(v, a, left) /\ Tree(w) /\ PagesKept(v, w)
              /\ \/ w.fault = "none" /\ MarksAdded(v, w, a, Spans(v, a, left))
                 \/ w.fault = "frame 0" /\ v.free = {} /\ MarksKept(v, w)
  <1>1. v \in Machines /\ Accounted(v)
    BY DEF Tree
  <1>2. \A b \in Addresses : SameL1(a, b) => (Lazy(v, b) <=> Lazy(v, a)) /\ (TableL1(v, b) = TableL1(v, a))
    BY DEF SameL1, SameL2, TableL1, EntryL2, TableL2, Lazy
  <1>3. CASE Spans(v, a, left)
    <2>1. TableL1(v, a) = NULL
      BY <1>3 DEF Spans
    <2>2. PICK q \in Entries : q = EntryL2(v, a) /\ q.base = NULL
      BY <2>1, <1>1, EntryFacts
    <2>3. PICK e : e = [q EXCEPT !.avl = TRUE]
      OBVIOUS
    <2>4. e \in Entries /\ e.base = NULL /\ e.avl
      BY <2>2, <2>3 DEF Entries
    <2>5. PICK w \in Machines :
             /\ w = SetL2(v, a, e) /\ Tree(w) /\ w.fault = v.fault /\ w.free = v.free
             /\ \A b \in Addresses :
                   /\ PageKept(v, w, b) /\ TableL1(w, b) = TableL1(v, b)
                   /\ IsMarked(w, b) <=> IF SameL1(a, b) THEN e.avl ELSE IsMarked(v, b)
                   /\ Lazy(w, b) <=> IF SameL1(a, b) THEN e.avl ELSE Lazy(v, b)
      BY <2>1, <2>4, SetL2Step
    <2>6. w = alloc_chunk(v, a, left)
      BY <1>3, <2>2, <2>3, <2>5 DEF alloc_chunk
    <2>7. PagesKept(v, w)
      BY <2>5 DEF PagesKept
    <2>8. SameL1(a, a)
      BY DEF SameL1, SameL2
    <2>9. MarksAdded(v, w, a, Spans(v, a, left))
      BY <1>3, <2>4, <2>5, <2>8 DEF MarksAdded
    <2> QED BY <2>5, <2>6, <2>7, <2>9
  <1>4. CASE ~Spans(v, a, left) /\ TableL1(v, a) # NULL
    <2>1. PICK w \in Machines :
             /\ w = MarkL1(v, a) /\ Tree(w) /\ w.fault = v.fault /\ w.free = v.free
             /\ \A b \in Addresses :
                   /\ PageKept(v, w, b)
                   /\ IsMarked(w, b) <=> b = a \/ IsMarked(v, b)
                   /\ Lazy(w, b) <=> Lazy(v, b)
      BY <1>4, MarkL1Step
    <2>2. w = alloc_chunk(v, a, left)
      BY <1>4, <2>1 DEF alloc_chunk
    <2>3. PagesKept(v, w) /\ MarksAdded(v, w, a, Spans(v, a, left))
      BY <1>4, <2>1 DEF PagesKept, MarksAdded
    <2> QED BY <2>1, <2>2, <2>3
  <1>5. CASE ~Spans(v, a, left) /\ TableL1(v, a) = NULL /\ v.free = {}
    <2>1. PICK w \in Machines :
             /\ w = Fatal(v, "frame 0") /\ w.fault = "frame 0" /\ w.free = v.free
             /\ Tree(w) /\ PagesKept(v, w) /\ MarksKept(v, w)
      BY FatalStep
    <2>2. w = alloc_chunk(v, a, left)
      BY <1>5, <2>1 DEF alloc_chunk
    <2> QED BY <1>5, <2>1, <2>2
  <1>6. CASE ~Spans(v, a, left) /\ TableL1(v, a) = NULL /\ v.free # {}
    <2>1. PICK u \in Machines, e \in Entries :
             /\ u = AddL1(v, a) /\ u.p3 = v.p3 /\ u.free = v.free \ {Granted(v)} /\ u.fault = v.fault
             /\ e.base = Granted(v) /\ e.avl
             /\ u.rows[Granted(v)] = ZeroTable
             /\ u.rows[TableL2(v, a)] = [v.rows[TableL2(v, a)] EXCEPT ![l2(a)] = e]
             /\ \A x \in Frames \ {Granted(v)} : x # TableL2(v, a) => u.rows[x] = v.rows[x]
      BY <1>6, AddL1Fields
    <2>2. PICK g \in v.free, R \in Tables : g = Granted(v) /\ R = ZeroTable
      BY <1>1, <1>6, GrantedFacts, EntriesFacts
    <2>3. \A i \in Index : R[i].base = NULL /\ R[i].avl = FALSE
      BY <2>2 DEF ZeroTable, Clear
    <2>4. /\ Tree(u)
          /\ TableL1(u, a) = g /\ g \in Frames /\ g # NULL
          /\ \A b \in Addresses :
                /\ PageKept(v, u, b)
                /\ IsMarked(u, b) <=> IF SameL1(a, b) THEN R[l1(b)].avl ELSE IsMarked(v, b)
                /\ Lazy(u, b) <=> Lazy(v, b) /\ ~SameL1(a, b)
                /\ SameL1(a, b) => EntryL1(u, b) = R[l1(b)]
      BY <1>6, <2>1, <2>2, <2>3, AddL1Step
    <2>5. PICK w \in Machines :
             /\ w = MarkL1(u, a) /\ Tree(w) /\ w.fault = u.fault /\ w.free = u.free
             /\ \A b \in Addresses :
                   /\ PageKept(u, w, b)
                   /\ IsMarked(w, b) <=> b = a \/ IsMarked(u, b)
                   /\ Lazy(w, b) <=> Lazy(u, b)
      BY <2>4, MarkL1Step
    <2>6. w = alloc_chunk(v, a, left)
      BY <1>6, <2>1, <2>5 DEF alloc_chunk
    <2>7. PagesKept(v, w)
      BY <2>4, <2>5 DEF PagesKept, PageKept
    <2>8. ASSUME NEW b \in Addresses
          PROVE  (IsMarked(u, b) <=> IsMarked(v, b)) /\ (Lazy(u, b) <=> Lazy(v, b))
      <3>1. l1(b) \in Index
        BY Digits
      <3>2. CASE SameL1(a, b)
        <4>1. ~Lazy(v, b) /\ TableL1(v, b) = NULL
          BY <3>2, <1>2, <1>6
        <4>2. ~IsMarked(v, b)
          BY <4>1 DEF Lazy, IsMarked
        <4> QED BY <4>1, <4>2, <3>1, <3>2, <2>3, <2>4
      <3>3. CASE ~SameL1(a, b)
        BY <3>3, <2>4
      <3> QED BY <3>2, <3>3
    <2>9. MarksAdded(v, w, a, Spans(v, a, left))
      BY <1>6, <2>5, <2>8 DEF MarksAdded
    <2> QED BY <2>1, <2>5, <2>6, <2>7, <2>9
  <1> QED BY <1>3, <1>4, <1>5, <1>6

\* A turn of the loop that marks.
LEMMA AllocTurn ==
    ASSUME NEW v, Tree(v), NEW a \in Addresses, ~Lazy(v, a), v.fault = "none", NEW left
    PROVE  \E w \in Machines :
              /\ w = alloc_turn(v, a, left) /\ Tree(w) /\ PagesKept(v, w)
              /\ \/ w.fault = "none" /\ MarksAdded(v, w, a, Spans(v, a, left))
                 \/ w.fault = "frame 0" /\ v.free \subseteq {Granted(v)} /\ MarksKept(v, w)
  <1>1. CASE TableL2(v, a) # NULL
    <2>1. PICK w \in Machines :
             /\ w = alloc_chunk(v, a, left) /\ Tree(w) /\ PagesKept(v, w)
             /\ \/ w.fault = "none" /\ MarksAdded(v, w, a, Spans(v, a, left))
                \/ w.fault = "frame 0" /\ v.free = {} /\ MarksKept(v, w)
      BY <1>1, AllocChunk
    <2>2. w = alloc_turn(v, a, left)
      BY <1>1, <2>1 DEF alloc_turn
    <2> QED BY <2>1, <2>2
  <1>2. CASE TableL2(v, a) = NULL /\ v.free = {}
    <2>1. PICK w \in Machines :
             /\ w = Fatal(v, "frame 0") /\ w.fault = "frame 0" /\ w.free = v.free
             /\ Tree(w) /\ PagesKept(v, w) /\ MarksKept(v, w)
      BY FatalStep
    <2>2. w = alloc_turn(v, a, left)
      BY <1>2, <2>1 DEF alloc_turn
    <2> QED BY <1>2, <2>1, <2>2
  <1>3. CASE TableL2(v, a) = NULL /\ v.free # {}
    <2>1. PICK u \in Machines :
             /\ u = AddL2(v, a) /\ Tree(u)
             /\ u.free = v.free \ {Granted(v)} /\ u.fault = v.fault
             /\ TableL2(u, a) # NULL
             /\ \A b \in Addresses :
                   /\ TableL1(u, b) = TableL1(v, b) /\ PageKept(v, u, b)
                   /\ IsMarked(u, b) <=> IsMarked(v, b)
                   /\ Lazy(u, b) <=> Lazy(v, b)
      BY <1>3, AddL2Step
    <2>2. ~Lazy(u, a) /\ u.fault = "none"
      BY <2>1
    <2>3. PICK w \in Machines :
             /\ w = alloc_chunk(u, a, left) /\ Tree(w) /\ PagesKept(u, w)
             /\ \/ w.fault = "none" /\ MarksAdded(u, w, a, Spans(u, a, left))
                \/ w.fault = "frame 0" /\ u.free = {} /\ MarksKept(u, w)
      BY <2>1, <2>2, AllocChunk
    <2>4. w = alloc_turn(v, a, left)
      BY <1>3, <2>1, <2>3 DEF alloc_turn
    <2>5. PagesKept(v, w)
      BY <2>1, <2>3 DEF PagesKept, PageKept
    <2>6. Spans(u, a, left) <=> Spans(v, a, left)
      BY <2>1 DEF Spans
    <2>7. MarksAdded(u, w, a, Spans(u, a, left)) => MarksAdded(v, w, a, Spans(v, a, left))
      BY <2>1, <2>6 DEF MarksAdded
    <2>8. MarksKept(u, w) => MarksKept(v, w)
      BY <2>1 DEF MarksKept
    <2>9. u.free = {} => v.free \subseteq {Granted(v)}
      BY <2>1
    <2> QED BY <2>3, <2>4, <2>5, <2>7, <2>8, <2>9
  <1> QED BY <1>1, <1>2, <1>3

\* A turn of the loop that gives back: the marks go of page a, or of all that
\* its table of level 1 would have mapped.
LEMMA FreeTurn ==
    ASSUME NEW v, Tree(v), NEW a \in Addresses
    PROVE  \E w \in Machines :
              /\ w = free_turn(v, a) /\ Tree(w) /\ w.fault = v.fault
              /\ \A b \in Addresses :
                    /\ b # a => PageKept(v, w, b)
                    /\ FrameOf(w, a) = NULL
                    /\ FrameOf(v, b) # NULL => w.rows[FrameOf(v, b)] = v.rows[FrameOf(v, b)]
                    /\ IsMarked(w, b) <=> (IsMarked(v, b) /\ b # a /\ ~(Lazy(v, a) /\ SameL1(a, b)))
                    /\ Lazy(w, b) <=> (Lazy(v, b) /\ ~(Lazy(v, a) /\ SameL1(a, b)))
  <1>1. v \in Machines
    BY DEF Tree
  <1>2. CASE TableL1(v, a) # NULL
    <2>1. PICK S \in SUBSET Frames : S = v.free \cup ({FrameOf(v, a)} \ {NULL})
      BY <1>1, EntryFacts
    <2>2. PICK u \in Machines :
             /\ u = [v EXCEPT !.free = S]
             /\ u.p3 = v.p3 /\ u.free = S /\ u.fault = v.fault /\ u.rows = v.rows
      BY <1>1, SetFree
    <2>3. PICK e \in Entries : e = Clear
      BY EntriesFacts
    <2>4. e.base = NULL /\ ~e.avl
      BY <2>3 DEF Clear
    <2>5. u.p3 = v.p3 /\ u.rows = v.rows /\ u.fault = v.fault
          /\ e.base = NULL /\ u.free = v.free \cup ({FrameOf(v, a)} \ {NULL})
          /\ (e.base # NULL => e.avl)
      BY <2>1, <2>2, <2>4
    <2>6. PICK w \in Machines :
             /\ w = SetL1(u, a, e) /\ Tree(w) /\ w.fault = v.fault /\ w.free = u.free
             /\ OnlyPage(v, w, a, e.base, e.avl)
      BY <1>2, <2>5, SetL1Step
    <2>7. w = free_turn(v, a)
      BY <1>2, <2>1, <2>2, <2>3, <2>6 DEF free_turn, free_page
    <2>8. ~Lazy(v, a)
      BY <1>2 DEF Lazy
    <2> QED BY <2>4, <2>6, <2>7, <2>8 DEF OnlyPage
  <1>3. CASE TableL1(v, a) = NULL /\ TableL2(v, a) # NULL
    <2>1. PICK e \in Entries : e = Clear
      BY EntriesFacts
    <2>2. e.base = NULL /\ ~e.avl
      BY <2>1 DEF Clear
    <2>3. PICK w \in Machines :
             /\ w = SetL2(v, a, e) /\ Tree(w) /\ w.fault = v.fault /\ w.free = v.free
             /\ \A b \in Addresses :
                   /\ PageKept(v, w, b) /\ TableL1(w, b) = TableL1(v, b)
                   /\ IsMarked(w, b) <=> IF SameL1(a, b) THEN e.avl ELSE IsMarked(v, b)
                   /\ Lazy(w, b) <=> IF SameL1(a, b) THEN e.avl ELSE Lazy(v, b)
      BY <1>3, <2>2, SetL2Step
    <2>4. w = free_turn(v, a)
      BY <1>3, <2>1, <2>3 DEF free_turn
    <2>5. ASSUME NEW b \in Addresses
          PROVE  /\ IsMarked(w, b) <=> (IsMarked(v, b) /\ b # a /\ ~(Lazy(v, a) /\ SameL1(a, b)))
                 /\ Lazy(w, b) <=> (Lazy(v, b) /\ ~(Lazy(v, a) /\ SameL1(a, b)))
      <3>1. SameL1(a, b) => /\ TableL2(v, b) = TableL2(v, a) /\ TableL1(v, b) = TableL1(v, a)
                            /\ EntryL2(v, b) = EntryL2(v, a)
        BY DEF SameL1, SameL2, TableL1, EntryL2, TableL2
      <3>2. SameL1(a, b) => (IsMarked(v, b) <=> Lazy(v, a)) /\ (Lazy(v, b) <=> Lazy(v, a))
        BY <3>1, <1>3 DEF IsMarked, Lazy
      <3>3. b = a => SameL1(a, b)
        BY DEF SameL1, SameL2
      <3> QED BY <3>2, <3>3, <2>2, <2>3
    <2>6. FrameOf(w, a) = NULL
      BY <1>3, <2>3 DEF FrameOf
    <2>7. \A b \in Addresses : FrameOf(v, b) # NULL => w.rows[FrameOf(v, b)] = v.rows[FrameOf(v, b)]
      BY <2>3 DEF PageKept
    <2> QED BY <2>3, <2>4, <2>5, <2>6, <2>7
  <1>4. CASE TableL2(v, a) = NULL
    <2>1. TableL1(v, a) = NULL /\ FrameOf(v, a) = NULL /\ ~IsMarked(v, a) /\ ~Lazy(v, a)
      BY <1>1, <1>4, EntryFacts DEF IsMarked, Lazy
    <2>2. v = free_turn(v, a)
      BY <1>4, <2>1 DEF free_turn
    <2>3. \A b \in Addresses : PageKept(v, v, b)
      BY DEF PageKept
    <2> QED BY <1>1, <2>1, <2>2, <2>3
  <1> QED BY <1>2, <1>3, <1>4

\* The fault handler changes no page's mark; what waited for a table may get it.
Served(v, w) == \A b \in Addresses : (IsMarked(w, b) <=> IsMarked(v, b)) /\ (Lazy(w, b) => Lazy(v, b))

LEMMA PfTable ==
    ASSUME NEW v, Tree(v), NEW a \in Addresses, IsMarked(v, a), v.fault = "none"
    PROVE  \E w \in Machines :
              /\ w = pf_table(v, a) /\ Tree(w) /\ PagesKept(v, w) /\ Served(v, w)
              /\ \/ w.fault = "none" /\ TableL1(w, a) # NULL /\ v.free \ {Granted(v)} \subseteq w.free
                 \/ w.fault = "frame 0" /\ v.free = {}
  <1>1. v \in Machines
    BY DEF Tree
  <1>2. CASE TableL1(v, a) # NULL
    <2>1. v = pf_table(v, a)
      BY <1>2 DEF pf_table
    <2>2. PagesKept(v, v) /\ Served(v, v)
      BY DEF PagesKept, PageKept, Served
    <2> QED BY <1>1, <1>2, <2>1, <2>2
  <1>3. CASE TableL1(v, a) = NULL /\ v.free = {}
    <2>1. PICK w \in Machines :
             /\ w = Fatal(v, "frame 0") /\ w.fault = "frame 0" /\ w.free = v.free
             /\ Tree(w) /\ PagesKept(v, w) /\ MarksKept(v, w)
      BY FatalStep
    <2>2. w = pf_table(v, a)
      BY <1>3, <2>1 DEF pf_table
    <2> QED BY <1>3, <2>1, <2>2 DEF MarksKept, Served
  <1>4. CASE TableL1(v, a) = NULL /\ v.free # {}
    <2>1. TableL2(v, a) # NULL /\ Lazy(v, a)
      BY <1>4 DEF IsMarked, Lazy
    <2>2. PICK u \in Machines, e \in Entries :
             /\ u = AddL1(v, a) /\ u.p3 = v.p3 /\ u.free = v.free \ {Granted(v)} /\ u.fault = v.fault
             /\ e.base = Granted(v) /\ e.avl
             /\ u.rows[Granted(v)] = ZeroTable
             /\ u.rows[TableL2(v, a)] = [v.rows[TableL2(v, a)] EXCEPT ![l2(a)] = e]
             /\ \A x \in Frames \ {Granted(v)} : x # TableL2(v, a) => u.rows[x] = v.rows[x]
      BY <1>4, <2>1, AddL1Fields
    <2>3. PICK g \in Frames : g = Granted(v) /\ g \in v.free /\ g # NULL /\ g # TableL2(v, a)
      BY <1>1, <1>4, GrantedFacts, FreeFacts DEF Tree
    <2>4. PICK R \in Tables : R = FullTable
      BY EntriesFacts
    <2>5. \A i \in Index : R[i].base = NULL /\ R[i].avl
      BY <2>4 DEF FullTable
    <2>6. PICK w \in Machines :
             /\ w = [u EXCEPT !.rows[g] = R]
             /\ w.p3 = u.p3 /\ w.free = u.free /\ w.fault = u.fault
             /\ w.rows[g] = R /\ \A x \in Frames : x # g => w.rows[x] = u.rows[x]
      BY SetRow
    <2>7. w = pf_table(v, a)
      BY <1>4, <2>2, <2>3, <2>4, <2>6 DEF pf_table
    <2>8. TableL2(v, a) \in Frames
      BY <1>1, <2>1, EntryFacts
    <2>9. /\ w.p3 = v.p3 /\ w.free = v.free \ {g} /\ w.fault = "none" /\ w.rows[g] = R
          /\ w.rows[TableL2(v, a)] = [v.rows[TableL2(v, a)] EXCEPT ![l2(a)] = e]
          /\ \A x \in Frames \ {g} : x # TableL2(v, a) => w.rows[x] = v.rows[x]
      BY <2>2, <2>3, <2>6, <2>8
    <2>10. \A i \in Index : R[i].base = NULL
      BY <2>5
    <2>11. e.base = g /\ e.avl /\ g \in v.free
      BY <2>2, <2>3
    <2>12. /\ Tree(w)
           /\ TableL1(w, a) = g /\ g \in Frames /\ g # NULL
           /\ \A b \in Addresses :
                 /\ PageKept(v, w, b)
                 /\ IsMarked(w, b) <=> IF SameL1(a, b) THEN R[l1(b)].avl ELSE IsMarked(v, b)
                 /\ Lazy(w, b) <=> Lazy(v, b) /\ ~SameL1(a, b)
                 /\ SameL1(a, b) => EntryL1(w, b) = R[l1(b)]
      BY <1>4, <2>1, <2>9, <2>10, <2>11, AddL1Step
    <2>13. ASSUME NEW b \in Addresses PROVE IsMarked(w, b) <=> IsMarked(v, b)
      <3>1. l1(b) \in Index
        BY Digits
      <3>2. SameL1(a, b) => IsMarked(v, b)
        BY <2>1 DEF SameL1, SameL2, TableL1, EntryL2, TableL2, Lazy, IsMarked
      <3> QED BY <3>1, <3>2, <2>5, <2>12
    <2>14. PagesKept(v, w) /\ Served(v, w)
      BY <2>12, <2>13 DEF PagesKept, Served
    <2> QED BY <2>3, <2>7, <2>9, <2>12, <2>14
  <1> QED BY <1>2, <1>3, <1>4

LEMMA PfPage ==
    ASSUME NEW v, Tree(v), NEW a \in Addresses, IsMarked(v, a), TableL1(v, a) # NULL,
           FrameOf(v, a) = NULL, v.fault = "none", v.free # {}
    PROVE  \E w \in Machines :
              /\ w = pf_page(v, a) /\ Tree(w) /\ w.fault = "none"
              /\ OnlyPage(v, w, a, Granted(v), TRUE) /\ FrameOf(w, a) \in Frames
  <1>1. v \in Machines
    BY DEF Tree
  <1>2. PICK g \in Frames : g = Granted(v) /\ g \in v.free /\ g # NULL
    BY <1>1, GrantedFacts
  <1>3. PICK u \in Machines : u = Taken(v) /\ u.p3 = v.p3 /\ u.rows = v.rows
                              /\ u.free = v.free \ {g} /\ u.fault = v.fault
    BY <1>1, <1>2, GrantedFacts
  <1>4. PICK q \in Entries : q = EntryL1(v, a) /\ q.avl
    BY <1>1, EntryFacts DEF IsMarked
  <1>5. PICK e : e = [q EXCEPT !.base = g]
    OBVIOUS
  <1>6. e \in Entries /\ e.base = g /\ e.avl = TRUE
    BY <1>4, <1>5 DEF Entries
  <1>7. u.p3 = v.p3 /\ u.rows = v.rows /\ u.fault = v.fault /\ (e.base # NULL => e.avl)
        /\ e.base \in v.free /\ u.free = v.free \ {e.base} /\ FrameOf(v, a) = NULL
    BY <1>2, <1>3, <1>6
  <1>8. PICK w \in Machines :
           /\ w = SetL1(u, a, e) /\ Tree(w) /\ w.fault = v.fault /\ w.free = u.free
           /\ OnlyPage(v, w, a, e.base, e.avl)
    BY <1>6, <1>7, SetL1Step
  <1>9. w = pf_page(v, a)
    BY <1>2, <1>3, <1>4, <1>5, <1>8 DEF pf_page
  <1>10. OnlyPage(v, w, a, Granted(v), TRUE)
    BY <1>2, <1>6, <1>8
  <1>11. FrameOf(w, a) \in Frames
    BY <1>2, <1>10 DEF OnlyPage
  <1> QED BY <1>8, <1>9, <1>10, <1>11

\* A page fault: at an address that is not marked the machine stops, and it
\* stops where there is no frame left; else the page gets one, and no other
\* page changes.
LEMMA PageFault ==
    ASSUME NEW v, Tree(v), NEW a \in Addresses, FrameOf(v, a) = NULL, v.fault = "none", NEW zero \in BOOLEAN
    PROVE  \E w \in Machines :
              /\ w = pf_irq_handler(v, a, zero) /\ Tree(w) /\ Served(v, w)
              /\ \A b \in Addresses :
                    /\ b # a => PageKept(v, w, b)
                    /\ FrameOf(v, b) # NULL => w.rows[FrameOf(v, b)] = v.rows[FrameOf(v, b)]
              /\ \/ w.fault = "unallocated" /\ Unallocated(v, a, zero) /\ PagesKept(v, w)
                 \/ w.fault = "frame 0" /\ IsMarked(v, a) /\ PagesKept(v, w) /\ v.free \subseteq {Granted(v)}
                 \/ w.fault = "none" /\ IsMarked(v, a) /\ FrameOf(w, a) \in Frames
  <1>1. CASE Unallocated(v, a, zero)
    <2>1. PICK w \in Machines :
             /\ w = Fatal(v, "unallocated") /\ w.fault = "unallocated" /\ w.free = v.free
             /\ Tree(w) /\ PagesKept(v, w) /\ MarksKept(v, w)
      BY FatalStep
    <2>2. w = pf_irq_handler(v, a, zero)
      BY <1>1, <2>1 DEF pf_irq_handler
    <2> QED BY <1>1, <2>1, <2>2 DEF MarksKept, Served, PagesKept, PageKept
  <1>2. CASE ~Unallocated(v, a, zero)
    <2>1. IsMarked(v, a)
      BY <1>2, MarkFacts
    <2>2. PICK u \in Machines :
             /\ u = pf_table(v, a) /\ Tree(u) /\ PagesKept(v, u) /\ Served(v, u)
             /\ \/ u.fault = "none" /\ TableL1(u, a) # NULL /\ v.free \ {Granted(v)} \subseteq u.free
                \/ u.fault = "frame 0" /\ v.free = {}
      BY <2>1, PfTable
    <2>3. pf_irq_handler(v, a, zero) = pf_page(u, a)
      BY <1>2, <2>2 DEF pf_irq_handler
    <2>4. IsMarked(u, a) /\ FrameOf(u, a) = NULL
      BY <2>1, <2>2 DEF Served, PagesKept, PageKept
    <2>5. CASE u.fault = "frame 0"
      <3>1. u = pf_page(u, a)
        BY <2>5 DEF pf_page
      <3>2. v.free \subseteq {Granted(v)}
        BY <2>2, <2>5
      <3> QED BY <3>1, <3>2, <2>1, <2>2, <2>3, <2>5 DEF PagesKept, PageKept
    <2>6. CASE u.fault = "none" /\ u.free = {}
      <3>1. PICK w \in Machines :
               /\ w = Fatal(u, "frame 0") /\ w.fault = "frame 0" /\ w.free = u.free
               /\ Tree(w) /\ PagesKept(u, w) /\ MarksKept(u, w)
        BY <2>2, FatalStep
      <3>2. w = pf_page(u, a)
        BY <2>6, <3>1 DEF pf_page
      <3>3. v.free \subseteq {Granted(v)}
        BY <2>2, <2>6
      <3>4. PagesKept(v, u) /\ Served(v, u) /\ PagesKept(u, w) /\ MarksKept(u, w)
        BY <2>2, <3>1
      <3>5. PagesKept(v, w)
        BY <3>4 DEF PagesKept, PageKept
      <3>6. Served(v, w)
        BY <3>4 DEF Served, MarksKept
      <3> QED BY <3>1, <3>2, <3>3, <3>5, <3>6, <2>1, <2>3 DEF PagesKept, PageKept
    <2>7. CASE u.fault = "none" /\ u.free # {}
      <3>1. PICK w \in Machines :
               /\ w = pf_page(u, a) /\ Tree(w) /\ w.fault = "none"
               /\ OnlyPage(u, w, a, Granted(u), TRUE) /\ FrameOf(w, a) \in Frames
        BY <2>2, <2>4, <2>7, PfPage
      <3>2. Served(v, w)
        BY <2>2, <2>4, <3>1 DEF Served, OnlyPage
      <3>3. ASSUME NEW b \in Addresses
            PROVE  /\ b # a => PageKept(v, w, b)
                   /\ FrameOf(v, b) # NULL => w.rows[FrameOf(v, b)] = v.rows[FrameOf(v, b)]
        <4>1. PagesKept(v, u) /\ OnlyPage(u, w, a, Granted(u), TRUE)
          BY <2>2, <3>1
        <4> QED BY <4>1 DEF PagesKept, PageKept, OnlyPage
      <3> QED BY <2>1, <2>3, <3>1, <3>2, <3>3
    <2> QED BY <2>2, <2>5, <2>6, <2>7
  <1> QED BY <1>1, <1>2

\* A store to a page changes what is in it, and no table.
LEMMA StoreStep ==
    ASSUME NEW v, Tree(v), NEW a \in Addresses, NEW f \in Frames, f = FrameOf(v, a), NEW word \in Words
    PROVE  \E w \in Machines :
              /\ w = [v EXCEPT !.rows[f] = word] /\ Tree(w) /\ w.fault = v.fault /\ w.free = v.free
              /\ MarksKept(v, w) /\ w.rows[f] = word
              /\ \A b \in Addresses : FrameOf(w, b) = FrameOf(v, b) /\ (b # a => PageKept(v, w, b))
  <1>1. v \in Machines /\ Accounted(v) /\ word \in Tables /\ f # NULL
    BY PagingAssumption DEF Tree
  <1>2. PICK w \in Machines :
           /\ w = [v EXCEPT !.rows[f] = word]
           /\ w.p3 = v.p3 /\ w.free = v.free /\ w.fault = v.fault
           /\ w.rows[f] = word /\ \A x \in Frames : x # f => w.rows[x] = v.rows[x]
    BY <1>1, SetRow
  <1>3. \A b \in Addresses : TableL2(v, b) # f /\ TableL1(v, b) # f
    BY <1>1, ApartFacts
  <1>4. w.p3 = v.p3 /\ w.free = v.free /\ \A x \in Frames : x # f => w.rows[x] = v.rows[x]
    BY <1>2
  <1>5. \A b \in Addresses : KeptAt(v, w, b)
    BY <1>1, <1>3, <1>4, NoTableKept
  <1>6. Tree(w)
    BY <1>4, <1>5, KeptTree
  <1>7. MarksKept(v, w)
    BY <1>5 DEF KeptAt, MarksKept, IsMarked, Lazy
  <1>8. ASSUME NEW b \in Addresses
        PROVE  FrameOf(w, b) = FrameOf(v, b) /\ (b # a => PageKept(v, w, b))
    <2>1. FrameOf(w, b) = FrameOf(v, b)
      BY <1>5 DEF KeptAt
    <2>2. b # a => FrameOf(v, b) # f
      BY <1>1, ApartFacts
    <2>3. FrameOf(v, b) \in Frames \cup {NULL}
      BY <1>1, EntryFacts
    <2> QED BY <2>1, <2>2, <2>3, <1>4 DEF PageKept
  <1> QED BY <1>2, <1>6, <1>7, <1>8
-----------------------------------------------------------------------------
(***************************************************************************)
(* The inductive invariant.                                                *)
(***************************************************************************)
Ranges == [reg : Regions, start : Nat, end : Nat]

PosOK == pos \in [Regions -> Nat] /\ \A reg \in Regions : pos[reg] <= Room[reg]

\* A call allocates at the region's position, or gives back a range below it
\* that nobody has any more.
CallOK ==
    /\ call \in [op : {"none", "alloc", "free"}, range : Ranges, at : Nat]
    /\ call.range.start <= call.at /\ call.at <= call.range.end
    /\ call.op = "none" => call = Idle
    /\ call.op = "alloc" => /\ call.range.start = pos[call.range.reg]
                            /\ call.range.start < call.range.end
                            /\ call.range.end <= Room[call.range.reg]
    /\ call.op = "free" => /\ call.range.end <= pos[call.range.reg]
                           /\ \A r \in live, a \in PagesOf(call.range) : a \notin PagesOf(r)

\* The ranges handed out lie below the position, apart from each other.
LiveOK ==
    /\ \A r \in live : r \in Ranges /\ r.start < r.end /\ r.end <= pos[r.reg]
    /\ \A r, s \in live : \A a \in PagesOf(r) : a \in PagesOf(s) => r = s

\* The pages a call has marked so far, or has yet to give back.
Busy ==
    {a \in PagesOf(call.range) : \/ call.op = "alloc" /\ a.n < call.at
                                 \/ call.op = "free" /\ call.at <= a.n}

MarksOK ==
    Up => \A a \in Addresses :
             /\ a \in Owned => IsMarked(vm, a)
             /\ IsMarked(vm, a) => a \in Owned \/ a \in Busy
             /\ call.op = "alloc" /\ a \in Busy => IsMarked(vm, a)

Span(a) == {b \in Addresses : SameL1(a, b)}

\* What is marked as a whole table is one range's from end to end, so no call
\* clears the mark of a page it does not give back.
LazyOK ==
    Up => \A a \in Addresses :
             Lazy(vm, a) => Span(a) \subseteq Busy \/ \E r \in live : Span(a) \subseteq PagesOf(r)

\* What the processor keeps is of pages below the position, right for those
\* that are owned.
TlbOK ==
    /\ DOMAIN tlb \subseteq Addresses
    /\ \A a \in DOMAIN tlb : /\ tlb[a] \in Frames /\ a.n < pos[a.reg]
                             /\ a \in Owned => tlb[a] = FrameOf(vm, a)

IInv ==
    Tree(vm) /\ PosOK /\ CallOK /\ LiveOK /\ MarksOK /\ LazyOK /\ TlbOK
        /\ cr2 \in Addresses \cup {NULL}

LEMMA OwnedFacts ==
    ASSUME NEW L, NEW a
    PROVE  a \in UNION {PagesOf(r) : r \in L} <=> \E r \in L : a \in PagesOf(r)
  OBVIOUS

LEMMA PagesFacts ==
    ASSUME NEW r, NEW a
    PROVE  a \in PagesOf(r) <=> a \in Addresses /\ a.reg = r.reg /\ r.start <= a.n /\ a.n < r.end
  BY DEF PagesOf

\* A page that is owned lies below its region's position.
LEMMA OwnedBelow ==
    ASSUME LiveOK, PosOK, NEW a, a \in Owned
    PROVE  a \in Addresses /\ a.n \in Nat /\ a.n < pos[a.reg] /\ pos[a.reg] \in Nat
  <1>1. PICK r \in live : a \in PagesOf(r)
    BY OwnedFacts DEF Owned
  <1>2. a \in Addresses /\ a.reg = r.reg /\ a.n < r.end
    BY <1>1, PagesFacts
  <1>3. r \in Ranges /\ r.end <= pos[r.reg] /\ r.end \in Nat
    BY DEF LiveOK, Ranges
  <1>4. a.n \in Nat /\ a.reg \in Regions
    BY <1>2, AddressFacts
  <1>5. pos[a.reg] \in Nat
    BY <1>4 DEF PosOK
  <1> QED BY <1>2, <1>3, <1>4, <1>5

LEMMA SpanFacts ==
    ASSUME NEW a \in Addresses, NEW b \in Addresses
    PROVE  (b \in Span(a) <=> SameL1(a, b)) /\ a \in Span(a) /\ (SameL1(a, b) <=> SameL1(b, a))
  BY DEF Span, SameL1, SameL2

LEMMA InitInv ==
    ASSUME Init
    PROVE  IInv
  <1>1. vm = [p3 |-> [reg \in Regions |-> ZeroTable], rows |-> [f \in Frames |-> ZeroTable],
              free |-> Frames, fault |-> "none"]
    BY DEF Init
  <1>2. vm \in Machines
    BY <1>1, EntriesFacts DEF Machines
  <1>3. \A a \in Addresses : TableL2(vm, a) = NULL /\ TableL1(vm, a) = NULL /\ FrameOf(vm, a) = NULL
    <2>1. \A a \in Addresses : TableL2(vm, a) = NULL
      BY <1>1, AddressFacts, Digits DEF TableL2, ZeroTable, Clear
    <2> QED BY <2>1, <1>2, EntryFacts
  <1>4. Accounted(vm)
    <2>1. \A l \in Levels, a \in Addresses : Leads(vm, l, a) = NULL
      BY <1>3 DEF Leads
    <2>2. vm.free = Frames /\ NULL \notin Frames
      BY <1>1, PagingAssumption
    <2> QED BY <2>1, <2>2 DEF Accounted
  <1>5. BeyondIsClear(vm)
    <2>1. \A reg \in Regions, i \in Index : vm.p3[reg][i].base = NULL
      BY <1>1 DEF ZeroTable, Clear
    <2> QED BY <2>1, <1>3 DEF BeyondIsClear
  <1>6. MarkedWhereUsed(vm)
    BY <1>3 DEF MarkedWhereUsed
  <1>7. Tree(vm)
    BY <1>2, <1>4, <1>5, <1>6 DEF Tree
  <1>8. PosOK
    <2>1. \A reg \in Regions : Room[reg] \in Nat
      BY PagingAssumption
    <2> QED BY <2>1, PagingAssumption DEF Init, PosOK
  <1>9. CallOK
    BY DEF Init, CallOK, Idle, Stretch, Ranges, Regions
  <1>10. LiveOK /\ Owned = {}
    BY DEF Init, LiveOK, Owned
  <1>11. MarksOK /\ LazyOK
    <2>1. \A a \in Addresses : ~IsMarked(vm, a) /\ ~Lazy(vm, a)
      BY <1>3 DEF IsMarked, Lazy
    <2>2. call.op # "alloc"
      BY DEF Init, Idle
    <2> QED BY <2>1, <2>2, <1>10 DEF MarksOK, LazyOK
  <1>12. TlbOK /\ cr2 \in Addresses \cup {NULL}
    BY DEF Init, TlbOK
  <1> QED BY <1>7, <1>8, <1>9, <1>10, <1>11, <1>12 DEF IInv

LEMMA AllocKeeps ==
    ASSUME IInv, NEW reg \in Regions, NEW size \in Nat \ {0}, Alloc(reg, size)
    PROVE  IInv'
  <1>1. PICK r : r = Stretch(reg, pos[reg], pos[reg] + size)
    OBVIOUS
  <1>2. /\ r \in Ranges /\ r.reg = reg /\ r.start = pos[reg] /\ r.start < r.end /\ r.end <= Room[reg]
    BY <1>1 DEF Alloc, IInv, PosOK, Stretch, Ranges
  <1>3. call' = [op |-> "alloc", range |-> r, at |-> r.start] /\ call = Idle /\ Up
        /\ vm' = vm /\ pos' = pos /\ live' = live /\ cr2' = cr2 /\ tlb' = tlb
    BY <1>1 DEF Alloc, Start
  <1>4. Owned' = Owned /\ (Up <=> Up')
    BY <1>3 DEF Owned, Up
  <1>5. \A a : a \notin Busy /\ a \notin Busy'
    <2>1. \A a : a \notin Busy
      BY <1>3 DEF Busy, Idle
    <2>2. \A a \in PagesOf(r) : a.n \in Nat /\ r.start <= a.n /\ r.start \in Nat
      BY <1>2, AddressFacts, PagesFacts DEF Ranges
    <2>3. ASSUME NEW a \in PagesOf(r), a.n < r.start PROVE FALSE
      BY <2>2, <2>3
    <2>4. \A a : a \notin Busy'
      BY <1>3, <2>3 DEF Busy
    <2> QED BY <2>1, <2>4
  <1>6. Tree(vm)' /\ PosOK' /\ (cr2 \in Addresses \cup {NULL})'
    BY <1>3 DEF IInv, PosOK
  <1>7. CallOK'
    BY <1>2, <1>3 DEF CallOK, Ranges
  <1>8. LiveOK'
    BY <1>3 DEF IInv, LiveOK
  <1>9. MarksOK'
    BY <1>3, <1>4, <1>5 DEF IInv, MarksOK
  <1>10. LazyOK'
    <2>1. Busy' = Busy
      BY <1>5
    <2> QED BY <1>3, <1>4, <2>1 DEF IInv, LazyOK
  <1>11. TlbOK'
    BY <1>3, <1>4 DEF IInv, TlbOK
  <1> QED BY <1>6, <1>7, <1>8, <1>9, <1>10, <1>11 DEF IInv

LEMMA FreeKeeps ==
    ASSUME IInv, NEW reg \in Regions, NEW r \in live, Free(reg, r)
    PROVE  IInv'
  <1>1. r \in Ranges /\ r.start < r.end /\ r.end <= pos[r.reg] /\ r.start \in Nat /\ r.end \in Nat
    BY DEF IInv, LiveOK, Ranges
  <1>2. call' = [op |-> "free", range |-> r, at |-> r.start] /\ call = Idle /\ Up
        /\ vm' = vm /\ pos' = pos /\ live' = live \ {r} /\ cr2' = cr2 /\ tlb' = tlb
    BY DEF Free, Start
  <1>3. Up'
    BY <1>2 DEF Up
  <1>4. \A a : a \notin Busy /\ (a \in Busy' <=> a \in PagesOf(r))
    <2>1. \A a : a \notin Busy
      BY <1>2 DEF Busy, Idle
    <2>2. \A a \in PagesOf(r) : r.start <= a.n
      BY PagesFacts
    <2>3. \A a : a \in Busy' <=> a \in PagesOf(r)
      BY <1>2, <2>2 DEF Busy
    <2> QED BY <2>1, <2>3
  <1>5. \A s \in live : s # r => s \in live'
    BY <1>2
  <1>6. \A a : /\ a \in Owned <=> \E s \in live : a \in PagesOf(s)
               /\ a \in Owned' <=> \E s \in live' : a \in PagesOf(s)
    BY OwnedFacts DEF Owned
  <1>7. \A a : (a \in Owned' => a \in Owned) /\ (a \in Owned => a \in Owned' \/ a \in PagesOf(r))
    BY <1>2, <1>6
  <1>8. Tree(vm)' /\ PosOK' /\ (cr2 \in Addresses \cup {NULL})'
    BY <1>2 DEF IInv, PosOK
  <1>9. CallOK'
    <2>1. \A s \in live', a \in PagesOf(r) : a \notin PagesOf(s)
      BY <1>2 DEF IInv, LiveOK
    <2> QED BY <1>1, <1>2, <2>1 DEF CallOK
  <1>10. LiveOK'
    BY <1>2 DEF IInv, LiveOK
  <1>11. MarksOK'
    <2>1. call'.op # "alloc"
      BY <1>2
    <2> QED BY <1>2, <1>4, <1>7, <2>1 DEF IInv, MarksOK
  <1>12. LazyOK'
    <2>1. ASSUME NEW a \in Addresses, Lazy(vm', a)
          PROVE  Span(a) \subseteq Busy' \/ \E s \in live' : Span(a) \subseteq PagesOf(s)
      <3>1. Lazy(vm, a)
        BY <2>1, <1>2
      <3>2. PICK s \in live : Span(a) \subseteq PagesOf(s)
        <4>1. a \in Span(a)
          BY SpanFacts
        <4> QED BY <3>1, <4>1, <1>2, <1>4 DEF IInv, LazyOK
      <3> QED BY <3>2, <1>4, <1>5
    <2> QED BY <2>1 DEF LazyOK
  <1>13. TlbOK'
    BY <1>2, <1>7 DEF IInv, TlbOK
  <1> QED BY <1>8, <1>9, <1>10, <1>11, <1>12, <1>13 DEF IInv

LEMMA ReturnKeeps ==
    ASSUME IInv, Return
    PROVE  IInv'
  <1> DEFINE r == call.range
  <1>1. /\ r \in Ranges /\ r.reg \in Regions /\ r.start \in Nat /\ r.end \in Nat
        /\ call.at = r.end /\ call.op # "none" /\ Up /\ call' = Idle /\ vm' = vm /\ cr2' = cr2 /\ tlb' = tlb
    BY DEF Return, Left, IInv, CallOK, Ranges
  <1>2. Up' /\ call'.op = "none"
    BY <1>1 DEF Up, Idle
  <1>3. \A a : a \notin Busy'
    BY <1>2 DEF Busy
  <1>4. CallOK'
    BY <1>1 DEF CallOK, Idle, Stretch, Ranges, Regions
  <1>5. Tree(vm)' /\ (cr2 \in Addresses \cup {NULL})'
    BY <1>1 DEF IInv
  <1>6. \A a \in PagesOf(r) : a \in Addresses /\ a.n \in Nat /\ r.start <= a.n /\ a.n < r.end /\ a.reg = r.reg
    BY AddressFacts, PagesFacts
  <1>7. CASE call.op = "alloc"
    <2>1. /\ pos' = [pos EXCEPT ![r.reg] = r.end] /\ live' = live \cup {r}
          /\ r.start = pos[r.reg] /\ r.start < r.end /\ r.end <= Room[r.reg]
      BY <1>7 DEF Return, IInv, CallOK
    <2>2. pos \in [Regions -> Nat] /\ pos' \in [Regions -> Nat] /\ pos'[r.reg] = r.end
          /\ \A reg \in Regions : reg # r.reg => pos'[reg] = pos[reg]
      BY <1>1, <2>1 DEF IInv, PosOK
    <2>3. \A reg \in Regions : pos[reg] <= pos'[reg]
      BY <2>1, <2>2
    <2>4. PosOK'
      BY <2>1, <2>2 DEF IInv, PosOK
    <2>5. \A a : a \in Busy <=> a \in PagesOf(r)
      BY <1>1, <1>6, <1>7 DEF Busy
    <2>6. \A a : a \in Owned' <=> a \in Owned \/ a \in PagesOf(r)
      <3>1. \A a : /\ a \in Owned <=> \E s \in live : a \in PagesOf(s)
                   /\ a \in Owned' <=> \E s \in live' : a \in PagesOf(s)
        BY OwnedFacts DEF Owned
      <3> QED BY <3>1, <2>1
    <2>7. LiveOK'
      <3>1. ASSUME NEW s \in live' PROVE s \in Ranges /\ s.start < s.end /\ s.end <= pos'[s.reg]
        <4>1. CASE s = r
          BY <4>1, <1>1, <2>1, <2>2
        <4>2. CASE s \in live
          <5>1. s \in Ranges /\ s.start < s.end /\ s.end <= pos[s.reg] /\ s.reg \in Regions /\ s.end \in Nat
            BY <4>2 DEF IInv, LiveOK, Ranges
          <5>2. pos[s.reg] \in Nat /\ pos'[s.reg] \in Nat
            BY <5>1, <2>2
          <5> QED BY <5>1, <5>2, <2>3
        <4> QED BY <4>1, <4>2, <2>1
      <3>2. ASSUME NEW s \in live, NEW a \in PagesOf(s), a \in PagesOf(r) PROVE FALSE
        <4>1. a \in Owned
          BY <3>2, OwnedFacts DEF Owned
        <4>2. a.n < pos[a.reg] /\ pos[a.reg] \in Nat
          BY <4>1, OwnedBelow DEF IInv
        <4> QED BY <3>2, <4>2, <1>6, <2>1
      <3>3. \A s, t \in live' : \A a \in PagesOf(s) : a \in PagesOf(t) => s = t
        BY <3>2, <2>1 DEF IInv, LiveOK
      <3> QED BY <3>1, <3>3 DEF LiveOK
    <2>8. MarksOK'
      BY <1>1, <1>2, <1>3, <1>7, <2>5, <2>6 DEF IInv, MarksOK
    <2>9. LazyOK'
      <3>1. ASSUME NEW a \in Addresses, Lazy(vm', a) PROVE \E s \in live' : Span(a) \subseteq PagesOf(s)
        <4>1. Span(a) \subseteq Busy \/ \E s \in live : Span(a) \subseteq PagesOf(s)
          BY <3>1, <1>1 DEF IInv, LazyOK
        <4> QED BY <4>1, <2>1, <2>5
      <3> QED BY <3>1 DEF LazyOK
    <2>10. TlbOK'
      <3>1. ASSUME NEW a \in DOMAIN tlb
            PROVE  tlb[a] \in Frames /\ a.n < pos'[a.reg] /\ (a \in Owned' => tlb[a] = FrameOf(vm, a))
        <4>1. a \in Addresses /\ tlb[a] \in Frames /\ a.n < pos[a.reg] /\ (a \in Owned => tlb[a] = FrameOf(vm, a))
          BY DEF IInv, TlbOK
        <4>2. a.reg \in Regions /\ a.n \in Nat
          BY <4>1, AddressFacts
        <4>3. pos[a.reg] \in Nat /\ pos'[a.reg] \in Nat
          BY <4>2, <2>2
        <4>4. a.n < pos'[a.reg]
          BY <4>1, <4>2, <4>3, <2>3
        <4>5. a \notin PagesOf(r)
          BY <4>1, <4>2, <4>3, <1>6, <2>1
        <4> QED BY <4>1, <4>4, <4>5, <2>6
      <3> QED BY <3>1, <1>1 DEF IInv, TlbOK
    <2> QED BY <1>4, <1>5, <2>4, <2>7, <2>8, <2>9, <2>10 DEF IInv
  <1>8. CASE call.op = "free"
    <2>1. pos' = pos /\ live' = live /\ Owned' = Owned
      BY <1>8 DEF Return, Owned
    <2>2. \A a : a \notin Busy
      <3>1. ASSUME NEW a \in PagesOf(r), r.end <= a.n PROVE FALSE
        BY <3>1, <1>1, <1>6
      <3> QED BY <3>1, <1>1, <1>8 DEF Busy
    <2>3. PosOK' /\ LiveOK'
      BY <2>1 DEF IInv, PosOK, LiveOK
    <2>4. MarksOK'
      BY <1>1, <1>2, <2>1, <2>2 DEF IInv, MarksOK
    <2>5. LazyOK'
      <3>1. Busy' = Busy
        BY <1>3, <2>2
      <3> QED BY <3>1, <1>1, <2>1 DEF IInv, LazyOK
    <2>6. TlbOK'
      BY <1>1, <2>1 DEF IInv, TlbOK
    <2> QED BY <1>4, <1>5, <2>3, <2>4, <2>5, <2>6 DEF IInv
  <1>9. call.op \in {"none", "alloc", "free"}
    BY DEF IInv, CallOK
  <1> QED BY <1>1, <1>7, <1>8, <1>9

\* The address of a loop's turn is a page of its range, and no table's mark
\* covers what is about to be marked.
LEMMA AtFacts ==
    ASSUME IInv, call.op \in {"alloc", "free"}, Left > 0
    PROVE  /\ At \in Addresses /\ At.reg = call.range.reg /\ At.n = call.at /\ At \in PagesOf(call.range)
           /\ call.at \in Nat /\ call.range \in Ranges /\ call.range.start \in Nat /\ call.range.end \in Nat
           /\ call.range.start <= call.at /\ call.at < call.range.end
           /\ call.range.reg \in Regions
           /\ call.op = "alloc" /\ Up => ~Lazy(vm, At)
  <1>1. /\ call.at \in Nat /\ call.range \in Ranges /\ call.range.start \in Nat /\ call.range.end \in Nat
        /\ call.range.start <= call.at /\ call.at < call.range.end /\ call.range.reg \in Regions
    BY DEF IInv, CallOK, Ranges, Left
  <1>2. pos[call.range.reg] \in Nat /\ Room[call.range.reg] \in Nat /\ pos[call.range.reg] <= Room[call.range.reg]
    BY <1>1, PagingAssumption DEF IInv, PosOK
  <1>3. call.range.end <= Room[call.range.reg]
    BY <1>1, <1>2 DEF IInv, CallOK
  <1>4. At.reg = call.range.reg /\ At.n = call.at /\ At = [reg |-> call.range.reg, n |-> call.at]
    BY DEF At
  <1>5. call.at \in 0 .. Room[call.range.reg] - 1
    BY <1>1, <1>2, <1>3
  <1>6. At \in Addresses
    BY <1>1, <1>4, <1>5 DEF Addresses
  <1>7. At \in PagesOf(call.range)
    BY <1>1, <1>4, <1>6, PagesFacts
  <1>8. ASSUME call.op = "alloc", Up, Lazy(vm, At) PROVE FALSE
    <2>1. At \in Span(At)
      BY <1>6, SpanFacts
    <2>2. At \notin Busy
      BY <1>1, <1>4, <1>8 DEF Busy
    <2>3. At \notin Owned
      <3>1. At.n >= pos[At.reg]
        BY <1>1, <1>2, <1>4, <1>8 DEF IInv, CallOK
      <3>2. SUFFICES ASSUME At \in Owned PROVE FALSE
        OBVIOUS
      <3>3. At.n < pos[At.reg]
        BY <3>2, OwnedBelow DEF IInv
      <3> QED BY <3>1, <3>3, <1>1, <1>2, <1>4
    <2>4. Span(At) \subseteq Busy \/ \E r \in live : Span(At) \subseteq PagesOf(r)
      BY <1>6, <1>8 DEF IInv, LazyOK
    <2> QED BY <2>1, <2>2, <2>3, <2>4, OwnedFacts DEF Owned
  <1> QED BY <1>1, <1>4, <1>6, <1>7, <1>8

LEMMA AllocChunkKeeps ==
    ASSUME IInv, alloc_virt_4k_chunk
    PROVE  IInv'
  <1>1. call.op = "alloc" /\ Up /\ Left > 0 /\ vm.fault = "none" /\ Tree(vm)
        /\ pos' = pos /\ live' = live /\ cr2' = cr2 /\ tlb' = tlb
    BY DEF alloc_virt_4k_chunk, Up, IInv
  <1>2. PICK a \in Addresses : a = At /\ a.reg = call.range.reg /\ a.n = call.at /\ ~Lazy(vm, a)
    BY <1>1, AtFacts
  <1>3. /\ call.at \in Nat /\ call.range \in Ranges /\ call.range.start \in Nat /\ call.range.end \in Nat
        /\ call.range.start <= call.at /\ call.at < call.range.end /\ Left = call.range.end - call.at
        /\ call.range.reg \in Regions
    BY <1>1, AtFacts DEF Left
  <1>4. PICK left : left = Left
    OBVIOUS
  <1>5. PICK w \in Machines :
           /\ w = alloc_turn(vm, a, left) /\ Tree(w) /\ PagesKept(vm, w)
           /\ \/ w.fault = "none" /\ MarksAdded(vm, w, a, Spans(vm, a, left))
              \/ w.fault = "frame 0" /\ vm.free \subseteq {Granted(vm)} /\ MarksKept(vm, w)
    BY <1>1, <1>2, AllocTurn
  <1>6. vm' = w
    BY <1>2, <1>4, <1>5 DEF alloc_virt_4k_chunk
  <1>7. PICK step \in Nat :
           /\ step = IF Spans(vm, a, left) THEN PAGE_TABLE_SIZE ELSE 1
           /\ call' = [call EXCEPT !.at = call.at + step]
           /\ call.at + step <= call.range.end /\ step > 0
    <2>1. CASE Spans(vm, a, left)
      <3>1. PAGE_TABLE_SIZE \in Nat /\ PAGE_TABLE_SIZE > 0 /\ left >= PAGE_TABLE_SIZE
        BY <2>1, PagingAssumption DEF Spans
      <3>2. call' = [call EXCEPT !.at = call.at + PAGE_TABLE_SIZE]
        BY <2>1, <1>2, <1>4 DEF alloc_virt_4k_chunk
      <3> QED BY <2>1, <3>1, <3>2, <1>3, <1>4
    <2>2. CASE ~Spans(vm, a, left)
      <3>1. call' = [call EXCEPT !.at = call.at + 1]
        BY <2>2, <1>2, <1>4 DEF alloc_virt_4k_chunk
      <3> QED BY <2>2, <3>1, <1>3
    <2> QED BY <2>1, <2>2
  <1>8. call \in [op : {"none", "alloc", "free"}, range : Ranges, at : Nat]
    BY DEF IInv, CallOK
  <1>9. /\ call' \in [op : {"none", "alloc", "free"}, range : Ranges, at : Nat]
        /\ call'.op = "alloc" /\ call'.range = call.range /\ call'.at = call.at + step
    BY <1>1, <1>3, <1>7, <1>8
  <1>10. CallOK'
    <2>1. call'.range.start <= call'.at /\ call'.at <= call'.range.end
      BY <1>3, <1>7, <1>9
    <2> QED BY <1>1, <1>9, <2>1 DEF IInv, CallOK
  <1>11. Owned' = Owned
    BY <1>1 DEF Owned
  <1>12. PosOK' /\ LiveOK' /\ Tree(vm)' /\ (cr2 \in Addresses \cup {NULL})'
    BY <1>1, <1>5, <1>6 DEF IInv, PosOK, LiveOK
  <1>13. TlbOK'
    <2>1. \A b \in Addresses : FrameOf(vm', b) = FrameOf(vm, b)
      BY <1>5, <1>6 DEF PagesKept, PageKept
    <2> QED BY <2>1, <1>1, <1>11 DEF IInv, TlbOK
  <1>14. \A b \in Addresses : b \in Busy' <=> (b \in Busy \/ b = a \/ (Spans(vm, a, left) /\ SameL1(a, b)))
    <2>1. ASSUME NEW b \in Addresses
          PROVE  /\ b \in Busy <=> b.reg = call.range.reg /\ call.range.start <= b.n /\ b.n < call.at
                 /\ b \in Busy' <=> b.reg = call.range.reg /\ call.range.start <= b.n /\ b.n < call.at + step
                 /\ b.n \in Nat
      <3>1. b.n \in Nat
        BY AddressFacts
      <3>2. b \in Busy <=> b \in PagesOf(call.range) /\ b.n < call.at
        BY <1>1 DEF Busy
      <3>3. b \in Busy' <=> b \in PagesOf(call.range) /\ b.n < call.at + step
        BY <1>9 DEF Busy
      <3> QED BY <3>1, <3>2, <3>3, <1>3, <1>7, PagesFacts
    <2>2. ASSUME NEW b \in Addresses
          PROVE  (b = a \/ (Spans(vm, a, left) /\ SameL1(a, b)))
                    <=> b.reg = call.range.reg /\ call.at <= b.n /\ b.n < call.at + step
      <3>1. b.n \in Nat /\ b = [reg |-> b.reg, n |-> b.n] /\ a = [reg |-> a.reg, n |-> a.n]
        BY AddressFacts
      <3>2. CASE Spans(vm, a, left)
        <4>1. l1(a) = 0 /\ step = PAGE_TABLE_SIZE
          BY <3>2, <1>7 DEF Spans
        <4>2. b.reg = a.reg => (SameL1(a, b) <=> a.n <= b.n /\ b.n < a.n + PAGE_TABLE_SIZE)
          BY <4>1, TableSpan
        <4>3. SameL1(a, b) => b.reg = a.reg
          BY DEF SameL1, SameL2
        <4>4. SameL1(a, a)
          BY DEF SameL1, SameL2
        <4> QED BY <3>2, <4>1, <4>2, <4>3, <4>4, <1>2
      <3>3. CASE ~Spans(vm, a, left)
        <4>1. step = 1
          BY <3>3, <1>7
        <4>2. b = a <=> b.reg = a.reg /\ b.n = a.n
          BY <3>1
        <4> QED BY <3>1, <3>3, <4>1, <4>2, <1>2, <1>3
      <3> QED BY <3>2, <3>3
    <2> QED BY <2>1, <2>2, <1>3, <1>7
  <1>15. CASE w.fault # "none"
    <2>1. ~Up'
      BY <1>6, <1>15 DEF Up
    <2> QED BY <1>10, <1>12, <1>13, <2>1 DEF IInv, MarksOK, LazyOK
  <1>16. CASE w.fault = "none"
    <2>1. \A b \in Addresses :
             /\ IsMarked(vm', b) <=> (b = a \/ (Spans(vm, a, left) /\ SameL1(a, b)) \/ IsMarked(vm, b))
             /\ Lazy(vm', b) <=> ((Spans(vm, a, left) /\ SameL1(a, b)) \/ Lazy(vm, b))
      BY <1>5, <1>6, <1>16 DEF MarksAdded
    <2>2. MarksOK'
      BY <1>1, <1>11, <1>14, <2>1 DEF IInv, MarksOK
    <2>3. LazyOK'
      <3>1. ASSUME NEW b \in Addresses, Lazy(vm', b)
            PROVE  Span(b) \subseteq Busy' \/ \E r \in live : Span(b) \subseteq PagesOf(r)
        <4>1. CASE Spans(vm, a, left) /\ SameL1(a, b)
          <5>1. \A c \in Span(b) : c \in Addresses /\ SameL1(a, c)
            BY <4>1 DEF Span, SameL1, SameL2
          <5> QED BY <4>1, <5>1, <1>14
        <4>2. CASE Lazy(vm, b)
          <5>1. Span(b) \subseteq Busy \/ \E r \in live : Span(b) \subseteq PagesOf(r)
            BY <4>2, <1>1 DEF IInv, LazyOK
          <5>2. Span(b) \subseteq Addresses
            BY DEF Span
          <5> QED BY <5>1, <5>2, <1>14
        <4> QED BY <3>1, <4>1, <4>2, <2>1
      <3> QED BY <3>1, <1>1 DEF LazyOK
    <2> QED BY <1>10, <1>12, <1>13, <2>2, <2>3 DEF IInv
  <1> QED BY <1>15, <1>16

LEMMA FreeChunkKeeps ==
    ASSUME IInv, free_virt_4k_chunk
    PROVE  IInv'
  <1>1. call.op = "free" /\ Up /\ Left > 0 /\ Tree(vm)
        /\ pos' = pos /\ live' = live /\ cr2' = cr2 /\ tlb' = tlb
        /\ vm' = free_turn(vm, At) /\ call' = [call EXCEPT !.at = call.at + 1]
    BY DEF free_virt_4k_chunk, IInv
  <1>2. PICK a \in Addresses : a = At /\ a.reg = call.range.reg /\ a.n = call.at /\ a \in PagesOf(call.range)
    BY <1>1, AtFacts
  <1>3. /\ call.at \in Nat /\ call.range \in Ranges /\ call.range.start \in Nat /\ call.range.end \in Nat
        /\ call.range.start <= call.at /\ call.at < call.range.end
    BY <1>1, AtFacts
  <1>4. PICK w \in Machines :
           /\ w = free_turn(vm, a) /\ Tree(w) /\ w.fault = vm.fault
           /\ \A b \in Addresses :
                 /\ b # a => PageKept(vm, w, b)
                 /\ FrameOf(w, a) = NULL
                 /\ FrameOf(vm, b) # NULL => w.rows[FrameOf(vm, b)] = vm.rows[FrameOf(vm, b)]
                 /\ IsMarked(w, b) <=> (IsMarked(vm, b) /\ b # a /\ ~(Lazy(vm, a) /\ SameL1(a, b)))
                 /\ Lazy(w, b) <=> (Lazy(vm, b) /\ ~(Lazy(vm, a) /\ SameL1(a, b)))
    BY <1>1, FreeTurn
  <1>5. vm' = w /\ Up'
    BY <1>1, <1>2, <1>4 DEF Up
  <1>6. call \in [op : {"none", "alloc", "free"}, range : Ranges, at : Nat]
    BY DEF IInv, CallOK
  <1>7. /\ call' \in [op : {"none", "alloc", "free"}, range : Ranges, at : Nat]
        /\ call'.op = "free" /\ call'.range = call.range /\ call'.at = call.at + 1
    BY <1>1, <1>3, <1>6
  <1>8. CallOK'
    <2>1. call'.range.start <= call'.at /\ call'.at <= call'.range.end
      BY <1>3, <1>7
    <2>2. \A r \in live, b \in PagesOf(call.range) : b \notin PagesOf(r)
      BY <1>1 DEF IInv, CallOK
    <2> QED BY <1>1, <1>7, <2>1, <2>2 DEF IInv, CallOK
  <1>9. Owned' = Owned
    BY <1>1 DEF Owned
  <1>10. PosOK' /\ LiveOK' /\ Tree(vm)' /\ (cr2 \in Addresses \cup {NULL})'
    BY <1>1, <1>4, <1>5 DEF IInv, PosOK, LiveOK
  <1>11. \A b \in PagesOf(call.range) : b \notin Owned
    <2>1. \A r \in live, b \in PagesOf(call.range) : b \notin PagesOf(r)
      BY <1>1 DEF IInv, CallOK
    <2> QED BY <2>1, OwnedFacts DEF Owned
  <1>12. TlbOK'
    <2>1. \A b \in Addresses : b \in Owned => FrameOf(vm', b) = FrameOf(vm, b)
      BY <1>2, <1>4, <1>5, <1>11 DEF PageKept
    <2> QED BY <2>1, <1>1, <1>9 DEF IInv, TlbOK
  <1>13. \A b \in Addresses : b \in Busy' <=> (b \in Busy /\ b # a)
    <2>1. ASSUME NEW b \in Addresses
          PROVE  /\ b \in Busy <=> b \in PagesOf(call.range) /\ call.at <= b.n
                 /\ b \in Busy' <=> b \in PagesOf(call.range) /\ call.at + 1 <= b.n
                 /\ b.n \in Nat /\ b = [reg |-> b.reg, n |-> b.n] /\ a = [reg |-> a.reg, n |-> a.n]
      BY <1>1, <1>7, AddressFacts DEF Busy
    <2>2. ASSUME NEW b \in Addresses, b \in PagesOf(call.range) PROVE b = a <=> b.n = call.at
      BY <2>1, <2>2, <1>2, PagesFacts
    <2> QED BY <2>1, <2>2, <1>3
  <1>14. Lazy(vm, a) => Span(a) \subseteq Busy
    <2>1. a \in Span(a) /\ a \notin Owned
      BY <1>2, <1>11, SpanFacts
    <2>2. \A r \in live : a \notin PagesOf(r)
      BY <2>1, OwnedFacts DEF Owned
    <2> QED BY <2>1, <2>2, <1>1 DEF IInv, LazyOK
  <1>15. Busy \subseteq PagesOf(call.range)
    BY DEF Busy
  <1>16. MarksOK'
    <2>1. ASSUME NEW b \in Addresses, b \in Owned PROVE IsMarked(vm', b)
      <3>1. IsMarked(vm, b)
        BY <2>1, <1>1 DEF IInv, MarksOK
      <3>2. b # a
        BY <2>1, <1>2, <1>11
      <3>3. ~(Lazy(vm, a) /\ SameL1(a, b))
        BY <2>1, <1>11, <1>14, <1>15, SpanFacts
      <3> QED BY <3>1, <3>2, <3>3, <1>4, <1>5
    <2>2. ASSUME NEW b \in Addresses, IsMarked(vm', b) PROVE b \in Owned \/ b \in Busy'
      <3>1. IsMarked(vm, b) /\ b # a
        BY <2>2, <1>4, <1>5
      <3> QED BY <3>1, <1>1, <1>13 DEF IInv, MarksOK
    <2> QED BY <2>1, <2>2, <1>7, <1>9 DEF MarksOK
  <1>17. LazyOK'
    <2>1. ASSUME NEW b \in Addresses, Lazy(vm', b)
          PROVE  Span(b) \subseteq Busy' \/ \E r \in live : Span(b) \subseteq PagesOf(r)
      <3>1. Lazy(vm, b) /\ ~(Lazy(vm, a) /\ SameL1(a, b))
        BY <2>1, <1>4, <1>5
      <3>2. a \notin Span(b)
        <4>1. SUFFICES ASSUME a \in Span(b) PROVE FALSE
          OBVIOUS
        <4>2. SameL1(a, b) /\ SameL1(b, a)
          BY <4>1, SpanFacts
        <4>3. Lazy(vm, a)
          BY <4>2, <3>1 DEF SameL1, SameL2, TableL1, EntryL2, TableL2, Lazy
        <4> QED BY <4>2, <4>3, <3>1
      <3>3. Span(b) \subseteq Busy \/ \E r \in live : Span(b) \subseteq PagesOf(r)
        BY <3>1, <1>1 DEF IInv, LazyOK
      <3>4. Span(b) \subseteq Addresses
        BY DEF Span
      <3> QED BY <3>2, <3>3, <3>4, <1>13
    <2> QED BY <2>1, <1>1 DEF LazyOK
  <1> QED BY <1>8, <1>10, <1>12, <1>16, <1>17 DEF IInv

\* A page with a frame is marked.
LEMMA UsedIsMarked ==
    ASSUME NEW v, Tree(v), NEW a \in Addresses, FrameOf(v, a) # NULL
    PROVE  IsMarked(v, a)
  <1>1. v \in Machines /\ TableL1(v, a) # NULL
    BY EntryFacts DEF Tree
  <1> QED BY <1>1, EntryFacts DEF Tree, MarkedWhereUsed, IsMarked

\* The walk of a store, and the fault it may end in: v is what is left.
LEMMA WalkFacts ==
    ASSUME IInv, Up, NEW a \in Addresses, a \in Owned \/ (call = Idle /\ a.n >= pos[a.reg]),
           NEW zero \in BOOLEAN
    PROVE  \E v \in Machines :
              /\ v = (IF FrameOf(vm, a) # NULL THEN vm ELSE pf_irq_handler(vm, a, zero))
              /\ Tree(v) /\ Served(vm, v)
              /\ \A b \in Addresses :
                    /\ b # a => PageKept(vm, v, b)
                    /\ FrameOf(vm, b) # NULL => v.rows[FrameOf(vm, b)] = vm.rows[FrameOf(vm, b)]
              /\ \/ v.fault = "unallocated" /\ Unallocated(vm, a, zero) /\ PagesKept(vm, v)
                 \/ v.fault = "frame 0" /\ PagesKept(vm, v) /\ vm.free \subseteq {Granted(vm)}
                 \/ v.fault = "none" /\ a \in Owned /\ FrameOf(v, a) \in Frames
  <1>1. Tree(vm) /\ vm \in Machines /\ vm.fault = "none"
    BY DEF IInv, Tree, Up
  <1>2. IsMarked(vm, a) => a \in Owned
    <2>1. SUFFICES ASSUME IsMarked(vm, a), a \notin Owned PROVE FALSE
      OBVIOUS
    <2>2. call = Idle /\ a \in Busy
      BY <2>1 DEF IInv, MarksOK
    <2> QED BY <2>2 DEF Busy, Idle
  <1>3. CASE FrameOf(vm, a) # NULL
    <2>1. a \in Owned /\ FrameOf(vm, a) \in Frames
      BY <1>1, <1>2, <1>3, UsedIsMarked, EntryFacts
    <2> QED BY <1>1, <1>3, <2>1 DEF Served, PageKept
  <1>4. CASE FrameOf(vm, a) = NULL
    <2>1. PICK w \in Machines :
             /\ w = pf_irq_handler(vm, a, zero) /\ Tree(w) /\ Served(vm, w)
             /\ \A b \in Addresses :
                   /\ b # a => PageKept(vm, w, b)
                   /\ FrameOf(vm, b) # NULL => w.rows[FrameOf(vm, b)] = vm.rows[FrameOf(vm, b)]
             /\ \/ w.fault = "unallocated" /\ Unallocated(vm, a, zero) /\ PagesKept(vm, w)
                \/ w.fault = "frame 0" /\ IsMarked(vm, a) /\ PagesKept(vm, w) /\ vm.free \subseteq {Granted(vm)}
                \/ w.fault = "none" /\ IsMarked(vm, a) /\ FrameOf(w, a) \in Frames
      BY <1>1, <1>4, PageFault
    <2> QED BY <2>1, <1>2, <1>4
  <1> QED BY <1>3, <1>4

\* No address beyond a region's position has a translation.
LEMMA CachedIsOwned ==
    ASSUME IInv, NEW a \in Addresses, Cached(a), a \in Owned \/ (call = Idle /\ a.n >= pos[a.reg])
    PROVE  a \in Owned /\ tlb[a] \in Frames /\ tlb[a] = FrameOf(vm, a)
  <1>1. a.n \in Nat /\ a.reg \in Regions /\ pos[a.reg] \in Nat
    BY AddressFacts DEF IInv, PosOK
  <1>2. tlb[a] \in Frames /\ a.n < pos[a.reg] /\ (a \in Owned => tlb[a] = FrameOf(vm, a))
    BY DEF IInv, TlbOK, Cached
  <1> QED BY <1>1, <1>2

\* Nothing of the calls changes, and no mark.
LEMMA ServedKeeps ==
    ASSUME IInv, pos' = pos, call' = call, live' = live, Served(vm, vm'), Up
    PROVE  PosOK' /\ CallOK' /\ LiveOK' /\ MarksOK' /\ LazyOK' /\ Owned' = Owned
  <1>1. Owned' = Owned /\ Busy' = Busy
    BY DEF Owned, Busy
  <1>2. PosOK' /\ CallOK' /\ LiveOK'
    BY DEF IInv, PosOK, CallOK, LiveOK
  <1>3. MarksOK'
    BY <1>1 DEF IInv, MarksOK, Served
  <1>4. LazyOK'
    BY <1>1 DEF IInv, LazyOK, Served
  <1> QED BY <1>1, <1>2, <1>3, <1>4

LEMMA StoreKeeps ==
    ASSUME IInv, NEW a \in Addresses, NEW word \in Words,
           a \in Owned \/ (call = Idle /\ a.n >= pos[a.reg]), Store(a, word)
    PROVE  IInv'
  <1>1. Up /\ Tree(vm) /\ pos' = pos /\ call' = call /\ live' = live
    BY DEF Store, IInv
  <1>2. CASE StoreCached(a, word)
    <2>1. PICK f \in Frames : f = tlb[a] /\ f = FrameOf(vm, a) /\ a \in Owned
      BY <1>2, CachedIsOwned DEF StoreCached
    <2>2. PICK w \in Machines :
             /\ w = [vm EXCEPT !.rows[f] = word] /\ Tree(w) /\ w.fault = vm.fault /\ w.free = vm.free
             /\ MarksKept(vm, w) /\ w.rows[f] = word
             /\ \A b \in Addresses : FrameOf(w, b) = FrameOf(vm, b) /\ (b # a => PageKept(vm, w, b))
      BY <1>1, <2>1, StoreStep
    <2>3. vm' = w /\ cr2' = cr2 /\ tlb' = tlb
      BY <1>2, <2>1, <2>2 DEF StoreCached
    <2>4. Served(vm, vm')
      BY <2>2, <2>3 DEF MarksKept, Served
    <2>5. PosOK' /\ CallOK' /\ LiveOK' /\ MarksOK' /\ LazyOK' /\ Owned' = Owned
      BY <1>1, <2>4, ServedKeeps
    <2>6. TlbOK'
      BY <1>1, <2>2, <2>3, <2>5 DEF IInv, TlbOK
    <2>7. Tree(vm)' /\ (cr2 \in Addresses \cup {NULL})'
      BY <2>2, <2>3 DEF IInv
    <2> QED BY <2>5, <2>6, <2>7 DEF IInv
  <1>3. CASE StoreWalking(a, word)
    <2>1. PICK zero \in ZeroAvl :
             LET v == IF FrameOf(vm, a) # NULL THEN vm ELSE pf_irq_handler(vm, a, zero)
             IN  IF v.fault = "none"
                 THEN /\ vm' = [v EXCEPT !.rows[FrameOf(v, a)] = word]
                      /\ tlb' = Filled(a, FrameOf(v, a)) /\ UNCHANGED cr2
                 ELSE /\ vm' = v /\ UNCHANGED tlb
                      /\ cr2' = IF v.fault = "unallocated" THEN a ELSE cr2
      BY <1>3 DEF StoreWalking
    <2>2. zero \in BOOLEAN
      BY PagingAssumption
    <2>3. PICK v \in Machines :
             /\ v = (IF FrameOf(vm, a) # NULL THEN vm ELSE pf_irq_handler(vm, a, zero))
             /\ Tree(v) /\ Served(vm, v)
             /\ \A b \in Addresses :
                   /\ b # a => PageKept(vm, v, b)
                   /\ FrameOf(vm, b) # NULL => v.rows[FrameOf(vm, b)] = vm.rows[FrameOf(vm, b)]
             /\ \/ v.fault = "unallocated" /\ Unallocated(vm, a, zero) /\ PagesKept(vm, v)
                \/ v.fault = "frame 0" /\ PagesKept(vm, v) /\ vm.free \subseteq {Granted(vm)}
                \/ v.fault = "none" /\ a \in Owned /\ FrameOf(v, a) \in Frames
      BY <1>1, <2>2, WalkFacts
    <2>4. CASE v.fault # "none"
      <3>1. vm' = v /\ tlb' = tlb /\ (cr2' = a \/ cr2' = cr2)
        BY <2>1, <2>3, <2>4
      <3>2. Served(vm, vm')
        BY <2>3, <3>1
      <3>3. PosOK' /\ CallOK' /\ LiveOK' /\ MarksOK' /\ LazyOK' /\ Owned' = Owned
        BY <1>1, <3>2, ServedKeeps
      <3>4. \A b \in Addresses : FrameOf(vm', b) = FrameOf(vm, b)
        BY <2>3, <2>4, <3>1 DEF PagesKept, PageKept
      <3>5. TlbOK'
        BY <1>1, <3>1, <3>3, <3>4 DEF IInv, TlbOK
      <3>6. Tree(vm)' /\ (cr2 \in Addresses \cup {NULL})'
        BY <2>3, <3>1 DEF IInv
      <3> QED BY <3>3, <3>5, <3>6 DEF IInv
    <2>5. CASE v.fault = "none"
      <3>1. PICK f \in Frames : f = FrameOf(v, a) /\ a \in Owned
        BY <2>3, <2>5
      <3>2. vm' = [v EXCEPT !.rows[f] = word] /\ tlb' = Filled(a, f) /\ cr2' = cr2
        BY <2>1, <2>3, <2>5, <3>1
      <3>3. Tree(v)
        BY <2>3
      <3>4. PICK w \in Machines :
               /\ w = [v EXCEPT !.rows[f] = word] /\ Tree(w) /\ w.fault = v.fault /\ w.free = v.free
               /\ MarksKept(v, w) /\ w.rows[f] = word
               /\ \A b \in Addresses : FrameOf(w, b) = FrameOf(v, b) /\ (b # a => PageKept(v, w, b))
        BY <3>1, <3>3, StoreStep
      <3>5. vm' = w
        BY <3>2, <3>4
      <3>6. Served(vm, vm')
        BY <2>3, <3>4, <3>5 DEF MarksKept, Served
      <3>7. PosOK' /\ CallOK' /\ LiveOK' /\ MarksOK' /\ LazyOK' /\ Owned' = Owned
        BY <1>1, <3>6, ServedKeeps
      <3>8. FrameOf(vm', a) = f /\ \A b \in Addresses : b # a => FrameOf(vm', b) = FrameOf(vm, b)
        BY <2>3, <3>1, <3>4, <3>5 DEF PageKept
      <3>9. DOMAIN tlb' = DOMAIN tlb \cup {a} /\ tlb'[a] = f /\ \A b \in DOMAIN tlb : b # a => tlb'[b] = tlb[b]
        BY <3>2 DEF Filled
      <3>10. a.n < pos[a.reg]
        BY <3>1, OwnedBelow DEF IInv
      <3>11. DOMAIN tlb' \subseteq Addresses
        BY <3>9 DEF IInv, TlbOK
      <3>12. ASSUME NEW b \in DOMAIN tlb'
             PROVE  tlb'[b] \in Frames /\ b.n < pos'[b.reg] /\ (b \in Owned' => tlb'[b] = FrameOf(vm', b))
        <4>1. CASE b = a
          BY <4>1, <1>1, <3>1, <3>8, <3>9, <3>10
        <4>2. CASE b # a
          <5>1. b \in DOMAIN tlb /\ b \in Addresses /\ tlb'[b] = tlb[b] /\ FrameOf(vm', b) = FrameOf(vm, b)
            BY <4>2, <3>8, <3>9 DEF IInv, TlbOK
          <5> QED BY <5>1, <1>1, <3>7 DEF IInv, TlbOK
        <4> QED BY <4>1, <4>2
      <3>13. TlbOK'
        BY <3>11, <3>12 DEF TlbOK
      <3>14. Tree(vm)' /\ (cr2 \in Addresses \cup {NULL})'
        BY <3>2, <3>4, <3>5 DEF IInv
      <3> QED BY <3>7, <3>13, <3>14 DEF IInv
    <2> QED BY <2>4, <2>5
  <1> QED BY <1>2, <1>3 DEF Store

LEMMA NextKeeps ==
    ASSUME IInv, [Next]_vars
    PROVE  IInv'
  <1>1. CASE AllocKernStackMem
    <2>1. "stack" \in Regions /\ PAGE_TABLE_SIZE \in Nat \ {0}
      BY PagingAssumption DEF Regions
    <2> QED BY <1>1, <2>1, AllocKeeps DEF AllocKernStackMem
  <1>2. CASE \E size \in Sizes : AllocKernHeap(size)
    <2>1. PICK size \in Sizes : Alloc("heap", size)
      BY <1>2 DEF AllocKernHeap
    <2>2. "heap" \in Regions /\ size \in Nat \ {0}
      BY PagingAssumption DEF Regions
    <2> QED BY <2>1, <2>2, AllocKeeps
  <1>3. CASE \E r \in live : FreeKernStackMem(r) \/ FreeKernHeap(r)
    <2>1. "stack" \in Regions /\ "heap" \in Regions
      BY DEF Regions
    <2> QED BY <1>3, <2>1, FreeKeeps DEF FreeKernStackMem, FreeKernHeap
  <1>4. CASE alloc_virt_4k_chunk
    BY <1>4, AllocChunkKeeps
  <1>5. CASE free_virt_4k_chunk
    BY <1>5, FreeChunkKeeps
  <1>6. CASE Return
    BY <1>6, ReturnKeeps
  <1>7. CASE StoreOwned
    <2>1. PICK a \in Owned, word \in Words : Store(a, word)
      BY <1>7 DEF StoreOwned
    <2>2. a \in Addresses
      BY <2>1, OwnedBelow DEF IInv
    <2> QED BY <2>1, <2>2, StoreKeeps
  <1>8. CASE StoreBeyond
    BY <1>8, StoreKeeps DEF StoreBeyond
  <1>9. CASE UNCHANGED vars
    <2>1. /\ vm' = vm /\ pos' = pos /\ call' = call /\ live' = live /\ cr2' = cr2 /\ tlb' = tlb
          /\ Owned' = Owned /\ Busy' = Busy
      BY <1>9 DEF vars, Owned, Busy
    <2>2. PosOK' /\ CallOK' /\ LiveOK'
      BY <2>1 DEF IInv, PosOK, CallOK, LiveOK
    <2>3. MarksOK' /\ LazyOK' /\ TlbOK'
      BY <2>1 DEF IInv, MarksOK, LazyOK, TlbOK, Up
    <2> QED BY <2>1, <2>2, <2>3 DEF IInv
  <1> QED BY <1>1, <1>2, <1>3, <1>4, <1>5, <1>6, <1>7, <1>8, <1>9 DEF Next

\* The invariant that the theorems below rest on: the tables are a tree, the
\* ranges lie apart below their region's position, and the marks of the tables
\* are those of the ranges and of what the call in progress has done.
THEOREM PagingInvariant == Spec => []IInv
  BY InitInv, NextKeeps, PTL DEF Spec

-----------------------------------------------------------------------------
(***************************************************************************)
(* What the runs check of module Paging.                                   *)
(***************************************************************************)
LEMMA TypeFacts ==
    ASSUME IInv
    PROVE  TypeOK
  <1>1. vm \in Machines /\ call \in [op : {"none", "alloc", "free"}, range : Ranges, at : Nat]
    BY DEF IInv, Tree, CallOK
  <1>2. \A reg \in Regions : pos[reg] \in 0 .. Room[reg]
    <2>1. \A reg \in Regions : Room[reg] \in Nat
      BY PagingAssumption
    <2> QED BY <2>1 DEF IInv, PosOK
  <1>3. call.at \in call.range.start .. call.range.end
    BY <1>1 DEF IInv, CallOK, Ranges
  <1>4. ASSUME NEW r \in live PROVE PagesOf(r) # {} /\ r.end <= pos[r.reg]
    <2>1. r \in Ranges /\ r.start < r.end /\ r.end <= pos[r.reg]
      BY DEF IInv, LiveOK
    <2>2. r.reg \in Regions /\ r.start \in Nat /\ r.end \in Nat /\ pos[r.reg] \in 0 .. Room[r.reg]
      BY <2>1, <1>2 DEF Ranges
    <2>3. Room[r.reg] \in Nat
      BY <2>2, PagingAssumption
    <2>4. PICK a : a = [reg |-> r.reg, n |-> r.start]
      OBVIOUS
    <2>5. r.start \in 0 .. Room[r.reg] - 1
      BY <2>1, <2>2, <2>3
    <2>6. a \in Addresses
      BY <2>2, <2>4, <2>5 DEF Addresses
    <2>7. a.reg = r.reg /\ a.n = r.start
      BY <2>4
    <2>8. a \in PagesOf(r)
      BY <2>1, <2>2, <2>6, <2>7, PagesFacts
    <2> QED BY <2>1, <2>8
  <1>5. cr2 \in Addresses \cup {NULL} /\ DOMAIN tlb \subseteq Addresses /\ \A a \in DOMAIN tlb : tlb[a] \in Frames
    BY DEF IInv, TlbOK
  <1> QED BY <1>1, <1>2, <1>3, <1>4, <1>5 DEF TypeOK, Machines

\* The entry that leads to the frame: where, and at which index.
SlotOf(v, l, a) ==
    IF l = 2 THEN <<a.reg, l3(a)>> ELSE IF l = 1 THEN <<TableL2(v, a), l2(a)>> ELSE <<TableL1(v, a), l1(a)>>

LEMMA SlotFacts ==
    ASSUME Tree(vm), NEW f \in Frames
    PROVE  /\ \A l \in Levels, a \in Addresses : Leads(vm, l, a) = f => SlotOf(vm, l, a) \in Slots(f)
           /\ \A s \in Slots(f) : \E l \in Levels, a \in Addresses : Leads(vm, l, a) = f /\ s = SlotOf(vm, l, a)
  <1>1. vm \in Machines /\ BeyondIsClear(vm) /\ f # NULL
    BY PagingAssumption DEF Tree
  <1>2. ASSUME NEW l \in Levels, NEW a \in Addresses, Leads(vm, l, a) = f
        PROVE  SlotOf(vm, l, a) \in Slots(f)
    <2>1. l1(a) \in Index /\ l2(a) \in Index /\ l3(a) \in Index /\ a.reg \in Regions
      BY Digits, AddressFacts
    <2>2. CASE l = 2
      <3>1. vm.p3[a.reg][l3(a)].base = f
        BY <1>2, <2>2 DEF Leads, TableL2
      <3> QED BY <2>1, <2>2, <3>1 DEF SlotOf, Slots
    <2>3. CASE l = 1
      <3>1. TableL1(vm, a) = f
        BY <1>2, <2>3 DEF Leads
      <3>2. TableL2(vm, a) # NULL /\ vm.rows[TableL2(vm, a)][l2(a)].base = f
        BY <1>1, <3>1 DEF TableL1, EntryL2
      <3>3. TableL2(vm, a) \in TablesL2
        BY <3>2 DEF TablesL2
      <3> QED BY <2>1, <2>3, <3>2, <3>3 DEF SlotOf, Slots
    <2>4. CASE l = 0
      <3>1. FrameOf(vm, a) = f
        BY <1>2, <2>4 DEF Leads
      <3>2. TableL1(vm, a) # NULL /\ vm.rows[TableL1(vm, a)][l1(a)].base = f
        BY <1>1, <3>1 DEF FrameOf, EntryL1
      <3>3. TableL1(vm, a) \in TablesL1
        BY <3>2 DEF TablesL1
      <3> QED BY <2>1, <2>4, <3>2, <3>3 DEF SlotOf, Slots
    <2> QED BY <2>2, <2>3, <2>4 DEF Levels
  <1>3. ASSUME NEW s \in Slots(f)
        PROVE  \E l \in Levels, a \in Addresses : Leads(vm, l, a) = f /\ s = SlotOf(vm, l, a)
    <2>1. 0 \in Levels /\ 1 \in Levels /\ 2 \in Levels
      BY DEF Levels
    <2>2. CASE s \in Regions \X Index /\ vm.p3[s[1]][s[2]].base = f
      <3>1. PICK reg \in Regions, i \in Index : s = <<reg, i>>
        BY <2>2
      <3>2. vm.p3[reg][i].base = f
        BY <2>2, <3>1
      <3>3. PICK a \in Addresses : a.reg = reg /\ l3(a) = i
        BY <1>1, <3>2 DEF BeyondIsClear
      <3>4. Leads(vm, 2, a) = f /\ s = SlotOf(vm, 2, a)
        BY <3>1, <3>2, <3>3 DEF Leads, TableL2, SlotOf
      <3> QED BY <2>1, <3>4
    <2>3. CASE s \in (TablesL2 \cup TablesL1) \X Index /\ vm.rows[s[1]][s[2]].base = f
      <3>1. PICK t \in TablesL2 \cup TablesL1, i \in Index : s = <<t, i>>
        BY <2>3
      <3>2. vm.rows[t][i].base = f
        BY <2>3, <3>1
      <3>3. CASE t \in TablesL2
        <4>1. PICK a \in Addresses : TableL2(vm, a) = t /\ t # NULL
          BY <3>3 DEF TablesL2
        <4>2. RowL2(vm, a)[i].base = f
          BY <3>2, <4>1 DEF RowL2
        <4>3. PICK b \in Addresses : SameL2(a, b) /\ l2(b) = i
          BY <1>1, <4>1, <4>2 DEF BeyondIsClear
        <4>4. TableL2(vm, b) = t
          BY <4>1, <4>3 DEF SameL2, TableL2
        <4>5. TableL1(vm, b) = f
          BY <3>2, <4>1, <4>3, <4>4 DEF TableL1, EntryL2
        <4>6. Leads(vm, 1, b) = f /\ s = SlotOf(vm, 1, b)
          BY <3>1, <4>3, <4>4, <4>5 DEF Leads, SlotOf
        <4> QED BY <2>1, <4>6
      <3>4. CASE t \in TablesL1
        <4>1. PICK a \in Addresses : TableL1(vm, a) = t /\ t # NULL
          BY <3>4 DEF TablesL1
        <4>2. RowL1(vm, a)[i].base = f
          BY <3>2, <4>1 DEF RowL1
        <4>3. PICK b \in Addresses : SameL1(a, b) /\ l1(b) = i
          BY <1>1, <4>1, <4>2 DEF BeyondIsClear
        <4>4. TableL1(vm, b) = t
          BY <4>1, <4>3 DEF SameL1, SameL2, TableL1, EntryL2, TableL2
        <4>5. FrameOf(vm, b) = f
          BY <3>2, <4>1, <4>3, <4>4 DEF FrameOf, EntryL1
        <4>6. Leads(vm, 0, b) = f /\ s = SlotOf(vm, 0, b)
          BY <3>1, <4>3, <4>4, <4>5 DEF Leads, SlotOf
        <4> QED BY <2>1, <4>6
      <3> QED BY <3>3, <3>4
    <2> QED BY <2>2, <2>3 DEF Slots
  <1> QED BY <1>2, <1>3

LEMMA TreeAccounts ==
    ASSUME Tree(vm)
    PROVE  FramesAccounted
  <1>1. Accounted(vm)
    BY DEF Tree
  <1>2. ASSUME NEW f \in Frames, f \in vm.free PROVE Slots(f) = {}
    BY <1>1, <1>2, SlotFacts DEF Accounted
  <1>3. ASSUME NEW f \in Frames, f \notin vm.free PROVE Cardinality(Slots(f)) = 1
    <2>1. PICK l \in Levels, a \in Addresses : Leads(vm, l, a) = f
      BY <1>1, <1>3 DEF Accounted
    <2>2. f # NULL
      BY PagingAssumption
    <2>3. ASSUME NEW s \in Slots(f) PROVE s = SlotOf(vm, l, a)
      <3>1. PICK m \in Levels, b \in Addresses : Leads(vm, m, b) = f /\ s = SlotOf(vm, m, b)
        BY SlotFacts
      <3>2. l = m /\ Same(l, a, b)
        BY <1>1, <2>1, <2>2, <3>1 DEF Accounted
      <3>3. SlotOf(vm, l, a) = SlotOf(vm, l, b)
        BY <3>2 DEF Same, SlotOf, SameL2, SameL1, TableL2
      <3> QED BY <3>1, <3>2, <3>3
    <2>4. Slots(f) = {SlotOf(vm, l, a)}
      BY <2>1, <2>3, SlotFacts
    <2> QED BY <2>4, FS_Singleton
  <1> QED BY <1>2, <1>3 DEF FramesAccounted

\* Table entries point to frames, positions stay inside their region, and the
\* loops of alloc_virt_4k_chunk and free_virt_4k_chunk stay inside their range.
THEOREM PagingTypeCorrect == Spec => []TypeOK
  BY PagingInvariant, TypeFacts, PTL

\* Each frame is free or what one entry of one table leads to: the tables that
\* walkPageTable, alloc and free work on share no frame and lose none.
THEOREM PagingFramesAccounted == Spec => []FramesAccounted
  <1>1. IInv => FramesAccounted
    BY TreeAccounts DEF IInv
  <1> QED BY <1>1, PagingInvariant, PTL

\* Between calls the addresses the page fault handler serves are those handed
\* out, though a level 2 mark stands for a whole table of them.
THEOREM PagingMarkedIsOwned == Spec => []MarkedIsOwned
  <1>1. IInv => MarkedIsOwned
    <2> SUFFICES ASSUME IInv, call = Idle, Up PROVE Marked = Owned
      BY DEF MarkedIsOwned
    <2>1. \A a \in Addresses : a \in Marked <=> IsMarked(vm, a)
      BY MarkFacts DEF Marked
    <2>2. Busy = {}
      BY DEF Busy, Idle
    <2>3. \A a \in Addresses : a \in Marked <=> a \in Owned
      BY <2>1, <2>2 DEF IInv, MarksOK
    <2>4. Marked \subseteq Addresses /\ Owned \subseteq Addresses
      BY OwnedBelow DEF Marked, IInv
    <2> QED BY <2>3, <2>4
  <1> QED BY <1>1, PagingInvariant, PTL

\* No page somebody owns is reached through a translation from before it was
\* given back: free_virt_4k_chunk's missing invlpg does no harm while
\* KernStackPos and KernHeapPos only grow.
THEOREM PagingNoStaleTranslation == Spec => []NoStaleTranslation
  <1>1. IInv => NoStaleTranslation
    BY DEF IInv, TlbOK, NoStaleTranslation
  <1> QED BY <1>1, PagingInvariant, PTL

-----------------------------------------------------------------------------
(***************************************************************************)
(* What holds once what the handler reads at address 0 happens to be a     *)
(* mark: "Page fault on unallocated address" is true, and the tables       *)
(* implement module AddressSpace.                                          *)
(***************************************************************************)
\* What a store may do.
LEMMA StoreOutcome ==
    ASSUME IInv, ZeroAvl \subseteq {TRUE}, NEW a \in Addresses, NEW word \in Words,
           a \in Owned \/ (call = Idle /\ a.n >= pos[a.reg]), Store(a, word)
    PROVE  /\ Served(vm, vm') /\ live' = live
           /\ \/ /\ vm'.fault = "none" /\ a \in Owned /\ cr2' = cr2
                 /\ FrameOf(vm', a) \in Frames /\ vm'.rows[FrameOf(vm', a)] = word
                 /\ \A b \in Addresses : b # a => PageKept(vm, vm', b)
              \/ vm'.fault = "frame 0" /\ PagesKept(vm, vm') /\ vm.free \subseteq {Granted(vm)} /\ cr2' = cr2
              \/ vm'.fault = "unallocated" /\ PagesKept(vm, vm') /\ ~IsMarked(vm, a) /\ cr2' = a
  <1>1. Up /\ Tree(vm) /\ live' = live /\ vm.fault = "none"
    BY DEF Store, IInv, Up
  <1>2. CASE StoreCached(a, word)
    <2>1. PICK f \in Frames : f = tlb[a] /\ f = FrameOf(vm, a) /\ a \in Owned
      BY <1>2, CachedIsOwned DEF StoreCached
    <2>2. PICK w \in Machines :
             /\ w = [vm EXCEPT !.rows[f] = word] /\ Tree(w) /\ w.fault = vm.fault /\ w.free = vm.free
             /\ MarksKept(vm, w) /\ w.rows[f] = word
             /\ \A b \in Addresses : FrameOf(w, b) = FrameOf(vm, b) /\ (b # a => PageKept(vm, w, b))
      BY <1>1, <2>1, StoreStep
    <2>3. vm' = w /\ cr2' = cr2
      BY <1>2, <2>1, <2>2 DEF StoreCached
    <2>4. Served(vm, vm')
      BY <2>2, <2>3 DEF MarksKept, Served
    <2>5. FrameOf(vm', a) = f /\ vm'.rows[f] = word /\ vm'.fault = "none"
      BY <1>1, <2>1, <2>2, <2>3
    <2>6. \A b \in Addresses : b # a => PageKept(vm, vm', b)
      BY <2>2, <2>3
    <2> QED BY <1>1, <2>1, <2>3, <2>4, <2>5, <2>6
  <1>3. CASE StoreWalking(a, word)
    <2>1. PICK zero \in ZeroAvl :
             LET v == IF FrameOf(vm, a) # NULL THEN vm ELSE pf_irq_handler(vm, a, zero)
             IN  IF v.fault = "none"
                 THEN /\ vm' = [v EXCEPT !.rows[FrameOf(v, a)] = word]
                      /\ tlb' = Filled(a, FrameOf(v, a)) /\ UNCHANGED cr2
                 ELSE /\ vm' = v /\ UNCHANGED tlb
                      /\ cr2' = IF v.fault = "unallocated" THEN a ELSE cr2
      BY <1>3 DEF StoreWalking
    <2>2. zero = TRUE /\ zero \in BOOLEAN
      OBVIOUS
    <2>3. PICK v \in Machines :
             /\ v = (IF FrameOf(vm, a) # NULL THEN vm ELSE pf_irq_handler(vm, a, zero))
             /\ Tree(v) /\ Served(vm, v)
             /\ \A b \in Addresses :
                   /\ b # a => PageKept(vm, v, b)
                   /\ FrameOf(vm, b) # NULL => v.rows[FrameOf(vm, b)] = vm.rows[FrameOf(vm, b)]
             /\ \/ v.fault = "unallocated" /\ Unallocated(vm, a, zero) /\ PagesKept(vm, v)
                \/ v.fault = "frame 0" /\ PagesKept(vm, v) /\ vm.free \subseteq {Granted(vm)}
                \/ v.fault = "none" /\ a \in Owned /\ FrameOf(v, a) \in Frames
      BY <1>1, <2>2, WalkFacts
    <2>4. CASE v.fault # "none"
      <3>1. vm' = v /\ cr2' = IF v.fault = "unallocated" THEN a ELSE cr2
        BY <2>1, <2>3, <2>4
      <3>2. Unallocated(vm, a, zero) => ~IsMarked(vm, a)
        BY <2>2, MarkFacts
      <3> QED BY <1>1, <2>3, <2>4, <3>1, <3>2
    <2>5. CASE v.fault = "none"
      <3>1. PICK f \in Frames : f = FrameOf(v, a) /\ a \in Owned
        BY <2>3, <2>5
      <3>2. vm' = [v EXCEPT !.rows[f] = word] /\ cr2' = cr2
        BY <2>1, <2>3, <2>5, <3>1
      <3>3. Tree(v)
        BY <2>3
      <3>4. PICK w \in Machines :
               /\ w = [v EXCEPT !.rows[f] = word] /\ Tree(w) /\ w.fault = v.fault /\ w.free = v.free
               /\ MarksKept(v, w) /\ w.rows[f] = word
               /\ \A b \in Addresses : FrameOf(w, b) = FrameOf(v, b) /\ (b # a => PageKept(v, w, b))
        BY <3>1, <3>3, StoreStep
      <3>5. vm' = w
        BY <3>2, <3>4
      <3>6. Served(vm, vm')
        BY <2>3, <3>4, <3>5 DEF MarksKept, Served
      <3>7. FrameOf(vm', a) = f /\ vm'.rows[f] = word /\ vm'.fault = "none"
        BY <2>5, <3>1, <3>4, <3>5
      <3>8. \A b \in Addresses : b # a => PageKept(vm, vm', b)
        <4>1. ASSUME NEW b \in Addresses, b # a PROVE PageKept(vm, vm', b)
          <5>1. PageKept(vm, v, b)
            BY <2>3, <4>1
          <5>2. PageKept(v, vm', b)
            BY <3>4, <3>5, <4>1
          <5> QED BY <5>1, <5>2 DEF PageKept
        <4> QED BY <4>1
      <3> QED BY <1>1, <3>1, <3>2, <3>6, <3>7, <3>8
    <2> QED BY <2>4, <2>5
  <1> QED BY <1>2, <1>3 DEF Store

\* What a turn of a loop may do.
LEMMA AllocOutcome ==
    ASSUME IInv, alloc_virt_4k_chunk
    PROVE  /\ PagesKept(vm, vm') /\ live' = live /\ cr2' = cr2
           /\ \/ vm'.fault = "none" /\ \A b \in Addresses : IsMarked(vm, b) => IsMarked(vm', b)
              \/ vm'.fault = "frame 0" /\ vm.free \subseteq {Granted(vm)} /\ MarksKept(vm, vm')
  <1>1. call.op = "alloc" /\ Up /\ Left > 0 /\ vm.fault = "none" /\ Tree(vm) /\ live' = live /\ cr2' = cr2
    BY DEF alloc_virt_4k_chunk, Up, IInv
  <1>2. PICK a \in Addresses : a = At /\ ~Lazy(vm, a)
    BY <1>1, AtFacts
  <1>3. PICK left : left = Left
    OBVIOUS
  <1>4. PICK w \in Machines :
           /\ w = alloc_turn(vm, a, left) /\ Tree(w) /\ PagesKept(vm, w)
           /\ \/ w.fault = "none" /\ MarksAdded(vm, w, a, Spans(vm, a, left))
              \/ w.fault = "frame 0" /\ vm.free \subseteq {Granted(vm)} /\ MarksKept(vm, w)
    BY <1>1, <1>2, AllocTurn
  <1>5. vm' = w
    BY <1>2, <1>3, <1>4 DEF alloc_virt_4k_chunk
  <1> QED BY <1>1, <1>4, <1>5 DEF MarksAdded

LEMMA FreeOutcome ==
    ASSUME IInv, free_virt_4k_chunk
    PROVE  /\ vm'.fault = vm.fault /\ live' = live /\ cr2' = cr2 /\ Tree(vm')
           /\ \A b \in Addresses :
                 /\ IsMarked(vm', b) => IsMarked(vm, b)
                 /\ ~IsMarked(vm', b) => FrameOf(vm', b) = NULL
                 /\ IsMarked(vm', b) => PageKept(vm, vm', b)
  <1>1. call.op = "free" /\ Up /\ Left > 0 /\ Tree(vm) /\ live' = live /\ cr2' = cr2
        /\ vm' = free_turn(vm, At)
    BY DEF free_virt_4k_chunk, IInv
  <1>2. PICK a \in Addresses : a = At
    BY <1>1, AtFacts
  <1>3. PICK w \in Machines :
           /\ w = free_turn(vm, a) /\ Tree(w) /\ w.fault = vm.fault
           /\ \A b \in Addresses :
                 /\ b # a => PageKept(vm, w, b)
                 /\ FrameOf(w, a) = NULL
                 /\ FrameOf(vm, b) # NULL => w.rows[FrameOf(vm, b)] = vm.rows[FrameOf(vm, b)]
                 /\ IsMarked(w, b) <=> (IsMarked(vm, b) /\ b # a /\ ~(Lazy(vm, a) /\ SameL1(a, b)))
                 /\ Lazy(w, b) <=> (Lazy(vm, b) /\ ~(Lazy(vm, a) /\ SameL1(a, b)))
    BY <1>1, FreeTurn
  <1>4. vm' = w
    BY <1>1, <1>2, <1>3
  <1> QED BY <1>1, <1>3, <1>4, UsedIsMarked

\* "Page fault on unallocated address" is said of no address that is handed
\* out, once the entry read at address 0 happens to carry the mark.
THEOREM PagingFatalMeansUnallocated ==
    ASSUME ZeroAvl \subseteq {TRUE}
    PROVE  Spec => []FatalMeansUnallocated
  <1>1. Init => FatalMeansUnallocated
    BY DEF Init, FatalMeansUnallocated
  <1>2. IInv /\ FatalMeansUnallocated /\ [Next]_vars => FatalMeansUnallocated'
    <2> SUFFICES ASSUME IInv, FatalMeansUnallocated, [Next]_vars PROVE FatalMeansUnallocated'
      OBVIOUS
    <2>1. ASSUME Up, vm' = vm PROVE FatalMeansUnallocated'
      BY <2>1 DEF Up, FatalMeansUnallocated
    <2>2. CASE AllocKernStackMem
      BY <2>1, <2>2 DEF AllocKernStackMem, Alloc
    <2>3. CASE \E size \in Sizes : AllocKernHeap(size)
      BY <2>1, <2>3 DEF AllocKernHeap, Alloc
    <2>4. CASE \E r \in live : FreeKernStackMem(r) \/ FreeKernHeap(r)
      BY <2>1, <2>4 DEF FreeKernStackMem, FreeKernHeap, Free
    <2>5. CASE alloc_virt_4k_chunk
      BY <2>5, AllocOutcome DEF FatalMeansUnallocated
    <2>6. CASE free_virt_4k_chunk
      <3>1. vm.fault = "none" /\ vm'.fault = vm.fault
        BY <2>6, FreeOutcome DEF free_virt_4k_chunk, Up
      <3> QED BY <3>1 DEF FatalMeansUnallocated
    <2>7. CASE Return
      BY <2>1, <2>7 DEF Return
    <2>8. ASSUME NEW a \in Addresses, NEW word \in Words,
                 a \in Owned \/ (call = Idle /\ a.n >= pos[a.reg]), Store(a, word)
          PROVE  FatalMeansUnallocated'
      <3>1. live' = live /\ (vm'.fault = "unallocated" => ~IsMarked(vm, a) /\ cr2' = a)
        BY <2>8, StoreOutcome
      <3>2. a \in Owned => IsMarked(vm, a)
        BY <2>8 DEF Store, IInv, MarksOK
      <3>3. Owned' = Owned
        BY <3>1 DEF Owned
      <3> QED BY <3>1, <3>2, <3>3 DEF FatalMeansUnallocated
    <2>9. CASE StoreOwned
      BY <2>8, <2>9, OwnedBelow DEF StoreOwned, IInv
    <2>10. CASE StoreBeyond
      BY <2>8, <2>10 DEF StoreBeyond
    <2>11. CASE UNCHANGED vars
      <3>1. vm' = vm /\ cr2' = cr2 /\ Owned' = Owned
        BY <2>11 DEF vars, Owned
      <3> QED BY <3>1 DEF FatalMeansUnallocated
    <2> QED BY <2>2, <2>3, <2>4, <2>5, <2>6, <2>7, <2>9, <2>10, <2>11 DEF Next
  <1> QED BY <1>1, <1>2, PagingInvariant, PTL DEF Spec

\* What is stored in the pages, as module AddressSpace sees it.
Contents(v) == [a \in {b \in Addresses : FrameOf(v, b) # NULL} |-> v.rows[FrameOf(v, a)]]

LEMMA ContentsKept ==
    ASSUME NEW v, NEW w, PagesKept(v, w)
    PROVE  Contents(w) = Contents(v)
  <1>1. {b \in Addresses : FrameOf(w, b) # NULL} = {b \in Addresses : FrameOf(v, b) # NULL}
    BY DEF PagesKept, PageKept
  <1>2. \A a \in {b \in Addresses : FrameOf(v, b) # NULL} : w.rows[FrameOf(w, a)] = v.rows[FrameOf(v, a)]
    BY DEF PagesKept, PageKept
  <1> QED BY <1>1, <1>2 DEF Contents

Among(f, M) == [a \in DOMAIN f \cap M |-> f[a]]

LEMMA ContentsReleased ==
    ASSUME NEW v, NEW w, NEW M,
           \A b \in Addresses : /\ b \notin M => FrameOf(w, b) = NULL
                                /\ b \in M => PageKept(v, w, b)
    PROVE  Contents(w) = Among(Contents(v), M)
  <1>1. DOMAIN Contents(v) = {b \in Addresses : FrameOf(v, b) # NULL}
    BY DEF Contents
  <1>2. {b \in Addresses : FrameOf(w, b) # NULL} = DOMAIN Contents(v) \cap M
    BY <1>1 DEF PageKept
  <1>3. \A a \in DOMAIN Contents(v) \cap M : w.rows[FrameOf(w, a)] = Contents(v)[a]
    BY <1>1 DEF PageKept, Contents
  <1> QED BY <1>2, <1>3 DEF Contents, Among

LEMMA ContentsStored ==
    ASSUME NEW v, NEW w, NEW a \in Addresses, NEW word,
           FrameOf(w, a) # NULL, w.rows[FrameOf(w, a)] = word,
           \A b \in Addresses : b # a => PageKept(v, w, b)
    PROVE  Contents(w) = [b \in DOMAIN Contents(v) \cup {a} |-> IF b = a THEN word ELSE Contents(v)[b]]
  <1>1. DOMAIN Contents(v) = {b \in Addresses : FrameOf(v, b) # NULL}
    BY DEF Contents
  <1>2. {b \in Addresses : FrameOf(w, b) # NULL} = DOMAIN Contents(v) \cup {a}
    BY <1>1 DEF PageKept
  <1>3. \A b \in DOMAIN Contents(v) \cup {a} :
           w.rows[FrameOf(w, b)] = IF b = a THEN word ELSE Contents(v)[b]
    BY <1>1 DEF PageKept, Contents
  <1> QED BY <1>2, <1>3 DEF Contents

LEMMA MarkedFacts ==
    /\ Marked = {a \in Addresses : IsMarked(vm, a)}
    /\ Marked' = {a \in Addresses : IsMarked(vm', a)}
  <1>1. \A v : \A a \in Addresses : ~Unallocated(v, a, TRUE) <=> IsMarked(v, a)
    BY MarkFacts
  <1> QED BY <1>1 DEF Marked

LEMMA SpareFacts ==
    ASSUME vm.free \subseteq {Granted(vm)}
    PROVE  ~(Cardinality(vm.free) >= 2)
  <1>1. vm.free = {} \/ vm.free = {Granted(vm)}
    OBVIOUS
  <1>2. Cardinality(vm.free) = 0 \/ Cardinality(vm.free) = 1
    BY <1>1, FS_EmptySet, FS_Singleton
  <1> QED BY <1>2

\* A turn of the loop of alloc_virt_4k_chunk is Extend, or there is no memory.
LEMMA AllocRefines ==
    ASSUME IInv, alloc_virt_4k_chunk
    PROVE  AS!Next
  <1>1. vm.fault = "none" /\ cr2' = cr2 /\ Contents(vm') = Contents(vm)
    BY AllocOutcome, ContentsKept DEF alloc_virt_4k_chunk, Up
  <1>2. CASE vm'.fault = "none" /\ \A b \in Addresses : IsMarked(vm, b) => IsMarked(vm', b)
    <2>1. Marked \subseteq Marked' /\ Marked' \subseteq Addresses
      BY <1>2, MarkedFacts
    <2>2. AS!Extend
      BY <1>1, <1>2, <2>1 DEF AS!Extend, Contents, Up
    <2> QED BY <1>1, <2>2 DEF AS!Next, Up
  <1>3. CASE vm'.fault = "frame 0" /\ vm.free \subseteq {Granted(vm)} /\ MarksKept(vm, vm')
    <2>1. Marked' = Marked
      BY <1>3, MarkedFacts DEF MarksKept
    <2>2. AS!Halt
      BY <1>1, <1>3, <2>1 DEF AS!Halt, Contents, Up
    <2>3. AS!Exhausted
      BY <1>1, <1>3, <2>2, SpareFacts DEF AS!Exhausted
    <2> QED BY <1>1, <2>3 DEF AS!Next, Up
  <1> QED BY <1>2, <1>3, AllocOutcome

\* A turn of the loop of free_virt_4k_chunk is Release.
LEMMA FreeRefines ==
    ASSUME IInv, free_virt_4k_chunk
    PROVE  AS!Next
  <1>1. vm.fault = "none" /\ vm'.fault = "none" /\ cr2' = cr2
    BY FreeOutcome DEF free_virt_4k_chunk, Up
  <1>2. Marked' \subseteq Marked
    BY FreeOutcome, MarkedFacts
  <1>3. \A b \in Addresses : /\ b \notin Marked' => FrameOf(vm', b) = NULL
                             /\ b \in Marked' => PageKept(vm, vm', b)
    BY FreeOutcome, MarkedFacts
  <1>4. Contents(vm') = [a \in DOMAIN Contents(vm) \cap Marked' |-> Contents(vm)[a]]
    <2>1. Contents(vm') = Among(Contents(vm), Marked')
      BY <1>3, ContentsReleased
    <2> QED BY <2>1 DEF Among
  <1>5. AS!Release
    BY <1>1, <1>2, <1>4 DEF AS!Release, Contents, Up
  <1> QED BY <1>1, <1>5 DEF AS!Next, Up

\* A store is Store to a page that was handed out; any other stops the machine.
LEMMA StoreRefines ==
    ASSUME IInv, ZeroAvl \subseteq {TRUE}, NEW a \in Addresses, NEW word \in Words,
           a \in Owned \/ (call = Idle /\ a.n >= pos[a.reg]), Store(a, word)
    PROVE  AS!Next
  <1>1. vm.fault = "none" /\ (a \in Owned => a \in Marked)
    BY MarkedFacts DEF Store, Up, IInv, MarksOK
  <1>2. Served(vm, vm') /\ Marked' = Marked
    BY StoreOutcome, MarkedFacts DEF Served
  <1>3. CASE /\ vm'.fault = "none" /\ a \in Owned /\ cr2' = cr2
             /\ FrameOf(vm', a) \in Frames /\ vm'.rows[FrameOf(vm', a)] = word
             /\ \A b \in Addresses : b # a => PageKept(vm, vm', b)
    <2>1. FrameOf(vm', a) # NULL
      BY <1>3, PagingAssumption
    <2>2. Contents(vm') = [b \in DOMAIN Contents(vm) \cup {a} |-> IF b = a THEN word ELSE Contents(vm)[b]]
      BY <1>3, <2>1, ContentsStored
    <2>3. AS!Store(a, word)
      BY <1>1, <1>2, <1>3, <2>2 DEF AS!Store, Contents, Up
    <2> QED BY <1>1, <1>3, <2>3 DEF AS!Next, Up
  <1>4. CASE vm'.fault = "frame 0" /\ PagesKept(vm, vm') /\ vm.free \subseteq {Granted(vm)} /\ cr2' = cr2
    <2>1. Contents(vm') = Contents(vm)
      BY <1>4, ContentsKept
    <2>2. AS!Halt
      BY <1>2, <1>4, <2>1 DEF AS!Halt, Contents, Up
    <2>3. AS!Exhausted
      BY <1>4, <2>2, SpareFacts DEF AS!Exhausted
    <2> QED BY <1>1, <2>3 DEF AS!Next, Up
  <1>5. CASE vm'.fault = "unallocated" /\ PagesKept(vm, vm') /\ ~IsMarked(vm, a) /\ cr2' = a
    <2>1. Contents(vm') = Contents(vm) /\ a \notin Marked
      BY <1>5, ContentsKept, MarkedFacts
    <2>2. AS!Halt
      BY <1>2, <1>5, <2>1 DEF AS!Halt, Contents, Up
    <2>3. AS!Stray(a)
      BY <1>5, <2>1, <2>2 DEF AS!Stray
    <2> QED BY <1>1, <2>3 DEF AS!Next, Up
  <1> QED BY <1>3, <1>4, <1>5, StoreOutcome

\* A page that was handed out keeps what is stored in it: the turns of the
\* loops and the page fault handler are steps of module AddressSpace.
THEOREM PagingImplementsAddressSpace ==
    ASSUME ZeroAvl \subseteq {TRUE}
    PROVE  Spec => ImplementsAddressSpace
  <1>1. Init => AS!Init
    <2> SUFFICES ASSUME Init PROVE AS!Init
      OBVIOUS
    <2>1. IInv /\ vm.fault = "none" /\ vm.free = Frames /\ Owned = {} /\ call = Idle /\ cr2 = NULL
      BY InitInv DEF Init, Owned
    <2>2. Busy = {}
      BY <2>1 DEF Busy, Idle
    <2>3. \A a \in Addresses : ~IsMarked(vm, a)
      BY <2>1, <2>2 DEF IInv, MarksOK, Up
    <2>4. Marked = {}
      BY <2>3, MarkedFacts
    <2>5. {b \in Addresses : FrameOf(vm, b) # NULL} = {}
      BY <2>1, <2>3, UsedIsMarked DEF IInv
    <2>6. [a \in {} |-> vm.rows[FrameOf(vm, a)]] = <<>>
      OBVIOUS
    <2> QED BY <2>1, <2>4, <2>5, <2>6 DEF AS!Init, Up
  <1>2. IInv /\ [Next]_vars => [AS!Next]_(AS!vars)
    <2> SUFFICES ASSUME IInv, [Next]_vars PROVE [AS!Next]_(AS!vars)
      OBVIOUS
    <2>1. ASSUME vm' = vm, cr2' = cr2 PROVE UNCHANGED AS!vars
      BY <2>1 DEF AS!vars, Marked, Up
    <2>2. CASE AllocKernStackMem
      BY <2>1, <2>2 DEF AllocKernStackMem, Alloc
    <2>3. CASE \E size \in Sizes : AllocKernHeap(size)
      BY <2>1, <2>3 DEF AllocKernHeap, Alloc
    <2>4. CASE \E r \in live : FreeKernStackMem(r) \/ FreeKernHeap(r)
      BY <2>1, <2>4 DEF FreeKernStackMem, FreeKernHeap, Free
    <2>5. CASE alloc_virt_4k_chunk
      BY <2>5, AllocRefines
    <2>6. CASE free_virt_4k_chunk
      BY <2>6, FreeRefines
    <2>7. CASE Return
      BY <2>1, <2>7 DEF Return
    <2>8. CASE StoreOwned
      BY <2>8, StoreRefines, OwnedBelow DEF StoreOwned, IInv
    <2>9. CASE StoreBeyond
      BY <2>9, StoreRefines DEF StoreBeyond
    <2>10. CASE UNCHANGED vars
      BY <2>1, <2>10 DEF vars
    <2> QED BY <2>2, <2>3, <2>4, <2>5, <2>6, <2>7, <2>8, <2>9, <2>10 DEF Next
  <1> QED BY <1>1, <1>2, PagingInvariant, PTL DEF Spec, ImplementsAddressSpace, AS!Spec
=============================================================================
