--------------------------- MODULE KmallocProofs ---------------------------
(***************************************************************************)
(* For any page size, any table of pools whose blocks tile a page and any  *)
(* client: the pools' lists survive what clients write, every cell of the  *)
(* heap is in exactly one block, and the heap implements module Blocks.    *)
(***************************************************************************)
EXTENDS Kmalloc, SequenceTheorems, TLAPS

USE DEF NULL, HEADER

(***************************************************************************)
(* Arithmetic: division, and where multiples of a number lie.              *)
(***************************************************************************)
LEMMA DivMod ==
    ASSUME NEW a \in Nat, NEW d \in Nat \ {0}
    PROVE  a \div d \in Nat /\ a % d \in 0 .. d - 1 /\ a = d * (a \div d) + (a % d)
  OBVIOUS

\* A number below d * n lies in one of n stretches of length d.
LEMMA Stretches ==
    ASSUME NEW d \in Nat \ {0}, NEW n \in Nat, NEW a \in Nat, a < d * n
    PROVE  \E j \in 1 .. n : d * (j - 1) <= a /\ a < d * (j - 1) + d
  <1> DEFINE k == a \div d
  <1>1. k \in Nat /\ d * k <= a /\ a < d * k + d
    BY DivMod
  <1>2. k < n
    <2>1. SUFFICES ASSUME n <= k PROVE FALSE
      BY <1>1
    <2>2. d * n <= d * k
      BY <1>1, <2>1
    <2> QED BY <1>1, <2>2
  <1>3. k + 1 \in 1 .. n /\ (k + 1) - 1 = k
    BY <1>1, <1>2
  <1> HIDE DEF k
  <1> QED BY <1>1, <1>3

\* Stretches of length d do not overlap.
LEMMA StretchesApart ==
    ASSUME NEW d \in Nat, NEW i \in Nat \ {0}, NEW j \in Nat \ {0}, i < j
    PROVE  d * (i - 1) + d <= d * (j - 1)
  <1>1. d * ((i - 1) + 1) <= d * (j - 1)
    <2>1. \A k, l \in Nat : k < l => d * (k + 1) <= d * l
      OBVIOUS
    <2> QED BY <2>1
  <1> QED BY <1>1

\* What a large request takes: whole pages, one at least, with room for the
\* header.
LEMMA RoundedFacts ==
    ASSUME NEW size \in Nat
    PROVE  /\ Rounded(size) \in Nat /\ size + HEADER <= Rounded(size)
           /\ \E k \in Nat \ {0} : Rounded(size) = PAGE_SIZE * k
  <1> DEFINE d == PAGE_SIZE
             n == size + 1
             m == n + d - 1
             k == m \div d
  <1>1. d \in Nat \ {0} /\ n \in Nat \ {0} /\ m \in Nat
    BY KmallocAssumption
  <1>2. k \in Nat /\ m % d \in 0 .. d - 1 /\ m = d * k + (m % d)
    BY <1>1, DivMod
  <1>3. Rounded(size) = k * d
    BY DEF Rounded
  <1> HIDE DEF k
  <1>4. d * k \in Nat /\ n <= d * k
    BY <1>1, <1>2
  <1>5. k # 0 /\ k * d = d * k
    BY <1>1, <1>2, <1>4
  <1> QED BY <1>1, <1>2, <1>3, <1>4, <1>5

(***************************************************************************)
(* The table of pools.                                                     *)
(***************************************************************************)
LEMMA PoolFacts ==
    ASSUME NEW p \in Pools
    PROVE  /\ p \in Nat \ {0}
           /\ PoolSizes[p] \in Nat \ {0} /\ PoolSizes[p] <= PAGE_SIZE
           /\ PAGE_SIZE % PoolSizes[p] = 0
  BY KmallocAssumption DEF Pools

\* At most one pool serves a size, and its blocks hold the header too.
LEMMA PoolOfFacts ==
    ASSUME NEW size \in Nat, NEW p \in PoolOf(size)
    PROVE  p \in Pools /\ PoolOf(size) = {p} /\ size + HEADER <= PoolSizes[p]
  <1>1. p \in Pools /\ Fits(p, size)
    BY DEF PoolOf
  <1>2. ASSUME NEW q \in PoolOf(size) PROVE q = p
    <2>1. q \in Nat \ {0} /\ p \in Nat \ {0} /\ Fits(q, size)
      BY PoolFacts DEF PoolOf
    <2>2. ~(q \in 1 .. p - 1) /\ ~(p \in 1 .. q - 1)
      BY <1>1, <2>1 DEF PoolOf
    <2> QED BY <2>1, <2>2
  <1> QED BY <1>1, <1>2 DEF Fits

\* The blocks of a fresh page lie one after the other and cover the page.
LEMMA CarvedFacts ==
    ASSUME NEW p \in Pools, NEW page \in Nat
    PROVE  LET s == Carved(p, page)
               d == PoolSizes[p]
           IN  /\ s \in Seq(Nat) /\ Len(s) > 0 /\ Len(s) = PAGE_SIZE \div d
               /\ \A j \in 1 .. Len(s) : page <= s[j] /\ s[j] + d <= page + PAGE_SIZE
               /\ \A i, j \in 1 .. Len(s) : i < j => s[i] + d <= s[j]
               /\ \A a \in page .. page + PAGE_SIZE - 1 :
                     \E j \in 1 .. Len(s) : s[j] <= a /\ a < s[j] + d
  <1> DEFINE d == PoolSizes[p]
             n == PAGE_SIZE \div d
             s == Carved(p, page)
  <1>1. d \in Nat \ {0} /\ PAGE_SIZE \in Nat \ {0} /\ PAGE_SIZE % d = 0
    BY PoolFacts, KmallocAssumption
  <1>2. n \in Nat /\ PAGE_SIZE = d * n
    <2> HIDE DEF d
    <2>1. n \in Nat /\ PAGE_SIZE = d * n + (PAGE_SIZE % d)
      BY <1>1, DivMod
    <2>2. \A x, y \in Nat : d * x + 0 = d * x
      BY <1>1
    <2> QED BY <1>1, <2>1, <2>2
  <1>3. n # 0
    BY <1>1, <1>2
  <1>4. s = [j \in 1 .. n |-> page + d * (j - 1)]
    BY DEF Carved
  <1> HIDE DEF n, d, s
  <1>5. \A j \in 1 .. n : s[j] = page + d * (j - 1) /\ d * (j - 1) \in Nat /\ s[j] \in Nat
    <2>1. ASSUME NEW j \in 1 .. n PROVE d * (j - 1) \in Nat
      <3>1. j - 1 \in Nat
        BY <1>2
      <3> QED BY <1>1, <3>1
    <2>2. \A j \in 1 .. n : s[j] = page + d * (j - 1)
      BY <1>4
    <2>3. ASSUME NEW j \in 1 .. n PROVE s[j] \in Nat
      <3>1. PICK k \in Nat : k = d * (j - 1)
        BY <2>1
      <3> QED BY <2>2, <3>1
    <2> QED BY <2>1, <2>2, <2>3
  <1>6. s \in Seq(Nat) /\ Len(s) = n
    <2>1. s \in [1 .. n -> Nat]
      BY <1>4, <1>5
    <2> QED BY <2>1, <1>2
  <1>7. ASSUME NEW j \in 1 .. n PROVE page <= s[j] /\ s[j] + d <= page + PAGE_SIZE
    <2>1. d * (j - 1) + d <= d * ((n + 1) - 1)
      BY <1>1, <1>2, StretchesApart
    <2> QED BY <2>1, <1>1, <1>2, <1>5
  <1>8. ASSUME NEW i \in 1 .. n, NEW j \in 1 .. n, i < j PROVE s[i] + d <= s[j]
    <2>1. d * (i - 1) + d <= d * (j - 1)
      BY <1>1, <1>2, <1>8, StretchesApart
    <2> QED BY <2>1, <1>1, <1>5
  <1>9. ASSUME NEW a \in page .. page + PAGE_SIZE - 1
        PROVE  \E j \in 1 .. n : s[j] <= a /\ a < s[j] + d
    <2>1. a - page \in Nat /\ a - page < d * n
      BY <1>1, <1>2
    <2>2. PICK j \in 1 .. n : d * (j - 1) <= a - page /\ a - page < d * (j - 1) + d
      BY <2>1, <1>1, <1>2, Stretches
    <2> QED BY <2>1, <2>2, <1>1, <1>5
  <1> QED BY <1>2, <1>3, <1>6, <1>7, <1>8, <1>9 DEF d, n, s
-----------------------------------------------------------------------------
(***************************************************************************)
(* Blocks.                                                                 *)
(***************************************************************************)
Entry(b) == b.ptr - HEADER

\* A block for size that carries the pool kmalloc gave it has room for the
\* header and what was asked for.
LEMMA ExtentFacts ==
    ASSUME NEW e \in Nat, NEW size \in Sizes, NEW pool,
           PoolOf(size) = {pool} \ {NULL}
    PROVE  /\ size \in Nat \ {0}
           /\ e .. e + size \subseteq Extent(e, size, pool)
           /\ e \in Extent(e, size, pool) /\ e + 1 \in Extent(e, size, pool)
           /\ pool # NULL =>
                 /\ pool \in Pools
                 /\ Extent(e, size, pool) = e .. e + PoolSizes[pool] - 1
           /\ pool = NULL => Extent(e, size, pool) = e .. e + Rounded(size) - 1
  <1>1. size \in Nat \ {0}
    BY KmallocAssumption
  <1>2. CASE pool = NULL
    BY <1>1, <1>2, RoundedFacts DEF Extent
  <1>3. CASE pool # NULL
    <2>1. pool \in Pools /\ size + HEADER <= PoolSizes[pool] /\ PoolSizes[pool] \in Nat
      BY <1>1, <1>3, PoolOfFacts, PoolFacts
    <2> QED BY <1>1, <1>3, <2>1 DEF Extent
  <1> QED BY <1>2, <1>3

\* A block handed out.
LEMMA HeldFacts ==
    ASSUME TypeOK, BlocksTile, NEW b \in live
    PROVE  LET pool == cell[Entry(b)].pool
           IN  /\ b.size \in Sizes /\ b.size \in Nat \ {0}
               /\ b = [ptr |-> b.ptr, size |-> b.size]
               /\ Entry(b) \in Addresses /\ Entry(b) \in Nat /\ b.ptr = Entry(b) + 1
               /\ Held(b) \subseteq mapped /\ Entry(b) \in Held(b)
               /\ b.ptr .. b.ptr + b.size - 1 \subseteq Held(b)
               /\ cell[Entry(b)].size = b.size /\ PoolOf(b.size) = {pool} \ {NULL}
               /\ pool # NULL => pool \in Pools /\ Held(b) = Extent(Entry(b), 0, pool)
               /\ pool = NULL => Held(b) = Entry(b) .. Entry(b) + Rounded(b.size) - 1
  <1> DEFINE e == Entry(b)
             pool == cell[e].pool
  <1>1. /\ b.ptr \in Addresses /\ b.size \in Sizes
        /\ b = [ptr |-> b.ptr, size |-> b.size]
    BY DEF TypeOK
  <1>2. b.ptr \in Nat /\ b.ptr >= 1 /\ PAGE_SIZE \in Nat \ {0} /\ HEAP \in Nat
    BY <1>1, KmallocAssumption DEF Addresses
  <1>3. e \in Nat /\ b.ptr = e + 1
    BY <1>2 DEF Entry
  <1>4. cell[e].size = b.size /\ PoolOf(b.size) = {pool} \ {NULL}
    BY DEF BlocksTile, HeadersIntact, Entry
  <1>5. Held(b) = Extent(e, b.size, pool)
    BY DEF Held, Entry
  <1> HIDE DEF pool, e
  <1>6. /\ b.size \in Nat \ {0} /\ e .. e + b.size \subseteq Held(b) /\ e \in Held(b)
        /\ pool # NULL => pool \in Pools /\ Held(b) = Extent(e, 0, pool)
        /\ pool = NULL => Held(b) = e .. e + Rounded(b.size) - 1
    BY <1>1, <1>3, <1>4, <1>5, ExtentFacts DEF Extent
  <1>7. Held(b) \subseteq mapped
    BY DEF BlocksTile
  <1>8. e \in PAGE_SIZE .. KernHeapPos - 1
    BY <1>6, <1>7 DEF TypeOK
  <1>9. e \in Addresses
    BY <1>1, <1>2, <1>3, <1>8 DEF Addresses
  <1>10. b.ptr .. b.ptr + b.size - 1 \subseteq Held(b)
    BY <1>2, <1>3, <1>6
  <1> QED BY <1>1, <1>3, <1>4, <1>6, <1>7, <1>9, <1>10 DEF e, pool

\* A free block.
LEMMA SpareFacts ==
    ASSUME TypeOK, BlocksTile, NEW p \in Pools, NEW i \in DOMAIN lists[p]
    PROVE  /\ <<p, i>> \in Places
           /\ i \in 1 .. Len(lists[p]) /\ Len(lists[p]) \in Nat
           /\ lists[p][i] \in Addresses /\ lists[p][i] \in Nat /\ lists[p][i] # NULL
           /\ Spare(<<p, i>>) = lists[p][i] .. lists[p][i] + PoolSizes[p] - 1
           /\ Spare(<<p, i>>) = Extent(lists[p][i], 0, p)
           /\ lists[p][i] \in Spare(<<p, i>>) /\ Spare(<<p, i>>) \subseteq mapped
  <1>1. <<p, i>> \in Places
    BY DEF Places
  <1>2. lists[p] \in Seq(Addresses)
    BY DEF TypeOK
  <1>3. /\ i \in 1 .. Len(lists[p]) /\ Len(lists[p]) \in Nat
        /\ lists[p][i] \in Addresses
    BY <1>2
  <1>4. lists[p][i] \in Nat /\ lists[p][i] # NULL
    BY <1>3, KmallocAssumption DEF Addresses
  <1>5. Spare(<<p, i>>) = Extent(lists[p][i], 0, p)
    BY DEF Spare
  <1>6. PoolSizes[p] \in Nat \ {0} /\ p # NULL
    BY PoolFacts
  <1>7. Spare(<<p, i>>) = lists[p][i] .. lists[p][i] + PoolSizes[p] - 1
    BY <1>5, <1>6 DEF Extent
  <1>8. Spare(<<p, i>>) \subseteq mapped
    BY <1>1 DEF BlocksTile
  <1>9. lists[p][i] \in Spare(<<p, i>>)
    BY <1>4, <1>6, <1>7
  <1> QED BY <1>1, <1>3, <1>4, <1>5, <1>7, <1>8, <1>9

\* Where the entries of blocks lie: in no other block.
LEMMA EntriesApart ==
    ASSUME TypeOK, BlocksTile
    PROVE  /\ \A b, c \in live : b # c => Entry(b) \notin Held(c)
           /\ \A b \in live, p \in Pools : \A i \in DOMAIN lists[p] :
                 /\ lists[p][i] \notin Held(b) /\ Entry(b) \notin Spare(<<p, i>>)
           /\ \A p, q \in Pools : \A i \in DOMAIN lists[p], j \in DOMAIN lists[q] :
                 <<p, i>> # <<q, j>> => lists[p][i] \notin Spare(<<q, j>>)
  <1>1. ASSUME NEW b \in live, NEW c \in live, b # c PROVE Entry(b) \notin Held(c)
    BY <1>1, HeldFacts DEF BlocksTile
  <1>2. ASSUME NEW b \in live, NEW p \in Pools, NEW i \in DOMAIN lists[p]
        PROVE  lists[p][i] \notin Held(b) /\ Entry(b) \notin Spare(<<p, i>>)
    BY <1>2, HeldFacts, SpareFacts DEF BlocksTile
  <1>3. ASSUME NEW p \in Pools, NEW q \in Pools, NEW i \in DOMAIN lists[p],
               NEW j \in DOMAIN lists[q], <<p, i>> # <<q, j>>
        PROVE  lists[p][i] \notin Spare(<<q, j>>)
    BY <1>3, SpareFacts DEF BlocksTile
  <1> QED BY <1>1, <1>2, <1>3
-----------------------------------------------------------------------------
(***************************************************************************)
(* Lists, headers and pages.                                               *)
(***************************************************************************)
LEMMA FrontFacts ==
    ASSUME NEW S, NEW s \in Seq(S), s # <<>>
    PROVE  /\ Front(s) \in Seq(S) /\ Len(Front(s)) = Len(s) - 1
           /\ Len(s) \in Nat /\ Len(s) > 0 /\ Last(s) = s[Len(s)] /\ s[Len(s)] \in S
           /\ \A i \in 1 .. Len(s) - 1 : Front(s)[i] = s[i]
  <1>1. Len(s) \in Nat /\ Len(s) > 0 /\ \A i \in 1 .. Len(s) : s[i] \in S
    OBVIOUS
  <1>2. 1 \in 1 .. Len(s) + 1 /\ Len(s) - 1 \in (1 - 1) .. Len(s)
    BY <1>1
  <1>3. /\ Front(s) \in Seq(S)
        /\ Len(Front(s)) = IF 1 <= Len(s) - 1 THEN Len(s) - 1 ELSE 0
        /\ \A i \in 1 .. Len(s) - 1 : Front(s)[i] = s[i]
    BY <1>1, <1>2, SubSeqProperties DEF Front
  <1>4. \A n \in Nat : n > 0 => (IF 1 <= n - 1 THEN n - 1 ELSE 0) = n - 1
    OBVIOUS
  <1>5. Len(Front(s)) = Len(s) - 1
    BY <1>1, <1>3, <1>4
  <1>6. Last(s) = s[Len(s)] /\ s[Len(s)] \in S
    BY <1>1 DEF Last
  <1> QED BY <1>1, <1>3, <1>5, <1>6

\* What a header or a link is.
LEMMA HeaderFacts ==
    ASSUME NEW n \in Nat, NEW q \in Pools \cup {NULL}
    PROVE  /\ KmallocEntry(n, q) \in Cells
           /\ KmallocEntry(n, q).size = n /\ KmallocEntry(n, q).pool = q
  BY DEF KmallocEntry, Cells

LEMMA LinkFacts ==
    ASSUME NEW n \in Nat
    PROVE  FreeEntry(n) \in Cells /\ FreeEntry(n).prev = n
  BY DEF FreeEntry, Cells

\* A heap that goes on size cells further, by whole pages, inside the bound.
LEMMA HeapFacts ==
    ASSUME TypeOK, NEW k \in Nat, AllocKernHeap(PAGE_SIZE * k)
    PROVE  /\ KernHeapPos \in Nat \ {0} /\ KernHeapPos' = KernHeapPos + PAGE_SIZE * k
           /\ PAGE_SIZE * k \in Nat
           /\ KernHeapPos' \in {PAGE_SIZE * n : n \in 1 .. HEAP + 1}
           /\ KernHeapPos .. KernHeapPos' - 1 \subseteq Addresses
           /\ mapped' = mapped \cup KernHeapPos .. KernHeapPos' - 1
           /\ mapped' \subseteq PAGE_SIZE .. KernHeapPos' - 1
           /\ mapped \cap KernHeapPos .. KernHeapPos' - 1 = {}
  <1> DEFINE d == PAGE_SIZE
             size == d * k
  <1>1. d \in Nat \ {0} /\ HEAP \in Nat
    BY KmallocAssumption
  <1>2. PICK n \in 1 .. HEAP + 1 : KernHeapPos = d * n
    BY DEF TypeOK
  <1>3. size \in Nat /\ KernHeapPos \in Nat \ {0}
    BY <1>1, <1>2
  <1>4. /\ KernHeapPos + size <= (HEAP + 1) * d
        /\ KernHeapPos' = KernHeapPos + size
        /\ mapped' = mapped \cup KernHeapPos .. KernHeapPos + size - 1
    BY DEF AllocKernHeap
  <1>5. KernHeapPos' = d * (n + k)
    BY <1>1, <1>2, <1>4
  <1>6. n + k \in 1 .. HEAP + 1
    <2>1. d * (n + k) <= d * (HEAP + 1)
      BY <1>1, <1>2, <1>4
    <2>2. \A x, y \in Nat : d * x <= d * y => x <= y
      BY <1>1
    <2> QED BY <1>1, <2>1, <2>2
  <1>7. d <= KernHeapPos
    BY <1>1, <1>2
  <1> HIDE DEF size, d
  <1>8. mapped \subseteq PAGE_SIZE .. KernHeapPos - 1
    BY DEF TypeOK
  <1>9. KernHeapPos .. KernHeapPos' - 1 \subseteq Addresses
    BY <1>1, <1>3, <1>4, <1>7 DEF Addresses, d
  <1>10. /\ mapped' \subseteq PAGE_SIZE .. KernHeapPos' - 1
         /\ mapped \cap KernHeapPos .. KernHeapPos' - 1 = {}
    BY <1>1, <1>3, <1>4, <1>7, <1>8 DEF d
  <1>11. KernHeapPos' \in {PAGE_SIZE * m : m \in 1 .. HEAP + 1}
    BY <1>5, <1>6 DEF d
  <1> QED BY <1>3, <1>4, <1>9, <1>10, <1>11 DEF size, d
\* The bytes a client has of a block, and what kmalloc does to them: those of
\* the new block were nobody's, those of the others stay as they are.
Body(b) == b.ptr .. b.ptr + b.size - 1

HandsOut(b) ==
    /\ live' = live \cup {b} /\ b \notin live
    /\ b = [ptr |-> b.ptr, size |-> b.size] /\ b.size \in Sizes
    /\ \A c \in live : /\ Body(b) \cap Body(c) = {}
                       /\ \A a \in Body(c) : cell'[a] = cell[a]

\* The first block of a pool's list is handed out.
LEMMA FromPoolKeepsIInv ==
    ASSUME IInv, NEW size \in Sizes, NEW p \in PoolOf(size), FromPool(p, size)
    PROVE  IInv' /\ \E b : HandsOut(b)
  <1> DEFINE list == lists[p]
  <1>1. TypeOK /\ LinksSpellLists /\ BlocksTile
    BY DEF IInv
  <1>2. /\ size \in Nat \ {0} /\ p \in Pools /\ PoolOf(size) = {p} /\ p # NULL
        /\ PoolOf(size) = {p} \ {NULL}
    BY KmallocAssumption, PoolOfFacts, PoolFacts
  <1>3. list # <<>> /\ list \in Seq(Addresses) /\ free_entries[p] = Last(list)
    BY <1>1, <1>2 DEF FromPool, LinksSpellLists, TypeOK
  <1>a. PICK n \in Nat \ {0}, head \in Addresses :
           /\ n = Len(list) /\ n \in DOMAIN list /\ head = list[n]
           /\ free_entries[p] = head
           /\ DOMAIN list = 1 .. n /\ \A i \in 1 .. n : list[i] \in Addresses
    <2>1. /\ Len(list) \in Nat \ {0} /\ Len(list) \in DOMAIN list
          /\ list[Len(list)] \in Addresses /\ Last(list) = list[Len(list)]
      BY <1>3, FrontFacts
    <2> QED BY <2>1, <1>3
  <1>b. PICK b0, x0 : b0 = [ptr |-> head + HEADER, size |-> size] /\ x0 = <<p, n>>
    OBVIOUS
  <1>4. /\ n > 0 /\ free_entries[p] = head /\ n \in DOMAIN list /\ n = Len(list)
        /\ Front(list) \in Seq(Addresses) /\ Len(Front(list)) = n - 1
        /\ \A i \in 1 .. n - 1 : Front(list)[i] = list[i]
    BY <1>3, <1>a, FrontFacts
  <1>5. /\ head \in Addresses /\ head \in Nat /\ x0 \in Places
        /\ Spare(x0) = Extent(head, size, p)
        /\ head \in Spare(x0) /\ head + 1 \in Spare(x0) /\ Spare(x0) \subseteq mapped
    <2>1. /\ head \in Addresses /\ head \in Nat /\ x0 \in Places
          /\ Spare(x0) = Extent(head, 0, p) /\ head \in Spare(x0) /\ Spare(x0) \subseteq mapped
      BY <1>1, <1>2, <1>a, <1>b, SpareFacts
    <2>2. head + 1 \in Extent(head, size, p)
      BY <1>2, <2>1, ExtentFacts
    <2>3. Extent(head, size, p) = Extent(head, 0, p)
      BY <1>2 DEF Extent
    <2> QED BY <2>1, <2>2, <2>3
  <1>6. /\ cell' = [cell EXCEPT ![head] = KmallocEntry(size, p)]
        /\ live' = live \cup {b0}
        /\ free_entries' = [free_entries EXCEPT ![p] = cell[head].prev]
        /\ lists' = [lists EXCEPT ![p] = Front(list)]
        /\ KernHeapPos' = KernHeapPos /\ mapped' = mapped
    BY <1>a, <1>b DEF FromPool, TakeFirst, HandOut
  <1>7. /\ cell'[head] = KmallocEntry(size, p) /\ \A a \in Addresses \ {head} : cell'[a] = cell[a]
        /\ lists'[p] = Front(list) /\ \A q \in Pools \ {p} : lists'[q] = lists[q]
    BY <1>1, <1>2, <1>5, <1>6 DEF TypeOK
  <1>8. /\ DOMAIN lists'[p] = 1 .. n - 1 /\ Len(lists'[p]) = n - 1
        /\ \A q \in Pools : \A i \in DOMAIN lists'[q] :
              /\ i \in DOMAIN lists[q] /\ <<q, i>> # x0
              /\ lists'[q][i] = lists[q][i] /\ lists'[q][i] \in Addresses \ {head}
    <2>1. DOMAIN lists'[p] = 1 .. n - 1 /\ Len(lists'[p]) = n - 1
      BY <1>4, <1>7
    <2>2. ASSUME NEW q \in Pools, NEW i \in DOMAIN lists'[q]
          PROVE  /\ i \in DOMAIN lists[q] /\ <<q, i>> # x0 /\ lists'[q][i] = lists[q][i]
      <3>1. CASE q = p
        BY <2>1, <2>2, <3>1, <1>a, <1>4, <1>7, <1>b
      <3>2. CASE q # p
        BY <2>2, <3>2, <1>7, <1>b
      <3> QED BY <3>1, <3>2
    <2>3. ASSUME NEW q \in Pools, NEW i \in DOMAIN lists'[q]
          PROVE  lists[q][i] \in Addresses /\ lists[q][i] # head
      <3>1. i \in DOMAIN lists[q] /\ <<q, i>> # x0
        BY <2>2
      <3>2. lists[q][i] \notin Spare(x0)
        BY <3>1, <1>1, <1>2, <1>4, <1>b, EntriesApart
      <3> QED BY <3>1, <3>2, <1>1, <1>5, SpareFacts
    <2> QED BY <2>1, <2>2, <2>3
  <1>9. Places' = Places \ {x0} /\ \A x \in Places \ {x0} : Spare(x)' = Spare(x)
    <2>1. \A q \in Pools : \A i : <<q, i>> \in Places' <=> i \in DOMAIN lists'[q]
      BY DEF Places
    <2>2. \A q \in Pools : \A i : <<q, i>> \in Places <=> i \in DOMAIN lists[q]
      BY DEF Places
    <2>3. \A q \in Pools : \A i : i \in DOMAIN lists'[q] <=> i \in DOMAIN lists[q] /\ <<q, i>> # x0
      BY <1>3, <1>4, <1>7, <1>8, <1>b
    <2>4. \A x \in Places \cup Places' : \E q \in Pools, i \in Nat : x = <<q, i>>
      <3>1. \A q \in Pools : \A i : i \in DOMAIN lists[q] => i \in Nat
        BY <1>1 DEF TypeOK
      <3> QED BY <3>1, <2>3 DEF Places
    <2>5. Places' = Places \ {x0}
      BY <2>1, <2>2, <2>3, <2>4
    <2>6. \A q \in Pools : \A i : <<q, i>> \in Places \ {x0} =>
             Spare(<<q, i>>)' = Spare(<<q, i>>)
      BY <2>2, <2>3, <1>8 DEF Spare
    <2> QED BY <2>4, <2>5, <2>6
  <1>10. \A b \in live : /\ Entry(b) \in Addresses \ {head} /\ Held(b)' = Held(b)
                         /\ cell'[Entry(b)] = cell[Entry(b)]
    <2> TAKE b \in live
    <2>1. Entry(b) \in Addresses /\ Entry(b) # head
      BY <1>1, <1>2, <1>a, <1>b, <1>5, HeldFacts, EntriesApart
    <2> QED BY <2>1, <1>7 DEF Held, Entry
  <1>11. /\ Held(b0)' = Spare(x0) /\ b0 \notin live /\ Entry(b0) = head
         /\ b0.ptr = head + 1 /\ b0.size = size
    <2>1. Entry(b0) = head /\ b0.ptr - HEADER = head
      BY <1>5, <1>b DEF Entry
    <2>2. cell'[head].pool = p /\ b0.size = size
      BY <1>2, <1>7, <1>b, HeaderFacts
    <2>3. Held(b0)' = Extent(head, size, p)
      BY <2>1, <2>2 DEF Held
    <2> QED BY <2>1, <2>2, <2>3, <1>5, <1>10, <1>b
  <1>12. BlocksTile'
    <2>1. HeadersIntact'
      <3>1. \A b \in live : /\ cell'[b.ptr - HEADER] = cell[b.ptr - HEADER]
        BY <1>10 DEF Entry
      <3>2. cell'[b0.ptr - HEADER].size = b0.size /\ PoolOf(b0.size) = {cell'[b0.ptr - HEADER].pool} \ {NULL}
        BY <1>2, <1>7, <1>11, HeaderFacts DEF Entry
      <3> QED BY <3>1, <3>2, <1>1, <1>6 DEF BlocksTile, HeadersIntact, PoolOf, Fits
    <2>2. mapped' = UNION ({Held(b)' : b \in live'} \cup {Spare(x)' : x \in Places'})
      BY <1>1, <1>5, <1>6, <1>9, <1>10, <1>11 DEF BlocksTile
    <2>3. \A b, c \in live' : b # c => Held(b)' \cap Held(c)' = {}
      BY <1>1, <1>5, <1>6, <1>10, <1>11 DEF BlocksTile
    <2>4. \A x, y \in Places' : x # y => Spare(x)' \cap Spare(y)' = {}
      BY <1>1, <1>9 DEF BlocksTile
    <2>5. \A b \in live', x \in Places' : Held(b)' \cap Spare(x)' = {}
      BY <1>1, <1>5, <1>6, <1>9, <1>10, <1>11 DEF BlocksTile
    <2> QED BY <2>1, <2>2, <2>3, <2>4, <2>5 DEF BlocksTile
  <1>13. LinksSpellLists'
    <2> SUFFICES ASSUME NEW q \in Pools
                 PROVE  /\ free_entries'[q] = IF lists'[q] = <<>> THEN NULL ELSE Last(lists'[q])
                        /\ \A i \in DOMAIN lists'[q] : cell'[lists'[q][i]].prev =
                              IF i = 1 THEN NULL ELSE lists'[q][i - 1]
      BY DEF LinksSpellLists
    <2>1. ASSUME NEW i \in DOMAIN lists'[q]
          PROVE  cell'[lists'[q][i]].prev = IF i = 1 THEN NULL ELSE lists'[q][i - 1]
      <3>1. i \in Nat \ {0} /\ (i # 1 => i - 1 \in DOMAIN lists'[q])
        BY <1>1, <1>4, <1>7, <1>8 DEF TypeOK
      <3>2. cell[lists[q][i]].prev = IF i = 1 THEN NULL ELSE lists[q][i - 1]
        BY <1>1, <1>8 DEF LinksSpellLists
      <3>3. cell'[lists'[q][i]] = cell[lists[q][i]]
        BY <1>7, <1>8
      <3> QED BY <3>1, <3>2, <3>3, <1>8
    <2>2. CASE q # p
      BY <2>1, <2>2, <1>1, <1>2, <1>6, <1>7 DEF LinksSpellLists, TypeOK
    <2>3. CASE q = p
      <3>1. free_entries'[p] = IF n = 1 THEN NULL ELSE list[n - 1]
        BY <1>1, <1>2, <1>a, <1>6 DEF LinksSpellLists, TypeOK
      <3>2. lists'[p] \in Seq(Addresses) /\ Len(lists'[p]) = n - 1
        BY <1>4, <1>7
      <3>4. lists'[p] = <<>> <=> n = 1
        BY <3>2
      <3>3. n # 1 => Last(lists'[p]) = list[n - 1]
        <4>1. n # 1 => n - 1 \in 1 .. n - 1
          OBVIOUS
        <4> QED BY <4>1, <3>2, <1>4, <1>7 DEF Last
      <3> QED BY <2>1, <2>3, <3>1, <3>3, <3>4
    <2> QED BY <2>2, <2>3
  <1>14. TypeOK'
    <2>1. cell' \in [Addresses -> Cells]
      BY <1>1, <1>2, <1>6, HeaderFacts DEF TypeOK
    <2>2. free_entries' \in [Pools -> Addresses \cup {NULL}]
      <3>1. cell[head].prev = IF n = 1 THEN NULL ELSE list[n - 1]
        <4>1. \A i \in DOMAIN list :
                 cell[list[i]].prev = IF i = 1 THEN NULL ELSE list[i - 1]
          BY <1>1, <1>2 DEF LinksSpellLists
        <4> HIDE DEF list
        <4> QED BY <4>1, <1>a
      <3>2. n # 1 => list[n - 1] \in Addresses
        <4>1. n # 1 => n - 1 \in 1 .. n
          OBVIOUS
        <4> QED BY <4>1, <1>a
      <3> QED BY <3>1, <3>2, <1>1, <1>2, <1>6 DEF TypeOK
    <2>3. lists' \in [Pools -> Seq(Addresses)]
      BY <1>1, <1>2, <1>4, <1>6 DEF TypeOK
    <2>4. head + 1 \in Addresses
      <3>1. head + 1 \in PAGE_SIZE .. KernHeapPos - 1
        BY <1>1, <1>5 DEF TypeOK
      <3>2. PICK m \in 1 .. HEAP + 1 : KernHeapPos = PAGE_SIZE * m
        BY <1>1 DEF TypeOK
      <3>3. PAGE_SIZE * m <= (HEAP + 1) * PAGE_SIZE /\ PAGE_SIZE * m \in Nat
        BY KmallocAssumption
      <3>4. head + 1 <= (HEAP + 1) * PAGE_SIZE - 1 /\ PAGE_SIZE <= head + 1
        BY <3>1, <3>2, <3>3, <1>5, KmallocAssumption
      <3> QED BY <3>4, <1>5 DEF Addresses
    <2>5. live' \subseteq [ptr : Addresses, size : Sizes]
      BY <1>1, <1>6, <2>4, <1>b DEF TypeOK
    <2> QED BY <1>1, <1>6, <2>1, <2>2, <2>3, <2>5 DEF TypeOK
  <1>15. HandsOut(b0)
    <2>1. Body(b0) \subseteq Spare(x0)
      BY <1>1, <1>2, <1>5, <1>11, ExtentFacts DEF Body
    <2>2. ASSUME NEW c \in live PROVE Body(b0) \cap Body(c) = {} /\ head \notin Body(c)
      BY <2>1, <1>1, <1>5, HeldFacts DEF Body, BlocksTile
    <2>3. ASSUME NEW c \in live, NEW a \in Body(c) PROVE cell'[a] = cell[a]
      BY <2>2, <1>1, <1>6 DEF TypeOK
    <2> QED BY <2>2, <2>3, <1>6, <1>11, <1>b DEF HandsOut
  <1> QED BY <1>12, <1>13, <1>14, <1>15 DEF IInv

\* A request no pool serves gets pages of its own.
LEMMA FromHeapKeepsIInv ==
    ASSUME IInv, NEW size \in Sizes, FromHeap(size)
    PROVE  IInv' /\ \E b : HandsOut(b)
  <1>1. TypeOK /\ LinksSpellLists /\ BlocksTile
    BY DEF IInv
  <1>2. size \in Nat \ {0} /\ PoolOf(size) = {NULL} \ {NULL}
    BY KmallocAssumption DEF FromHeap
  <1>3. PICK k \in Nat \ {0} : Rounded(size) = PAGE_SIZE * k
    BY <1>2, RoundedFacts
  <1>4. AllocKernHeap(PAGE_SIZE * k)
    BY <1>3 DEF FromHeap
  <1>5. PICK head \in Nat : head = KernHeapPos
    BY <1>1, <1>4, HeapFacts
  <1>6. /\ head # 0 /\ KernHeapPos' = head + Rounded(size)
        /\ KernHeapPos' \in {PAGE_SIZE * n : n \in 1 .. HEAP + 1}
        /\ head .. head + Rounded(size) - 1 \subseteq Addresses
        /\ mapped' = mapped \cup head .. head + Rounded(size) - 1
        /\ mapped' \subseteq PAGE_SIZE .. KernHeapPos' - 1
        /\ mapped \cap head .. head + Rounded(size) - 1 = {}
    BY <1>1, <1>3, <1>4, <1>5, HeapFacts
  <1>7. PICK b0 : b0 = [ptr |-> head + HEADER, size |-> size]
    OBVIOUS
  <1>8. /\ cell' = [cell EXCEPT ![head] = KmallocEntry(size, NULL)]
        /\ live' = live \cup {b0}
        /\ free_entries' = free_entries /\ lists' = lists
    BY <1>5, <1>7 DEF FromHeap, HandOut
  <1>9. /\ Extent(head, size, NULL) = head .. head + Rounded(size) - 1
        /\ head .. head + size \subseteq Extent(head, size, NULL)
        /\ head \in Extent(head, size, NULL) /\ head + 1 \in Extent(head, size, NULL)
    BY <1>2, ExtentFacts
  <1> DEFINE new == Extent(head, size, NULL)
  <1> HIDE DEF new
  <1>10. /\ new \subseteq Addresses /\ mapped \cap new = {} /\ mapped' = mapped \cup new
         /\ head \in new /\ head + 1 \in new
    BY <1>6, <1>9 DEF new
  <1>11. cell'[head] = KmallocEntry(size, NULL) /\ \A a \in Addresses \ {head} : cell'[a] = cell[a]
    BY <1>1, <1>8, <1>10 DEF TypeOK
  <1>12. \A b \in live : /\ Entry(b) \in Addresses \ {head} /\ Held(b)' = Held(b)
                         /\ Held(b) \subseteq mapped /\ cell'[Entry(b)] = cell[Entry(b)]
    <2> TAKE b \in live
    <2>1. Entry(b) \in Addresses /\ Entry(b) # head /\ Held(b) \subseteq mapped
      BY <1>1, <1>10, HeldFacts
    <2> QED BY <2>1, <1>11 DEF Held, Entry
  <1>13. /\ Held(b0)' = new /\ b0 \notin live /\ Entry(b0) = head
         /\ b0.ptr = head + 1 /\ b0.size = size
    <2>1. Entry(b0) = head /\ b0.ptr - HEADER = head /\ b0.size = size
      BY <1>7 DEF Entry
    <2>2. cell'[head].pool = NULL
      BY <1>2, <1>11, HeaderFacts
    <2>3. Held(b0)' = new
      BY <2>1, <2>2 DEF Held, new
    <2> QED BY <2>1, <2>3, <1>7, <1>12
  <1>14. Places' = Places /\ \A x \in Places : Spare(x)' = Spare(x) /\ Spare(x) \subseteq mapped
    BY <1>1, <1>8 DEF Places, Spare, BlocksTile
  <1>15. BlocksTile'
    <2>1. HeadersIntact'
      <3>1. \A b \in live : cell'[b.ptr - HEADER] = cell[b.ptr - HEADER]
        BY <1>12 DEF Entry
      <3>2. cell'[b0.ptr - HEADER].size = b0.size /\ PoolOf(b0.size) = {cell'[b0.ptr - HEADER].pool} \ {NULL}
        BY <1>2, <1>11, <1>13, HeaderFacts DEF Entry
      <3> QED BY <3>1, <3>2, <1>1, <1>8 DEF BlocksTile, HeadersIntact, PoolOf, Fits
    <2>2. mapped' = UNION ({Held(b)' : b \in live'} \cup {Spare(x)' : x \in Places'})
      BY <1>1, <1>8, <1>10, <1>12, <1>13, <1>14 DEF BlocksTile
    <2>3. \A b, c \in live' : b # c => Held(b)' \cap Held(c)' = {}
      BY <1>1, <1>8, <1>10, <1>12, <1>13 DEF BlocksTile
    <2>4. \A x, y \in Places' : x # y => Spare(x)' \cap Spare(y)' = {}
      BY <1>1, <1>14 DEF BlocksTile
    <2>5. \A b \in live', x \in Places' : Held(b)' \cap Spare(x)' = {}
      BY <1>1, <1>8, <1>10, <1>12, <1>13, <1>14 DEF BlocksTile
    <2> QED BY <2>1, <2>2, <2>3, <2>4, <2>5 DEF BlocksTile
  <1>16. LinksSpellLists'
    <2>1. \A q \in Pools : \A i \in DOMAIN lists[q] : cell'[lists[q][i]] = cell[lists[q][i]]
      BY <1>1, <1>10, <1>11, SpareFacts
    <2> QED BY <2>1, <1>1, <1>8 DEF LinksSpellLists
  <1>17. TypeOK'
    <2>1. cell' \in [Addresses -> Cells]
      BY <1>1, <1>2, <1>8, HeaderFacts DEF TypeOK
    <2>2. live' \subseteq [ptr : Addresses, size : Sizes]
      BY <1>1, <1>7, <1>8, <1>10 DEF TypeOK
    <2> QED BY <1>1, <1>6, <1>8, <2>1, <2>2 DEF TypeOK
  <1>18. HandsOut(b0)
    <2>1. Body(b0) \subseteq new
      BY <1>2, <1>9, <1>13 DEF Body, new
    <2>2. ASSUME NEW c \in live PROVE Body(b0) \cap Body(c) = {} /\ head \notin Body(c)
      BY <2>1, <1>1, <1>10, HeldFacts DEF Body
    <2>3. ASSUME NEW c \in live, NEW a \in Body(c) PROVE cell'[a] = cell[a]
      BY <2>2, <1>1, <1>8 DEF TypeOK
    <2> QED BY <2>2, <2>3, <1>7, <1>8, <1>13 DEF HandsOut
  <1> QED BY <1>15, <1>16, <1>17, <1>18 DEF IInv

(***************************************************************************)
(* Unions.                                                                 *)
(***************************************************************************)
LEMMA UnionSplit ==
    ASSUME NEW A, NEW D, NEW C, NEW e
    PROVE  UNION ((A \cup {e}) \cup (D \cup C)) = (UNION (A \cup D)) \cup (e \cup UNION C)
  <1> DEFINE S == (A \cup {e}) \cup (D \cup C)
             T == (UNION (A \cup D)) \cup (e \cup UNION C)
  <1>1. ASSUME NEW x \in UNION S PROVE x \in T
    <2>1. PICK X \in S : x \in X
      OBVIOUS
    <2>2. CASE X \in A \cup D
      BY <2>1, <2>2
    <2>3. CASE X = e
      BY <2>1, <2>3
    <2>4. CASE X \in C
      BY <2>1, <2>4
    <2> QED BY <2>1, <2>2, <2>3, <2>4
  <1>2. ASSUME NEW x \in T PROVE x \in UNION S
    <2>1. CASE x \in e
      <3>1. e \in S
        OBVIOUS
      <3> QED BY <2>1, <3>1
    <2>2. CASE x \in UNION (A \cup D)
      <3>1. PICK X \in A \cup D : x \in X
        BY <2>2
      <3> QED BY <3>1
    <2>3. CASE x \in UNION C
      <3>1. PICK X \in C : x \in X
        BY <2>3
      <3> QED BY <3>1
    <2> QED BY <2>1, <2>2, <2>3
  <1> HIDE DEF S, T
  <1>3. UNION S = T
    BY <1>1, <1>2
  <1> QED BY <1>3 DEF S, T

\* The places of one list and those of the others.
LEMMA PlacesSplit ==
    ASSUME NEW P, NEW p \in P, NEW f
    PROVE  UNION {{q} \X DOMAIN f[q] : q \in P}
             = (UNION {{q} \X DOMAIN f[q] : q \in P \ {p}}) \cup ({p} \X DOMAIN f[p])
  <1> DEFINE places(q) == {q} \X DOMAIN f[q]
             S == {places(q) : q \in P}
             T == {places(q) : q \in P \ {p}}
  <1>1. S = T \cup {places(p)}
    <2> HIDE DEF places
    <2> QED OBVIOUS
  <1> HIDE DEF S, T, places
  <1>2. UNION S = (UNION T) \cup places(p)
    <2>1. ASSUME NEW x \in UNION S PROVE x \in (UNION T) \cup places(p)
      <3>1. PICK X \in S : x \in X
        OBVIOUS
      <3> QED BY <3>1, <1>1
    <2>2. ASSUME NEW x \in (UNION T) \cup places(p) PROVE x \in UNION S
      <3>1. PICK X \in S : x \in X
        BY <1>1
      <3> QED BY <3>1
    <2> QED BY <2>1, <2>2
  <1> QED BY <1>2 DEF S, T, places

\* What pushing the blocks s on an empty list leaves in memory.
LEMMA LinkedFacts ==
    ASSUME TypeOK, NEW n \in Nat, NEW s \in [1 .. n -> Addresses],
           \A i, j \in 1 .. n : s[i] = s[j] => i = j
    PROVE  /\ Linked(s) \in [Addresses -> Cells]
           /\ \A j \in 1 .. n : Linked(s)[s[j]] = FreeEntry(IF j = 1 THEN NULL ELSE s[j - 1])
           /\ \A a \in Addresses : (\A j \in 1 .. n : s[j] # a) => Linked(s)[a] = cell[a]
  <1>1. cell \in [Addresses -> Cells] /\ DOMAIN s = 1 .. n
    BY DEF TypeOK
  <1>2. ASSUME NEW j \in 1 .. n
        PROVE  /\ Linked(s)[s[j]] = FreeEntry(IF j = 1 THEN NULL ELSE s[j - 1])
               /\ Linked(s)[s[j]] \in Cells
    <2>1. (CHOOSE k \in DOMAIN s : s[k] = s[j]) = j
      BY <1>1
    <2>2. s[j] \in Addresses
      OBVIOUS
    <2>3. Linked(s)[s[j]] = FreeEntry(IF j = 1 THEN NULL ELSE s[j - 1])
      BY <1>1, <2>1, <2>2 DEF Linked
    <2>4. (IF j = 1 THEN NULL ELSE s[j - 1]) \in Nat
      <3>1. j # 1 => j - 1 \in 1 .. n
        OBVIOUS
      <3>2. Addresses \subseteq Nat
        BY KmallocAssumption DEF Addresses
      <3> QED BY <3>1, <3>2
    <2> QED BY <2>3, <2>4, LinkFacts
  <1>3. ASSUME NEW a \in Addresses, \A j \in 1 .. n : s[j] # a
        PROVE  Linked(s)[a] = cell[a] /\ Linked(s)[a] \in Cells
    BY <1>1, <1>3 DEF Linked
  <1>4. Linked(s) \in [Addresses -> Cells]
    <2>1. Linked(s) = [a \in Addresses |-> Linked(s)[a]]
      BY DEF Linked
    <2>2. \A a \in Addresses : Linked(s)[a] \in Cells
      BY <1>2, <1>3
    <2> QED BY <2>1, <2>2
  <1> QED BY <1>2, <1>3, <1>4

\* An empty list gets the blocks of a fresh page, and the last one is handed out.
LEMMA FromNewPageKeepsIInv ==
    ASSUME IInv, NEW size \in Sizes, NEW p \in PoolOf(size), FromNewPage(p, size)
    PROVE  IInv' /\ \E b : HandsOut(b)
  <1> DEFINE d == PoolSizes[p]
  <1>1. TypeOK /\ LinksSpellLists /\ BlocksTile
    BY DEF IInv
  <1>2. /\ size \in Nat \ {0} /\ p \in Pools /\ PoolOf(size) = {p} /\ p # NULL
        /\ PoolOf(size) = {p} \ {NULL} /\ d \in Nat \ {0} /\ PAGE_SIZE \in Nat \ {0}
    BY KmallocAssumption, PoolOfFacts, PoolFacts
  <1>3. /\ free_entries[p] = NULL /\ AllocKernHeap(PAGE_SIZE * 1)
        /\ KernHeapPos' = KernHeapPos + PAGE_SIZE
    BY <1>2 DEF FromNewPage, AllocKernHeap
  <1>4. lists[p] = <<>>
    <2>1. lists[p] \in Seq(Addresses) /\ NULL \notin Addresses
      BY <1>1, <1>2, KmallocAssumption DEF TypeOK, Addresses
    <2>2. lists[p] # <<>> => Last(lists[p]) \in Addresses
      BY <2>1, FrontFacts
    <2> QED BY <2>1, <2>2, <1>1, <1>2, <1>3 DEF LinksSpellLists
  <1>5. PICK page \in Nat \ {0} : page = KernHeapPos
    BY <1>1, <1>3, HeapFacts
  <1>6. /\ KernHeapPos' \in {PAGE_SIZE * m : m \in 1 .. HEAP + 1}
        /\ page .. page + PAGE_SIZE - 1 \subseteq Addresses
        /\ mapped' = mapped \cup page .. page + PAGE_SIZE - 1
        /\ mapped' \subseteq PAGE_SIZE .. KernHeapPos' - 1
        /\ mapped \cap page .. page + PAGE_SIZE - 1 = {}
    <2>1. PAGE_SIZE * 1 = PAGE_SIZE
      BY <1>2
    <2> QED BY <2>1, <1>1, <1>3, <1>5, HeapFacts
  <1>7. PICK s : s = Carved(p, page)
    OBVIOUS
  <1>8. PICK n \in Nat \ {0} :
          /\ s \in Seq(Nat) /\ Len(s) = n
          /\ \A j \in 1 .. n : page <= s[j] /\ s[j] + d <= page + PAGE_SIZE
          /\ \A i, j \in 1 .. n : i < j => s[i] + d <= s[j]
          /\ \A a \in page .. page + PAGE_SIZE - 1 :
                \E j \in 1 .. n : s[j] <= a /\ a < s[j] + d
    <2>1. Len(Carved(p, page)) \in Nat \ {0}
      BY <1>2, CarvedFacts
    <2> QED BY <2>1, <1>2, <1>7, CarvedFacts
  <1> DEFINE extent(j) == Extent(s[j], 0, p)
  <1> HIDE DEF d
  <1>9. \A j \in 1 .. n : /\ s[j] \in Nat /\ s[j] \in page .. page + PAGE_SIZE - 1
                          /\ s[j] \in Addresses /\ s[j] \notin mapped
                          /\ extent(j) = s[j] .. s[j] + d - 1 /\ s[j] \in extent(j)
                          /\ extent(j) \subseteq page .. page + PAGE_SIZE - 1
    <2> TAKE j \in 1 .. n
    <2>1. s[j] \in Nat /\ page <= s[j] /\ s[j] + d <= page + PAGE_SIZE
      BY <1>8
    <2>2. s[j] \in page .. page + PAGE_SIZE - 1
      BY <2>1, <1>2
    <2>3. extent(j) = s[j] .. s[j] + d - 1
      BY <1>2 DEF Extent, d
    <2>4. s[j] \in Addresses /\ s[j] \notin mapped
      BY <2>2, <1>6
    <2>5. s[j] .. s[j] + d - 1 \subseteq page .. page + PAGE_SIZE - 1 /\ s[j] \in s[j] .. s[j] + d - 1
      BY <2>1, <1>2
    <2> HIDE DEF extent
    <2> QED BY <2>1, <2>2, <2>3, <2>4, <2>5
  <1>10. \A i, j \in 1 .. n : i # j => s[i] # s[j] /\ extent(i) \cap extent(j) = {} /\ s[i] \notin extent(j)
    <2>1. ASSUME NEW i \in 1 .. n, NEW j \in 1 .. n, i < j
          PROVE  s[i] # s[j] /\ extent(i) \cap extent(j) = {} /\ s[i] \notin extent(j) /\ s[j] \notin extent(i)
      <3>1. s[i] + d <= s[j] /\ s[i] \in Nat /\ s[j] \in Nat
        BY <2>1, <1>8, <1>9
      <3>2. extent(i) = s[i] .. s[i] + d - 1 /\ extent(j) = s[j] .. s[j] + d - 1
        BY <1>9
      <3> HIDE DEF extent
      <3> QED BY <3>1, <3>2, <1>2
    <2> HIDE DEF extent
    <2>2. \A i, j \in 1 .. n : i # j => i < j \/ j < i
      OBVIOUS
    <2> QED BY <2>1, <2>2
  <1>11. page .. page + PAGE_SIZE - 1 = UNION {extent(j) : j \in 1 .. n}
    <2>1. ASSUME NEW a \in page .. page + PAGE_SIZE - 1 PROVE \E j \in 1 .. n : a \in extent(j)
      <3>1. PICK j \in 1 .. n : s[j] <= a /\ a < s[j] + d
        BY <1>8
      <3>2. s[j] \in Nat /\ extent(j) = s[j] .. s[j] + d - 1
        BY <1>9
      <3> HIDE DEF extent
      <3> QED BY <3>1, <3>2, <1>2
    <2> HIDE DEF extent
    <2> QED BY <2>1, <1>9
  <1> HIDE DEF extent
  <1>12. PICK cells : cells = Linked(s)
    OBVIOUS
  <1>13. /\ cells \in [Addresses -> Cells]
         /\ \A j \in 1 .. n : cells[s[j]] = FreeEntry(IF j = 1 THEN NULL ELSE s[j - 1])
         /\ \A a \in mapped \cap Addresses : cells[a] = cell[a]
    <2>1. s \in [1 .. n -> Addresses]
      BY <1>8, <1>9
    <2>2. \A i, j \in 1 .. n : s[i] = s[j] => i = j
      BY <1>10
    <2>3. \A a \in mapped : \A j \in 1 .. n : s[j] # a
      BY <1>9
    <2>4. TypeOK /\ n \in Nat
      BY <1>1
    <2>5. /\ Linked(s) \in [Addresses -> Cells]
          /\ \A j \in 1 .. n : Linked(s)[s[j]] = FreeEntry(IF j = 1 THEN NULL ELSE s[j - 1])
          /\ \A a \in Addresses : (\A j \in 1 .. n : s[j] # a) => Linked(s)[a] = cell[a]
      BY <2>1, <2>2, <2>4, LinkedFacts
    <2> QED BY <2>3, <2>5, <1>12
  <1>14. PICK head, b0 : head = s[n] /\ b0 = [ptr |-> head + HEADER, size |-> size]
    OBVIOUS
  <1>15. /\ Last(s) = head /\ Front(s) \in Seq(Nat) /\ Len(Front(s)) = n - 1
         /\ \A i \in 1 .. n - 1 : Front(s)[i] = s[i]
         /\ n \in 1 .. n
    <2>1. s \in Seq(Nat) /\ s # <<>> /\ Len(s) = n
      BY <1>8
    <2>2. n \in 1 .. n
      OBVIOUS
    <2> QED BY <2>1, <2>2, <1>14, FrontFacts
  <1>16. /\ cell' = [cells EXCEPT ![head] = KmallocEntry(size, p)]
         /\ live' = live \cup {b0}
         /\ free_entries' = [free_entries EXCEPT ![p] = cells[head].prev]
         /\ lists' = [lists EXCEPT ![p] = Front(s)]
    BY <1>5, <1>7, <1>12, <1>14, <1>15 DEF FromNewPage, TakeFirst, HandOut
  <1>17. /\ cell'[head] = KmallocEntry(size, p)
         /\ \A a \in Addresses \ {head} : cell'[a] = cells[a]
         /\ lists'[p] = Front(s) /\ \A q \in Pools \ {p} : lists'[q] = lists[q]
         /\ head \in Addresses /\ head \notin mapped /\ head \in Nat
    BY <1>1, <1>2, <1>9, <1>13, <1>14, <1>15, <1>16 DEF TypeOK
  <1>18. /\ DOMAIN lists'[p] = 1 .. n - 1 /\ Len(lists'[p]) = n - 1
         /\ \A j \in 1 .. n - 1 : lists'[p][j] = s[j] /\ s[j] # head /\ j \in 1 .. n
    BY <1>10, <1>14, <1>15, <1>17
  <1>19. /\ Places' = Places \cup {<<p, j>> : j \in 1 .. n - 1}
         /\ \A x \in Places : x[1] # p /\ Spare(x)' = Spare(x) /\ Spare(x) \subseteq mapped
         /\ \A j \in 1 .. n - 1 : Spare(<<p, j>>)' = extent(j)
    <2>1. DOMAIN lists[p] = {}
      BY <1>4
    <2> DEFINE others == UNION {{q} \X DOMAIN lists[q] : q \in Pools \ {p}}
    <2>2. Places = others
      BY <2>1, <1>2 DEF Places
    <2>3. Places' = others \cup ({p} \X (1 .. n - 1))
      <3>1. \A q \in Pools \ {p} : lists'[q] = lists[q]
        BY <1>17
      <3>2. {{q} \X DOMAIN lists'[q] : q \in Pools \ {p}} = {{q} \X DOMAIN lists[q] : q \in Pools \ {p}}
        BY <3>1
      <3>3. Places' = (UNION {{q} \X DOMAIN lists'[q] : q \in Pools \ {p}}) \cup ({p} \X DOMAIN lists'[p])
        BY <1>2, PlacesSplit DEF Places
      <3> QED BY <3>2, <3>3, <1>18 DEF others
    <2>4. {p} \X (1 .. n - 1) = {<<p, j>> : j \in 1 .. n - 1}
      OBVIOUS
    <2>5. ASSUME NEW x \in Places PROVE x[1] # p /\ Spare(x)' = Spare(x) /\ Spare(x) \subseteq mapped
      <3>1. x[1] \in Pools \ {p}
        BY <2>2
      <3> QED BY <3>1, <1>1, <1>17 DEF Spare, BlocksTile
    <2>6. ASSUME NEW j \in 1 .. n - 1 PROVE Spare(<<p, j>>)' = extent(j)
      BY <1>18 DEF Spare, extent
    <2>7. Places' = Places \cup {<<p, j>> : j \in 1 .. n - 1}
      <3> HIDE DEF others
      <3> QED BY <2>2, <2>3, <2>4
    <2> QED BY <2>5, <2>6, <2>7
  <1>20. \A b \in live : /\ Entry(b) \in Addresses \ {head} /\ Held(b)' = Held(b)
                         /\ Held(b) \subseteq mapped /\ cell'[Entry(b)] = cell[Entry(b)]
    <2> TAKE b \in live
    <2>1. Entry(b) \in Addresses /\ Entry(b) \in mapped /\ Held(b) \subseteq mapped
      BY <1>1, HeldFacts
    <2> QED BY <2>1, <1>13, <1>17 DEF Held, Entry
  <1>21. /\ Held(b0)' = extent(n) /\ b0 \notin live /\ Entry(b0) = head
         /\ b0.ptr = head + 1 /\ b0.size = size
         /\ extent(n) = Extent(head, size, p)
    <2>1. Entry(b0) = head /\ b0.ptr - HEADER = head /\ b0.size = size
      BY <1>14, <1>17 DEF Entry
    <2>2. cell'[head].pool = p
      BY <1>2, <1>17, HeaderFacts
    <2>3. Held(b0)' = Extent(head, size, p)
      BY <2>1, <2>2 DEF Held
    <2>4. Extent(head, size, p) = extent(n)
      BY <1>2, <1>14 DEF Extent, extent
    <2> QED BY <2>1, <2>3, <2>4, <1>14, <1>20
  <1>22. BlocksTile'
    <2>0. /\ \A j \in 1 .. n : extent(j) \cap mapped = {}
          /\ mapped' = mapped \cup UNION {extent(j) : j \in 1 .. n}
          /\ \A j \in 1 .. n : j = n \/ j \in 1 .. n - 1
          /\ \A j \in 1 .. n - 1 : j \in 1 .. n /\ j # n
      BY <1>6, <1>9, <1>11
    <2>1. HeadersIntact'
      <3>1. \A b \in live : cell'[b.ptr - HEADER] = cell[b.ptr - HEADER]
        BY <1>20 DEF Entry
      <3>2. cell'[b0.ptr - HEADER].size = b0.size /\ PoolOf(b0.size) = {cell'[b0.ptr - HEADER].pool} \ {NULL}
        BY <1>2, <1>17, <1>21, HeaderFacts DEF Entry
      <3> QED BY <3>1, <3>2, <1>1, <1>16 DEF BlocksTile, HeadersIntact, PoolOf, Fits
    <2>2. mapped' = UNION ({Held(b)' : b \in live'} \cup {Spare(x)' : x \in Places'})
      <3>1. mapped = UNION ({Held(b)' : b \in live} \cup {Spare(x)' : x \in Places})
        BY <1>1, <1>19, <1>20 DEF BlocksTile
      <3>2. UNION {extent(j) : j \in 1 .. n} = extent(n) \cup (UNION {extent(j) : j \in 1 .. n - 1})
        BY <1>15, <2>0
      <3>3. {Held(b)' : b \in live'} = {Held(b)' : b \in live} \cup {extent(n)}
        BY <1>16, <1>21
      <3>4. {Spare(x)' : x \in Places'} = {Spare(x)' : x \in Places} \cup {extent(j) : j \in 1 .. n - 1}
        BY <1>19
      <3> DEFINE A == {Held(b)' : b \in live}
                 D == {Spare(x)' : x \in Places}
                 C == {extent(j) : j \in 1 .. n - 1}
      <3>5. mapped' = mapped \cup (extent(n) \cup UNION C)
        BY <3>2, <2>0
      <3>6. {Held(b)' : b \in live'} \cup {Spare(x)' : x \in Places'} = (A \cup {extent(n)}) \cup (D \cup C)
        BY <3>3, <3>4
      <3>7. mapped = UNION (A \cup D)
        BY <3>1
      <3>8. mapped' = UNION ((A \cup {extent(n)}) \cup (D \cup C))
        <4> HIDE DEF A, D, C
        <4>1. UNION ((A \cup {extent(n)}) \cup (D \cup C))
                = (UNION (A \cup D)) \cup (extent(n) \cup UNION C)
          BY UnionSplit
        <4> QED BY <3>5, <3>7, <4>1
      <3> QED BY <3>6, <3>8
    <2>3. \A b, c \in live' : b # c => Held(b)' \cap Held(c)' = {}
      BY <1>1, <1>15, <1>16, <1>20, <1>21, <2>0 DEF BlocksTile
    <2>4. \A x, y \in Places' : x # y => Spare(x)' \cap Spare(y)' = {}
      <3>1. \A x, y \in Places : x # y => Spare(x)' \cap Spare(y)' = {}
        BY <1>1, <1>19 DEF BlocksTile
      <3>2. \A i, j \in 1 .. n - 1 : <<p, i>> # <<p, j>> => Spare(<<p, i>>)' \cap Spare(<<p, j>>)' = {}
        BY <1>10, <1>19, <2>0
      <3>3. \A x \in Places, j \in 1 .. n - 1 : Spare(x)' \cap Spare(<<p, j>>)' = {}
        BY <1>19, <2>0
      <3> QED BY <3>1, <3>2, <3>3, <1>19
    <2>5. \A b \in live', x \in Places' : Held(b)' \cap Spare(x)' = {}
      <3>1. \A b \in live, x \in Places : Held(b)' \cap Spare(x)' = {}
        BY <1>1, <1>19, <1>20 DEF BlocksTile
      <3>2. \A b \in live, j \in 1 .. n - 1 : Held(b)' \cap Spare(<<p, j>>)' = {}
        BY <1>19, <1>20, <2>0
      <3>3. \A x \in Places : Held(b0)' \cap Spare(x)' = {}
        BY <1>15, <1>19, <1>21, <2>0
      <3>4. \A j \in 1 .. n - 1 : Held(b0)' \cap Spare(<<p, j>>)' = {}
        BY <1>10, <1>15, <1>19, <1>21, <2>0
      <3> QED BY <3>1, <3>2, <3>3, <3>4, <1>16, <1>19
    <2> QED BY <2>1, <2>2, <2>3, <2>4, <2>5 DEF BlocksTile
  <1>23. cells[head].prev = IF n = 1 THEN NULL ELSE s[n - 1]
    <2>1. (IF n = 1 THEN NULL ELSE s[n - 1]) \in Nat
      <3>1. n # 1 => n - 1 \in 1 .. n
        OBVIOUS
      <3> QED BY <3>1, <1>9
    <2> QED BY <2>1, <1>13, <1>14, <1>15, LinkFacts
  <1>24. LinksSpellLists'
    <2> SUFFICES ASSUME NEW q \in Pools
                 PROVE  /\ free_entries'[q] = IF lists'[q] = <<>> THEN NULL ELSE Last(lists'[q])
                        /\ \A i \in DOMAIN lists'[q] : cell'[lists'[q][i]].prev =
                              IF i = 1 THEN NULL ELSE lists'[q][i - 1]
      BY DEF LinksSpellLists
    <2>1. CASE q # p
      <3>1. \A i \in DOMAIN lists[q] : cell'[lists[q][i]] = cell[lists[q][i]]
        <4>1. \A i \in DOMAIN lists[q] : lists[q][i] \in mapped \cap Addresses
          BY <1>1, SpareFacts
        <4> QED BY <4>1, <1>13, <1>17
      <3>2. free_entries'[q] = free_entries[q] /\ lists'[q] = lists[q]
        BY <2>1, <1>1, <1>2, <1>16, <1>17 DEF TypeOK
      <3> QED BY <3>1, <3>2, <1>1 DEF LinksSpellLists
    <2>2. CASE q = p
      <3>1. free_entries'[p] = IF n = 1 THEN NULL ELSE s[n - 1]
        BY <1>1, <1>2, <1>16, <1>23 DEF TypeOK
      <3>2. lists'[p] \in Seq(Nat) /\ Len(lists'[p]) = n - 1
        BY <1>15, <1>17
      <3>3. lists'[p] = <<>> <=> n = 1
        BY <3>2
      <3>4. n # 1 => Last(lists'[p]) = s[n - 1]
        <4>1. n # 1 => n - 1 \in 1 .. n - 1
          OBVIOUS
        <4> QED BY <4>1, <3>2, <1>18 DEF Last
      <3>5. ASSUME NEW i \in 1 .. n - 1
            PROVE  cell'[lists'[p][i]].prev = IF i = 1 THEN NULL ELSE lists'[p][i - 1]
        <4>1. i \in 1 .. n /\ s[i] \in Addresses /\ s[i] # head /\ lists'[p][i] = s[i]
          BY <1>9, <1>18
        <4>2. i # 1 => i - 1 \in 1 .. n - 1
          OBVIOUS
        <4>3. (IF i = 1 THEN NULL ELSE s[i - 1]) \in Nat
          BY <4>2, <1>9, <1>18
        <4>4. cells[s[i]].prev = IF i = 1 THEN NULL ELSE s[i - 1]
          BY <4>1, <4>3, <1>13, LinkFacts
        <4> QED BY <4>1, <4>2, <4>4, <1>17, <1>18
      <3> QED BY <2>2, <3>1, <3>3, <3>4, <3>5, <1>18
    <2> QED BY <2>1, <2>2
  <1>25. TypeOK'
    <2>1. cell' \in [Addresses -> Cells]
      BY <1>2, <1>13, <1>16, HeaderFacts
    <2>2. free_entries' \in [Pools -> Addresses \cup {NULL}]
      <3>1. n # 1 => n - 1 \in 1 .. n
        OBVIOUS
      <3>2. cells[head].prev \in Addresses \cup {NULL}
        BY <3>1, <1>9, <1>23
      <3> QED BY <3>2, <1>1, <1>2, <1>16 DEF TypeOK
    <2>3. lists' \in [Pools -> Seq(Addresses)]
      <3>1. Front(s) \in [1 .. n - 1 -> Addresses] /\ n - 1 \in Nat
        BY <1>9, <1>15
      <3>2. Front(s) \in Seq(Addresses)
        BY <3>1
      <3> QED BY <3>2, <1>1, <1>2, <1>16 DEF TypeOK
    <2>4. head + 1 \in Addresses
      <3>1. head + 1 \in Extent(head, size, p)
        BY <1>2, <1>17, ExtentFacts
      <3> QED BY <3>1, <1>6, <1>9, <1>15, <1>21
    <2>5. live' \subseteq [ptr : Addresses, size : Sizes]
      BY <1>1, <1>14, <1>16, <2>4 DEF TypeOK
    <2>6. mapped' \subseteq PAGE_SIZE .. KernHeapPos' - 1
      BY <1>6
    <2> QED BY <1>6, <2>1, <2>2, <2>3, <2>5, <2>6 DEF TypeOK
  <1>26. HandsOut(b0)
    <2>1. Body(b0) \subseteq extent(n)
      BY <1>2, <1>17, <1>21, ExtentFacts DEF Body
    <2>2. ASSUME NEW c \in live PROVE Body(c) \subseteq mapped
      BY <1>1, HeldFacts DEF Body
    <2>3. ASSUME NEW c \in live PROVE Body(b0) \cap Body(c) = {}
      BY <2>1, <2>2, <1>6, <1>9, <1>15
    <2>4. ASSUME NEW c \in live, NEW a \in Body(c) PROVE cell'[a] = cell[a]
      <3>1. a \in mapped /\ a \in PAGE_SIZE .. page - 1
        BY <2>2, <1>1, <1>5 DEF TypeOK
      <3>2. page \in Addresses
        BY <1>2, <1>6
      <3>3. a \in Addresses
        BY <3>1, <3>2, KmallocAssumption DEF Addresses
      <3> QED BY <3>1, <3>3, <1>13, <1>17
    <2> QED BY <2>3, <2>4, <1>14, <1>16, <1>21 DEF HandsOut
  <1> QED BY <1>22, <1>24, <1>25, <1>26 DEF IInv

\* What kfree does to the blocks of the others: nothing.
TakesBack(b) ==
    /\ live' = live \ {b}
    /\ \A c \in live \ {b} : /\ Body(b) \cap Body(c) = {}
                             /\ \A a \in Body(c) : cell'[a] = cell[a]

\* A block goes back to the list of the pool its header names.
LEMMA FreeToPoolKeepsIInv ==
    ASSUME IInv, NEW b \in live, kfree(b), cell[Entry(b)].pool # NULL
    PROVE  IInv' /\ TakesBack(b)
  <1>1. TypeOK /\ LinksSpellLists /\ BlocksTile
    BY DEF IInv
  <1>2. PICK entry, p : entry = Entry(b) /\ p = cell[Entry(b)].pool
    OBVIOUS
  <1>3. /\ p \in Pools /\ p # NULL /\ entry \in Addresses /\ entry \in Nat /\ entry # 0
        /\ Held(b) \subseteq mapped /\ entry \in Held(b) /\ Body(b) \subseteq Held(b)
        /\ Held(b) = Extent(entry, 0, p)
    <2>1. 0 \notin Addresses
      BY KmallocAssumption DEF Addresses
    <2> QED BY <2>1, <1>1, <1>2, HeldFacts DEF Body
  <1>4. /\ live' = live \ {b}
        /\ cell' = [cell EXCEPT ![entry] = FreeEntry(free_entries[p])]
        /\ free_entries' = [free_entries EXCEPT ![p] = entry]
        /\ lists' = [lists EXCEPT ![p] = Append(lists[p], entry)]
        /\ KernHeapPos' = KernHeapPos /\ mapped' = mapped
    BY <1>2, <1>3 DEF kfree, Freed, Entry
  <1>5. PICK n \in Nat : /\ n = Len(lists[p]) /\ DOMAIN lists[p] = 1 .. n
                         /\ lists[p] \in Seq(Addresses)
    <2>1. lists[p] \in Seq(Addresses)
      BY <1>1, <1>3 DEF TypeOK
    <2> QED BY <2>1
  <1>6. PICK x0 : x0 = <<p, n + 1>>
    OBVIOUS
  <1>7. /\ Append(lists[p], entry) \in Seq(Addresses)
        /\ Len(Append(lists[p], entry)) = n + 1
        /\ \A i \in 1 .. n : Append(lists[p], entry)[i] = lists[p][i]
        /\ Append(lists[p], entry)[n + 1] = entry
    BY <1>3, <1>5
  <1>8. /\ lists'[p] = Append(lists[p], entry) /\ \A q \in Pools \ {p} : lists'[q] = lists[q]
        /\ cell'[entry] = FreeEntry(free_entries[p])
        /\ \A a \in Addresses \ {entry} : cell'[a] = cell[a]
        /\ free_entries'[p] = entry
        /\ \A q \in Pools \ {p} : free_entries'[q] = free_entries[q]
    BY <1>1, <1>3, <1>4 DEF TypeOK
  <1>9. /\ DOMAIN lists'[p] = 1 .. n + 1 /\ lists'[p] \in Seq(Addresses) /\ Len(lists'[p]) = n + 1
        /\ lists'[p][n + 1] = entry
        /\ \A q \in Pools : \A i \in DOMAIN lists[q] :
              /\ i \in DOMAIN lists'[q] /\ lists'[q][i] = lists[q][i]
              /\ lists[q][i] \in Addresses /\ lists[q][i] # entry
    <2>1. DOMAIN lists'[p] = 1 .. n + 1 /\ lists'[p][n + 1] = entry
      BY <1>7, <1>8
    <2>2. ASSUME NEW q \in Pools, NEW i \in DOMAIN lists[q]
          PROVE  i \in DOMAIN lists'[q] /\ lists'[q][i] = lists[q][i]
      <3>1. CASE q = p
        BY <3>1, <2>1, <2>2, <1>5, <1>7, <1>8
      <3>2. CASE q # p
        BY <3>2, <2>2, <1>8
      <3> QED BY <3>1, <3>2
    <2>3. ASSUME NEW q \in Pools, NEW i \in DOMAIN lists[q]
          PROVE  lists[q][i] \in Addresses /\ lists[q][i] # entry
      <3>1. lists[q][i] \in Addresses
        BY <1>1, SpareFacts
      <3>2. lists[q][i] \notin Held(b)
        BY <1>1, EntriesApart
      <3> QED BY <3>1, <3>2, <1>3
    <2> QED BY <2>1, <2>2, <2>3, <1>7, <1>8
  <1>10. /\ Places' = Places \cup {x0} /\ x0 \notin Places
         /\ \A x \in Places : Spare(x)' = Spare(x)
         /\ Spare(x0)' = Held(b)
    <2>1. \A q \in Pools : \A i : <<q, i>> \in Places' <=> i \in DOMAIN lists'[q]
      BY DEF Places
    <2>2. \A q \in Pools : \A i : <<q, i>> \in Places <=> i \in DOMAIN lists[q]
      BY DEF Places
    <2>3. \A q \in Pools : \A i : i \in DOMAIN lists'[q] <=> i \in DOMAIN lists[q] \/ <<q, i>> = x0
      BY <1>5, <1>6, <1>8, <1>9
    <2>4. \A x \in Places \cup Places' \cup {x0} : \E q \in Pools, i \in Nat : x = <<q, i>>
      <3>1. \A q \in Pools : \A i : i \in DOMAIN lists[q] => i \in Nat
        BY <1>1 DEF TypeOK
      <3>2. \A q \in Pools : \A i : i \in DOMAIN lists'[q] => i \in Nat
        BY <3>1, <1>8, <1>9
      <3> QED BY <3>1, <3>2, <1>3, <1>6 DEF Places
    <2>5. Places' = Places \cup {x0}
      BY <2>1, <2>2, <2>3, <2>4
    <2>6. \A q \in Pools : \A i : <<q, i>> \in Places => Spare(<<q, i>>)' = Spare(<<q, i>>)
      BY <2>2, <1>9 DEF Spare
    <2>7. x0 \notin Places
      BY <2>2, <1>3, <1>5, <1>6
    <2>8. Spare(x0)' = Held(b)
      BY <1>3, <1>6, <1>9 DEF Spare
    <2> QED BY <2>4, <2>5, <2>6, <2>7, <2>8
  <1>11. \A c \in live \ {b} : /\ Held(c)' = Held(c) /\ cell'[Entry(c)] = cell[Entry(c)]
    <2> TAKE c \in live \ {b}
    <2>1. Entry(c) \in Addresses /\ Entry(c) # entry
      BY <1>1, <1>3, HeldFacts, EntriesApart
    <2> QED BY <2>1, <1>8 DEF Held, Entry
  <1>12. BlocksTile'
    <2>1. HeadersIntact'
      BY <1>1, <1>4, <1>11 DEF BlocksTile, HeadersIntact, PoolOf, Fits, Entry
    <2>2. mapped' = UNION ({Held(c)' : c \in live'} \cup {Spare(x)' : x \in Places'})
      BY <1>1, <1>4, <1>10, <1>11 DEF BlocksTile
    <2>3. \A c, e \in live' : c # e => Held(c)' \cap Held(e)' = {}
      BY <1>1, <1>4, <1>11 DEF BlocksTile
    <2>4. \A x, y \in Places' : x # y => Spare(x)' \cap Spare(y)' = {}
      BY <1>1, <1>10 DEF BlocksTile
    <2>5. \A c \in live', x \in Places' : Held(c)' \cap Spare(x)' = {}
      BY <1>1, <1>4, <1>10, <1>11 DEF BlocksTile
    <2> QED BY <2>1, <2>2, <2>3, <2>4, <2>5 DEF BlocksTile
  <1>13. free_entries[p] = (IF n = 0 THEN NULL ELSE lists[p][n]) /\ free_entries[p] \in Nat
    <2>1. free_entries[p] = IF lists[p] = <<>> THEN NULL ELSE lists[p][n]
      BY <1>1, <1>3, <1>5 DEF LinksSpellLists, Last
    <2>2. free_entries[p] \in Nat
      BY <1>1, <1>3, KmallocAssumption DEF TypeOK, Addresses
    <2>3. lists[p] = <<>> <=> n = 0
      BY <1>5
    <2> QED BY <2>1, <2>2, <2>3
  <1>14. LinksSpellLists'
    <2> SUFFICES ASSUME NEW q \in Pools
                 PROVE  /\ free_entries'[q] = IF lists'[q] = <<>> THEN NULL ELSE Last(lists'[q])
                        /\ \A i \in DOMAIN lists'[q] : cell'[lists'[q][i]].prev =
                              IF i = 1 THEN NULL ELSE lists'[q][i - 1]
      BY DEF LinksSpellLists
    <2>1. ASSUME NEW i \in DOMAIN lists[q]
          PROVE  cell'[lists'[q][i]].prev = IF i = 1 THEN NULL ELSE lists'[q][i - 1]
      <3>1. i \in Nat \ {0} /\ (i # 1 => i - 1 \in DOMAIN lists[q])
        BY <1>1 DEF TypeOK
      <3>2. cell[lists[q][i]].prev = IF i = 1 THEN NULL ELSE lists[q][i - 1]
        BY <1>1 DEF LinksSpellLists
      <3> QED BY <3>1, <3>2, <1>8, <1>9
    <2>2. CASE q # p
      BY <2>1, <2>2, <1>1, <1>8 DEF LinksSpellLists
    <2>3. CASE q = p
      <3>1. lists'[p] # <<>> /\ Last(lists'[p]) = entry
        BY <1>9 DEF Last
      <3>2. cell'[entry].prev = IF n = 0 THEN NULL ELSE lists[p][n]
        BY <1>8, <1>13, LinkFacts
      <3>3. n # 0 => lists'[p][n] = lists[p][n]
        BY <1>7, <1>8
      <3>4. \A i \in 1 .. n + 1 : i \in 1 .. n \/ i = n + 1
        OBVIOUS
      <3>5. (n + 1) - 1 = n /\ (n + 1 = 1 <=> n = 0)
        OBVIOUS
      <3>6. cell'[lists'[p][n + 1]].prev = IF n + 1 = 1 THEN NULL ELSE lists'[p][(n + 1) - 1]
        BY <3>2, <3>3, <3>5, <1>9
      <3> QED BY <2>1, <2>3, <3>1, <3>4, <3>6, <1>5, <1>8, <1>9
    <2> QED BY <2>2, <2>3
  <1>15. TypeOK'
    <2>1. cell' \in [Addresses -> Cells]
      BY <1>1, <1>3, <1>4, <1>13, LinkFacts DEF TypeOK
    <2>2. free_entries' \in [Pools -> Addresses \cup {NULL}] /\ lists' \in [Pools -> Seq(Addresses)]
      BY <1>1, <1>3, <1>4, <1>7 DEF TypeOK
    <2> QED BY <1>1, <1>4, <2>1, <2>2 DEF TypeOK
  <1>16. TakesBack(b)
    <2>1. ASSUME NEW c \in live \ {b}
          PROVE  Body(b) \cap Body(c) = {} /\ entry \notin Body(c)
      BY <1>1, <1>3, HeldFacts DEF Body, BlocksTile
    <2>2. ASSUME NEW c \in live \ {b}, NEW a \in Body(c) PROVE cell'[a] = cell[a]
      BY <2>1, <1>1, <1>4 DEF TypeOK
    <2> QED BY <2>1, <2>2, <1>4 DEF TakesBack
  <1> QED BY <1>12, <1>14, <1>15, <1>16 DEF IInv

\* The pages of a large block go back.
LEMMA FreeToHeapKeepsIInv ==
    ASSUME IInv, NEW b \in live, kfree(b), cell[Entry(b)].pool = NULL
    PROVE  IInv' /\ TakesBack(b)
  <1>1. TypeOK /\ LinksSpellLists /\ BlocksTile
    BY DEF IInv
  <1>2. Held(b) = Entry(b) .. Entry(b) + Rounded(b.size) - 1 /\ cell[Entry(b)].size = b.size
    BY <1>1, HeldFacts
  <1>3. /\ live' = live \ {b} /\ mapped' = mapped \ Held(b)
        /\ cell' = cell /\ free_entries' = free_entries /\ lists' = lists
        /\ KernHeapPos' = KernHeapPos
    BY <1>2 DEF kfree, FreeKernHeap, Entry
  <1>4. /\ Places' = Places /\ \A x \in Places : Spare(x)' = Spare(x)
        /\ \A c \in live : Held(c)' = Held(c)
    BY <1>3 DEF Places, Spare, Held
  <1>5. BlocksTile'
    <2>1. HeadersIntact'
      BY <1>1, <1>3 DEF BlocksTile, HeadersIntact, PoolOf, Fits
    <2>2. mapped' = UNION ({Held(c)' : c \in live'} \cup {Spare(x)' : x \in Places'})
      BY <1>1, <1>3, <1>4 DEF BlocksTile
    <2> QED BY <2>1, <2>2, <1>1, <1>3, <1>4 DEF BlocksTile
  <1>6. LinksSpellLists' /\ TypeOK'
    BY <1>1, <1>3 DEF LinksSpellLists, TypeOK
  <1>7. TakesBack(b)
    <2>1. ASSUME NEW c \in live \ {b} PROVE Body(b) \cap Body(c) = {}
      BY <1>1, HeldFacts DEF Body, BlocksTile
    <2> QED BY <2>1, <1>3 DEF TakesBack
  <1> QED BY <1>5, <1>6, <1>7 DEF IInv

\* A client writes in its block.
LEMMA WriteKeepsIInv ==
    ASSUME IInv, NEW b \in live, NEW i \in 0 .. b.size - 1, NEW byte \in Bytes, Write(b, i, byte)
    PROVE  IInv'
  <1>1. TypeOK /\ LinksSpellLists /\ BlocksTile
    BY DEF IInv
  <1>2. PICK at : at = b.ptr + i
    OBVIOUS
  <1>3. at \in Held(b) /\ at # Entry(b)
    <2>1. b.ptr \in Nat /\ b.ptr = Entry(b) + 1 /\ b.size \in Nat /\ Entry(b) \in Nat
      BY <1>1, HeldFacts
    <2>2. at \in b.ptr .. b.ptr + b.size - 1
      BY <2>1, <1>2
    <2> QED BY <2>1, <2>2, <1>1, <1>2, HeldFacts
  <1>4. /\ cell' = [cell EXCEPT ![at] = byte]
        /\ free_entries' = free_entries /\ KernHeapPos' = KernHeapPos
        /\ mapped' = mapped /\ live' = live /\ lists' = lists
    BY <1>2 DEF Write
  <1>5. cell' \in [Addresses -> Cells] /\ \A a \in Addresses : a # at => cell'[a] = cell[a]
    BY <1>1, <1>4, KmallocAssumption DEF TypeOK
  <1>6. \A c \in live : cell'[Entry(c)] = cell[Entry(c)] /\ Held(c)' = Held(c)
    <2> TAKE c \in live
    <2>1. Entry(c) \in Addresses /\ Entry(c) # at
      BY <1>1, <1>3, HeldFacts, EntriesApart
    <2> QED BY <2>1, <1>5 DEF Held, Entry
  <1>7. Places' = Places /\ \A x \in Places : Spare(x)' = Spare(x)
    BY <1>4 DEF Places, Spare
  <1>8. \A p \in Pools : \A k \in DOMAIN lists[p] : cell'[lists[p][k]] = cell[lists[p][k]]
    <2> TAKE p \in Pools
    <2> TAKE k \in DOMAIN lists[p]
    <2>1. lists[p][k] \in Addresses
      BY <1>1, SpareFacts
    <2>2. lists[p][k] \notin Held(b)
      BY <1>1, EntriesApart
    <2> QED BY <2>1, <2>2, <1>3, <1>5
  <1>9. BlocksTile'
    <2>1. HeadersIntact'
      BY <1>1, <1>4, <1>6 DEF BlocksTile, HeadersIntact, PoolOf, Fits, Entry
    <2>2. mapped' = UNION ({Held(c)' : c \in live'} \cup {Spare(x)' : x \in Places'})
      BY <1>1, <1>4, <1>6, <1>7 DEF BlocksTile
    <2> QED BY <2>1, <2>2, <1>1, <1>4, <1>6, <1>7 DEF BlocksTile
  <1>10. LinksSpellLists'
    BY <1>1, <1>4, <1>8 DEF LinksSpellLists
  <1>11. TypeOK'
    BY <1>1, <1>4, <1>5 DEF TypeOK
  <1> QED BY <1>9, <1>10, <1>11 DEF IInv
-----------------------------------------------------------------------------
(***************************************************************************)
(* The invariant.                                                          *)
(***************************************************************************)
LEMMA InitIInv == Init => IInv
  <1> SUFFICES ASSUME Init PROVE IInv
    OBVIOUS
  <1>1. /\ cell = [a \in Addresses |-> FreeEntry(NULL)]
        /\ free_entries = [p \in Pools |-> NULL] /\ lists = [p \in Pools |-> <<>>]
        /\ KernHeapPos = PAGE_SIZE /\ mapped = {} /\ live = {}
    BY DEF Init
  <1>2. TypeOK
    <2>1. cell \in [Addresses -> Cells]
      BY <1>1, LinkFacts
    <2>2. KernHeapPos = PAGE_SIZE * 1 /\ 1 \in 1 .. HEAP + 1
      BY <1>1, KmallocAssumption
    <2> QED BY <1>1, <2>1, <2>2 DEF TypeOK
  <1>3. LinksSpellLists
    BY <1>1 DEF LinksSpellLists
  <1>4. Places = {}
    BY <1>1 DEF Places
  <1>5. BlocksTile
    BY <1>1, <1>4 DEF BlocksTile, HeadersIntact
  <1> QED BY <1>2, <1>3, <1>5 DEF IInv

LEMMA KmallocKeepsIInv ==
    ASSUME IInv, NEW size \in Sizes, kmalloc(size)
    PROVE  IInv' /\ \E b : HandsOut(b)
  BY FromPoolKeepsIInv, FromNewPageKeepsIInv, FromHeapKeepsIInv DEF kmalloc

LEMMA KfreeKeepsIInv ==
    ASSUME IInv, NEW b \in live, kfree(b)
    PROVE  IInv' /\ TakesBack(b)
  BY FreeToPoolKeepsIInv, FreeToHeapKeepsIInv

LEMMA StutterKeepsIInv ==
    ASSUME IInv, UNCHANGED vars
    PROVE  IInv'
  <1>1. /\ cell' = cell /\ free_entries' = free_entries /\ KernHeapPos' = KernHeapPos
        /\ mapped' = mapped /\ live' = live /\ lists' = lists
    BY DEF vars
  <1>2. Places' = Places
    BY <1>1 DEF Places
  <1>3. (\A x : Spare(x)' = Spare(x)) /\ (\A b : Held(b)' = Held(b))
    BY <1>1 DEF Spare, Held
  <1>4. TypeOK' /\ LinksSpellLists' /\ HeadersIntact'
    BY <1>1 DEF IInv, TypeOK, LinksSpellLists, BlocksTile, HeadersIntact, PoolOf, Fits
  <1>5. BlocksTile'
    BY <1>1, <1>2, <1>3, <1>4 DEF IInv, BlocksTile
  <1> QED BY <1>4, <1>5 DEF IInv

LEMMA NextKeepsIInv == IInv /\ [Next]_vars => IInv'
  <1> SUFFICES ASSUME IInv, [Next]_vars PROVE IInv'
    OBVIOUS
  <1>1. ASSUME NEW size \in Sizes, kmalloc(size) PROVE IInv'
    BY <1>1, KmallocKeepsIInv
  <1>2. ASSUME NEW b \in live, kfree(b) PROVE IInv'
    BY <1>2, KfreeKeepsIInv
  <1>3. ASSUME NEW b \in live, NEW byte \in Bytes, NEW i \in 0 .. b.size - 1, Write(b, i, byte)
        PROVE  IInv'
    BY <1>3, WriteKeepsIInv
  <1>4. CASE UNCHANGED vars
    BY <1>4, StutterKeepsIInv
  <1> QED BY <1>1, <1>2, <1>3, <1>4 DEF Next

\* The heap's lists, headers and blocks stay as kmalloc and kfree need them,
\* whatever clients ask for, write and give back (lib/kmalloc.cpp).
THEOREM KmallocInvariant == Spec => []IInv
  BY InitIInv, NextKeepsIInv, PTL DEF Spec

\* The cells keep their type, and the heap grows by whole pages.
THEOREM KmallocTypeCorrect == Spec => []TypeOK
  <1>1. IInv => TypeOK
    BY DEF IInv
  <1> QED BY <1>1, KmallocInvariant, PTL

\* The links kept in free blocks spell the pools' lists: what clients write
\* next to them never reaches them.
THEOREM KmallocLinksSpellLists == Spec => []LinksSpellLists
  <1>1. IInv => LinksSpellLists
    BY DEF IInv
  <1> QED BY <1>1, KmallocInvariant, PTL

\* Every cell of the heap is in one block, free or handed out, and the header
\* of a block handed out says where it goes back to.
THEOREM KmallocBlocksTile == Spec => []BlocksTile
  <1>1. IInv => BlocksTile
    BY DEF IInv
  <1> QED BY <1>1, KmallocInvariant, PTL

-----------------------------------------------------------------------------
(***************************************************************************)
(* The heap implements module Blocks.                                      *)
(***************************************************************************)
Owned == UNION {Body(b) : b \in live}

Memory == [a \in Owned |-> cell[a]]

\* What Memory is, in the words of the refinement.
LEMMA MemoryFacts ==
    ASSUME TypeOK, BlocksTile
    PROVE  /\ Memory = [a \in UNION {b.ptr .. b.ptr + b.size - 1 : b \in live} |-> cell[a]]
           /\ DOMAIN Memory = Owned /\ Owned \subseteq mapped
  <1>1. Owned \subseteq mapped
    BY HeldFacts DEF Owned, Body
  <1> QED BY <1>1 DEF Memory, Owned, Body

\* kmalloc is Malloc.
LEMMA MallocRefines ==
    ASSUME NEW b, HandsOut(b)
    PROVE  B!Next
  <1>1. /\ live' = live \cup {b} /\ b \in live'
        /\ b = [ptr |-> b.ptr, size |-> b.size] /\ b.size \in Sizes
        /\ \A c \in live : /\ Body(b) \cap Body(c) = {}
                           /\ \A a \in Body(c) : cell'[a] = cell[a]
    BY DEF HandsOut
  <1>2. Owned' = Owned \cup Body(b)
    BY <1>1 DEF Owned
  <1>3. Body(b) \cap Owned = {} /\ \A a \in Owned : cell'[a] = cell[a]
    BY <1>1 DEF Owned
  <1>4. /\ DOMAIN Memory = Owned /\ DOMAIN Memory' = Owned'
        /\ \A a \in Owned : Memory'[a] = Memory[a]
    BY <1>2, <1>3 DEF Memory
  <1>5. B!Malloc(b.ptr, b.size)
    BY <1>1, <1>2, <1>3, <1>4 DEF B!Malloc, B!Span, Memory, Owned, Body
  <1> QED BY <1>1, <1>5 DEF B!Next

\* kfree is Free.
LEMMA FreeRefines ==
    ASSUME NEW b \in live, TakesBack(b)
    PROVE  B!Next
  <1>1. /\ live' = live \ {b}
        /\ \A c \in live \ {b} : /\ Body(b) \cap Body(c) = {}
                                 /\ \A a \in Body(c) : cell'[a] = cell[a]
    BY DEF TakesBack
  <1>2. Owned' = Owned \ Body(b)
    BY <1>1 DEF Owned
  <1>3. \A a \in Owned' : cell'[a] = cell[a] /\ a \in Owned
    BY <1>1 DEF Owned
  <1>4. Memory' = [a \in Owned \ Body(b) |-> Memory[a]] /\ DOMAIN Memory = Owned
    BY <1>2, <1>3 DEF Memory
  <1>5. B!Free(b)
    BY <1>1, <1>4 DEF B!Free, B!Span, Memory, Owned, Body
  <1> QED BY <1>5 DEF B!Next

\* A client's write is Write.
LEMMA WriteRefines ==
    ASSUME IInv, NEW b \in live, NEW i \in 0 .. b.size - 1, NEW byte \in Bytes, Write(b, i, byte)
    PROVE  B!Next
  <1>1. PICK at : at = b.ptr + i
    OBVIOUS
  <1>2. cell' = [cell EXCEPT ![at] = byte] /\ live' = live /\ Owned' = Owned
    BY <1>1 DEF Write, Owned
  <1>3. at \in Owned
    <2>1. b.ptr \in Nat /\ b.size \in Nat
      <3>1. b.ptr = Entry(b) + 1 /\ Entry(b) \in Nat /\ b.size \in Nat
        BY HeldFacts DEF IInv
      <3> QED BY <3>1
    <2>2. at \in Body(b)
      BY <2>1, <1>1 DEF Body
    <2> QED BY <2>2 DEF Owned
  <1>4. cell \in [Addresses -> Cells] /\ Owned \subseteq DOMAIN cell
    <2>1. mapped \subseteq Addresses
      <3>1. PICK m \in 1 .. HEAP + 1 : KernHeapPos = PAGE_SIZE * m
        BY DEF IInv, TypeOK
      <3>2. PAGE_SIZE * m <= (HEAP + 1) * PAGE_SIZE /\ PAGE_SIZE * m \in Nat
        BY KmallocAssumption
      <3>3. PAGE_SIZE .. KernHeapPos - 1 \subseteq Addresses
        BY <3>1, <3>2, KmallocAssumption DEF Addresses
      <3> QED BY <3>3 DEF IInv, TypeOK
    <2> QED BY <2>1, MemoryFacts DEF IInv, TypeOK
  <1>5. Memory' = [Memory EXCEPT ![at] = byte] /\ DOMAIN Memory = Owned
    BY <1>2, <1>3, <1>4 DEF Memory
  <1>6. B!Write(at, byte)
    BY <1>2, <1>5 DEF B!Write, Memory, Owned, Body
  <1> QED BY <1>3, <1>5, <1>6 DEF B!Next, Memory, Owned, Body

\* No call changes a byte of a block somebody holds, and no two blocks share
\* one: kmalloc, kfree and the clients' writes are steps of module Blocks.
THEOREM KmallocImplementsBlocks == Spec => ImplementsBlocks
  <1>1. Init => B!Init
    <2> SUFFICES ASSUME Init PROVE B!Init
      OBVIOUS
    <2>1. live = {}
      BY DEF Init
    <2>2. UNION {b.ptr .. b.ptr + b.size - 1 : b \in live} = {}
      BY <2>1
    <2>3. [a \in {} |-> cell[a]] = <<>>
      OBVIOUS
    <2> QED BY <2>1, <2>2, <2>3 DEF B!Init
  <1>2. IInv /\ [Next]_vars => [B!Next]_(B!vars)
    <2> SUFFICES ASSUME IInv, [Next]_vars PROVE [B!Next]_(B!vars)
      OBVIOUS
    <2>1. ASSUME NEW size \in Sizes, kmalloc(size) PROVE B!Next
      BY <2>1, KmallocKeepsIInv, MallocRefines
    <2>2. ASSUME NEW b \in live, kfree(b) PROVE B!Next
      BY <2>2, KfreeKeepsIInv, FreeRefines
    <2>3. ASSUME NEW b \in live, NEW byte \in Bytes, NEW i \in 0 .. b.size - 1, Write(b, i, byte)
          PROVE  B!Next
      BY <2>3, WriteRefines
    <2>4. CASE UNCHANGED vars
      BY <2>4 DEF vars, B!vars
    <2> QED BY <2>1, <2>2, <2>3, <2>4 DEF Next
  <1> QED BY <1>1, <1>2, KmallocInvariant, PTL DEF Spec, ImplementsBlocks, B!Spec
=============================================================================
