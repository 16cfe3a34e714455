------------------------------ MODULE Kmalloc ------------------------------
(***************************************************************************)
(* The kernel heap of lib/kmalloc.cpp, and a client that writes into the   *)
(* blocks it holds and frees them in any order.  Memory is counted in      *)
(* cells of the size of a KmallocEntry.  A free block starts with a        *)
(* FreeEntry, a block handed out with a KmallocEntry, in the same cell: a  *)
(* cell is what it reads as, one way and the other (nothing reads the      *)
(* header of a free block, whose pool field keeps some bytes of the old).  *)
(* Alloc's NULL, which the code does not test, is out of the model: there  *)
(* the next write is to an address nobody mapped.                          *)
(***************************************************************************)
EXTENDS Naturals, Sequences, SequencesExt

CONSTANTS
    PAGE_SIZE,   \* cells of a page
    PoolSizes,   \* the block sizes of kmalloc_pools, in cells
    HEAP,        \* bound: the pages of heap the model gets to
    Sizes,       \* the sizes asked for, in cells
    Bytes        \* what the client writes in a cell

NULL == 0

HEADER == 1   \* sizeof(struct KmallocEntry)

Pools == DOMAIN PoolSizes

Addresses == PAGE_SIZE .. (HEAP + 1) * PAGE_SIZE - 1

Cells == [prev : Nat, size : Nat, pool : Pools \cup {NULL}]

ASSUME KmallocAssumption ==
    /\ PAGE_SIZE \in Nat \ {0} /\ HEAP \in Nat
    /\ PoolSizes \in Seq(1 .. PAGE_SIZE)
    /\ \A p \in Pools : PAGE_SIZE % PoolSizes[p] = 0
    /\ Sizes \subseteq Nat \ {0} /\ Bytes \subseteq Cells

VARIABLES
    cell,           \* what memory holds
    free_entries,   \* the member of every pool
    KernHeapPos,    \* where the heap goes on (mm/x86_64/Page.cpp)
    mapped,         \* the cells of the pages the heap has
    live,           \* the blocks handed out
    lists           \* the free blocks of every pool, the next to go last

vars == <<cell, free_entries, KernHeapPos, mapped, live, lists>>

FreeEntry(prev) == [prev |-> prev, size |-> 0, pool |-> NULL]

KmallocEntry(size, pool) == [prev |-> NULL, size |-> size, pool |-> pool]

Init ==
    /\ cell = [a \in Addresses |-> FreeEntry(NULL)]
    /\ free_entries = [p \in Pools |-> NULL]
    /\ KernHeapPos = PAGE_SIZE
    /\ mapped = {} /\ live = {} /\ lists = [p \in Pools |-> <<>>]

-----------------------------------------------------------------------------
\* Mutant: the header is forgotten.
FitsBare(p, size) == PoolSizes[p] >= size

Fits(p, size) == PoolSizes[p] >= size + HEADER

\* The first pool, in the order of the table, whose blocks are large enough.
PoolOf(size) ==
    {p \in Pools : Fits(p, size) /\ \A r \in 1 .. p - 1 : ~Fits(r, size)}

\* Mutant: one block more than the page holds.
CarvedTooMany(p, page) ==
    [j \in 1 .. PAGE_SIZE \div PoolSizes[p] + 1 |-> page + PoolSizes[p] * (j - 1)]

\* The blocks a fresh page is cut into, first to last.
Carved(p, page) ==
    [j \in 1 .. PAGE_SIZE \div PoolSizes[p] |-> page + PoolSizes[p] * (j - 1)]

\* The cells after the blocks s were pushed on an empty list one by one.
Linked(s) ==
    [a \in Addresses |->
        IF \E j \in DOMAIN s : s[j] = a
        THEN LET j == CHOOSE k \in DOMAIN s : s[k] = a
             IN  FreeEntry(IF j = 1 THEN NULL ELSE s[j - 1])
        ELSE cell[a]]

\* Mutant: no rounding.
RoundedNot(size) == size + HEADER

\* ROUND_UP(size + sizeof(struct KmallocEntry), PAGE_SIZE).
Rounded(size) == ((size + HEADER + PAGE_SIZE - 1) \div PAGE_SIZE) * PAGE_SIZE

\* Page::AllocKernHeap and FreeKernHeap (module Paging).
AllocKernHeap(size) ==
    /\ KernHeapPos + size <= (HEAP + 1) * PAGE_SIZE
    /\ KernHeapPos' = KernHeapPos + size
    /\ mapped' = mapped \cup KernHeapPos .. KernHeapPos + size - 1

FreeKernHeap(addr, size) ==
    /\ mapped' = mapped \ (addr .. addr + size - 1)
    /\ UNCHANGED KernHeapPos

\* The block at entry becomes the block of a caller.
HandOut(entry, cells, size, pool) ==
    /\ cell' = [cells EXCEPT ![entry] = KmallocEntry(size, pool)]
    /\ live' = live \cup {[ptr |-> entry + HEADER, size |-> size]}

\* The head of the pool's list is the block.
TakeFirst(p, head, cells, list, size) ==
    /\ HandOut(head, cells, size, p)
    /\ free_entries' = [free_entries EXCEPT ![p] = cells[head].prev]
    /\ lists' = [lists EXCEPT ![p] = Front(list)]

FromPool(p, size) ==
    /\ free_entries[p] # NULL
    /\ TakeFirst(p, free_entries[p], cell, lists[p], size)
    /\ UNCHANGED <<KernHeapPos, mapped>>

FromNewPage(p, size) ==
    LET blocks == Carved(p, KernHeapPos)
    IN  /\ free_entries[p] = NULL
        /\ AllocKernHeap(PAGE_SIZE)
        /\ TakeFirst(p, Last(blocks), Linked(blocks), blocks, size)

FromHeap(size) ==
    /\ PoolOf(size) = {}
    /\ AllocKernHeap(Rounded(size))
    /\ HandOut(KernHeapPos, cell, size, NULL)
    /\ UNCHANGED <<free_entries, lists>>

kmalloc(size) ==
    \/ \E p \in PoolOf(size) : FromPool(p, size) \/ FromNewPage(p, size)
    \/ FromHeap(size)

\* Mutant: the link to the rest of the list is not written.
FreedUnlinked(entry, pool) == cell

Freed(entry, pool) == [cell EXCEPT ![entry] = FreeEntry(free_entries[pool])]

kfree(b) ==
    LET entry == b.ptr - HEADER
        pool == cell[entry].pool
    IN  /\ live' = live \ {b}
        /\ IF pool # NULL
           THEN /\ cell' = Freed(entry, pool)
                /\ free_entries' = [free_entries EXCEPT ![pool] = entry]
                /\ lists' = [lists EXCEPT ![pool] = Append(@, entry)]
                /\ UNCHANGED <<KernHeapPos, mapped>>
           ELSE /\ FreeKernHeap(entry, Rounded(cell[entry].size))
                /\ UNCHANGED <<cell, free_entries, lists>>

\* The client writes where it may.
Write(b, i, byte) ==
    /\ cell' = [cell EXCEPT ![b.ptr + i] = byte]
    /\ UNCHANGED <<free_entries, KernHeapPos, mapped, live, lists>>

Next ==
    \/ \E size \in Sizes : kmalloc(size)
    \/ \E b \in live : kfree(b)
    \/ \E b \in live, byte \in Bytes : \E i \in 0 .. b.size - 1 : Write(b, i, byte)

Spec == Init /\ [][Next]_vars

-----------------------------------------------------------------------------
\* Cells keep their type, the heap grows by whole pages, and every block
\* handed out or free starts inside it.
TypeOK ==
    /\ cell \in [Addresses -> Cells]
    /\ free_entries \in [Pools -> Addresses \cup {NULL}]
    /\ KernHeapPos \in {PAGE_SIZE * n : n \in 1 .. HEAP + 1}
    /\ mapped \subseteq PAGE_SIZE .. KernHeapPos - 1
    /\ live \subseteq [ptr : Addresses, size : Sizes]
    /\ lists \in [Pools -> Seq(Addresses)]

\* The links in the free blocks still spell the pools' lists, whatever
\* clients write into blocks that begin and end next to them.
LinksSpellLists ==
    \A p \in Pools :
        /\ free_entries[p] = IF lists[p] = <<>> THEN NULL ELSE Last(lists[p])
        /\ \A i \in DOMAIN lists[p] :
              cell[lists[p][i]].prev = IF i = 1 THEN NULL ELSE lists[p][i - 1]

\* The header of a block handed out is what kmalloc wrote in it.
HeadersIntact ==
    \A b \in live :
        LET header == cell[b.ptr - HEADER]
        IN  header.size = b.size /\ PoolOf(b.size) = {header.pool} \ {NULL}

\* The cells a block takes, header and rest of the block included.
Extent(entry, size, pool) ==
    entry .. entry + (IF pool = NULL THEN Rounded(size) ELSE PoolSizes[pool]) - 1

Held(b) == Extent(b.ptr - HEADER, b.size, cell[b.ptr - HEADER].pool)

\* The places in the pools' lists, and the block in one.
Places == UNION {{p} \X DOMAIN lists[p] : p \in Pools}

Spare(x) == Extent(lists[x[1]][x[2]], 0, x[1])

\* Every cell of the heap's pages is in exactly one block, handed out, with the
\* header kmalloc wrote, or free in one place of one list, that of the pool it
\* came from: kfree, which trusts the header, puts a block back where kmalloc
\* takes it.
BlocksTile ==
    /\ HeadersIntact
    /\ mapped = UNION ({Held(b) : b \in live} \cup {Spare(x) : x \in Places})
    /\ \A b, c \in live : b # c => Held(b) \cap Held(c) = {}
    /\ \A x, y \in Places : x # y => Spare(x) \cap Spare(y) = {}
    /\ \A b \in live, x \in Places : Held(b) \cap Spare(x) = {}

IInv == TypeOK /\ LinksSpellLists /\ BlocksTile

B == INSTANCE Blocks WITH
        body <- [a \in UNION {b.ptr .. b.ptr + b.size - 1 : b \in live} |-> cell[a]]

\* The heap implements module Blocks: no call changes a byte of a block that
\* somebody holds.
ImplementsBlocks == B!Spec
=============================================================================
