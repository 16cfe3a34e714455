------------------------------- MODULE Paging -------------------------------
(***************************************************************************)
(* Virtual memory: the page tables of mm/x86_64/Page.cpp, the page fault   *)
(* handler that gives a page its frame at the first store, and the calls   *)
(* that hand out kernel stacks and heap.                                   *)
(*                                                                         *)
(* An address is [reg, n]: page n of the region of stacks or of the heap,  *)
(* each the reach of one level 4 entry, which is present from the boot on. *)
(* An entry's p bit is base # NULL: only the unchecked NULL of the frame   *)
(* allocator would tell them apart, and the model stops there.  rw bits    *)
(* are left out: the boot leaves write protection (CR0.WP) off.            *)
(***************************************************************************)
EXTENDS Naturals, FiniteSets

CONSTANTS
    PAGE_TABLE_SIZE,   \* entries of a table, so pages under a level 1 table
    Room,              \* bound: the pages of each region the model gets to
    Frames,            \* the frames the allocator has to give
    NULL,
    Sizes,             \* the sizes of heap asked for, in pages
    Words,             \* what is stored in a page, as the table it would read as
    ZeroAvl            \* avl_1 of what lies at address 0: the values it can have

Regions == {"stack", "heap"}

Index == 0 .. PAGE_TABLE_SIZE - 1

Addresses == UNION {[reg : {reg}, n : 0 .. Room[reg] - 1] : reg \in Regions}

Entries == [base : Frames \cup {NULL}, avl : BOOLEAN]

Tables == [Index -> Entries]

ASSUME PagingAssumption ==
    /\ PAGE_TABLE_SIZE \in Nat \ {0}
    /\ Room \in [Regions -> 1 .. PAGE_TABLE_SIZE * PAGE_TABLE_SIZE * PAGE_TABLE_SIZE]
    /\ Sizes \subseteq Nat \ {0}
    /\ NULL \notin Frames /\ Words \subseteq Tables
    /\ ZeroAvl \subseteq BOOLEAN

VARIABLES
    vm,      \* p3: kern_stack_p3 and kern_heap_p3; rows: the frames' contents;
             \* free: the frames not given; fault: what stopped the machine
    pos,     \* KernStackPos and KernHeapPos
    call,    \* the call in progress
    live,    \* the ranges handed out and not given back
    cr2,     \* the address of the fault that stopped the machine
    tlb      \* the translations the processor keeps, address to frame

vars == <<vm, pos, call, live, cr2, tlb>>

Up == vm.fault = "none"

Fatal(v, why) == [v EXCEPT !.fault = why]

-----------------------------------------------------------------------------
(***************************************************************************)
(* addrToPageOffset and walkPageTable: the tables an address goes through, *)
(* NULL from where one is missing.                                         *)
(***************************************************************************)
l1(a) == a.n % PAGE_TABLE_SIZE
l2(a) == (a.n \div PAGE_TABLE_SIZE) % PAGE_TABLE_SIZE
l3(a) == a.n \div (PAGE_TABLE_SIZE * PAGE_TABLE_SIZE)

Clear == [base |-> NULL, avl |-> FALSE]

ZeroTable == [i \in Index |-> Clear]

TableL2(v, a) == v.p3[a.reg][l3(a)].base

EntryL2(v, a) == v.rows[TableL2(v, a)][l2(a)]

TableL1(v, a) == IF TableL2(v, a) = NULL THEN NULL ELSE EntryL2(v, a).base

EntryL1(v, a) == v.rows[TableL1(v, a)][l1(a)]

\* The frame behind an address, NULL if none.
FrameOf(v, a) == IF TableL1(v, a) = NULL THEN NULL ELSE EntryL1(v, a).base

(***************************************************************************)
(* Frame::Alloc as module Pool has it: any free frame will do, for nothing *)
(* tells frames apart.  The callers use what they get without looking; a   *)
(* NULL would make frame 0 a table or a page.                              *)
(***************************************************************************)
Granted(v) == CHOOSE f \in v.free : TRUE

Taken(v) == [v EXCEPT !.free = @ \ {Granted(v)}]

\* Mutant: the frame is not cleared.
TakenDirty(v) == Taken(v)

TakenZeroed(v) == [Taken(v) EXCEPT !.rows[Granted(v)] = ZeroTable]

SetL2(v, a, entry) == [v EXCEPT !.rows[TableL2(v, a)][l2(a)] = entry]

SetL1(v, a, entry) == [v EXCEPT !.rows[TableL1(v, a)][l1(a)] = entry]

AddL2(v, a) == [TakenZeroed(v) EXCEPT !.p3[a.reg][l3(a)].base = Granted(v)]

AddL1(v, a) == SetL2(TakenZeroed(v), a, [base |-> Granted(v), avl |-> TRUE])

-----------------------------------------------------------------------------
(***************************************************************************)
(* One turn of the loop of alloc_virt_4k_chunk, at address a with left     *)
(* pages to go.                                                            *)
(***************************************************************************)
\* Mutant: a range that ends inside the table spans it too.
SpansSomeOf(v, a, left) == TableL1(v, a) = NULL /\ l1(a) = 0

\* A level 1 table that would be all new waits for the first page fault.
Spans(v, a, left) ==
    TableL1(v, a) = NULL /\ left >= PAGE_TABLE_SIZE /\ l1(a) = 0

MarkL1(v, a) == SetL1(v, a, [EntryL1(v, a) EXCEPT !.avl = TRUE])

alloc_chunk(v, a, left) ==
    IF Spans(v, a, left) THEN SetL2(v, a, [EntryL2(v, a) EXCEPT !.avl = TRUE])
    ELSE IF TableL1(v, a) # NULL THEN MarkL1(v, a)
    ELSE IF v.free = {} THEN Fatal(v, "frame 0")
    ELSE MarkL1(AddL1(v, a), a)

alloc_turn(v, a, left) ==
    IF TableL2(v, a) # NULL THEN alloc_chunk(v, a, left)
    ELSE IF v.free = {} THEN Fatal(v, "frame 0")
    ELSE alloc_chunk(AddL2(v, a), a, left)

\* Mutant: the page's frame is not given back.
free_page_leaks(v, a) == SetL1(v, a, Clear)

free_page(v, a) == SetL1([v EXCEPT !.free = @ \cup ({FrameOf(v, a)} \ {NULL})], a, Clear)

\* One turn of the loop of free_virt_4k_chunk.
free_turn(v, a) ==
    IF TableL1(v, a) # NULL THEN free_page(v, a)
    ELSE IF TableL2(v, a) # NULL THEN SetL2(v, a, Clear)
    ELSE v

-----------------------------------------------------------------------------
(***************************************************************************)
(* pf_irq_handler.  Where the level 1 table is missing its entry is read   *)
(* at address 0: zero says what is found there.                            *)
(***************************************************************************)
Unallocated(v, a, zero) ==
    \/ TableL2(v, a) = NULL
    \/ ~EntryL2(v, a).avl
    \/ ~(IF TableL1(v, a) = NULL THEN zero ELSE EntryL1(v, a).avl)

FullTable == [i \in Index |-> [base |-> NULL, avl |-> TRUE]]

\* Mutant: only the entry of the fault is marked.
pf_table_of_one(v, a) ==
    IF TableL1(v, a) # NULL THEN v
    ELSE IF v.free = {} THEN Fatal(v, "frame 0")
    ELSE MarkL1(AddL1(v, a), a)

pf_table(v, a) ==
    IF TableL1(v, a) # NULL THEN v
    ELSE IF v.free = {} THEN Fatal(v, "frame 0")
    ELSE [AddL1(v, a) EXCEPT !.rows[Granted(v)] = FullTable]

pf_page(v, a) ==
    IF v.fault # "none" THEN v
    ELSE IF v.free = {} THEN Fatal(v, "frame 0")
    ELSE SetL1(Taken(v), a, [EntryL1(v, a) EXCEPT !.base = Granted(v)])

pf_irq_handler(v, a, zero) ==
    IF Unallocated(v, a, zero) THEN Fatal(v, "unallocated")
    ELSE pf_page(pf_table(v, a), a)

-----------------------------------------------------------------------------
Stretch(reg, start, end) == [reg |-> reg, start |-> start, end |-> end]

PagesOf(r) == {a \in Addresses : a.reg = r.reg /\ r.start <= a.n /\ a.n < r.end}

Owned == UNION {PagesOf(r) : r \in live}

Idle == [op |-> "none", range |-> Stretch("heap", 0, 0), at |-> 0]

\* The Page object: a table of level 4, two empty ones of level 3.
Init ==
    /\ vm = [p3   |-> [reg \in Regions |-> ZeroTable],
             rows |-> [f \in Frames |-> ZeroTable],
             free |-> Frames, fault |-> "none"]
    /\ pos = [reg \in Regions |-> 0]
    /\ call = Idle /\ live = {} /\ cr2 = NULL /\ tlb = <<>>

Start(op, range) == call' = [op |-> op, range |-> range, at |-> range.start]

\* A region is never used up: it holds 512 GB.
Alloc(reg, size) ==
    /\ Up /\ call = Idle
    /\ pos[reg] + size <= Room[reg]
    /\ Start("alloc", Stretch(reg, pos[reg], pos[reg] + size))
    /\ UNCHANGED <<vm, pos, live, cr2, tlb>>

\* A stack has the size of what a level 1 table maps.
AllocKernStackMem == Alloc("stack", PAGE_TABLE_SIZE)

AllocKernHeap(size) == Alloc("heap", size)

\* Mutant: a region whose last range is given back shrinks.
FreeShrinks(reg, r) ==
    /\ Up /\ call = Idle
    /\ r.reg = reg
    /\ Start("free", r)
    /\ live' = live \ {r}
    /\ pos' = [pos EXCEPT ![reg] = IF r.end = @ THEN r.start ELSE @]
    /\ UNCHANGED <<vm, cr2, tlb>>

\* What is given back is a range that was handed out.
Free(reg, r) ==
    /\ Up /\ call = Idle
    /\ r.reg = reg
    /\ Start("free", r)
    /\ live' = live \ {r}
    /\ UNCHANGED <<vm, pos, cr2, tlb>>

FreeKernStackMem(r) == Free("stack", r)

FreeKernHeap(r) == Free("heap", r)

At == [reg |-> call.range.reg, n |-> call.at]

Left == call.range.end - call.at

\* The loops.  Interrupts are off, so nothing comes between their turns but a
\* page fault on the caller's own stack.
alloc_virt_4k_chunk ==
    /\ Up /\ call.op = "alloc" /\ Left > 0
    /\ vm' = alloc_turn(vm, At, Left)
    /\ call' = [call EXCEPT !.at = @ + IF Spans(vm, At, Left) THEN PAGE_TABLE_SIZE ELSE 1]
    /\ UNCHANGED <<pos, live, cr2, tlb>>

free_virt_4k_chunk ==
    /\ Up /\ call.op = "free" /\ Left > 0
    /\ vm' = free_turn(vm, At)
    /\ call' = [call EXCEPT !.at = @ + 1]
    /\ UNCHANGED <<pos, live, cr2, tlb>>

Return ==
    /\ Up /\ call # Idle /\ Left = 0
    /\ call' = Idle
    /\ IF call.op = "alloc"
       THEN /\ pos' = [pos EXCEPT ![call.range.reg] = call.range.end]
            /\ live' = live \cup {call.range}
       ELSE UNCHANGED <<pos, live>>
    /\ UNCHANGED <<vm, cr2, tlb>>

\* The processor walks the tables only for a page it has no translation of, and
\* keeps what it found; freeing does not tell it (no invlpg).  That it keeps
\* every translation is the worst case.  A store that faulted is made again
\* after the handler returned.
Cached(a) == a \in DOMAIN tlb

Filled(a, f) == [b \in DOMAIN tlb \cup {a} |-> IF b = a THEN f ELSE tlb[b]]

StoreCached(a, word) ==
    /\ Cached(a)
    /\ vm' = [vm EXCEPT !.rows[tlb[a]] = word]
    /\ UNCHANGED <<cr2, tlb>>

StoreWalking(a, word) ==
    /\ ~Cached(a)
    /\ \E zero \in ZeroAvl :
          LET v == IF FrameOf(vm, a) # NULL THEN vm ELSE pf_irq_handler(vm, a, zero)
          IN  IF v.fault = "none"
              THEN /\ vm' = [v EXCEPT !.rows[FrameOf(v, a)] = word]
                   /\ tlb' = Filled(a, FrameOf(v, a)) /\ UNCHANGED cr2
              ELSE /\ vm' = v /\ UNCHANGED tlb
                   /\ cr2' = IF v.fault = "unallocated" THEN a ELSE cr2

Store(a, word) ==
    /\ Up
    /\ StoreCached(a, word) \/ StoreWalking(a, word)
    /\ UNCHANGED <<pos, call, live>>

\* A program stores to what it was handed, and a wild pointer beyond.
StoreOwned == \E a \in Owned, word \in Words : Store(a, word)

StoreBeyond ==
    /\ call = Idle
    /\ \E a \in Addresses, word \in Words : a.n >= pos[a.reg] /\ Store(a, word)

Next ==
    \/ AllocKernStackMem \/ (\E size \in Sizes : AllocKernHeap(size))
    \/ (\E r \in live : FreeKernStackMem(r) \/ FreeKernHeap(r))
    \/ alloc_virt_4k_chunk \/ free_virt_4k_chunk \/ Return
    \/ StoreOwned \/ StoreBeyond

Spec == Init /\ [][Next]_vars

-----------------------------------------------------------------------------
\* Table entries point to frames, positions stay inside their region, and a
\* loop never runs past the end of its range.
TypeOK ==
    /\ vm \in [p3   : [Regions -> Tables],
               rows : [Frames -> Tables],
               free : SUBSET Frames,
               fault : {"none", "frame 0", "unallocated"}]
    /\ \A reg \in Regions : pos[reg] \in 0 .. Room[reg]
    /\ call.op \in {"none", "alloc", "free"}
    /\ call.at \in call.range.start .. call.range.end
    /\ \A r \in live : PagesOf(r) # {} /\ r.end <= pos[r.reg]
    /\ cr2 \in Addresses \cup {NULL}
    /\ DOMAIN tlb \subseteq Addresses /\ \A a \in DOMAIN tlb : tlb[a] \in Frames

\* Which of the region's entries lead to a frame.
TablesL2 == {TableL2(vm, a) : a \in Addresses} \ {NULL}

TablesL1 == {TableL1(vm, a) : a \in Addresses} \ {NULL}

Slots(f) ==
    {s \in Regions \X Index : vm.p3[s[1]][s[2]].base = f}
        \cup {s \in (TablesL2 \cup TablesL1) \X Index : vm.rows[s[1]][s[2]].base = f}

\* Every frame is free, or it is what exactly one entry of exactly one table
\* points to: none backs two pages, none is a table and a page, none is lost.
FramesAccounted ==
    \A f \in Frames :
        /\ f \in vm.free => Slots(f) = {}
        /\ f \notin vm.free => Cardinality(Slots(f)) = 1

\* The addresses the page fault handler would serve.
Marked == {a \in Addresses : ~Unallocated(vm, a, TRUE)}

\* Between calls the tables, with their two levels of marks, say exactly
\* what was handed out.
MarkedIsOwned == call = Idle /\ Up => Marked = Owned

\* Freeing clears the entry and not the processor's translation of it.  That is
\* sound only because no address is handed out twice: what the processor keeps
\* of a page somebody owns is what the tables say of it.
NoStaleTranslation ==
    \A a \in Owned \cap DOMAIN tlb : tlb[a] = FrameOf(vm, a)

AS == INSTANCE AddressSpace WITH
        Pages    <- Addresses,
        None     <- NULL,
        owned    <- Marked,
        contents <- [a \in {b \in Addresses : FrameOf(vm, b) # NULL} |->
                        vm.rows[FrameOf(vm, a)]],
        spare    <- Cardinality(vm.free) >= 2,
        up       <- Up,
        stray    <- cr2

\* The tables and the page fault handler implement module AddressSpace: a page
\* that was handed out keeps what is stored in it, whatever is handed out,
\* given back or stored elsewhere.
ImplementsAddressSpace == AS!Spec

\* "Page fault on unallocated address": the handler says so of no address
\* that was handed out.
FatalMeansUnallocated == vm.fault = "unallocated" => cr2 \notin Owned
=============================================================================
