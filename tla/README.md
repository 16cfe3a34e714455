# Project SOL in TLA+

This directory is a model of the operating system in `src/`: TLA+ modules translated from its C++, TLC
configurations that check them on small instances, and TLAPS proofs of what matters most. `PROJECT.json` is the index:
which lines of the source every definition stands for, which run checks which property, which mutation of the code each
property was seen to catch, and which hazards of the code the properties are for.

To use it: `tlc -config Kernel.cfg MCKernel` checks a run (its module and cfg are in the table below),
`tlapm FramePoolProofs.tla` checks a proof module.

## 1. The system

Project SOL is a single-processor x86_64 kernel with cooperative threads. Nothing preempts a thread: it runs until it
yields, exits or blocks. Concurrency comes from two sides: the threads take turns inside each other's calls, and
interrupt handlers run on top of whoever holds the processor, wherever its interrupt flag is set. System calls and
handlers enter through interrupt gates, so they run with interrupts off, to their end.

| component | state | operations | properties that make it correct |
|---|---|---|---|
| process queue (`proc/Queue`) | `head`, `tail`, `len`, and the link fields inside the entries | Push, Pop, Peak, Length | a FIFO; never an entry on two queues; `len` and the links agree |
| scheduler (`proc/Scheduler`) | `runQueue`, `curProc`, the states and block data of processes | Add, BlockCurProc, Unblock, Reschedule | no thread lost or run twice; turns in order; an exited thread never runs |
| system calls, context switch (`syscall`, `proc/x86_64/Process`) | a saved context per process | yield, exit, run; Save, Load | what is saved belongs to who runs; kmain gets the processor back last, and can be woken |
| kmain and its threads (`init/kmain`) | where each stands | boot, run/hlt loop; `kdb_print`, `reading_block`, `print_mbr` | every wake-up is followed by a run |
| keyboard (`drivers/char`) | a ring of 4 scan codes, a wait queue, `shift` | handler, GetChar | no missed wake-up; codes in the order typed; `shift` follows the keys (of right shift only it does) |
| disk (`drivers/block`) | two queues, the disk | ReadBlock, handler | a request is started once, and an interrupt finds one; a reader gets its own block |
| UART (`SerialConsole`) | a ring of characters | PrintChar, handler | interrupt flag restored; characters in order |
| VGA console (`VgaConsole`) | the cells of the screen, `pos` | PrintChar (two forms), Scroll, Clear | the screen is what was printed; no store past it, whoever interrupts |
| formatted output (`lib/printk`) | - | print_disp | a number is printed as its numeral |
| snakes (`init/snakes`) | the board: snakes, their list, food, flag, seed | setup_snakes, a turn of either thread, kill_snake | snakes never cross; what they drew is the board; a way out is found |
| frame allocator (`mm/Frame`) | regions, exclusions, a list threaded through freed frames | AddMemRegion, AddMemExcludeRegion, Alloc, AllocZeroed, Free | a frame has one holder; none of the kernel's own; NULL only when the regions, as Alloc walks them, and the list are exhausted |
| boot memory map (`arch_init`, `lib/multiboot`) | - | parse_multiboot, init_mem_regions | the regions are the usable memory, the exclusions cover the kernel |
| virtual memory (`mm/x86_64/Page`) | level 1-4 tables, two positions | stack and heap calls, page fault handler | a page keeps what is stored in it; the pages served are the pages handed out |
| kernel heap (`lib/kmalloc`) | five pools of free blocks, headers in the blocks | kmalloc, kfree | blocks are disjoint and keep their bytes |
| PIC/IDT/GDT, singletons, boot code | set up once | | |

How they interact. kmain adds threads to the scheduler and then alternates between the `run` system call and `hlt`. A
thread that reads the keyboard or the disk calls BlockCurProc, which pushes it (the same intrusive `QueueEntry` the run
queue uses) on the driver's queue, enables interrupts again and yields; the driver's handler calls Unblock. Printing
with `printc` goes through the UART driver, which turns interrupts off and on; printing with `printk` goes to the VGA
console, which does not, and the disk's handler prints there too. The snakes draw their board on the same screen. Add
and process construction allocate from kmalloc and from the stack region, which draw pages on demand from the frame
allocator; Reschedule gives an exited thread's `QueueEntry` back to kfree.

Hard behaviours: the window between joining a wait queue and yielding; interrupts while the flag is off and while kmain
is about to halt; one set of link fields shared by four queues; a queue head that goes stale; data structures threaded
through memory that clients write to (freed frames, free heap blocks, page tables marked at two levels); page faults
taken in the middle of the loops that edit the tables; translations the processor keeps after a page is freed; a cursor
two actors read, increment and store back. `PROJECT.json` lists every hazard at its line.

## 2. The modules

Where a component is a set of functions on static data, its module defines operators on a record of that data, and a
second module gives it a client, variables and a next-state relation. That way one translation of the code serves both
the component's own check and the composition.

| module | what it is |
|---|---|
| `Queue` | `proc/Queue.cpp` on the pointers themselves: link fields, back pointer, head, tail, len |
| `Fifo` | abstract: what a queue of distinct entries promises |
| `QueueFifo` | one queue, one client; the discipline under which `Queue` implements `Fifo` |
| `QueueFifoProofs` | TLAPS: that it does, for any set of entries |
| `Scheduler` | `proc/Scheduler.cpp` on `Queue`'s memory extended with process states, block data, `curProc`, freed entries |
| `KeyRing` | the scan-code ring of `PS2.cpp` |
| `LossyFifo` | abstract: a bounded FIFO that drops its oldest element |
| `Kernel` | the composition: kmain, system calls, threads, drivers and their handlers |
| `RoundRobin` | abstract: what the scheduler promises its threads |
| `KernelProofs` | TLAPS: types, kmain's interrupt flag, the ring, the disk's counts, in every boot |
| `OneWaiterProofs` | TLAPS: queues, scheduler and drivers together, in the boots where one thread may block; that the scheduler implements `RoundRobin` there |
| `Multiboot` | the boot loader's header as `lib/multiboot.cpp` reads it |
| `Frame` | `mm/Frame.cpp` on a record of its static data and the second word of every frame |
| `FramePool` | boot through `init_mem_regions`, then a client that allocates, writes, frees |
| `Pool` | abstract: a frame allocator |
| `FramePoolProofs` | TLAPS: the invariant of `FramePool`, and that it implements `Pool` |
| `Paging` | `mm/x86_64/Page.cpp`: tables, loops turn by turn, page faults |
| `AddressSpace` | abstract: virtual memory |
| `PagingProofs` | TLAPS: the tables are a tree that agrees with the ranges handed out; `Paging` implements `AddressSpace` |
| `Kmalloc` | `lib/kmalloc.cpp` with the pools' lists in the memory they manage |
| `Blocks` | abstract: a heap |
| `KmallocProofs` | TLAPS: the invariant of `Kmalloc`, and that it implements `Blocks` |
| `VgaConsole` | `VgaConsole.cpp` on a record of its cells and `pos` |
| `Paper` | abstract: the same text on a typewriter's paper |
| `Printk` | `lib/printk.cpp`: formats and arguments to text |
| `Terminal` | kdb_print from key to screen, in single reads and writes, with both handlers |
| `TerminalProofs` | TLAPS: where each of those reads and writes stands to the paper, on any screen |
| `Snakes` | `init/snakes.cpp`: the board and the turns, drawn on `VgaConsole`, where others print too |
| `SnakesProofs` | TLAPS: the list, the bodies, the food and the screen agree between turns, on any board |
| `MC...` | the instances TLC checks |

### Queue, Scheduler, Kernel

*A step* of `Kernel` is a stretch of code no interrupt can split: it ends where interrupts are enabled, where the
processor changes hands, or where another actor may look. So GetChar is three steps: up to its loop (`GetCharEnter`),
a turn of the loop with interrupts off (`GetCharPoll`), and the yield (`GetCharYield`); the handler may run between any
two. ReadBlock is `ReadBlock` (queue, maybe start the disk, enable) and `ReadBlockYield`. A handler is one action that
needs `intr` to be TRUE. The interrupt controller latches what comes while the flag is off, which is why the disk's
interrupt is strongly fair.

*Interrupt flag.* `intr` is the processor's, `rflags` what each saved context holds. A new process starts with the flag
off (its `regs` are zero). `printc` may leave it off: `PrintChar` returns without enabling when the UART is busy
(`SerialConsole.cpp:120`). Adding a thread ends with it on (`AllocKernStackMem`, `Page.cpp:245`).

*Reschedule* leaves its answer in the state: `Chosen`. `curProc` may be NULL when its `State` is read; address 0 is
mapped by the identity map and is assumed not to read as EXITED. `kfree` leaves a `QueueEntry`'s contents, so a stale
head can still be followed; a freed process that is dispatched runs on memory others may own by then, and the model
stops with fault `wild`. FATAL, and undefined behaviour of that kind, are absorbing: the fault field names them
(`requeued`, `wild`, `ata`, `returned`).

*Unblock* counts up to a length its own pops reduce; `Unblock` is that loop, not "wake all": of two or more waiting
threads it wakes half. The drivers use it on queues of one. It clears the block data
of whoever it pops, also of a thread that is still running, and the disk's handler reads the data first.

*Fresh memory.* `Add` does not initialise `QueueEntry.queue`, and Push's assertion reads it. `Residues` is what that
word may hold: `{NULL}` in the runs (a heap page never used before holds what memory held at power-on, zero in an
emulator). With anything else in it `NeverFaults` fails at the first Add: the kernel halts on a process that is on no
queue. That is a defect of the code the runs step around.

*The stale head.* `Push` tests `head`, `Pop` does not clear it: a queue whose only entry was popped still points at it.
The queue is a FIFO if the next entry pushed is that same one. In `Kernel` this holds when at most one thread ever
blocks: a driver's queue then only ever sees that one entry, and the run queue, in which `Reschedule` puts the running
thread back before it pops, is drained only by the thread that is pushed on it next. `OneWaiterProofs` proves it, for
any number of other threads; the boots of the run `kernel` are such.
What kmain boots now is not one, and `kmain_exited` shows the consequence.

*Several readers.* The disk's queues fill up only where several threads read: a request then waits in `blockedQueue`,
and the handler moves it up (`AtaDevice.cpp:97`). Those are boots in which heads go stale, so the order of the requests
is not kept: the head moved up, and the request started, may be those of a thread that was served before. What survives
are the counts: `DiskMatchesCounts`, checked in `kernel_live` with three readers, and with two beside the keyboard's,
and proved for any boot. That a reader gets its own block (`ReadReturnsItsBlock`) is checked and proved for one reader.

*The signature.* print_mbr returns, to an address nobody pushed, when block 0 has no boot signature (`kmain.cpp:41`).
`SignedBlocks` are the blocks that have one; the runs and `OneWaiter` have block 0 among them, and so step around that
defect: with any other disk `NeverFaults` fails (fault `returned`).

Left out: `QueueEntry.prev` (write-only), general registers (`Save` does not store them; whether the compiler keeps a
value in one across the trap decides if that matters), the bytes of a sector (a sector is its block number), the UART's
ring. The decoding of scan codes, which only decides here whether GetChar goes round again, is in `Terminal`, the board
of the snakes in `Snakes`.

*The ring* (`KeyRing`) implements `LossyFifo`: with the handler's puts anywhere between GetChar's steps, codes come out
in the order they were typed, and one is lost only when `BUF_SIZE - 1` newer ones have come (`KeysInOrder`).

### Multiboot, Frame, FramePool

Addresses are frame numbers, number 0 is NULL. `MemReg` and `MemEx` are the sequences the arrays hold. Alloc's loops are
stated as sets: the exclusions that touch a region (`Touches`), the places it goes on from (`Starts`), the first region
not `Exhausted`. The list of freed frames is threaded through `prev`, the second word of every frame, and the client
writes that word in frames it holds. `Fresh` is what the regions have still to give by the code's own skipping: a usable
frame that Alloc passes over, such as the one behind an exclusion, is never in it. So `ImplementsPool` says that NULL
comes only when nothing is left of what Alloc would ever give, not that all usable memory is used. `freed` is a history
variable: the order in which frames were freed.

`Multiboot` is a function from header to memory map and sections: tags in their order, padded to 8 bytes, up to the end
tag or the total size; the last tag of a type wins. `init_mem_regions` joins map entries that meet and sections less
than a frame apart, and adds them; entries and chunks that do not start on a frame are dropped with a warning, as in
the code.

`BootAssumption` says what the machines are: the regions fit the array of 8 and the exclusions that of 4 (the code does
not test), regions do not overlap, every section ends up excluded. The last part fails for a kernel whose chunk of
sections does not start on a frame boundary or that has fewer than two section headers: these boots are outside both the
runs and the proofs. 2^64 overflow of `ROUND_UP` at the top of the address space is outside too.

### Paging

An address is `[reg, n]`: page n of the stack or the heap region, each below one level 4 entry that is always present.
`rows` holds every frame as the table it would read as, so a dirty frame taken as a table would be seen as one, and a
store changes the row behind its page. `p` bits are `base # NULL`. The loops of `alloc_virt_4k_chunk` and
`free_virt_4k_chunk` are one action per turn: interrupts are off, but the caller's own stack may fault in the middle,
so `StoreOwned` interleaves. Marks of allocation are kept at two levels (`avl_1` of a level 2 entry whose table does
not exist, and of the level 1 entries); `MarkedIsOwned` says the two together are exactly what was handed out.

`Frame::Alloc` is the abstract `Pool` (`FramePoolProofs` shows that is what it is) and picks any free frame; frames are
interchangeable. Its NULL is not tested by the callers: the model stops there (fault `frame 0`). The handler reads
`l1->avl_1` through NULL where the level 1 table is missing; `ZeroAvl` is what it may find at address 0. The passing
run takes the value with which the kernel works.
`tlb` holds the translations the processor keeps. The code never invalidates one, and the model keeps them all, which is
the worst case: a store through a translation does not look at the tables. The entries of freed pages therefore lead to
frames that may be somebody else's. `NoStaleTranslation` and `ImplementsAddressSpace` show that no program that stores
to what it owns, or to what was never handed out, can meet one, because positions only grow: the mutant in which a
region shrinks when its last range is freed fails. A store to a page after it was freed is outside the model.
Level 1 and 2 tables are never freed, as in the code. Write protection is off (CR0.WP), so `rw` bits are omitted.

### Kmalloc

Memory is counted in cells of the size of a header. A cell is what it reads as: a header in a block handed out, a link
in a free block, and what the holder wrote elsewhere, which may look like either. A fresh page is carved into blocks
and linked, first block last, in one step (`Carved`, `Linked`): the heap has no concurrent callers, and no handler
allocates. `live` and `lists` are history variables. Clients free a block once and write inside it.

### VgaConsole, Paper, Printk, Terminal

`VgaConsole` is the console as operators on a record: a print is one step where nothing can come between (boot, the
disk's handler, the snakes). `Terminal` takes the same prints apart for a thread, into the reads of `pos`, the store of
a cell, the store of `pos`, the cells `memcpy` moves and those Scroll clears, and lets the disk's handler print its
message between any two. Of `pos += ... pos ...` both orders of evaluation are allowed. GetChar is one step (its ring
is read with interrupts off; the FIFO is what `KeysInOrder` shows the ring to be), followed by kdb_print's "%c\n".
The three fields of a cell are stored one by one in the code, with the same colours every time: a cell is one store.

`paper` is a history variable: the same characters typed on `Paper`, which counts lines and columns and knows no `pos`.
When a handler prints in the middle of a character (`torn`) the text may come out garbled, and `ScreenShowsPaper` says
nothing any more; `TypeOK` (`pos` within a row and a tab of the screen) and `StoresOnScreen` still hold. They rest on
what the callers print: every character is followed by a line feed, the handler's message ends in one, and boot has
printed a line before the first key, so that a backspace never meets the first cell of the screen (`TextsAssumption`).
The mutants take one of these away.

*Shift.* The codes GetChar tests (`ShiftDown`, `ShiftUp`) and those the keyboard sends (`LeftShift`, `RightShift`: a press
and a release each) are kept apart. GetChar clears shift on B6 and on AB (`PS2.cpp:260`); right shift's release is B6,
but left shift's is AA, and AB is what backslash sends when it is released. So left shift sticks until right shift or
backslash is released, and backslash takes shift away under a right shift held down: `LeftShiftSticks` and
`BackslashClearsShift` of `MCTerminal` show both. `down` is what the keyboard last reported of its two keys, and `sure`
whether right shift had the last word: its code came after every other that GetChar or the keyboard means for shift,
left shift was up, and the ring did not drop that code. `ShiftFollowsRightShift` says that shift is then right once the
ring is read, and no more; the instance has both shift keys, backslash and a ring that drops codes.

`Printk` is print_disp as a function from format and arguments to text. `MCTerminal` has TLC compare it with a
reference, for all numbers of an int of 8 bits, a short of 7 and every directive: the text is the shortest numeral that
reads back as the number. Above INT_MAX it is not (`LongNumbersDoNot`): printk_uint hands an unsigned long to itoc's
int, so of `%lx` of an address above 2^31 digits come out wrong, or as characters before '0'. The negation of the
smallest long in printk_int, which overflows, is left out.

### Snakes

A turn, from one ProcYield to the next, is a step: no other thread runs in the middle of it, and nobody else touches the
records or the file's globals, which are one record, with the screen, that the functions of the file pass on. Turns come
in any order; the scheduler's is one of them.

The screen is shared. setup_snakes clears it and thereby puts `pos` at its first cell; kmain prints "Running Threads..."
and "Threads done..." over the board from there (`kmain.cpp:59` and 61), other threads print too, and the disk's handler
prints its line (`AtaDevice.cpp:84`), and may scroll, between any two stores of a turn. `Overwrite` is one such store: any
cell, at any time, comes to read `Scrawl`, which stands for whatever was printed or scrolled there, pieces of snakes
among it. What is printed, and where `pos` goes, is `Terminal`'s matter; a snake's PrintChar takes a row and a column and
reads neither `pos` nor any cell. That is why a turn may stay one step: of a foreign store in the middle of it, what the
turn stores in that cell later wins, and otherwise it might as well have come after the turn. `ScreenShowsBoard` is about
every cell that the snakes wrote last; the others stay scrawled until a snake crawls over them.

The list of snakes is its links (`allsnakes`, `others`), and a snake given back to kfree has no record any more.
Food goes to any free cell. Of `seed` the last three bits are kept, exactly: they are all that `rand() % NUMDIRS`
depends on, and since multiplier and increment are 5 and 7 modulo 8 they go through all eight values, which is why the
retries of a move end (`WayOutIsFound`); with an even increment they would not. `kill_snake` has no caller in the
repository and comes between any two turns. On a board without a free cell place_food would not return; the model takes
no such turn. The program's board has 2000 cells for seven snakes of ten.

## 3. The runs

| run | module, cfg | what it shows |
|---|---|---|
| `queue_fifo` | MCQueueFifo, QueueFifo | 5 entries, every interleaving of Push, Pop and Peak under the discipline: FIFO |
| `kernel` | MCKernel, Kernel | 7 boots of up to 3 threads, ring of 4 slots, 2 codes, blocks 0 and 3: safety, and refinement of `RoundRobin` and `LossyFifo` |
| `kernel_live` | MCKernel, KernelLive | 5 boots of 2 threads, one a snake, ring of 2 codes, under fairness: progress; 2 boots of 3 threads, several of which read the disk: its counts |
| `frame_pool` | MCFramePool, FramePool | 8 machines of 6 frames of 4 bytes: one holder per frame, kernel untouched, refinement of `Pool` |
| `paging` | MCPaging, Paging | tables of 2 entries, stack of 2 pages, heap of 5, 5 frames: marks, frames, translations, refinement of `AddressSpace` |
| `kmalloc` | MCKmalloc, Kmalloc | pools of 2 and 4 cells, 3 pages of 4: tiling, lists, headers, refinement of `Blocks` |
| `terminal` | MCTerminal, Terminal | screen of 3 by 2, ring of 3 slots, both shift keys and backslash: the text printed, the stores, right shift |
| `snakes` | MCSnakes, Snakes | boards of 3 by 3, 2 snakes, hungry or not, or 3 hungry ones, others printing on them: crossing, screen, ways out, the kill signal |
| `kmain_exited` | MCKernel, KmainExited | **violation**: the boot in kmain.cpp dispatches a process that exited and was freed |
| `lost_wakeup` | MCKernel, LostWakeup | **violation**: an interrupt before `hlt` leaves a runnable thread asleep for ever |
| `reserved_frames` | MCFramePool, ReservedFrames | **violation**: frames of reserved map entries are handed out |
| `first_touch` | MCPaging, FirstTouch | **violation**: the first touch of a whole-table range may be called unallocated |

Bounds, and why they are enough.

* Five entries give a queue a head, a tail, two in between and one to push. Length 0, 1, 2 are the cases the code tells
  apart.
* Three threads: one waiting, one running, one in the run queue, which is what it takes to pass each other. The ring
  keeps the code's 4 slots in `kernel`; producer and consumer wrap many times. One thread that reads the disk is all the
  boots of `kernel` permit; in `kernel_live` up to three read, so that one and two requests wait while the disk works,
  and a request is moved up by the handler with another left behind it.
* Machines of six frames put the kernel at the start, middle, end, across the end of, between and outside the regions,
  in one chunk and two. Four bytes per frame let spans start and end off a frame.
* Tables of two entries make a heap of five pages reach a second level 2 table; ranges of one and three pages start and
  end inside and at the edge of a table; five frames run out with pages left to touch.
* A screen of three rows has one that scrolls out, one in between and one that comes in; with two columns a line of four
  characters wraps, and TAB_SIZE 2 divides them as 4 divides 80. Other sizes (3 by 3 and 2 by 4, tabs of 1, 2 and 3)
  were tried and pass too. Boot prints one line, enough lines to scroll, or a last one behind a tab. A ring of three
  slots drops a shift code with and without a later one in the ring.
* On a board of three by three a snake of three and one of two box each other in, start coiled up at an edge, one of
  them from a point below the board, and are a meal or two from being full; of three snakes the first, the middle and
  the last of the list leave first. One cell at a time reads `Scrawl` (`MaxScrawls`): `ScreenShowsBoard` takes the cells
  one by one, and no step reads one. The theorems have no such bound but any number.
* Three pages of heap suffice to have both pools and a block of two pages, or one pool twice.

The deadlock check is off only where the machine really stops: `kernel_live`, whose boots with several readers halt
sooner or later, `paging` and the violation runs (a FATAL, or a kernel that halts), and `kmalloc`, whose bounded heap may
be full with no block to free.

Fairness (`Kernel!Fairness`). Weakly fair: kmain and the thread that holds the processor; the processor executes.
Strongly fair: a snake that prints finds the UART idle again and again (otherwise `printc` could leave interrupts off
for ever: a transmit register drains in microseconds); the disk answers, and its interrupt stays pending in the
controller until the flag lets it in. Keys need not be pressed, and may be pressed faster than `kdb_print` takes them,
so `EverySnakeRuns` presumes that typing stops (`TypingStops`): GetChar does not yield while the ring has codes.
The boots of `kernel_live` that the liveness properties are about hold a snake that never exits (`Busy`), so kmain never
reaches `hlt`; what happens without one is `lost_wakeup`.

Every property of a passing run was seen to fail on a mutated definition (`mutants` in `PROJECT.json`); the mutated
operators stand next to the originals and are marked as such.

## 4. What is proved

`QueueFifoProofs`, from `NULLAssumption` and `QueueAssumption` only, for any set of entries and any length: type
correctness, `NeverFaults`, `LinksSpellItems`, and that the pointer queue implements `Fifo`. The inductive invariant is
`IInv == TypeOK /\ NeverFaults /\ LinksSpellItems`: `len`, the back pointers and the chain from `head` agree with the
history variable `items`. Its last conjuncts are the self-link of a lone entry, and the stale head after it is popped;
without them the discipline `MayPush` could not be used. `PushFields` and `PopFields` say what the two operations do to
each field; `PushKeepsIInv`, `PopKeepsIInv` and `PeekKeepsIInv` take one conjunct at a time.

`FramePoolProofs`, from `FrameAssumption` and `BootAssumption`, for any number and size of frames, any machines and any
words written: type correctness, `LinksSpellFreed`, `FramesPartitioned`, `KernelUntouched`, and that the allocator
implements `Pool`. The inductive invariant adds to the properties that regions stay apart (`RegionsApart`, or two
regions could give the same frame) and that no frame in anybody's hands is excluded (`NoneExcluded`, without which
`KernelUntouched` says nothing of the frames on the list). `FromRegionFacts` and `FromListFacts` say what Alloc returns
and what it leaves of `Fresh`; `AllocKeepsIInv`, `FreeKeepsIInv`, `WriteKeepsIInv` are the three steps. Since a step of
`Pool` moves a frame and makes none, the frames in hand, on the list and still to be given stay those of the boot's
regions (`FramesConserved`), and what is handed out lies inside a region and outside every exclusion
(`HandsOutRegionsOnly`). That the regions are the usable memory is another matter: `reserved_frames`.

`KmallocProofs`, from `KmallocAssumption` (pool sizes divide the page, sizes asked for are not zero), for any pools,
any heap and any bytes written: types, `LinksSpellLists`, `BlocksTile`, and that the heap implements `Blocks`. The
inductive invariant is the conjunction of the three that the run checks; none is inductive alone: kfree believes the
header, and only `BlocksTile` says that it is in the block being freed and names the pool the block came from; kmalloc
believes the link, and only `LinksSpellLists` says that it is the next free block. There is a lemma for each way a call
goes (`FromPoolKeepsIInv`, `FromNewPageKeepsIInv`, `FromHeapKeepsIInv`, `FreeToPoolKeepsIInv`, `FreeToHeapKeepsIInv`,
`WriteKeepsIInv`); the links of a carved page have a closed form (`LinkedFacts`).

`PagingProofs`, from `PagingAssumption`, for tables of any size, any number of frames, regions and ranges: types,
`FramesAccounted`, `MarkedIsOwned` and `NoStaleTranslation`, whatever address 0 reads as. The properties say what holds
between calls; the inductive invariant says what holds in the middle of a loop as well:

* `Tree`: each level leads to frames of its own, a frame no entry leads to is free, and what has a table or a page is
  marked. `FramesAccounted` counts what `Tree` says entry by entry.
* `PosOK`, `CallOK`, `LiveOK`: ranges lie apart below the region's position, and so does what the call has in hand.
* `MarksOK`: marked is what is owned, and, in the middle of a call, possibly what the call has marked or has yet to give
  back (`Busy`).
* `LazyOK`: a table marked as a whole is one range's from end to end. Without it the call that clears a level 2 mark
  would take pages from a neighbour.
* `TlbOK`: what the processor keeps is of pages below the position, and right for the pages that are owned.

The lemmas go up in layers: the digits of a page number (`Digits`, `SamePage`, `TableSpan`), one entry of the tree
(`PutL2`, `PutL1`), the operations of Page.cpp field by field (`AddL1Step`, `SetL2Step`, `MarkL1Step`, ...), a turn of
either loop (`AllocTurn`, `FreeTurn`), an action. `FatalMeansUnallocated` and `ImplementsAddressSpace` are proved for
`ZeroAvl \subseteq {TRUE}`: the handler tests an entry at address 0 when the level 1 table is missing, and with a clear
bit there both fail, which is the finding `first_touch`.

`KernelProofs`, from the assumptions on the constants only (four different queues, workloads that are threads reading
blocks of the disk), for any workload, any number of threads and any `Residues`, the boots in which the queues fail
among them: types, `HaltedCanWake`, `DiskMatchesCounts`, and that the ring implements `LossyFifo`, for any number of
slots. `HaltedCanWake` needs what else `TypeInv` says: curProc is who holds the processor (`RunsCurProc`), and kmain's
interrupt flag is on, or, while another runs, saved as on (`FlagOK`). `DiskMatchesCounts` needs no FIFO: each queue operation
changes a length by what it pushes or pops, whatever the links are. Unblock's loop is a recursive function, and the
library's induction theorems cannot be used; `Upward` proves induction up to n for a *set* of numbers, from the
well-foundedness of strict inclusion on finite sets. `Iteration` is a loop's invariant by `Upward`, and `UnblockTurns`
gives the turns of Unblock.

`OneWaiterProofs` is about the boots in which the four queues work. Its hypothesis `OneWaiter` says: a fresh
`QueueEntry.queue` holds NULL, at most one thread of a workload may block (its body is `kdb_print`, `reading_block` or
`print_mbr`; any number of others run, print and exit next to it), and print_mbr finds its signature, for without one it
returns to an address nobody pushed (`kmain.cpp:41`). The boots of the run `kernel` satisfy it, and those of
`kmain_exited` and what kmain.cpp boots today do not. Proved for any number of threads: `NeverFaults`,
`EveryThreadAccounted`, `NoKeyWhileWaiting`, `ReadReturnsItsBlock`, `ParentRunsLast`, and `ExitedNeverRuns`, the
property that `kmain_exited` violates. The inductive invariant:

* the run queue *spells* a sequence of threads (`Spells`): length, back pointers, links, and what the links are at the
  ends, where a lone entry links to itself;
* each driver's queue holds one entry or none, and its head, stale or not, points at the waiter (`Lone`);
* a thread is current, queued, or blocked, and its state and back pointer say which (`Accounted`);
* a stale head of the run queue, or an entry that links to itself, is the waiter's or the only thread's left (`Stale`):
  this is what makes the next Push safe, and what a second waiter breaks;
* around the queues: what holds while kmain boots, what whoever has the processor may be doing, that the disk, its
  queue, the block data and the reader's buffer agree, and that a thread waits for a key only while the ring has none
  (`Around`).

In these boots every step is also a step of `RoundRobin`, or changes nothing of what it sees (`OneWaiterTakesTurns`).
`Order` and `Keeper` read its variables off a memory and the sequence its run queue spells. Reschedule is Yield, GiveUp
or a stutter (`TurnsPass`), sys_exit is Exit (`TurnsEnd`), BlockCurProc is Wait (`TurnsWait`), Unblock is Wake or a
stutter, and Add is Arrive.

`TerminalProofs`, for a screen of any size above one row, a ring of any size, any codes, and any lines printed: types,
`StoresOnScreen`, `ScreenShowsPaper` and `ShiftFollowsRightShift`. What is printed comes out of `Printk`'s recursion, and
the proof uses of it what `TextsAssumption` says and no more. Boot's output and every line printed end in a line feed
and hold no carriage return; only the typist prints a backspace; boot's tabs stand at the head of a line, one or two of
them, and two only where a row is longer than a tab; others print none; what the keyboard sends is no carriage return.
The formats in `src/` that reach the screen are such: only those of `arch_init.cpp` and `Frame.cpp` have tabs, in front
of the line (`\t`, `\t\t`), and each call, or with ` [OK]\n` each pair of calls, ends its line. The console
has 25 rows of 80 and tabs of 4. TLC evaluates the assumption for every text of the instance. The inductive
invariant:

* `TypeInv`: the text at hand ends in a line feed, with a tab or a backspace only at its head (`Shape`); which steps it
  can be at, with which character (`InStep`); how far `pos` and the two registers may be at each (`Bounded`). It does
  not mention the paper: it is what holds when the handler has printed in the middle of a character, and what makes both
  stores safe then.
* `Tracking`: how screen and paper stand to each other at each of the steps, half-way through a scroll as well, where
  the rows below the copied part still hold what they held. Without it nothing is known of the screen between two
  characters.

The lemmas: rows and columns of a cell number (`RowCol`, `CellSplit`, `GlyphFacts`); one character on screen and paper
(`FeedFacts`, `ScrollShown`, `MarkShown`, `CharWritten`, `TabFacts`); the handler's message and boot's lines, folds of
those (`PrintedChain`, `MessagePrinted`, `BootPrinted`), taken apart by `Upward`; then one lemma per step of a print.
For `ShiftFollowsRightShift`, what shift will be when the ring is read is a fold over the codes in it (`ShiftChain`,
`ShiftHead`), and `SureInv` says what is needed of them: while right shift has the last word, a code in the ring that
another key sends and GetChar takes for shift has one of right shift's behind it (`RightLast`), so that dropping the
oldest code changes nothing (`DropFollows`). Of the keyboard `KeyboardAssumption` says that right shift sends what
GetChar tests for; left shift may send any other codes, those that GetChar misreads included.

`SnakesProofs`, for a board of any size and any snakes, hungry or not, with turns in any order, and `kill_snake` and
foreign stores on the screen between any two: `TypeOK`, `SnakesApart`, `ScreenShowsBoard`, `WayOutIsFound` and
`SignalEndsOneSnake`. The assumptions are `SnakesAssumption` (every snake has a body, one of the eight directions and a
visible colour; the starting point may lie off the board, where new_snake brings it back) and `SetupsAssumption` (once
coiled up, no two start on each other). The seven calls of setup_snakes are such: three rows of snakes heading east from
column 30 and west from column 50, two rows apart, and one heading south in column 40. Nothing in the code would notice
if two did overlap, and `SnakesApart` would fail. The inductive invariant `Tidy` holds between any two turns:

* `Linked`: the links from `allsnakes` spell a sequence of the snakes that did not leave, each once. `SnakesApart` says
  only what a walk collects; that the walk ends, and that free_snake's unlinking leaves a list, needs the order.
* `Apart` and `Fare`: bodies are disjoint, the food lies on none of them, and only hungry snakes have any.
* `Slender`: no snake that goes on has eaten itself out of the colours.
* `Painted`: every cell shows the snake that lies on it, the food, or nothing, unless somebody else stored there.

In the middle of a turn the screen is right for some snakes only: `Right` and `Painted` take the set of snakes they
speak of, erase_snake takes its snake out of the set, draw_snake puts it back, and draw_all_snakes, a fold along the
list, starts from the empty set and adds them one by one. A foreign store (`OverwriteKeeps`) leaves `Right` alone at
every other cell, and what it left in its own does not outlive the next store of a snake there. The list and the bodies
(`Board`) are kept by a move or a meal whatever the screen shows. `WalkMeets` says that the recursive walk `Nth` follows
the sequence that is spelled, so `Community` is the set of all snakes. For `WayOutIsFound` the draws are unrolled: from
any of the eight seeds the draws 1 to 8 cover the eight directions, so that of nine rounds one ends the loop, and the
least such is the round that `Rounds` holds. Where no cell is free, place_food offers none and the model takes no such
step, as the code's loop would not return: the theorems say nothing of such a board.

Only model-checked, and why. Liveness (`kernel_live`) and the violations: temporal reasoning under fairness needs
ENABLED. `Printk`: what its recursion computes is induction over data; `MCTerminal` has TLC compare it with the
reference and evaluate `TextsAssumption`. Of `Kernel` the boots with several waiters: their queues do fail.

## 5. Not modelled

* Platform singletons and the assembly and table set-up at boot: run once, in one order. PS/2 controller
  initialisation: port I/O. memset and strlen: pure functions.
* The UART's ring of characters. While the UART is idle at every print, the ring stays empty and the text in order.
  When it is busy, the character printed overtakes those buffered (SerialConsole.cpp:124), and the transmit interrupt
  sends the oldest one and advances the producer (line 102), again and again until the ring looks empty. Nothing in the
  repository says what a busy UART's output is meant to be, so there is no promise to check it against.
* General registers, failed disk reads (the status is read and ignored), overflow at 2^64 and of a kmalloc
  request near 2^32, array overruns of the memory map, a Multiboot header with a wrong magic number.
* `Process::Destroy`, `FreeKernStackMem`'s only would-be caller: nothing calls it. `Paging` still checks
  `FreeKernStackMem`.

## 6. Where it stands

Every component with state of its own is modelled, but for the UART's ring, and every property of a passing run is
stated by a theorem, except the three of `kernel_live`, which are liveness. What could follow:

1. What `init_mem_regions` leaves, proved for any header: `BootAssumption` takes it as given, and TLC evaluates it for
   the machines of the run. `Coalesce` and the adding of regions are folds, so a proof would go as in `TerminalProofs`.
2. The UART's ring, once the repository says what a busy UART is to print.
3. The boots with several waiters, once `Pop` clears `head`: `OneWaiter` could then be dropped.
