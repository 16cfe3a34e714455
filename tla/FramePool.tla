----------------------------- MODULE FramePool -----------------------------
(***************************************************************************)
(* The frame allocator from the boot on, and a client that asks for        *)
(* frames, writes into those it holds, and gives them back in any order.   *)
(* init_mem_regions (arch/x86_64/arch_init.cpp) fills the allocator from   *)
(* the memory map and the kernel's sections in the boot loader's header.   *)
(* A machine is [mmap, elf, header]: its memory, where its kernel lies,    *)
(* and what the boot loader says of them.                                  *)
(***************************************************************************)
EXTENDS Frame, Multiboot, SequencesExt

CONSTANTS
    Machines,             \* the machines booted
    Words,                \* what the client writes
    MAX_MEM_REGIONS,      \* the size of MemReg
    MAX_EXCLUDE_REGIONS   \* the size of MemEx

(***************************************************************************)
(* The chunks spans are joined into before they are added: a span that     *)
(* starts less than gap bytes past the end of the last chunk extends it.   *)
(* One that starts below that end is far away (start - prev_end is         *)
(* unsigned).                                                              *)
(***************************************************************************)
Coalesce(spans, gap) ==
    LET chunk(s) == [start |-> s.start, end |-> s.end]
        joins(end, start) == start >= end /\ start - end < gap
        join(chunks, s) == IF joins(Last(chunks).end, s.start)
                           THEN Front(chunks) \o <<[Last(chunks) EXCEPT !.end = s.end]>>
                           ELSE Append(chunks, chunk(s))
    IN  FoldLeft(join, <<chunk(Head(spans))>>, Tail(spans))

\* The map's entries are joined when they meet, whatever their types; with
\* fewer than two sections nothing is excluded.
init_mem_regions(m) ==
    LET info == parse_multiboot(m.header)
        sections == KernelSections(info)
        region(f, s) == AddMemRegion(f, s.start, s.end)
        exclude(f, s) == AddMemExcludeRegion(f, s.start, s.end)
        regions == FoldLeft(region, NoRegions, Coalesce(MemoryMap(info), 1))
    IN  IF sections = <<>> THEN regions
        ELSE FoldLeft(exclude, regions, Coalesce(sections, FRAME_SIZE))

\* The frames a span of bytes lies in.
FramesOf(s) == {a \in Frames : s.start < (a + 1) * FRAME_SIZE /\ a * FRAME_SIZE < s.end}

Regions == [start : Nat, end : 0 .. TopFrame + 1, nxt : Nat]

Spans == [start : Nat, end : Nat]

Memories ==
    [reg  : Seq(Regions),
     ex   : Seq(Spans),
     tail : Frames \cup {NoFrame},
     prev : [Frames -> Words \cup Frames \cup {NoFrame}]]

\* A region never gives what lies below it, nor frame 0, and no two overlap.
RegionsApart(f) ==
    /\ \A i \in DOMAIN f.reg :
          /\ f.reg[i].start <= f.reg[i].end /\ f.reg[i].start <= f.reg[i].nxt
          /\ f.reg[i].nxt = 0 => f.reg[i].end = 0
    /\ \A i, j \in DOMAIN f.reg :
          i # j => f.reg[i].end <= f.reg[j].start \/ f.reg[j].end <= f.reg[i].start

Excluded(f, a) == \E x \in DOMAIN f.ex : f.ex[x].start <= a /\ a < f.ex[x].end

(***************************************************************************)
(* What a boot leaves: regions inside the machine that do not overlap, the *)
(* kernel's sections excluded, no array overrun.                           *)
(***************************************************************************)
Booted(f, m) ==
    /\ f \in Memories /\ f.tail = NoFrame /\ RegionsApart(f)
    /\ Len(f.reg) <= MAX_MEM_REGIONS /\ Len(f.ex) <= MAX_EXCLUDE_REGIONS
    /\ \A k \in DOMAIN m.elf : \A a \in FramesOf(m.elf[k]) : Excluded(f, a)

ASSUME BootAssumption == \A m \in Machines : Booted(init_mem_regions(m), m)

VARIABLES
    machine,   \* the machine of this boot
    mem,       \* the memory of module Frame
    held,      \* the frames the client holds
    freed,     \* the frames given back, the last one last
    out        \* what the last Alloc returned

vars == <<machine, mem, held, freed, out>>

Init ==
    /\ machine \in Machines
    /\ mem = init_mem_regions(machine)
    /\ held = {} /\ freed = <<>> /\ out = NoFrame

\* Page asks for zeroed frames for its tables, and for others for its pages.
DoAlloc ==
    /\ \E r \in Alloc(mem) \cup AllocZeroed(mem) : mem' = r.mem /\ out' = r.frame
    /\ held' = held \cup ({out'} \ {NoFrame})
    /\ freed' = IF Fresh(mem) # {} \/ freed = <<>> THEN freed ELSE Front(freed)
    /\ UNCHANGED machine

DoFree(a) ==
    /\ a \in held
    /\ mem' = Free(mem, a)
    /\ held' = held \ {a}
    /\ freed' = Append(freed, a)
    /\ UNCHANGED <<machine, out>>

\* The client overwrites the word of a frame it holds where the link would be.
Write(a, word) ==
    /\ a \in held
    /\ mem' = [mem EXCEPT !.prev[a] = word]
    /\ UNCHANGED <<machine, held, freed, out>>

Next ==
    \/ DoAlloc
    \/ \E a \in held : DoFree(a)
    \/ \E a \in held, word \in Words : Write(a, word)

Spec == Init /\ [][Next]_vars

-----------------------------------------------------------------------------
\* MemReg, MemEx and the list stay inside the machine, and Alloc returns the
\* address of one of its frames or NULL.
TypeOK ==
    /\ machine \in Machines
    /\ mem \in Memories
    /\ held \subseteq Frames
    /\ freed \in Seq(Frames)
    /\ out \in Frames \cup {NoFrame}

Freed == {freed[i] : i \in 1 .. Len(freed)}

\* The words in the freed frames still spell the list of them, whatever the
\* client writes into its own.
LinksSpellFreed ==
    /\ mem.tail = IF freed = <<>> THEN NoFrame ELSE freed[Len(freed)]
    /\ \A i \in 1 .. Len(freed) :
          mem.prev[freed[i]] = IF i = 1 THEN NoFrame ELSE freed[i - 1]

\* A frame is in one place: in the client's hands, on the list once, or
\* still to be given by a region.
FramesPartitioned ==
    /\ held \cap Freed = {} /\ held \cap Fresh(mem) = {} /\ Freed \cap Fresh(mem) = {}
    /\ \A i, j \in 1 .. Len(freed) : freed[i] = freed[j] => i = j

\* No frame of the kernel's sections is ever handed out.
KernelUntouched ==
    \A k \in DOMAIN machine.elf : held \cap FramesOf(machine.elf[k]) = {}

(***************************************************************************)
(* The inductive invariant: the properties above, that regions stay apart, *)
(* and that what is excluded was never in anybody's hands.                 *)
(***************************************************************************)
NoneExcluded ==
    /\ mem.ex = init_mem_regions(machine).ex
    /\ \A a \in held \cup Freed : ~Excluded(mem, a)

IInv ==
    /\ TypeOK /\ RegionsApart(mem) /\ NoneExcluded
    /\ LinksSpellFreed /\ FramesPartitioned

P == INSTANCE Pool WITH
        None <- NoFrame, free <- Fresh(mem) \cup Freed, used <- held, last <- out

\* The allocator implements module Pool: Alloc gives a free frame as long as
\* there is one, in a region or on the list, and only then answers NULL.  What
\* a region has to give is what Fresh says; usable frames that Alloc skips, the
\* one behind each exclusion for instance, were never free in this sense.
ImplementsPool == P!Spec

\* Only memory the map calls usable is handed out.
OnlyRAM ==
    \A k \in DOMAIN machine.mmap :
        machine.mmap[k].type # "RAM" => held \cap FramesOf(machine.mmap[k]) = {}
=============================================================================
