----------------------------- MODULE Multiboot -----------------------------
(***************************************************************************)
(* The header the boot loader leaves in memory, as lib/multiboot.cpp reads *)
(* it.  A header is [total_size, tags]; its tags lie one after the other,  *)
(* each [type, size] and what its type adds: a memory map has the size of  *)
(* its entries and the entries, the kernel's sections their number and the *)
(* sections, the unused section 0 first.  Offsets count bytes from the     *)
(* start of the header.                                                    *)
(***************************************************************************)
EXTENDS Naturals, Sequences, SequencesExt

END_TYPE   == 0
MMAP_TYPE  == 6
ELF_TYPE   == 9

HEADER_SIZE    == 8    \* sizeof(mb_header), a multiple of the padding
MM_HEADER_SIZE == 16   \* sizeof(struct mb_mm_header)

Padded(pos) == ((pos + 7) \div 8) * 8

\* Where tag k begins.
Position(header, k) ==
    FoldLeft(LAMBDA pos, tag : Padded(pos + tag.size), HEADER_SIZE,
             SubSeq(header.tags, 1, k - 1))

\* The tags the loop gets to: it ends at the end tag or past the total size.
Visited(header) ==
    {k \in DOMAIN header.tags :
        \A j \in 1 .. k : /\ header.tags[j].type # END_TYPE
                          /\ Position(header, j) < header.total_size}

\* The tag of a type whose values are left in mb_info: the last one met.
Kept(header, type) ==
    {k \in Visited(header) :
        /\ header.tags[k].type = type
        /\ \A j \in Visited(header) : header.tags[j].type = type => j <= k}

\* A header without one of them leaves its fields zero.
parse_multiboot(header) ==
    [mmap |-> {header.tags[k] : k \in Kept(header, MMAP_TYPE)},
     elf  |-> {header.tags[k] : k \in Kept(header, ELF_TYPE)}]

\* Entry k of the map is reached if it starts before the end of the tag; the
\* first is read in any case.
next_mb_mmap(tag, k) == MM_HEADER_SIZE + (k - 1) * tag.entry_size < tag.size

MemoryMap(info) ==
    LET tag == CHOOSE t \in info.mmap : TRUE
        last == CHOOSE k \in DOMAIN tag.entries :
                    /\ \A j \in 2 .. k : next_mb_mmap(tag, j)
                    /\ ~next_mb_mmap(tag, k + 1)
    IN  SubSeq(tag.entries, 1, last)

\* Section id, counted from 0.
get_mb_elf_section(id, tag) == tag.sections[id + 1]

\* The sections after the unused one, none where there is no tag.
KernelSections(info) ==
    IF info.elf = {} THEN <<>>
    ELSE LET tag == CHOOSE t \in info.elf : TRUE
         IN  [id \in 1 .. tag.num - 1 |-> get_mb_elf_section(id, tag)]
=============================================================================
