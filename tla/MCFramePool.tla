---------------------------- MODULE MCFramePool ----------------------------
(***************************************************************************)
(* Machines of six frames of four bytes for TLC.                           *)
(***************************************************************************)
EXTENDS FramePool

Ram(start, end)      == [start |-> start, end |-> end, type |-> "RAM"]
Reserved(start, end) == [start |-> start, end |-> end, type |-> "reserved"]
Section(start, end)  == [start |-> start, end |-> end]

\* What the boot loader writes: tags of no interest, with a size that needs
\* padding, around the map and the sections, and whatever memory holds
\* after the end tag.
Machine(mmap, elf) ==
    LET other == [type |-> 1, size |-> 13]
        map == [type |-> MMAP_TYPE, size |-> MM_HEADER_SIZE + 24 * Len(mmap),
                entry_size |-> 24, entries |-> Append(mmap, Ram(0, 28))]
        sections == [type |-> ELF_TYPE, size |-> 20 + 64 * (Len(elf) + 1),
                     num |-> Len(elf) + 1, sections |-> <<Section(0, 0)>> \o elf]
        end == [type |-> END_TYPE, size |-> 8]
        tags == <<other, sections, map, end>>
    IN  [mmap |-> mmap, elf |-> elf,
         header |-> [tags |-> tags \o <<[map EXCEPT !.entries = <<Ram(0, 28)>>]>>,
                     total_size |-> Position([tags |-> tags], 5)]]

\* The kernel at the low end, in the middle and at the high end of a region,
\* across the end of one and between two, in one chunk and in two; regions
\* that meet, that end off a frame, that start off a frame, and that hold
\* nothing but the kernel.
AllRam ==
    {Machine(<<Ram(0, 28)>>, <<Section(8, 11)>>),
     Machine(<<Ram(0, 12), Ram(12, 27)>>, <<Section(0, 5), Section(6, 7)>>),
     Machine(<<Ram(4, 10), Ram(12, 14), Ram(16, 28)>>, <<Section(20, 24)>>),
     Machine(<<Ram(0, 9), Ram(12, 28)>>, <<Section(8, 14)>>),
     Machine(<<Ram(16, 28), Ram(0, 12)>>, <<Section(16, 17), Section(0, 3)>>),
     Machine(<<Ram(0, 2), Ram(4, 12), Ram(14, 28)>>, <<Section(4, 8)>>),
     Machine(<<Ram(0, 4), Ram(4, 28)>>, <<Section(4, 28)>>),
     Machine(<<Ram(0, 16)>>, <<Section(20, 28)>>)}

\* A machine whose firmware keeps the end of the low memory to itself.
FirmwareOnTop ==
    {Machine(<<Ram(0, 7), Reserved(7, 12), Ram(16, 28)>>, <<Section(16, 20)>>)}
=============================================================================
