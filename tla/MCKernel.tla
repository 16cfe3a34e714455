------------------------------ MODULE MCKernel ------------------------------
(***************************************************************************)
(* Boots of the kernel for TLC.  Threads are numbered in the order they    *)
(* are added.                                                              *)
(***************************************************************************)
EXTENDS Kernel

kdb     == [body |-> "kdb", blk |-> 0]
read(b) == [body |-> "read", blk |-> b]
mbr     == [body |-> "mbr", blk |-> 0]
work    == [body |-> "work", blk |-> 0]
spin    == [body |-> "spin", blk |-> 0]

\* The boots in which at most one thread ever blocks.
OneBlocks ==
    {<<kdb, work, work>>, <<work, kdb, spin>>, <<read(3), work, work>>,
     <<work, mbr, spin>>, <<work, work, work>>, <<kdb>>, <<mbr>>}

\* One thread that may block, beside a snake that never exits.
BesideASnake ==
    {<<kdb, spin>>, <<spin, kdb>>, <<read(3), spin>>, <<spin, mbr>>, <<work, spin>>}

\* Several threads that block, and requests that wait for a busy disk: the
\* queues' heads go stale and such a kernel halts sooner or later.
SeveralReaders == {<<read(3), read(0), mbr>>, <<read(3), kdb, read(0)>>}

LiveBoots == BesideASnake \cup SeveralReaders

\* What kmain boots.
KmainBoot == {<<kdb, read(0), read(3), mbr>>}

\* One reader of the disk, alone.
OneDiskReader == {<<read(3)>>}
=============================================================================
