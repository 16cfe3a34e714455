------------------------------- MODULE Frame -------------------------------
(***************************************************************************)
(* The physical frame allocator of mm/Frame.cpp, as operators on a record  *)
(*   reg    MemReg: where each region starts and ends, and its next frame  *)
(*          never handed out,                                              *)
(*   ex     MemEx: the spans not to hand out,                              *)
(*   tail   free_tail,                                                     *)
(*   prev   FreeFrame.prev, the second word of every frame, where the list *)
(*          of freed frames is threaded (nothing reads the first, nxt).    *)
(* MemReg and MemEx hold multiples of FRAME_SIZE only; they are kept here  *)
(* as frame numbers, and number 0 is NULL.                                 *)
(***************************************************************************)
EXTENDS Naturals, Sequences

CONSTANTS
    FRAME_SIZE,   \* bytes of a frame
    TopFrame      \* the last frame of the machine

ASSUME FrameAssumption == FRAME_SIZE \in Nat \ {0} /\ TopFrame \in Nat

NoFrame == 0

Frames == 1 .. TopFrame

NoRegions ==
    [reg |-> <<>>, ex |-> <<>>, tail |-> NoFrame, prev |-> [a \in Frames |-> NoFrame]]

\* the frame number of ROUND_UP(addr, FRAME_SIZE)
RoundedUp(addr) == (addr + FRAME_SIZE - 1) \div FRAME_SIZE

Aligned(addr) == addr % FRAME_SIZE = 0

\* A region that starts at 0 gives frame 1 first.
AddMemRegion(f, start, end) ==
    LET first == start \div FRAME_SIZE
    IN  IF ~Aligned(start) THEN f
        ELSE [f EXCEPT !.reg = Append(@, [start |-> first, end |-> RoundedUp(end),
                                          nxt |-> IF first = 0 THEN 1 ELSE first])]

AddMemExcludeRegion(f, start, end) ==
    IF ~Aligned(start) THEN f
    ELSE [f EXCEPT !.ex = Append(@, [start |-> start \div FRAME_SIZE,
                                     end |-> RoundedUp(end)])]

-----------------------------------------------------------------------------
(***************************************************************************)
(* Alloc.  The first region that still has a frame after its exclusions    *)
(* gives it; regions passed over are marked full.                          *)
(***************************************************************************)
\* Mutant: an exclusion counts only if the region contains it.
TouchesInside(r, x) == r.start <= x.start /\ r.end >= x.end

Touches(r, x) == r.start <= x.end /\ r.end >= x.start

\* One frame past the end of every exclusion that touches the region.
Past(f, r) == {f.ex[j].end + 1 : j \in {k \in DOMAIN f.ex : Touches(r, f.ex[k])}}

\* The places the region goes on from, the last of which counts.
Starts(f, r) == {r.nxt} \cup Past(f, r)

\* Mutants: the bounds are one too late and one too early.
ExhaustedLate(f, r) == r.nxt = r.end \/ \E p \in Starts(f, r) : p > r.end

ExhaustedEarly(f, r) == r.nxt = r.end \/ \E p \in Starts(f, r) : p + 1 >= r.end

Exhausted(f, r) == r.nxt = r.end \/ \E p \in Starts(f, r) : p >= r.end

\* The first region with a frame left, and that frame: sets of at most one.
Givers(f) ==
    {i \in DOMAIN f.reg : /\ ~Exhausted(f, f.reg[i])
                          /\ \A j \in 1 .. i - 1 : Exhausted(f, f.reg[j])}

Heads(f, r) == {p \in Starts(f, r) : \A c \in Starts(f, r) : c <= p}

\* Mutant: the region's next frame stays where it is.
RegionsStay(f, i, frame) == f.reg

RegionsAfter(f, i, frame) ==
    [j \in DOMAIN f.reg |->
        [f.reg[j] EXCEPT !.nxt = IF j < i THEN f.reg[j].end
                                 ELSE IF j = i THEN frame + 1
                                 ELSE @]]

FromRegion(f) ==
    UNION {{[mem |-> [f EXCEPT !.reg = RegionsAfter(f, i, p)], frame |-> p] :
                p \in Heads(f, f.reg[i])} : i \in Givers(f)}

\* With every region full the frame freed last is given again, or NULL.
FromList(f) ==
    LET full == RegionsAfter(f, Len(f.reg) + 1, NoFrame)
        next == IF f.tail = NoFrame THEN NoFrame ELSE f.prev[f.tail]
    IN  IF \A j \in DOMAIN f.reg : Exhausted(f, f.reg[j])
        THEN {[mem |-> [f EXCEPT !.reg = full, !.tail = next], frame |-> f.tail]}
        ELSE {}

\* The memory Alloc leaves and the frame it returns.
Alloc(f) == FromRegion(f) \cup FromList(f)

AllocZeroed(f) ==
    {[mem |-> [r.mem EXCEPT !.prev[r.frame] = NoFrame], frame |-> r.frame] : r \in Alloc(f)}

\* Free.  Its caller passes the address of a frame, so the test for an
\* address that is none never fires.  Mutant: the link is forgotten.
FreeUnlinked(f, frame) == [f EXCEPT !.tail = frame]

Free(f, frame) == [f EXCEPT !.prev[frame] = f.tail, !.tail = frame]

-----------------------------------------------------------------------------
\* The frames the regions have still to give, by the code's own reckoning: what
\* Alloc skips around an exclusion is not among them.
Fresh(f) ==
    {a \in Frames : \E i \in DOMAIN f.reg :
        a < f.reg[i].end /\ \A p \in Starts(f, f.reg[i]) : p <= a}
=============================================================================
