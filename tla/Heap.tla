-------------------------------- MODULE Heap --------------------------------
(***************************************************************************)
(* FirstFitHeap: a list of free ranges kept inside the free memory itself,  *)
(* ordered by address, and the RangeSet from which the boot code fills it.  *)
(* Addresses and lengths in the list count units of heapAlign; those of the *)
(* boot code's ranges count bytes.                                          *)
(***************************************************************************)
EXTENDS Naturals, Sequences, FiniteSetsExt

CONSTANT heapAlign

LOCAL INSTANCE SequencesExt

\* round_up() to the alignment.
AlignUp(x, align) == ((x + align - 1) \div align) * align

Offset(r, align) == AlignUp(r.start, align) - r.start

Fit(r, size, align) == r.len > Offset(r, align) /\ size <= r.len - Offset(r, align)

NonEmpty(r) == IF r.len > 0 THEN <<r>> ELSE <<>>

\* salloc(): the first range that fits keeps what lies before and behind the
\* aligned block.
SAlloc(free, size, align) ==
    LET fits == {i \in DOMAIN free : Fit(free[i], size, align)} IN
    IF fits = {} THEN [ok |-> FALSE, block |-> [start |-> 0, len |-> 0], free |-> free]
    ELSE LET k == Min(fits)
             a == AlignUp(free[k].start, align)
             before == [start |-> free[k].start, len |-> a - free[k].start]
             behind == [start |-> a + size, len |-> free[k].start + free[k].len - (a + size)]
         IN  [ok |-> TRUE, block |-> [start |-> a, len |-> size],
              free |-> SubSeq(free, 1, k - 1) \o NonEmpty(before) \o NonEmpty(behind) \o SubSeq(free, k + 1, Len(free))]

\* Extend range k at its end and merge it with the successor if they now touch.
Append2(free, k, len) ==
    LET end == free[k].start + free[k].len + len IN
    IF k < Len(free) /\ free[k + 1].start = end
    THEN RemoveAt(ReplaceAt(free, k, [free[k] EXCEPT !.len = @ + len + free[k + 1].len]), k + 1)
    ELSE ReplaceAt(free, k, [free[k] EXCEPT !.len = @ + len])

\* sfree(): prepend to, append to, or insert before the first range concerned.
SFree(free, block) ==
    LET end == block.start + block.len
        at == {i \in DOMAIN free : free[i].start + free[i].len = block.start \/ block.start < free[i].start}
    IN  IF at = {} THEN Append(free, block)
        ELSE LET k == Min(at) IN
             IF free[k].start = end THEN ReplaceAt(free, k, [start |-> block.start, len |-> block.len + free[k].len])
             ELSE IF free[k].start + free[k].len = block.start THEN Append2(free, k, block.len)
             ELSE InsertAt(free, k, block)

\* FirstFitHeap::free() of several blocks, in order.
SFreeAll(free, blocks) == FoldLeft(SFree, free, blocks)

-----------------------------------------------------------------------------
(* Boot: RangeSet<uintptr_t> of <<start, end>> pairs *)

\* substract(): the part of lhs on either side of rhs.
CutOut(lhs, rhs) ==
    IF rhs[1] <= lhs[1]
    THEN IF lhs[2] <= rhs[2] THEN {}
         ELSE IF lhs[1] < rhs[2] THEN {<<rhs[2], lhs[2]>>} ELSE {lhs}
    ELSE IF rhs[1] < lhs[2]
         THEN IF lhs[2] <= rhs[2] THEN {<<lhs[1], rhs[1]>>}
              ELSE {<<lhs[1], rhs[1]>>, <<rhs[2], lhs[2]>>}
         ELSE {lhs}

Substract(ranges, rhs) == UNION {CutOut(lhs, rhs) : lhs \in ranges}

Reserve(ranges, reserved) == FoldSet(LAMBDA rhs, rs : Substract(rs, rhs), ranges, reserved)

\* FirstFitHeap::addRange() rounds the start up and, on its own, the length down.
HeapAddRange(free, start, length) ==
    SFree(free, [start |-> AlignUp(start, heapAlign) \div heapAlign, len |-> length \div heapAlign])

\* KernelMemory::addRange() cuts off what lies outside the own range [0, size).
AddRange(free, r, size) ==
    LET end == IF r[2] < size THEN r[2] ELSE size IN
    IF end > r[1] THEN HeapAddRange(free, r[1], end - r[1]) ELSE free

AddToKM(ranges, size) == FoldSet(LAMBDA r, free : AddRange(free, r, size), <<>>, ranges)
=============================================================================
