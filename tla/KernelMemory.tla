---------------------------- MODULE KernelMemory ----------------------------
(***************************************************************************)
(* Creation of kernel objects: KernelMemory::invokeCreate() acquires the    *)
(* destination entry, a factory allocates the blocks of the object from the *)
(* memory's heap and inherits a capability from the memory's capability,    *)
(* which a concurrent revocation may kill at any time.  A KernelMemory      *)
(* created this way manages its own part of the memory.  A deleted object   *)
(* returns its blocks through the asynchronous free() of its memory.        *)
(***************************************************************************)
EXTENDS Naturals, Sequences, FiniteSets, Heap

CONSTANTS Entries,      \* capability entries
          Objects,      \* identities of the objects, KernelMemory among them
          Root,         \* the root memory
          Size,         \* of the range that the root memory manages, in bytes
          MemoryMap, Reserved,      \* what the boot code finds and reserves
          Kinds

Mems == Objects \cup {Root}

VARIABLES heap, refs,   \* KernelMemory::heap and the monitor's reference count
          cap,          \* the entries: state and object
          obj,          \* kind, memory and blocks of the object
          op            \* the creation that is running in each memory's monitor
vars == <<heap, refs, cap, obj, op>>

NoOp == [pc |-> "idle"]
NoObj == [kind |-> "none"]
Empty == [state |-> "empty", obj |-> Root]
Allocated == [state |-> "allocated", obj |-> Root]

\* Size and alignment of the blocks of an object, in the order of allocation.
Blocks(kind) ==
    CASE kind = "portal" -> <<[size |-> 1, align |-> 1]>>
      [] kind = "capmap" -> <<[size |-> 2, align |-> 1]>>
      [] kind = "kmem" -> <<[size |-> 4, align |-> 2], [size |-> 1, align |-> 1]>>
      [] kind = "pagemap" -> <<[size |-> 2, align |-> 2], [size |-> 2, align |-> 2], [size |-> 1, align |-> 1]>>

\* The factories of portals, listeners, contexts, memories and page maps reset
\* the entry when the memory is exhausted.
ResetsEntry(kind) == kind # "capmap"

\* KernelMemoryFactory and PageMapFactory check the size and the level first.
ChecksArgument(kind) == kind \in {"kmem", "pagemap"}

Init ==
    /\ heap = [m \in Mems |-> IF m = Root THEN AddToKM(Reserve(MemoryMap, Reserved), Size) ELSE <<>>]
    /\ refs = [m \in Mems |-> 0]
    /\ cap = [e \in Entries |-> Empty]
    /\ obj = [o \in Objects |-> NoObj]
    /\ op = [m \in Mems |-> NoOp]

Usable(m) == m = Root \/ \E e \in Entries : cap[e] = [state |-> "usable", obj |-> m]

Memories == {Root} \cup {o \in Objects : obj[o].kind = "kmem"}

\* invokeCreate(): acquire the entry; the loser of a race gets LOST_RACE.
Create(m, e, kind) ==
    /\ op[m].pc = "idle" /\ Usable(m) /\ m \in Memories
    /\ cap[e] = Empty
    /\ cap' = [cap EXCEPT ![e] = Allocated]
    /\ op' = [op EXCEPT ![m] = [pc |-> "alloc", kind |-> kind, entry |-> e, blocks |-> <<>>]]
    /\ UNCHANGED <<heap, refs, obj>>

\* The factory refuses a size or a level and leaves the entry as it is.
InvalidArgument(m) ==
    /\ op[m].pc = "alloc" /\ op[m].blocks = <<>> /\ ChecksArgument(op[m].kind)
    /\ op' = [op EXCEPT ![m] = NoOp]
    /\ UNCHANGED <<heap, refs, cap, obj>>

\* Mutant: the last block that was allocated is forgotten.
RollbackForgets(blocks) == SubSeq(blocks, 1, Len(blocks) - 1)

\* The blocks that an unsuccessful creation gives back.
Rollback(blocks) == blocks

FreeBlocks(m, blocks) ==
    /\ heap' = [heap EXCEPT ![m] = SFreeAll(@, blocks)]
    /\ refs' = [refs EXCEPT ![m] = @ - Len(blocks)]

\* IAllocator::alloc() and create(): one block after the other.
Alloc(m) ==
    LET o == op[m]
        want == Blocks(o.kind)[Len(o.blocks) + 1]
        r == SAlloc(heap[m], want.size, want.align)
    IN  /\ o.pc = "alloc"
        /\ \/ /\ r.ok
              /\ heap' = [heap EXCEPT ![m] = r.free]
              /\ refs' = [refs EXCEPT ![m] = @ + 1]
              /\ op' = [op EXCEPT ![m].blocks = Append(@, r.block),
                                  ![m].pc = IF Len(o.blocks) + 1 = Len(Blocks(o.kind)) THEN "inherit" ELSE "alloc"]
              /\ UNCHANGED cap
           \/ /\ ~r.ok
              /\ FreeBlocks(m, Rollback(o.blocks))
              /\ cap' = IF ResetsEntry(o.kind) THEN [cap EXCEPT ![o.entry] = Empty] ELSE cap
              /\ op' = [op EXCEPT ![m] = NoOp]
        /\ UNCHANGED obj

\* cap::inherit() fails if the capability of the memory has been killed.  It
\* publishes a new memory before the memory has anything to manage.
Inherit(m) ==
    LET c == op[m] IN
    /\ c.pc = "inherit"
    /\ \/ LET o == CHOOSE x \in Objects : obj[x] = NoObj IN
            /\ Usable(m) /\ \E x \in Objects : obj[x] = NoObj
            /\ cap' = [cap EXCEPT ![c.entry] = [state |-> "usable", obj |-> o]]
            /\ obj' = [obj EXCEPT ![o] = [kind |-> c.kind, mem |-> m, blocks |-> c.blocks]]
            /\ op' = [op EXCEPT ![m] = IF c.kind = "kmem" THEN [pc |-> "addRange", new |-> o] ELSE NoOp]
            /\ UNCHANGED <<heap, refs>>
       \/ /\ ~Usable(m)
          /\ cap' = [cap EXCEPT ![c.entry] = Empty]
          /\ FreeBlocks(m, Rollback(c.blocks))
          /\ op' = [op EXCEPT ![m] = NoOp]
          /\ UNCHANGED obj

\* KernelMemoryFactory: the new memory gets the first of its blocks, although
\* its capability may have been used or revoked since.
GiveRange(m) ==
    LET o == op[m].new IN
    /\ op[m].pc = "addRange"
    /\ heap' = [heap EXCEPT ![o] = SFree(@, obj[o].blocks[1])]
    /\ op' = [op EXCEPT ![m] = NoOp]
    /\ UNCHANGED <<refs, cap, obj>>

\* A revocation kills the capability ...
Kill(e) ==
    /\ cap[e].state = "usable"
    /\ cap' = [cap EXCEPT ![e].state = "zombie"]
    /\ UNCHANGED <<heap, refs, obj, op>>

Child(o, m) == obj[o].kind # "none" /\ obj[o].mem = m
Held(o) == \E e \in Entries : cap[e].obj = o

\* ... removes it when nothing is left that was created from its object ...
Unlink(e) ==
    /\ cap[e].state = "zombie"
    /\ \A o \in Objects : Child(o, cap[e].obj) => ~Held(o)
    /\ cap' = [cap EXCEPT ![e] = Empty]
    /\ UNCHANGED <<heap, refs, obj, op>>

\* ... and deletes the object; a memory first waits for its blocks, and the
\* monitor of the object's memory frees between two creations.
Free(o) ==
    LET m == obj[o].mem IN
    /\ obj[o] # NoObj /\ ~Held(o)
    /\ refs[o] = 0 /\ op[o].pc = "idle" /\ op[m].pc = "idle"
    /\ heap' = [heap EXCEPT ![m] = SFreeAll(@, obj[o].blocks), ![o] = <<>>]
    /\ refs' = [refs EXCEPT ![m] = @ - Len(obj[o].blocks)]
    /\ obj' = [obj EXCEPT ![o] = NoObj]
    /\ UNCHANGED <<cap, op>>

Next ==
    \/ \E m \in Mems : InvalidArgument(m) \/ Alloc(m) \/ Inherit(m) \/ GiveRange(m)
    \/ \E m \in Mems, e \in Entries, kind \in Kinds : Create(m, e, kind)
    \/ \E e \in Entries : Kill(e) \/ Unlink(e)
    \/ \E o \in Objects : Free(o)

Spec == Init /\ [][Next]_vars

-----------------------------------------------------------------------------

Units(start, len) == start .. start + len - 1
FreeUnits(m) == UNION {Units(heap[m][i].start, heap[m][i].len) : i \in DOMAIN heap[m]}

\* The blocks that are allocated from m, with the object or creation they belong to.
OutOf(m) ==
    {<<o, i>> \in Objects \X (1 .. 3) : Child(o, m) /\ i \in DOMAIN obj[o].blocks}
      \cup {<<m, i>> : i \in IF op[m].pc \in {"alloc", "inherit"} THEN DOMAIN op[m].blocks ELSE {}}
BlockAt(m, b) == IF b[1] = m THEN op[m].blocks[b[2]] ELSE obj[b[1]].blocks[b[2]]
UsedUnits(m, b) == Units(BlockAt(m, b).start, BlockAt(m, b).len)

Bytes(ranges) == UNION {r[1] .. r[2] - 1 : r \in ranges}

\* The units that lie completely in available memory; and the memory that was
\* given to m.
Managed(m) ==
    IF m = Root
    THEN {u \in 0 .. Size : Units(u * heapAlign, heapAlign) \subseteq
                               (Bytes(MemoryMap) \ Bytes(Reserved)) \cap (0 .. Size - 1)}
    ELSE IF m \in Memories /\ op[obj[m].mem] # [pc |-> "addRange", new |-> m]
         THEN Units(obj[m].blocks[1].start, obj[m].blocks[1].len) ELSE {}

\* The free list of every memory is ordered and merged as far as possible, and
\* with the allocated blocks it tiles exactly the managed memory: no unit is
\* lost, handed out twice, or handed out although the boot code reserved it.
HeapIntact ==
    \A m \in Mems :
      /\ \A i \in 1 .. Len(heap[m]) - 1 : heap[m][i].start + heap[m][i].len < heap[m][i + 1].start
      /\ \A b \in OutOf(m) : UsedUnits(m, b) \cap FreeUnits(m) = {}
      /\ \A b, c \in OutOf(m) : b # c => UsedUnits(m, b) \cap UsedUnits(m, c) = {}
      /\ FreeUnits(m) \cup UNION {UsedUnits(m, b) : b \in OutOf(m)} \subseteq Managed(m)

\* Nothing leaks: whatever step of a creation fails, every block comes back,
\* and the memory's reference count, which delays its deletion, counts the
\* blocks that are out.
NothingLeaks ==
    \A m \in Mems :
      /\ Managed(m) \subseteq FreeUnits(m) \cup UNION {UsedUnits(m, b) : b \in OutOf(m)}
      /\ refs[m] = Cardinality(OutOf(m))
=============================================================================
