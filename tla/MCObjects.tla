------------------------------- MODULE MCObjects -------------------------------
(***************************************************************************)
(* Instances of the kernel objects: CapMap, SignalListener, KernelMemory,  *)
(* PageMap, ProcessorAllocator and AddressSpace.  They share no state: a   *)
(* behaviour is one of a single part, chosen at the start, while the other *)
(* parts stay in their initial states.                                     *)
(***************************************************************************)
EXTENDS AddressSpace, TLC

CONSTANTS m1, m2, o1,                       \* capability maps and another object
          i1, i2,                           \* two sources, sinks, entries or execution contexts
          s3, k3, b1, Keep, Drop,           \* another source and sink, a signal bit
          x1, x2, x3, rootmem,              \* objects, root memory
          c1, c2, v1, v2,                   \* scheduling contexts, capability spaces
          r1, r2, t1, l1, l2, f1, f2, Nothing   \* root page maps, tables, frames

VARIABLES part, caps,
          ref, mask, signal, attached, observers, raising, queued, looped, pulled, revoked, lpc, req, deleting,
          maskFor, crossed,
          heap, refs, kcap, obj, kop,
          pm, cap, walk, ops,
          freeList, user, sched, ready, task, waitq, toBeFreed, shared, failed

listener == <<ref, mask, signal, attached, observers, raising, queued, looped, pulled, revoked, lpc, req, deleting,
              maskFor, crossed>>
memory == <<heap, refs, kcap, obj, kop>>
pages == <<pm, cap, walk, ops>>
processors == <<freeList, user, sched, ready, task, waitq, toBeFreed, shared, failed>>

\* Interchangeable in every part that has them.
MCPair == {i1, i2}

MCMaps == {m1, m2}
MCBits == (m1 :> 1) @@ (m2 :> 1)
MCGuard == (m1 :> 0) @@ (m2 :> 1)

C == INSTANCE CapMap WITH
    Maps <- MCMaps, Root <- m1, ptrbits <- 4, indexbits <- MCBits, guardbits <- MCBits, guard <- MCGuard,
    Others <- {o1}

\* Two sources and a sink, with changing masks; and two sinks and a source.
BindSources == [source : MCPair \cup {Keep, Drop}, sink : {k3, Keep}, mask : SUBSET {b1}, reset : {{b1}}]
BindSinks == [source : {s3, Keep}, sink : MCPair \cup {Keep, Drop}, mask : {{b1}}, reset : {{}}]

L == INSTANCE SignalListener WITH
    Sources <- MCPair, Sinks <- {k3}, Bits <- {b1}, Revocable <- MCPair, Requests <- BindSources, pc <- lpc
S == INSTANCE SignalListener WITH
    Sources <- {s3}, Sinks <- MCPair, Bits <- {b1}, Revocable <- MCPair, Requests <- BindSinks, pc <- lpc

MCObjs == {x1, x2, x3}
MCMap == {<<0, 13>>, <<14, 28>>}
MCReserved == {<<0, 2>>}
MCKinds == {"portal", "capmap", "kmem", "pagemap"}

K == INSTANCE KernelMemory WITH
    Entries <- MCPair, Objects <- MCObjs, Root <- rootmem, heapAlign <- 2, Size <- 16, MemoryMap <- MCMap,
    Reserved <- MCReserved, Kinds <- MCKinds, cap <- kcap, op <- kop

Request(kind, vaddr, size, arg, write) ==
    [kind |-> kind, vaddr |-> vaddr, size |-> size, arg |-> arg, write |-> write, foff |-> 0, pd |-> TRUE]
Mmap(f) == Request("mmap", 0, 4, f, TRUE)

\* Three levels of two entries each.  Table t1 is installed in both roots and
\* holds l1 and the place for l2; frame f1 may be written, f2 may not.
MCRoots == {r1, r2}
MCTables == {t1, l1, l2}
MCFrames == {f1, f2}
MCLevel == (r1 :> 3) @@ (r2 :> 3) @@ (t1 :> 2) @@ (l1 :> 1) @@ (l2 :> 1)
MCFrameStart == (f1 :> 0) @@ (f2 :> 8)
MCFrameSize == (f1 :> 4) @@ (f2 :> 3)
MCFrameWritable == (f1 :> TRUE) @@ (f2 :> FALSE)
MCInstalled == {<<r1, 0, t1>>, <<r2, 0, t1>>, <<t1, 1, l1>>}
MCMaxOps == (r1 :> 2) @@ (r2 :> 1)

\* Frames are mapped while one of them is revoked; tables are installed while
\* one of them is revoked.
FrameRequests ==
    {Mmap(f1), Request("mmap", 0, 2, f2, TRUE), Request("munmap", 0, 3, f1, TRUE), Request("mprotect", 0, 2, f1, TRUE)}
TableRequests ==
    {Request("install", 2, 2, l1, TRUE), Request("install", 0, 2, l2, FALSE), Request("remove", 2, 2, l1, TRUE),
     Request("remove", 1, 2, l1, TRUE), Request("remove", 0, 1, l1, TRUE),
     [Request("mmap", 2, 2, f1, TRUE) EXCEPT !.foff = 3], [Mmap(f2) EXCEPT !.pd = FALSE]}

P(requests, revocable) == INSTANCE PageMap WITH
    Roots <- MCRoots, Tables <- MCTables, Frames <- MCFrames, Level <- MCLevel,
    FrameStart <- MCFrameStart, FrameSize <- MCFrameSize, FrameWritable <- MCFrameWritable,
    Top <- 3, Fan <- 2, TopCaps <- 1, Wrap <- 64, MaxOps <- MCMaxOps, Revocable <- revocable,
    Installed <- MCInstalled, Requests <- requests

MCSCs == {c1, c2}
MCSpaces == {v1, v2}

A == INSTANCE ProcessorAllocator WITH
    SCs <- MCSCs, ECs <- MCPair, Spaces <- MCSpaces, InitSC <- c1, InitSpace <- v1, MaxFrees <- 3

MCSymmetry == Permutations(MCPair)

MCInit ==
    /\ part \in {"map", "sources", "sinks", "memory", "frames", "tables", "processors", "space"}
    /\ C!Init /\ K!Init /\ P({}, {})!Init /\ A!Init /\ Init
    /\ IF part = "sinks" THEN S!Init ELSE L!Init
    /\ part # "map" => \A e \in DOMAIN caps : caps[e] = None
    /\ part # "space" => as = [p \in Places |-> r1]

MCNext ==
    /\ UNCHANGED part
    /\ \/ part = "map" /\ C!Next /\ UNCHANGED <<listener, memory, pages, processors, vars>>
       \/ part = "sources" /\ L!Next /\ UNCHANGED <<caps, memory, pages, processors, vars>>
       \/ part = "sinks" /\ S!Next /\ UNCHANGED <<caps, memory, pages, processors, vars>>
       \/ part = "memory" /\ K!Next /\ UNCHANGED <<caps, listener, pages, processors, vars>>
       \/ part = "frames" /\ P(FrameRequests, {f1})!Next /\ UNCHANGED <<caps, listener, memory, processors, vars>>
       \/ part = "tables" /\ P(TableRequests, {l1})!Next /\ UNCHANGED <<caps, listener, memory, processors, vars>>
       \/ part = "processors" /\ A!Next /\ UNCHANGED <<caps, listener, memory, pages, vars>>
       \/ part = "space" /\ Next /\ UNCHANGED <<caps, listener, memory, pages, processors>>

MCSpec == MCInit /\ [][MCNext]_<<part, caps, listener, memory, pages, processors, vars>>

\* CapMap: lookup() finds exactly the entry that guards and indices lead to.
LookupExact == part = "map" => C!LookupExact

\* SignalListener: collected signals of a listener with a sink are announced.
SignalsAnnounced == (part = "sources" => L!SignalsAnnounced) /\ (part = "sinks" => S!SignalsAnnounced)

\* SignalListener: a mask never filters the signals of another source than the
\* one it was requested for.
SourceMaskPaired == L!SourceMaskPaired

\* KernelMemory: free and allocated blocks tile the managed memory, whatever
\* step of a creation fails.
HeapIntact == part = "memory" => K!HeapIntact /\ K!NothingLeaks

\* PageMap: no entry refers to a revoked frame or table, or grants more than
\* the capability behind it, and no walk is inside a freed table.
MappingsBacked ==
    part \in {"frames", "tables"} =>
        P({}, {})!NoStaleMapping /\ P({}, {})!NoWriteEscalation /\ P({}, {})!NoFreedWalk

\* PageMap: the answer of mmap tells what is mapped.
MmapExact == part \in {"frames", "tables"} => P({}, {})!MmapExact

\* ProcessorAllocator: a free scheduling context is free once and nobody's, if
\* it was not shared.
FreeListExact == part = "processors" => A!FreeListExact
=============================================================================
