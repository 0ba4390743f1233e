# MyThOS in TLA+

A verification development for the MyThOS microkernel: TLA+ modules translated
from the C++ sources under `src/kernel`, TLC configurations that model-check
them on small instances, and TLAPS proofs for every value of the constants.
`PROJECT.json` gives, for each definition, the source lines it stands for, and
lists components, runs, findings, hazards and theorems.

    tlc -workers 2 -config MCWakeups.cfg MCWakeups  # model-check
    tlapm PlaceProofs.tla                           # check proofs

## 1. The system

MyThOS runs one *place* per hardware thread. A place executes user code, sleeps,
or is in the kernel, which runs to completion with interrupts off. Kernel
activities are *tasklets*: closures in caller-provided memory that are chained
into the queue of a place or of an object. There is no kernel thread that
blocks; waiting is done by returning and being called again through a tasklet.

| Part | State | Operations that change it | Talks to |
|---|---|---|---|
| Ticket lock (`TidexMutex`) | `ingress`, `egress`, a thread-local identifier | lock, unlock | any short critical section |
| Delegation queue (`ChainFIFO`) | shared tail, private tail, `next` of each tasklet | push, pushPrivate, pull, tryAcquire, tryRelease | places, monitors, mutex |
| Place | two queues, `nestingMonitor`, pending interrupt | enterKernel, pushShared, runLocal, pushSync, preempt, processTasks, release | all places, the scheduler |
| Delegating mutex | queue, the `done` flag on each caller's stack | atomic, process, wait, handover | spinning kernel code |
| Nested and deletion monitor | wait queue, home, reference count, delete task | request, response, requestDone, acquireRef, releaseRef, doDelete | nearly all kernel objects |
| Capability tree | `_cap`, `_next`, `_prev` of each entry, with lock and revoke bits | insertAfter, unlink, moveTo, kill, revoke, delete, reference drop | every object and capability map |
| Object deletion | queue of dying objects, broadcast, monitors | kill, broadcast, deleteObject, free | places, portals, memory |
| Execution context | atomic word of flags, current place, event queue, bound capabilities | invocations, signals, events, system calls, traps, load, save, deletion | scheduler, place, portal |
| Scheduling context | ready list, selected handle | ready, unbind, tryRunUser | execution contexts, place |
| Address space | root page map of each context, `cr3` of each place | resume, revoke, invalidation broadcast | contexts, places, page maps |
| Portal and its library | portal state, owner, lock and future in user memory | invoke, response, attach, poll, release | contexts, capability maps |
| Signal listener | source, sink, mask, collected signal | bind, reset, signal, deliver, revocation, deletion | contexts |
| Kernel memory and heap | free list, blocks of each object | create, allocate, free | capability tree, object deletion |
| Page map | page tables with a capability entry per slot | mmap, munmap, mprotect, installMap, removeMap | frames, revocation |
| Capability map | entries behind a guard | lookup, derive, reference, delete | every invocation |
| Processor allocator | LIFO list of scheduling contexts | alloc, idle event, revocation | scheduling contexts, capability tree |
| User threads | futex words and queues, exit flags | wait, wake, requeue, exit, join | signals of execution contexts |
| Debug channel | ring of slots, positions, streams at the host | write, receive | host terminal |

The behaviours that make this code hard to test:

* lock-free steps interleave at single memory accesses (queue, tree, flags);
* a sender decides from a queue's old value whether to send an interrupt, while
  the receiver is about to leave the kernel: a lost wakeup is a hang;
* tasklets are reused and some live on the stack of a waiting caller, as do the
  elements of futex queues;
* a request migrates between places while its monitor stays locked;
* deletion competes with requests, insertion, other deletions, page table walks,
  object creation and contexts that are just being resumed;
* the flag word of an execution context has many writers, and each decides from
  the value before its own update who has to inform the scheduler;
* two places may wait for each other's synchronous task, two portals may delete
  each other.

`PROJECT.json` lists 40 such hazards, each at the line where it bites, with the
properties that would catch it. Two of them have none, with the reason.

## 2. Modules

| Module | Models | Steps |
|---|---|---|
| `FifoLock` | abstract first-come-first-served lock | announce, acquire, release |
| `TidexMutex` | `util/tidex-mutex`: a thread complements its identifier while `egress` still shows it | one per atomic access |
| `DelegationQueue` | abstract queue that is also a lock; its operators on queue values are used by the modules below | push, pull, acquire, release |
| `TaskletQueue` | `TaskletQueue.hh`, `Tasklet.hh` | one per atomic access |
| `Place` | `Place.{hh,cc}`, `SynchronousTask.hh`, entry and exit in `kernel.cc` | one queue operation or interrupt each |
| `MutexDelegating` | `MutexDelegating.{hh,cc}` for both settings of `NDEBUG` | one queue operation or flag access each |
| `NestedMonitor` | `NestedMonitorDelegating.{hh,cc}`, `DeletionMonitor.hh` | one queue, home or counter access each |
| `Caps` | capability values, derivation, the parent relation | operators only |
| `CapTree` | `CapEntry.{hh,cc}`, synchronous part of `RevokeOperation.cc` with `deleteEntry()`, the loop of `CapMap::deleteCap()`, `ops.hh` | one memory access each |
| `PlaceRing` | the ring of places of `DeleteBroadcast` and `PML4InvalidationBroadcast`: `nodes[id].next` and the loop that looks for the next place | operators only |
| `ObjectDeletion` | asynchronous part of `RevokeOperation`, `DeleteBroadcast`, the monitors and memories of the objects, portals as initiators | one tasklet, lookup or removed leaf each |
| `LinkedList` | `util/LinkedList.hh`, the list of ready handles | operators; one critical section each |
| `Scheduling` | `ExecutionContext.{hh,cc}`, `SchedulingContext.{hh,cc}` composed with the places that run them | one shared access each |
| `AddressSpace` | the resume path into `setCR3()`, `setFlagsSuspend()`, both broadcasts, freeing of a root map | one access or broadcast hop each |
| `Portal` | `Portal.{hh,cc}` with `PortalBase.hh`, `FutureBase.hh` and the polling system calls | one shared access each |
| `SignalListener` | `SignalListener.{hh,cc}` with its two `CapRef`s | one critical section each |
| `Heap`, `KernelMemory` | `FirstFitHeap.hh`, the boot range set; `KernelMemory.cc` and the factories | operators; one step of a creation each |
| `CapMap` | `CapMap.cc`: lookup over nested maps, copies by pointer | one invocation each |
| `PageMap` | `PageMapAmd64.{hh,cc}`: table walks | one table entry each, split where the code is |
| `ProcessorAllocator` | `ProcessorAllocator.{hh,cc}`, the idle event of `SchedulingContext` | one request or response of its monitor each |
| `ThreadSync` | `futex.cc`, `PthreadCleaner` of `cxxsupport.cc` | one critical section or atomic access each |
| `DebugChannel` | `PciMsgQueueMPSC.hh`, `MLogSinkPci`, the loop of `xmicterm` | one atomic access each |
| `MCQueues`, `MCWakeups`, `MCScheduling`, `MCCapTree`, `MCCapabilities`, `MCObjects`, `MCThreadSync` | instances for TLC | |
| `TidexMutexProofs`, `PlaceProofs`, `TaskletQueueProofs`, `NestedMonitorProofs`, `PortalProofs`, `ObjectDeletionProofs`, `AddressSpaceProofs`, `SchedulingProofs` | theorems | |

### How state and actions correspond to the code

*TidexMutex.* `ingress` and `egress` are the two atomics, `mytid` the
thread-local identifier and `prevtid` the value the exchange returned. `queue`
is a history variable: the order of the exchanges. `ChooseID` is the choice of a
fresh identifier at the beginning of `lock()`, `Exchange` the exchange on
`ingress`, `Enter` the last read of the spin loop, `Unlock` the store to
`egress`.

*TaskletQueue.* The tails and `next` fields hold a tasklet or one of the marks
of `Chainable`. `fifo` is a history variable used as the refinement mapping to
`DelegationQueue`. A tasklet may be pushed again as soon as its handler has
begun.

*Place.* `pc` follows the kernel from `enterKernel()` to the return to user code
or sleep. The two queues are used at the level of `DelegationQueue`, which
`ImplementsDelegationQueue` justifies. `irq` is the pending wakeup interrupt of
the local APIC, a level and not a counter. Handlers are arbitrary: they may send
any free tasklet, send a synchronous task, or return. An interrupt enters the
kernel from user code or from the sleep; there is no nested one, since
interrupts are off in the kernel except at the `hlt` of `idle_lowlevel.S`.

*MutexDelegating.* A tasklet is named by the thread on whose stack it lives.
`handoverCount` starts at `HandoverLimit`. `NDEBUG` is a variable chosen at the
start. Without it, as in all configurations of the repository, `Chainable`
records the state of a tasklet in the word that also holds the handover mark,
and `Run` overwrites the mark before it runs the section (section 5).

*NestedMonitor.* `todo[p]` holds the tasklets of this monitor in the queue of
place `p`, `nested` the requests that wait for another object. `Unlink` is the
moment the object loses its last capability; `grace` are the places whose
handler started before. `DoDelete` is only possible once `grace` is empty; that
the deletion broadcast provides this is what `ObjectDeletion` checks.

*CapTree.* Each word of an entry is split into its pointer and its flag. `pc`
and `loc` are the position and locals of a thread in the operation. Deleting a
capability map deletes the entries in it (`slots` of a scenario): `deleteEntry()`
runs a second traversal while the locks of the first one are held, so `loc` keeps
both. `victims` (what was below an entry when its revoke started) and `deletes`
(calls of `deleteObject()`) are history variables. A failed `ASSERT` sets `panic`.
A scenario declares in `race` which operations may meet at neighbouring entries;
`NoRace` and `NoInsertRace` are the premises of the properties that the code does
not keep then.

*ObjectDeletion.* An object has one original capability; `Below` says which ones
must go before it: those allocated from it and those stored in it. `op[p]` is
the progress of the `RevokeOperation` in portal `p`: leaf by leaf through the
tree, the broadcast at place `at`, then the queue. That the traversal of the tree
ends is assumed here; `CapTree` shows when it does. `uses[q]` is the object the
running handler of place `q` has looked up; it may also leave a request in the
monitor of the object (`pending`), which holds the deletion back. Phase `invoked`
is a portal whose ordinary invocation waits at its destination; nothing keeps the
portal for it.

*Scheduling.* A place in kernel mode executes a *program*, a sequence of
instructions with one access to shared state each. A handler of the code is a
program (`InvokeSuspend`, `DeleteCap`, ...); a tasklet or a synchronous task is a
program sent to another place. Conditions are evaluated by the instruction that
reads the value, and the rest of the handler is pushed in front of the program.
`TryRunUser` and `Resume` are the scheduler loop and the return to user code,
with the flags read and written in the order of the code. `eventQueue` counts
pending events, since their contents do not influence control. `stale` holds the
places that still have the base registers from before a `setBaseRegisters()`,
which `setFSGS` calls while the context may be running.

*AddressSpace.* Each place has one execution context. `RunUser`, `CheckAS` and
`LoadCR3` are the check of the flags, the test of `_as` and `setCR3()`; `found`
is the page map between the last two. `op` follows one revocation: the contexts
that use the map are suspended, the delete broadcast passes the places in the
kernel, `Invalidate` the places with the map in `cr3`, then the map is freed.

*Portal.* `state`, `dest` and `owner` are the fields of the kernel object;
`refcount` and `future` those of `PortalBase` and `FutureBase`; `serving` says
how far the destination's answer is: working, releasing the capability entry,
replying, attaching to the owner. The send takes a reference on the capability map
of the destination, which the answer or the failed send returns; a lookup that
fails and a portal that is not open answer with an error. `asked` records who
waits: a thread may also invoke through a portal of another context.

*SignalListener.* A `CapRef` is a record with the state of its entry, the object
and who holds its locks. `signal` keeps, for each collected bit, the source it
came from, and `maskFor` the source for which the mask was asked: both are
history. `raising` is the signal that a source is passing along its list, `pulled`
the sinks between the pull of the handle and `deliverKEvent()`. `deleting` follows
`deleteCap()`. `crossed` is history: a signal, reset, bind or delivery came into one
of the windows that the code leaves open (section 5).

*Heap and KernelMemory.* A free list is a sequence of ranges; `SAlloc` and `SFree`
follow `FirstFitHeap`, counted in units of the alignment. A creation goes through
acquiring the entry, one step per block, and the insertion below the capability
of the memory, which a revocation may have killed. `Rollback` is the error path.

*PageMap.* `walk[r]` is the operation in the monitor of root `r`, with a stack of
the tables that `visitPages()` is in. An entry and its capability are separate:
mapping checks the frame, resets the old reference and sets the new one. A request
to write needs a writable frame. `cap` is the state of a frame or table: usable,
killed, then revoked for a frame; the revocation of a table also deletes its entries,
and it is freed when the broadcast has passed the walks that may be inside (`holds`).

*CapMap.* Pointers are integers shifted as in the code, with a fixed width.
`Reaches` is the reference definition of lookup: guards and indices concatenated
from the root.

*ProcessorAllocator.* `task` is the `paTask` in a scheduling context, `waitq` the
queue of the allocator's monitor, and `toBeFreed` the context whose revocation
runs. The parent of a granted capability decides whether the revocation finds it.
Any number of execution contexts may be bound to one scheduling context; `shared`
is history: the scheduling contexts that were bound while another context, or the
free request of one, still used them.

*ThreadSync.* The queue is the linked list of the code, with `tail` pointing to
the last `next` field. `notified` is what ends `mythos_wait()`, a signal or an
unrelated event.

*DebugChannel.* A packet is identified by message and position. `handle_t` wraps
at `2^Width`; the terminal keeps one stream per thread.

## 3. Runs

Each property has a mutant: a plausible bug in one mapped definition under which
the same run fails. Components that share no state are checked in one run: a
variable `part` selects the component at the start and the other variables keep
their initial values.

| Run | Instance | What it shows |
|---|---|---|
| `queues` | `TidexMutex`, `TaskletQueue`, `MutexDelegating`, three threads each; 3-bit identifiers, 3 tasklets, handover after 2, with and without `NDEBUG`; `DebugChannel` with 2 threads, 2 slots, 3-bit positions; `Portal` with 2 portals of one context, 2 contexts, 2 destinations | mutual exclusion and refinement of `FifoLock`; one owner and refinement of `DelegationQueue`; the section runs within the call that asked for it; streams arrive in order across the wrap-around; portal assertions and references; calls return, messages are logged, replies reach the thread that asked |
| `wakeups` | 2 places and 2 tasklets with any handlers; a monitor used by 3 places with 2 requests, nesting, deletion; 3 threads with 2 futex words in one queue | no lost wakeup, the kernel owns its queues while handlers run, tasklets and synchronous calls end; requests exclude each other across places, only an idle object is deleted, requests are served; nobody sleeps on a futex word that has changed, waits and joins end |
| `scheduling` | 2 places, 1 or 2 execution contexts, 3 operations in all, 3 scenarios | suspended and deleted contexts have stopped when that is answered, registers are accessed exclusively, new base registers are loaded before the context continues, no event and no wakeup is lost, ready contexts run |
| `capabilities` | `CapTree`: 5 entries, 3 objects (one refuses deletion), 9 scenarios, three of them with a map. `ObjectDeletion`: 3 places; a memory, an object in it, a map with its capability, 2 portals that may delete each other; 2 operations | ring and tree order intact, revokes complete, an object is deleted once and no capability outlives it, assertions hold, operations return; no handler, request or operation uses a freed object, a memory outlives what was allocated from it, collected objects are freed and revocations answered |
| `kernel_objects` | 2 nested capability maps with 4-bit pointers; a listener with 2 sources, and one with 2 sinks; memory of 8 units with 2 entries, 3 objects, 4 kinds; 2 roots sharing a table in 3 levels of 2 entries, with a frame or a table revoked; 2 scheduling contexts, 2 execution contexts, 2 processes; 3 places with 2 root maps | lookup agrees with its reference definition; signals are announced and masks belong to their source; blocks tile the memory whatever fails; mappings are backed by usable capabilities and no walk is in a freed table; mmap maps exactly its range; the free list is exact; no place has or loads a freed root map |

The runs have between 81,000 (`wakeups`) and 1,750,000 (`kernel_objects`) distinct
states and take two to four minutes with two workers.

Seven runs show a disagreement between the code and what the repository says of
it (`findings` in `PROJECT.json`):

| Run | Property | Counterexample |
|---|---|---|
| `nested_monitor_deleted_once` | `DeletedOnce` | `releaseRef()` reads `deleteTask` after its decrement; `doDelete()` in between pushes the tasklet, then it is pushed again |
| `captree_insert_race` | `NoPanic` | `insertAfter()` makes the new entry reachable before it stores its `_next`, overwriting a lock taken in between |
| `captree_two_deleters` | `NoPanic` | `unlink()` unlocks the predecessor before it clears `_prev`; a second deleter of the entry locks the predecessor in between and goes on with an entry that is no longer linked |
| `captree_map_neighbour` | `Returns` | Deleting a map whose entry stands behind one that the map holds: the recursive `deleteEntry()` waits for a lock of its own operation |
| `scheduling_two_callers` | `ReadyQueueIntact` | Two `ready()` calls for one context interleave their remove and push and link the handle to itself |
| `thread_sync_requeue` | `ElementRemoved` | A requeued waiter that wakes up for another reason looks for its element in the wrong queue and returns while it is linked |
| `address_space_suspend` | `NoFreedTable` | A second caller of `setFlagsSuspend()` does not wait for a context whose place is about to load `cr3`; the freed root map is loaded |

What the passing runs say is limited where the code does not keep the property,
and the limit is part of the property or the scenario:

* `CallsReturn` accepts that an `atomic()` of a build without `NDEBUG` waits for ever
  after a lost handover (`Abandoned`); with `NDEBUG` it must return.
* `AssertionsHold` speaks about scenarios without a `race`, and `OperationsReturn`
  accepts a failed assertion in those with one: two deleters at neighbouring entries
  (`captree_two_deleters`). `ListIntact`, `RevokeComplete` and `OperationsReturn` do
  not speak about an insertion next to a deletion (`captree_insert_race`).
  `ObjectLifetime` is checked in all scenarios.
* The scenarios of `capabilities` have no map that holds a neighbour of its own entry
  (`captree_map_neighbour`), and no revoke of the root of a populated ring against a
  delete of its last entry (section 5).
* `NoUseAfterFree` accepts that a portal is freed while its ordinary invocation is
  unanswered, `SignalsAnnounced` that an announcement goes wrong after the steps that
  set `crossed`, `FreeListExact` that the id of a scheduling context in `shared` is twice on
  the free list, `RepliesArrive` that the answer to a thread which used another context's
  portal waits for the owner's poll (all in section 5).
* The scenarios of `scheduling` have one calling place (`scheduling_two_callers`); in
  `wakeups`, `futex_requeue()` moves between words of the same queue
  (`thread_sync_requeue`); in `kernel_objects`, only revocations suspend contexts
  (`address_space_suspend`).

### Bounds, and why they are enough

* Three threads are needed for a waiting thread behind a waiting thread, and for
  a chain with an insertion in progress in the middle. Two places suffice for
  mutual waiting and for every sender/receiver race of `Place`; the proofs cover
  any number.
* Three-bit identifiers contain the identifiers, their complements, and an
  initial value which is a complement of a value, as `0xFF00` is in the kernel.
  `HandoverLimit = 2` (100 in the code) reaches the handover with fewer sections
  than there are threads.
* A tree of a memory object, an object, a derived capability and a reference has
  every kind of capability and depth two. Sequences of three operations on one
  thread, or two on each of two threads, let an operation meet the traces of an
  earlier one. The fifth entry is an empty one in a map.
* Three operations on an execution context are a start and two that overlap or
  follow each other, while the user program may trap, wait, or make system calls
  any number of times.
* Three places let a broadcast meet one place that is skipped and one that is
  not, besides its own. `MaxPending` bounds the requests in one object,
  `MaxSends` the operations of the portals: two are needed for two portals that
  delete each other.
* The memory of `KernelMemory` is too small for all objects, so that every
  allocation fails in some state, and the boot memory map has two ranges with a
  reserved part. Three levels of page tables have a root, an inner and a leaf
  table; `MaxOps` bounds the operations per root to two and one.
* `MaxFrees` bounds the ids that are free, on their way to the free list or bound:
  three, one more than there are scheduling contexts, lets an id come back twice.
* Positions of the channel wrap after four rounds over two slots.
* Symmetry is used only in `kernel_objects`, which has no liveness property: two
  model values that are interchangeable as sources, sinks, entries or execution
  contexts.

`CHECK_DEADLOCK FALSE` stands where the system may stop: bounded numbers of
operations, deleted objects, a heap that is used up, threads that exited.

### Fairness

The kernel is not preempted and interrupts are off in it, so a hardware thread
in kernel code takes its next step: weak fairness of the kernel steps of each
place or thread. The local APIC delivers a pending interrupt once it is enabled,
which is part of the kernel step. Handlers end, also if they send again and
again: strong fairness of `HandlerDone` in `Place`, since each send disables it
for a while. In `NestedMonitor`, queued tasklets are run and other objects answer,
which is what `Place` shows (`TasksEventuallyRun`). In `ObjectDeletion`, the steps
of a revocation are tasklets, which a place takes from its queue between the
handlers of other requests: strong fairness of `Progress`. In `Portal`,
destinations answer and the thread that waits for a future polls, as
`PortalFutureBase::wait()` does. In `CapTree`, spinning threads run: weak fairness of
each one's step. In `ThreadSync`, the threads run, and the locks of the
queues are `TidexMutex`es, which are fair (`ImplementsFifoLock`): strong fairness
of each thread's step. In `DebugChannel`, writing threads and the terminal, which
polls in an endless loop, go on. Nobody has to call, push, trap, interrupt, signal or
exit spontaneously. `QuietHandlers` and the premise of `EventuallyRun` exclude
handlers that use the LIFO `runLocal()` for ever, which does starve older
tasklets in the code.

## 4. Proofs

| Theorem | Statement |
|---|---|
| `TidexMutualExclusion` | `Spec => []MutualExclusion` |
| `ChainInvariant` | `Spec => []ChainInv` |
| `TidexRefinesFifo` | `Spec => ImplementsFifoLock` |
| `PlaceNoLostWakeup` | `Spec => []NoLostWakeup` |
| `PlaceOwnsQueues` | `Spec => [](TypeOK /\ KernelOwnsQueues)` |
| `TaskletQueueSingleOwner` | `Spec => []SingleOwner` |
| `TaskletQueueRefinement` | `Spec => ImplementsDelegationQueue` |
| `NestedMonitorExclusive` | `Spec => []MonitorExclusive` |
| `NestedMonitorDeletion` | `Spec => []DeleteOnlyIdle` |
| `PortalProtocolHolds` | `Spec => []PortalProtocol` |
| `ObjectDeletionSafe` | `Spec => []NoUseAfterFree` |
| `ObjectMemoryNested` | `Spec => []MemoryNested` |
| `AddressSpaceSafe` | `Spec => []NoFreedTable` |
| `SchedulingNoLostEvent` | `Spec => []NoLostEvent` |
| `SchedulingPrograms` | `Spec => [](Types /\ ProgInv /\ SelInv)` |

*TidexMutex*, for any finite or infinite set of threads. The assumption is that
identifiers lie below the top bit, so that no identifier is the complement of
another; the initial value may be such a complement. Mutual exclusion alone is
not inductive: nothing would tie `egress` to the thread that is allowed to enter.
`ChainInv` says that the threads past their exchange form a chain in which each
waits for the identifier of its predecessor, the first one for `egress`, and that
an identifier in use is not the one in `egress`. The last conjunct is where the
complemented identifier is needed. The refinement follows step by step: `Exchange`
appends to the abstract queue, `Enter` takes the lock for its head, `Unlock`
removes it, `ChooseID` stutters.

*Place*, for any set of places and tasklets. `NoLostWakeup` is not inductive. A
place that has released its first queue and is about to release the second one
still counts as looking at its queues, but when the second release succeeds it
leaves the kernel without another look. `Ownership` adds what each point of the
kernel holds, and that a first queue taken in this window has an interrupt on
its way. `QueueFacts` states once what the operations of `DelegationQueue` do to
the lock and the type. The step proof has one case per action, split where the
action may concern the same place or another one.

*TaskletQueue*, for any set of threads and tasklets, under `MarksDistinct`: the
marks in the tails and `next` fields are no tasklets and differ. The invariant
adds the points at which a thread owns the queue to `SingleOwner`: a thread that
pulls, runs or releases owns it, and an owner is inside an operation. The lock is
free exactly while the shared tail is `FREE`, so that who finds it free becomes
the only owner. The refinement needs what the pointers mean. `ChainInv` cuts the
history variable `fifo` into three parts: the entries that the owner has detached
and still walks over, the private queue, and the shared chain. The first and the
last are linked from each entry to the one pushed before it, by its `next` field
or, while that is `INCOMPLETE`, by the `oldtail` that its pusher is about to store;
the private queue is linked the other way. `PushInv` says that a tasklet has one
pusher and enters the queue with the exchange. Each action has a lemma that names
the new cuts, and both ways to return from `pull()` are one lemma, `PullHeadChain`:
what they return is the first entry of `fifo`.

*NestedMonitor*, for any set of places and requests. Exclusion of the places
inside the monitor is not inductive, since ownership survives while no place is
inside. `TokenInv` treats it as a token that is a place inside, a request waiting
for a response, or a tasklet of the monitor in the queue of the home place, and
says that there is at most one and none while the queue is released. `HomeInv`
ties the home to the token through the reset after a release; `QueueInv` says
where the queue cannot be empty.

`DeleteOnlyIdle` needs the meaning of the reference count (`RefInv`): it is the
number of places that have yet to release a reference, plus one while the token
owns one. This is not enough for a count of zero to mean idle, since `request()`
locks the queue before it calls `acquireRef()`. `GraceInv` closes the gap: once the
object is unreachable, only handlers of the grace period can be in between, and
`doDelete()` comes after them; a queue that any other handler releases stays
released. This covers both orders of `doDelete()` and the last `releaseRef()`,
including the one in which the task is pushed twice (section 3): also then the
object is idle. The set of places need not be finite; that the places with a
reference are is part of the invariant.

*Portal*, for any set of contexts and destinations and any finite set of portals
(`PortalAssumption`; `None` is neither). The invariant follows an invocation
through the lock of the library (`LockInv`), the system call (`CallInv`), the
destination (`ServingInv`) and the event queue of the owner (`QueueInv`): it is in
one of them at a time, and the state of the portal tells in which. `RefsInv`
counts the references of each capability map as a cardinality; its lemmas cite
`FiniteSetTheorems`.

*ObjectDeletion*, for any number of places and any finite set of objects, with any
portals, memories and contents of capability maps (`ObjectAssumption`). That no
handler finds a removed object is immediate; the work is in the handlers that found
it before. `GraceInv` orders the places by their distance from the home of the
operation (`Dist`): while the broadcast is at a place, whoever still uses an
object of the queue is the home or not nearer than this place. The step that
skips places which are not in the kernel rests on `RingStep`, a lemma about
the ring, proved with the least-element principle of `WellFoundedInduction`. At the
end the broadcast is back at home, and the home runs no handler when it takes the
next object. `LockInv` is why a portal that works on an operation is not removed
by another one, `OnceInv` why nothing is freed twice, and `UnusedInv` ties the
requests that portals wait for to the count of pending ones. The theorem says nothing
about a portal in phase `invoked`, which the code may free (section 5). `MemoryNested` is
part of `UnusedInv`: an object is freed when all its children are.

*AddressSpace*, for any number of places and any set of root maps other than the
kernel's. While the map is being unbound, a context that found it either still
refers to it or is the one that is waited for (`FoundInv`); afterwards none can
load it, so that the places with the map in `cr3` become fewer and are ahead of the
invalidation (`LoadedInv`, again by distance). The theorem is about `Next`, where
only revocations suspend contexts: with the second caller of
`address_space_suspend` the conjunct `FoundInv` fails, as the run shows.

*Scheduling*, for any set of places, contexts and scenarios, with any number of
callers and operations. A place executes programs, so the invariant speaks about
what programs can still do. `Good` says that each instruction that announces an
event (`pushEvent`, or setting `IS_NOTIFIED`) is followed by one that clears
`IS_WAITING` of the same context; it holds for the handlers (`HandlersGood`) and is
kept by the instructions that replace themselves by others. Tasklets and
synchronous tasks, which travel between places, announce nothing (`Quiet`).
`NotifiedInv` and `EventInv` are `NoLostEvent` for all points inside `wait()` and the
notifiers: somewhere an instruction is pending that ends the waiting, or that
looks for the event first. `SelInv` is needed for the return to user mode. Types of
programs are a part of the invariant, since an instruction may carry a program.
`SchedulingPrograms` states these parts for themselves: what programs places run, and
that the context chosen by `tryRunUser()` is the loaded one. Of the ready list it has
only the type of the links, since with two callers it does not stay a list.

What is proved does not depend on the bounds of the runs: `MaxPending`,
`MaxSends`, the numbers of operations in a scenario and the sizes of all sets are
arbitrary. The inductive invariants were checked by TLC before they were proved.

Only model-checked: everything about `MutexDelegating`, `CapTree`,
`SignalListener`, `KernelMemory`, `CapMap`, `PageMap`, `ProcessorAllocator`,
`ThreadSync` and `DebugChannel`; the other properties of `Scheduling`; what
recursive definitions compute (`Translate`, the heap); and all liveness
properties. Liveness, `ENABLED` and induction over data are outside the reach of the
prover. That holds for `CapTree` too, whose invariants are about what is reached by
following `_next`.
`StopsWhenAnswered`, `RegistersExclusive` and `BasesReloaded` hold for one caller only
and need an account of every pending preemption, `NoSleepWhileReady` one of the ready list.

## 5. Observations without a run

Met while modelling. Confirmed with TLC on variations of the instances:

* Without `NDEBUG`, which no configuration of the repository defines,
  `TaskletBase::run()` (`Tasklet.hh:89`) overwrites the handover mark that
  `setHandover()` stores just before (`MutexDelegating.cc:47`). After 100 sections in
  one `process()` the handover is lost and the waiting threads hang, against the
  comment there ("hand over processing to another waiting thread after some time / in
  order to avoid starvation and denial of service"). `Abandoned` in `MutexDelegating`.
* Revoking the root of the capability tree locks the last entry before the root,
  deleting the last entry locks in the other order; both wait for each other
  (`RevokeOperation.cc:160`, against the order stated at `CapEntry.hh:42`).
  `ProcessorAllocator::freeSC()` revokes such roots (`ProcessorAllocator.cc:154`);
  in the module of that name, each removed capability is one step without locks.
* A portal may be freed while its ordinary invocation waits at the destination: its
  `deleteCap()` (`Portal.cc:144`) acquires the operation but takes no reference for the
  tasklet in the portal, although `IKernelObject.hh:107-109` delays the deletion until
  all pending tasks are processed. The answer then
  arrives in freed memory. Phase `invoked` in `ObjectDeletion`.
* The listener announces an event wrongly in three windows (`crossed`). Between
  `unbind()` of the sink and the end of the reset, `resetWithMask()` and `signalChanged()`
  still find the sink and attach the handle again, although the comment at
  `SignalListener.cc:143` says that the capability is not usable by then. When the
  handle was pulled and the sink is rebound before `deliverKEvent()` runs, a new signal
  attaches the handle and `deliverKEvent()` clears `_eventAttached`
  (`SignalListener.cc:206`), against `SignalListener.hh:95`. And a bind that runs
  during `deleteCap()` may set a reference that nobody resets.
* A scheduling context bound to a second execution context, or bound again before its
  free request is served, emits `idleSC` once per context: its id is pushed twice on
  the free list, or `paTask` is set while it is queued. `shared` in
  `ProcessorAllocator`.
* The answer to an invocation through a portal of another context is queued at the
  owner of the portal (`Portal.cc:113`); the thread that invoked gets it when the owner
  happens to poll.
* `munmap` and `mprotect` skip pages of the smallest size: `visitPages()` takes an
  entry for a page only if its `page` bit is set, which `mapFrame` sets on levels
  above 1 (`PageMapAmd64.cc:190`, `:251`).
* Two execution contexts on one scheduling context: `ready()` reads
  `current_handle` before it pushes; if the selected context leaves in between, the
  place may go to sleep with a ready context. `NoSleepWhileReady` and
  `RunsEventually` therefore speak about one context per place.
* `deleteCap()` that reads `currentPlace = nullptr` just before `loadState()`
  leaves the deleted context loaded (it does not run: `StopsWhenAnswered`). With
  two contexts, its synchronous task may call `saveState()` for a context that was
  unloaded meanwhile, against its assertion.

From reading:

* `Portal::sendInvocation()` stores `currentDest` before it finds out that the
  portal is not open (`Portal.cc:94`); `PortalFutureBase::then()` releases the lock early
  (`PortalBase.hh:142`). `PortalProtocol` holds for users that keep the lock.
* Requests still pending when a portal is deleted are not answered
  (`Portal.cc:144`), and a bind during an invocation changes the owner.
* `SchedulingContext::unbind()` clears `current_handle` also if another context
  is selected. `setSchedulingContext()` on a loaded context clears `currentPlace`
  but leaves it loaded, and continues after its error answer.
* `handleInterrupt()` sets `NOT_RUNNING` only, `doc/execution-context.md` also
  mentions `DONT_PREEMPT`.
* `CapEntry::reset()` stores the links unconditionally and clears a lock that
  was taken concurrently.
* A mapping range beyond the end of the root table is cut and answered with
  success; a failing `mmap` leaves what it has mapped; there is no TLB shootdown
  after `munmap` and `mprotect`.
* `FirstFitHeap::addRange()` rounds the start up and the length down
  (`FirstFitHeap.hh:66`): with an unaligned start the added range may end behind the
  given one. The ranges of `kernel_objects` start aligned.
* The factory of capability maps leaves the destination entry allocated when the
  memory is exhausted.
* The scheduling context of the initial application is inherited from the memory
  root, so the revocation in `freeSC()` does not find it; one that was granted and
  never bound has no idle event and does not come back.

## 6. Not modelled

About 8% of the lines under `src` are mapped. Most of the rest has no state that
properties could be about: of some 43,800 lines, 7,200 are one generated page
table (`pagetables.cc`), nearly 9,000 are licence headers, and large parts are
register layouts, message formats, drivers, wrappers and tests. What is left out:

* Boot code besides the memory map, device and processor drivers, register save
  areas, host tools besides the terminal: sequential accesses to hardware, tables
  or assembler.
* Log output, message layouts, protocol dispatch tables and user-level wrappers:
  formatting without shared state.
* Home-bound monitors (no queue of their own); `MonitorHomed`,
  `MonitorDelegating` and their queues, which are written against an earlier
  `Tasklet` and not used.
* Interrupt control: one table of listeners, whose `maskIRQ()` is empty.
* Re-binding of a loaded execution context and of a portal in use, and the frame
  of the invocation buffer: the code does not protect against the first two
  (section 5), and the contents of the buffer do not influence control.
* Callbacks of futures, `process.hh` (`createProcess()` returns at once), the
  user-level allocators (one thread, or one lock).
* Weak memory orderings and cache flushes: all modules interleave whole accesses,
  as sequentially consistent atomics do.
