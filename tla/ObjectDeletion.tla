--------------------------- MODULE ObjectDeletion ---------------------------
(***************************************************************************)
(* Asynchronous deletion of kernel objects.  A Portal sends a delete or     *)
(* revoke request to a CapMap, which hands it to the portal's own           *)
(* RevokeOperation.  The synchronous phase removes the capabilities below   *)
(* the root leaf by leaf and collects the dying objects in the operation's  *)
(* queue.  DeleteBroadcast then passes through all places that are inside   *)
(* the kernel.  Finally, one object after the other waits in its            *)
(* DeletionMonitor until it is unused and returns its memory to the         *)
(* KernelMemory it was allocated from.                                      *)
(*                                                                         *)
(* The list of capability entries, its locks and the loop of deleteEntry()  *)
(* over the entries of a map are the subject of CapTree; here, an object    *)
(* has one original capability and Below says which ones go first: those    *)
(* allocated from it and those stored in it (CapMap).                       *)
(***************************************************************************)
EXTENDS Naturals, Sequences, FiniteSets, PlaceRing

CONSTANTS Objects,
          Portals,      \* the objects with a RevokeOperation
          Memory,       \* the object each object was allocated from, or None for the root memory
          Contents,     \* the objects whose original capability is stored in an object
          Roots,        \* the objects each portal asks to delete or revoke
          Users,        \* the objects that other handlers look up
          MaxPending,   \* bound on the requests an object has accepted
          MaxSends,     \* bound on the operations of all portals
          None

ASSUME ObjectAssumption ==
    /\ IsFiniteSet(Objects) /\ None \notin Objects
    /\ Portals \subseteq Objects /\ Users \subseteq Objects
    /\ Memory \in [Objects -> Objects \cup {None}]
    /\ Contents \in [Objects -> SUBSET Objects]
    /\ Roots \in [Portals -> SUBSET Objects]

VARIABLES cap,          \* state of each original capability
          pending,      \* requests in each object's monitor
          freed,        \* objects whose memory was returned
          active,       \* Place::nestingMonitor: the place is in the kernel
          uses,         \* the object the place's running handler has looked up
          portal,       \* Portal::portalState
          lock,         \* RevokeOperation::_lock
          queue,        \* RevokeOperation::_deleteQueue
          op,           \* progress of each portal's operation
          sends         \* number of operations started

vars == <<cap, pending, freed, active, uses, portal, lock, queue, op, sends>>
caps == <<cap, pending, freed>>
places == <<active, uses>>

NoOp == [phase |-> "none", root |-> None, kind |-> "delete", home |-> 0, at |-> 0, obj |-> None]

Init ==
    /\ cap = [o \in Objects |-> "usable"]
    /\ pending = [o \in Objects |-> 0]
    /\ freed = {}
    /\ active = [q \in Places |-> FALSE]
    /\ uses = [q \in Places |-> None]
    /\ portal = [p \in Portals |-> "OPEN"]
    /\ lock = [p \in Portals |-> FALSE]
    /\ queue = [p \in Portals |-> <<>>]
    /\ op = [p \in Portals |-> NoOp]
    /\ sends = 0

-----------------------------------------------------------------------------
(* The inheritance tree and the reference counts *)

Children(o) == {c \in Objects : Memory[c] = o}
Before(o) == Children(o) \cup Contents[o]

\* The smallest set that contains Before(o) and is closed under Before.
Closed(S) == \A x \in S : Before(x) \subseteq S
BelowFun ==
    [o \in Objects |-> {x \in Objects : \A S \in SUBSET Objects : Before(o) \subseteq S /\ Closed(S) => x \in S}]
Below(o) == BelowFun[o]

\* The capabilities the operation of p has still to remove, and the next ones.
Remaining(p) ==
    {o \in Below(op[p].root) \cup (IF op[p].kind = "delete" THEN {op[p].root} ELSE {}) : cap[o] # "gone"}
Leaves(p) == {o \in Remaining(p) : Below(o) \cap Remaining(p) = {}}

\* Mutant: KernelMemory::alloc() takes no reference for the block.
RefsNoBlocks(o) ==
    pending[o]
      + Cardinality({p \in Portals : op[p].phase = "free" /\ Memory[op[p].obj] = o})
      + (IF o \in Portals /\ op[o].phase \notin {"none", "invoked", "sent"} THEN 1 ELSE 0)

\* DeletionMonitor::refcount: accepted requests, blocks not yet returned to a
\* KernelMemory, free requests it is processing, and the portal's own operation.
Refs(o) ==
    pending[o] + Cardinality(Children(o) \ freed)
      + Cardinality({p \in Portals : op[p].phase = "free" /\ Memory[op[p].obj] = o})
      + (IF o \in Portals /\ op[o].phase \notin {"none", "invoked", "sent"} THEN 1 ELSE 0)

-----------------------------------------------------------------------------
(* Places: a handler runs to its end before the place takes the next tasklet *)

\* A delegation monitor also runs the requests that wait in it in a row.
Busy(q) == uses[q] # None \/ \E p \in Portals : op[p].phase \in {"sent", "sync"} /\ op[p].home = q
Free(q) == active[q] /\ ~Busy(q)

\* The places with a tasklet of an operation in their queue.
HasTask(q) == \E p \in Portals : \/ op[p].phase = "broadcast" /\ op[p].at = q
                                 \/ op[p].phase = "collect" /\ op[p].home = q

EnterKernel(q) ==
    /\ ~active[q]
    /\ active' = [active EXCEPT ![q] = TRUE]
    /\ UNCHANGED <<caps, uses, portal, lock, queue, op, sends>>

\* processTasks() ends when the queue is empty.
LeaveKernel(q) ==
    /\ Free(q) /\ ~HasTask(q)
    /\ active' = [active EXCEPT ![q] = FALSE]
    /\ UNCHANGED <<caps, uses, portal, lock, queue, op, sends>>

\* A handler reads a usable capability and works with the object's pointer.
Lookup(q, o) ==
    /\ Free(q)
    /\ o \in Users /\ cap[o] = "usable"
    /\ uses' = [uses EXCEPT ![q] = o]
    /\ UNCHANGED <<caps, active, portal, lock, queue, op, sends>>

\* It sends a request to the object or does not, and returns.
HandlerDone(q) ==
    /\ uses[q] # None
    /\ \/ pending[uses[q]] < MaxPending /\ pending' = [pending EXCEPT ![uses[q]] = @ + 1]
       \/ UNCHANGED pending
    /\ uses' = [uses EXCEPT ![q] = None]
    /\ UNCHANGED <<cap, freed, active, portal, lock, queue, op, sends>>

\* requestDone() with releaseRef().
RequestDone(o) ==
    /\ pending[o] > Cardinality({p \in Portals : op[p].phase = "invoked" /\ op[p].root = o})
    /\ pending' = [pending EXCEPT ![o] = @ - 1]
    /\ UNCHANGED <<cap, freed, places, portal, lock, queue, op, sends>>

-----------------------------------------------------------------------------
(* Starting an operation *)

\* Portal::sendInvocation() to a CapMap whose monitor works at place q.
Send(p, r, k, q) ==
    /\ cap[p] = "usable" /\ portal[p] = "OPEN"
    /\ active[q] /\ uses[q] = None
    /\ portal' = [portal EXCEPT ![p] = "INVOKING"]
    /\ op' = [op EXCEPT ![p] = [NoOp EXCEPT !.phase = "sent", !.root = r, !.kind = k, !.home = q]]
    /\ sends < MaxSends /\ sends' = sends + 1
    /\ UNCHANGED <<caps, places, lock, queue>>

\* sendInvocation() to an object that answers in a later handler.
Invoke(p, o) ==
    /\ cap[p] = "usable" /\ portal[p] = "OPEN"
    /\ o \in Users /\ cap[o] = "usable" /\ pending[o] < MaxPending
    /\ portal' = [portal EXCEPT ![p] = "INVOKING"]
    /\ op' = [op EXCEPT ![p] = [NoOp EXCEPT !.phase = "invoked", !.root = o]]
    /\ pending' = [pending EXCEPT ![o] = @ + 1]
    /\ sends < MaxSends /\ sends' = sends + 1
    /\ UNCHANGED <<cap, freed, places, lock, queue>>

\* Portal::response() and the end of the operation.
Respond(p) ==
    /\ portal' = [portal EXCEPT ![p] = "REPLYING"]
    /\ op' = [op EXCEPT ![p] = NoOp]

\* The owner receives the event: Portal::deliverKEvent().
Deliver(p) ==
    /\ portal[p] = "REPLYING" /\ cap[p] = "usable"
    /\ portal' = [portal EXCEPT ![p] = "OPEN"]
    /\ UNCHANGED <<caps, places, lock, queue, op, sends>>

\* Portal::replyResponse() and the end of the object's request.  The answer to
\* a portal that no longer exists goes to returned memory.
Reply(p) ==
    /\ op[p].phase = "invoked"
    /\ pending' = [pending EXCEPT ![op[p].root] = @ - 1]
    /\ IF p \in freed THEN op' = [op EXCEPT ![p] = NoOp] /\ UNCHANGED portal ELSE Respond(p)
    /\ UNCHANGED <<cap, freed, places, lock, queue, sends>>

\* CapMap::invokeDelete() or invokeRevoke(), Portal::deletionResponse() and the
\* first part of _delete() or _revoke(): acquire the operation, kill or pin the root.
Start(p) ==
    LET r == op[p].root
        live == IF op[p].kind = "delete" THEN cap[r] # "gone" ELSE cap[r] = "usable"
    IN  /\ op[p].phase = "sent" /\ ~\E x \in Portals : op[x].phase = "sync" /\ op[x].home = op[p].home
        /\ IF lock[p] \/ ~live
           THEN Respond(p) /\ UNCHANGED <<cap, lock>>
           ELSE /\ lock' = [lock EXCEPT ![p] = TRUE]
                /\ op' = [op EXCEPT ![p].phase = "sync"]
                /\ cap' = IF op[p].kind = "delete" THEN [cap EXCEPT ![r] = "zombie"] ELSE cap
                /\ UNCHANGED portal
        /\ UNCHANGED <<pending, freed, places, queue, sends>>

-----------------------------------------------------------------------------
(* The synchronous phase *)

\* Mutant: the queue of dying objects is a stack.
PushFront(p, o) == queue' = [queue EXCEPT ![p] = <<o>> \o @]

\* RevokeOperation::deleteObject().
PushDying(p, o) == queue' = [queue EXCEPT ![p] = Append(@, o)]

\* _delete() and, for an entry in a map, deleteEntry(): _findLockedLeaf() kills
\* the entries on its way down, deleteCap() takes the object out of service and
\* the entry is unlinked.  A portal's own operation
\* is acquired for good.
RemoveLeaf(p, o) ==
    /\ op[p].phase = "sync"
    /\ o \in Leaves(p)
    /\ o # p                                    \* _guarded
    /\ o \in Portals => ~lock[o]
    /\ cap' = [x \in Objects |-> IF x = o THEN "gone"
                                 ELSE IF x \in Remaining(p) /\ o \in Below(x) THEN "zombie" ELSE cap[x]]
    /\ lock' = IF o \in Portals THEN [lock EXCEPT ![o] = TRUE] ELSE lock
    /\ PushDying(p, o)
    /\ UNCHANGED <<pending, freed, places, portal, op, sends>>

\* Mutant: the broadcast is left out.
NextHopNone(q, start) == start

\* DeleteBroadcast::broadcast(): the next place that is in the kernel.
NextHop(q, start) == NextIn(q, {start} \cup {r \in Places : active[r]})

Forward(p, q) ==
    LET n == NextHop(q, op[p].home) IN
    op' = [op EXCEPT ![p].phase = IF n = op[p].home THEN "collect" ELSE "broadcast", ![p].at = n]

\* All entries are removed, or the next one is the operation's own portal
\* (CYCLIC_DEPENDENCY) or a portal that is deleting itself (RETRY).
\* _startAsyncDelete() answers, or starts the broadcast.
EndSync(p) ==
    /\ op[p].phase = "sync"
    /\ \/ Remaining(p) = {}
       \/ \E o \in Leaves(p) : o = p \/ (o \in Portals /\ lock[o])
    /\ IF queue[p] = <<>>
       THEN lock' = [lock EXCEPT ![p] = FALSE] /\ Respond(p)
       ELSE Forward(p, op[p].home) /\ UNCHANGED <<portal, lock>>
    /\ UNCHANGED <<caps, places, queue, sends>>

-----------------------------------------------------------------------------
(* The asynchronous phase *)

Broadcast(p) ==
    /\ op[p].phase = "broadcast"
    /\ Free(op[p].at)
    /\ Forward(p, op[p].at)
    /\ UNCHANGED <<caps, places, portal, lock, queue, sends>>

\* _deleteObject() at the home place: the next object, or the answer.
DeleteNext(p) ==
    /\ op[p].phase = "collect"
    /\ Free(op[p].home)
    /\ IF queue[p] = <<>>
       THEN /\ Respond(p)
            /\ lock' = [lock EXCEPT ![p] = FALSE]
            /\ UNCHANGED queue
       ELSE /\ op' = [op EXCEPT ![p].phase = "delete", ![p].obj = Head(queue[p])]
            /\ queue' = [queue EXCEPT ![p] = Tail(@)]
            /\ UNCHANGED <<portal, lock>>
    /\ UNCHANGED <<caps, places, sends>>

\* doDelete(): the delete task runs when the object is unused and sends the
\* free request to the memory object.
DeleteTask(p) ==
    /\ op[p].phase = "delete"
    /\ Refs(op[p].obj) = 0
    /\ op' = [op EXCEPT ![p].phase = "free"]
    /\ UNCHANGED <<caps, places, portal, lock, queue, sends>>

\* KernelMemory::free() and its response to the operation.
FreeMemory(p) ==
    /\ op[p].phase = "free"
    /\ freed' = freed \cup {op[p].obj}
    /\ op' = [op EXCEPT ![p].phase = "collect", ![p].obj = None]
    /\ UNCHANGED <<cap, pending, places, portal, lock, queue, sends>>

-----------------------------------------------------------------------------

Progress(p) ==
    \/ Reply(p) \/ Start(p)
    \/ \E o \in Objects : RemoveLeaf(p, o)
    \/ EndSync(p) \/ Broadcast(p) \/ DeleteNext(p) \/ DeleteTask(p) \/ FreeMemory(p)

Next ==
    \/ \E q \in Places : EnterKernel(q) \/ LeaveKernel(q) \/ HandlerDone(q) \/ \E o \in Objects : Lookup(q, o)
    \/ \E o \in Objects : RequestDone(o)
    \/ \E p \in Portals : \/ \E r \in Roots[p], k \in {"delete", "revoke"}, q \in Places : Send(p, r, k, q)
                          \/ \E o \in Users : Invoke(p, o)
                          \/ Deliver(p)
                          \/ Progress(p)

\* Handlers, requests and traversals come to their end, a place with a tasklet
\* is woken up by an interrupt and does not work on user requests for ever, and
\* the steps of an operation are tasklets that a place takes from its queue.
Fairness ==
    /\ \A q \in Places : /\ WF_vars(HandlerDone(q))
                         /\ WF_vars(HasTask(q) /\ EnterKernel(q))
    /\ \A o \in Objects : WF_vars(RequestDone(o))
    /\ \A p \in Portals : SF_vars(Progress(p))

Spec == Init /\ [][Next]_vars
FairSpec == Spec /\ Fairness

-----------------------------------------------------------------------------

\* The delete broadcast is a grace period: a handler that looked an object up
\* before its capability was removed never works on returned memory.  Neither do
\* requests in the object's own monitor, a delete or revoke request that a
\* portal has sent, and a running RevokeOperation; nor is the memory returned
\* twice.  An ordinary invocation of a portal is different: its tasklet waits in
\* the monitor of the destination and nothing keeps the portal until the answer
\* (Portal::deleteCap() takes no reference), so a portal may be freed in phase
\* "invoked".
NoUseAfterFree ==
    /\ \A q \in Places : uses[q] \notin freed
    /\ \A o \in freed : pending[o] = 0
    /\ \A p \in freed \cap Portals : op[p].phase \in {"none", "invoked"}
    /\ \A p \in Portals : op[p].phase \in {"delete", "free"} => op[p].obj \notin freed

\* A KernelMemory outlives everything allocated from it, also when another
\* operation is deleting the child, and a CapMap outlives the entries in it.
MemoryNested ==
    \A o \in freed : Children(o) \subseteq freed /\ \A x \in Contents[o] : cap[x] = "gone"

\* The objects that an operation has collected and not yet freed.
Dying(p) == {queue[p][i] : i \in DOMAIN queue[p]} \cup {op[p].obj}

\* Concurrent operations do not wait for each other in a cycle, even when the
\* child of one's memory is in the queue of another or two portals delete each
\* other: once the traversal of the tree has ended, the operation is answered;
\* and the objects it has collected are freed by then, none is forgotten.
\* (That every traversal ends is assumed here; CapTree shows when it does.)
DeletionCompletes ==
    /\ \A p \in Portals : (op[p].phase \in {"broadcast", "collect", "delete", "free"}) ~> (op[p].phase = "none")
    /\ [](\A o \in Objects : cap[o] = "gone" => o \in freed \/ \E p \in Portals : op[p].phase # "none" /\ o \in Dying(p))

=============================================================================
