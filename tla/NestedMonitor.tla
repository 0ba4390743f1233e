--------------------------- MODULE NestedMonitor ---------------------------
(***************************************************************************)
(* NestedMonitorDelegating with its base DeletionMonitor: the monitor of    *)
(* nearly all kernel objects.  A request is processed by the place that     *)
(* acquired the wait queue (`home`).  Its handler may send requests to      *)
(* other objects and return; the request is done only when a later response *)
(* handler, forwarded to the home place, calls responseAndRequestDone().    *)
(*                                                                         *)
(* Deletion follows the capability protocol: first the object becomes       *)
(* unreachable, then a grace period lets all running handlers finish, then  *)
(* deleteObject() calls doDelete().  Requests accepted before may still be  *)
(* pending at that time; the reference count protects them.                 *)
(***************************************************************************)
EXTENDS Naturals, Sequences

CONSTANTS Places,
          Msgs,     \* request tasklets
          None

VARIABLES waitq,        \* the delegation queue
          home,         \* the place that processes requests
          refcount,
          deleteTask,   \* whether deleteTask is set
          pushes,       \* how often the delete task was pushed
          reachable,    \* whether new requests can arrive
          grace,        \* places whose current handler started before the object became unreachable
          pc,           \* of each place, in the code of this monitor
          cur,          \* the request each place is working on
          todo,         \* tasklets of this monitor in each place's queue
          nested        \* requests that wait for the response of another object

vars == <<waitq, home, refcount, deleteTask, pushes, reachable, grace, pc, cur, todo, nested>>

deletion == <<deleteTask, pushes, reachable>>

Q == INSTANCE DelegationQueue WITH q <- waitq, owner <- home, Threads <- Places, Tasklets <- Msgs

Init ==
    /\ waitq = Q!FreeQueue
    /\ home = None
    /\ refcount = 0
    /\ deleteTask = FALSE
    /\ pushes = 0
    /\ reachable = TRUE
    /\ grace = {}
    /\ pc = [p \in Places |-> "idle"]
    /\ cur = [p \in Places |-> None]
    /\ todo = [p \in Places |-> {}]
    /\ nested = {}

\* A place that leaves the code of the monitor ends its handler, and with it
\* its part of the grace period.
Goto(p, l) ==
    /\ pc' = [pc EXCEPT ![p] = l]
    /\ grace' = IF l = "idle" THEN grace \ {p} ELSE grace

\* The requests that somebody processes, and those that are waiting.
Processed == {m \in Msgs : m \in nested \/ \E p \in Places : cur[p] = m \/ m \in todo[p]}
Waiting == {m \in Msgs : \E i \in DOMAIN waitq.tasks : waitq.tasks[i] = m}

-----------------------------------------------------------------------------
(* request() *)

Request(p, m) ==
    /\ pc[p] = "idle"
    /\ reachable
    /\ m \notin Processed \cup Waiting
    /\ waitq' = Q!Push(waitq, m)
    /\ IF waitq.locked THEN UNCHANGED <<pc, grace>> ELSE Goto(p, "acquired")
    /\ UNCHANGED <<home, refcount, deletion, cur, todo, nested>>

RequestAcquireRef(p) ==
    /\ pc[p] = "acquired"
    /\ refcount' = refcount + 1
    /\ Goto(p, "setHome")
    /\ UNCHANGED <<waitq, home, deletion, cur, todo, nested>>

RequestSetHome(p) ==
    /\ pc[p] = "setHome"
    /\ home' = p
    /\ Goto(p, "first")
    /\ UNCHANGED <<waitq, refcount, deletion, cur, todo, nested>>

\* pull and run the tasklet inline.
RequestRun(p) ==
    /\ pc[p] = "first"
    /\ waitq' = Q!Pull(waitq)
    /\ cur' = [cur EXCEPT ![p] = Head(waitq.tasks)]
    /\ Goto(p, "run")
    /\ UNCHANGED <<home, refcount, deletion, todo, nested>>

-----------------------------------------------------------------------------
(* Handlers, response() and requestDone() *)

\* Mutant: requestDone() is called before the response has arrived.
HandlerNestedDone(p) ==
    /\ pc[p] = "run"
    /\ nested' = nested \cup {cur[p]}
    /\ cur' = [cur EXCEPT ![p] = None]
    /\ waitq' = Q!Pull(waitq)
    /\ IF waitq.tasks = <<>>
       THEN Goto(p, "release") /\ UNCHANGED todo
       ELSE Goto(p, "idle") /\ todo' = [todo EXCEPT ![p] = @ \cup {Head(waitq.tasks)}]
    /\ UNCHANGED <<home, refcount, deletion>>

\* The handler sends a request to another object and returns.
HandlerNested(p) ==
    /\ pc[p] = "run"
    /\ nested' = nested \cup {cur[p]}
    /\ cur' = [cur EXCEPT ![p] = None]
    /\ Goto(p, "idle")
    /\ UNCHANGED <<waitq, home, refcount, deletion, todo>>

\* response(): the other object's answer, sent by any place, is run inline
\* at home, or forwarded to it.
Response(p, m) ==
    /\ pc[p] = "idle"
    /\ m \in nested
    /\ nested' = nested \ {m}
    /\ IF home = p
       THEN /\ Goto(p, "run")
            /\ cur' = [cur EXCEPT ![p] = m]
            /\ UNCHANGED todo
       ELSE /\ todo' = [todo EXCEPT ![home] = @ \cup {m}]
            /\ UNCHANGED <<pc, grace, cur>>
    /\ UNCHANGED <<waitq, home, refcount, deletion>>

\* The place runs a tasklet from its queue.
RunLocal(p, m) ==
    /\ pc[p] = "idle"
    /\ m \in todo[p]
    /\ todo' = [todo EXCEPT ![p] = @ \ {m}]
    /\ cur' = [cur EXCEPT ![p] = m]
    /\ Goto(p, "run")
    /\ UNCHANGED <<waitq, home, refcount, deletion, nested>>

\* requestDone(): schedule the next request, or try to release.
RequestDone(p) ==
    /\ pc[p] = "run"
    /\ waitq' = Q!Pull(waitq)
    /\ cur' = [cur EXCEPT ![p] = None]
    /\ IF waitq.tasks = <<>>
       THEN Goto(p, "release") /\ UNCHANGED todo
       ELSE Goto(p, "idle") /\ todo' = [todo EXCEPT ![p] = @ \cup {Head(waitq.tasks)}]
    /\ UNCHANGED <<home, refcount, deletion, nested>>

\* Mutant: a failed release is not followed by another pull.
ReleaseNoRetry(p) ==
    /\ pc[p] = "release"
    /\ waitq' = Q!TryRelease(waitq)
    /\ Goto(p, IF Q!CanRelease(waitq) THEN "resetHome" ELSE "idle")
    /\ UNCHANGED <<home, refcount, deletion, cur, todo, nested>>

Release(p) ==
    /\ pc[p] = "release"
    /\ waitq' = Q!TryRelease(waitq)
    /\ Goto(p, IF Q!CanRelease(waitq) THEN "resetHome" ELSE "retry")
    /\ UNCHANGED <<home, refcount, deletion, cur, todo, nested>>

Retry(p) ==
    /\ pc[p] = "retry"
    /\ waitq' = Q!Pull(waitq)
    /\ todo' = [todo EXCEPT ![p] = @ \cup {Head(waitq.tasks)}]
    /\ Goto(p, "idle")
    /\ UNCHANGED <<home, refcount, deletion, cur, nested>>

\* home.compare_exchange_strong(myPlace, nullptr).
ResetHome(p) ==
    /\ pc[p] = "resetHome"
    /\ home' = IF home = p THEN None ELSE home
    /\ Goto(p, "releaseRef")
    /\ UNCHANGED <<waitq, refcount, deletion, cur, todo, nested>>

-----------------------------------------------------------------------------
(* DeletionMonitor *)

\* releaseRef(): decrement, and look at deleteTask afterwards.
ReleaseRef(p) ==
    /\ pc[p] = "releaseRef"
    /\ refcount' = refcount - 1
    /\ Goto(p, IF refcount = 1 THEN "checkDelete" ELSE "idle")
    /\ UNCHANGED <<waitq, home, deletion, cur, todo, nested>>

CheckDelete(p) ==
    /\ pc[p] = "checkDelete"
    /\ pushes' = IF deleteTask THEN pushes + 1 ELSE pushes
    /\ Goto(p, "idle")
    /\ UNCHANGED <<waitq, home, refcount, deleteTask, reachable, cur, todo, nested>>

\* The last capability is unlinked.
Unlink ==
    /\ reachable
    /\ reachable' = FALSE
    /\ grace' = {p \in Places : pc[p] # "idle"}
    /\ UNCHANGED <<waitq, home, refcount, deleteTask, pushes, pc, cur, todo, nested>>

\* doDelete() after the grace period.
DoDelete(p) ==
    /\ pc[p] = "idle"
    /\ ~reachable
    /\ ~deleteTask
    /\ grace = {}
    /\ \A r \in Places : pc[r] \notin {"delete", "deleteUnref"}
    /\ refcount' = refcount + 1
    /\ Goto(p, "delete")
    /\ UNCHANGED <<waitq, home, deletion, cur, todo, nested>>

DoDeleteSet(p) ==
    /\ pc[p] = "delete"
    /\ deleteTask' = TRUE
    /\ Goto(p, "deleteUnref")
    /\ UNCHANGED <<waitq, home, refcount, pushes, reachable, cur, todo, nested>>

\* Mutant: the task is pushed while requests are processed.
DoDeleteUnrefAlways(p) ==
    /\ pc[p] = "deleteUnref"
    /\ refcount' = refcount - 1
    /\ pushes' = pushes + 1
    /\ Goto(p, "idle")
    /\ UNCHANGED <<waitq, home, deleteTask, reachable, cur, todo, nested>>

DoDeleteUnref(p) ==
    /\ pc[p] = "deleteUnref"
    /\ refcount' = refcount - 1
    /\ pushes' = IF refcount = 1 THEN pushes + 1 ELSE pushes
    /\ Goto(p, "idle")
    /\ UNCHANGED <<waitq, home, deleteTask, reachable, cur, todo, nested>>

-----------------------------------------------------------------------------

Step(p) ==
    \/ RequestAcquireRef(p) \/ RequestSetHome(p) \/ RequestRun(p)
    \/ \E m \in Msgs : Response(p, m) \/ RunLocal(p, m)
    \/ RequestDone(p) \/ Release(p) \/ Retry(p) \/ ResetHome(p)
    \/ ReleaseRef(p) \/ CheckDelete(p)
    \/ DoDelete(p) \/ DoDeleteSet(p) \/ DoDeleteUnref(p)

Next ==
    \/ \E p \in Places : Step(p) \/ HandlerNested(p) \/ \E m \in Msgs : Request(p, m)
    \/ Unlink

Spec == Init /\ [][Next]_vars

\* Places run their tasklets, other objects answer, and a request is done
\* after finitely many nested requests.
Fairness ==
    /\ \A p \in Places : WF_vars(Step(p))
    /\ SF_vars(\E p \in Places : RequestDone(p))
    /\ \A m \in Msgs : SF_vars(\E p \in Places : RunLocal(p, m)) /\ SF_vars(\E p \in Places : Response(p, m))

FairSpec == Spec /\ Fairness

-----------------------------------------------------------------------------

TypeOK ==
    /\ waitq \in [locked : BOOLEAN, tasks : Seq(Msgs)]
    /\ home \in Places \cup {None}
    /\ refcount \in Nat
    /\ deleteTask \in BOOLEAN
    /\ pushes \in Nat
    /\ reachable \in BOOLEAN
    /\ grace \in SUBSET Places
    /\ pc \in [Places -> {"idle", "acquired", "setHome", "first", "run", "release", "retry", "resetHome",
                          "releaseRef", "checkDelete", "delete", "deleteUnref"}]
    /\ cur \in [Places -> Msgs \cup {None}]
    /\ todo \in [Places -> SUBSET Msgs]
    /\ nested \in SUBSET Msgs

\* Places that use the monitor as its owner.
Inside(p) == pc[p] \in {"acquired", "setHome", "first", "run", "release", "retry"}

\* Requests are processed one at a time, over all their nested requests and
\* responses, although they migrate between places.  The assertions on home
\* hold: while a request is processed, home is set, so that responses find
\* their way, and it is the place that calls requestDone(); this survives the
\* reset of home by the previous owner after it has released the queue.
MonitorExclusive ==
    /\ \A p, r \in Places : Inside(p) /\ Inside(r) => p = r
    /\ \A m, n \in Processed : m = n
    /\ Processed # {} => \A p \in Places : Inside(p) => pc[p] = "run"
    /\ Processed # {} => home # None
    /\ \A p \in Places :
          pc[p] \in {"first", "run", "release", "retry"} \/ todo[p] # {} => home = p

\* The object is only deleted when it is idle: no request is waiting or in
\* progress, and none is going to touch the queue.
DeleteOnlyIdle ==
    pushes > 0 =>
        /\ Processed = {} /\ Waiting = {} /\ ~waitq.locked
        /\ \A p \in Places : ~Inside(p) /\ pc[p] \notin {"resetHome", "releaseRef"}

\* Every accepted request is processed.
RequestsServed == \A m \in Msgs : m \in Waiting ~> m \notin Waiting

\* An object whose last capability is gone is deleted eventually, whatever
\* the order of the last releaseRef() and doDelete().
DeletedEventually == ~reachable ~> pushes > 0

\* The delete task is pushed once: it is initialised once, and push()
\* asserts t.isInit().
DeletedOnce == pushes <= 1

=============================================================================
