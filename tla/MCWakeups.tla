------------------------------ MODULE MCWakeups ------------------------------
(***************************************************************************)
(* Instances of what wakes up whom: Place, the monitor of the kernel       *)
(* objects (NestedMonitor) and the futexes of the runtime (ThreadSync).    *)
(* They share no state: a behaviour is one of a single part, chosen at the *)
(* start, while the other parts stay in their initial states.              *)
(***************************************************************************)
EXTENDS Place, TLC

CONSTANTS p1, p2, p3, m1, m2,                     \* places and messages
          t1, t2, t3,                             \* threads
          a1, a2, q1, QueueHead, Nil, Removed     \* futex words and their queue

VARIABLES part,
          waitq, home, refcount, deleteTask, pushes, reachable, grace, mpc, cur, todo, nested,
          word, head, tail, next, uaddr, lock, requeueLock, notified, flag, th

monitor == <<waitq, home, refcount, deleteTask, pushes, reachable, grace, mpc, cur, todo, nested>>
sync == <<word, head, tail, next, uaddr, lock, requeueLock, notified, flag, th>>
all == <<part, vars, monitor, sync>>

MCPlaces3 == {p1, p2, p3}
MCMsgs == {m1, m2}
N == INSTANCE NestedMonitor WITH Places <- MCPlaces3, Msgs <- MCMsgs, pc <- mpc

MCThreads == {t1, t2, t3}
MCAddrs == {a1, a2}
MCHash == (a1 :> q1) @@ (a2 :> q1)
MCRequeues == {<<a1, a2>>}
MCWaiters == {t1, t2}
MCWakers == {t2, t3}

S == INSTANCE ThreadSync WITH
    Threads <- MCThreads, Addrs <- MCAddrs, Queues <- {q1}, Hash <- MCHash, Requeues <- MCRequeues,
    Waiters <- MCWaiters, Wakers <- MCWakers, Others <- {t1}, Exiting <- {t3}

MCInit == part \in {"place", "monitor", "sync"} /\ Init /\ N!Init /\ S!Init

\* An action of one part leaves the others alone.
InPlace(A) == part = "place" /\ A /\ UNCHANGED <<part, monitor, sync>>
InMonitor(A) == part = "monitor" /\ A /\ UNCHANGED <<part, vars, sync>>
InSync(A) == part = "sync" /\ A /\ UNCHANGED <<part, vars, monitor>>

MCNext == InPlace(Next) \/ InMonitor(N!Next) \/ InSync(S!Next)

\* The fairness of the three modules.  Only one part runs, so a fair disjunction
\* of actions of different parts is a fair action of that part.
MCFairness ==
    /\ \A p \in Places : WF_vars(part = "place" /\ KernelStep(p))
    /\ \A p \in MCPlaces3 : WF_monitor(part = "monitor" /\ N!Step(p))
    /\ SF_all(InPlace(HandlerDone(p1)) \/ InMonitor(\E p \in MCPlaces3 : N!RequestDone(p)) \/ InSync(S!Step(t1)))
    /\ SF_all(InPlace(HandlerDone(p2)) \/ InMonitor(\E p \in MCPlaces3 : N!RunLocal(p, m1)) \/ InSync(S!Step(t2)))
    /\ SF_all(InMonitor(\E p \in MCPlaces3 : N!RunLocal(p, m2)) \/ InSync(S!Step(t3)))
    /\ \A m \in MCMsgs : SF_monitor(part = "monitor" /\ \E p \in MCPlaces3 : N!Response(p, m))

MCSpec == MCInit /\ [][MCNext]_all /\ MCFairness

\* NestedMonitor: requests are processed one at a time, by the place that home
\* names.
MonitorExclusive == N!MonitorExclusive

\* NestedMonitor: the object is only deleted when it is idle.
DeleteOnlyIdle == N!TypeOK /\ N!DeleteOnlyIdle

\* NestedMonitor: every request is processed, and an object without a
\* capability is deleted.
RequestsServed == N!RequestsServed /\ N!DeletedEventually

\* ThreadSync: the futex queues stay intact, and nobody sleeps on a word that
\* has changed unless a waker is on its way.
FutexWakesUp == S!QueueIntact /\ S!NoLostWakeUp

\* ThreadSync: wakers, woken threads and joiners of an exited thread return.
SyncReturns == S!SyncReturns
=============================================================================
