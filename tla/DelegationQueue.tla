--------------------------- MODULE DelegationQueue ---------------------------
(***************************************************************************)
(* What ChainFIFO / TaskletQueueImpl promise to their users: a FIFO queue   *)
(* that is also a lock.  The push that finds the queue released acquires    *)
(* it for its caller, the owner pulls in FIFO order, and the release only   *)
(* succeeds while no entry is pending.  The operators on queue values are   *)
(* used by every module whose code owns such a queue; the specification     *)
(* below is what TaskletQueue is shown to implement.                        *)
(***************************************************************************)
EXTENDS Naturals, Sequences

FreeQueue == [locked |-> FALSE, tasks |-> <<>>]
LockedQueue == [locked |-> TRUE, tasks |-> <<>>]

\* push(t): append and acquire.  The caller got the queue iff ~q.locked.
Push(q, t) == [locked |-> TRUE, tasks |-> Append(q.tasks, t)]

\* pushPrivate(t): the owner's LIFO insertion.
PushPrivate(q, t) == [q EXCEPT !.tasks = <<t>> \o q.tasks]

\* tryAcquire(): takes a released queue.  It succeeded iff ~q.locked.
TryAcquire(q) == [q EXCEPT !.locked = TRUE]

\* pull(): locks in any case; yields nullptr iff nothing is pending.
Pull(q) == [locked |-> TRUE, tasks |-> IF q.tasks = <<>> THEN <<>> ELSE Tail(q.tasks)]

\* tryRelease(): success iff CanRelease.
CanRelease(q) == q.locked /\ q.tasks = <<>>
TryRelease(q) == IF CanRelease(q) THEN FreeQueue ELSE q

-----------------------------------------------------------------------------

CONSTANTS Threads,   \* hardware threads
          Tasklets,
          None       \* no thread

VARIABLES q,        \* the queue
          owner     \* the thread that may pull, or None

vars == <<q, owner>>

Init == q = FreeQueue /\ owner = None

Pushes(p, t) ==
    /\ \A i \in DOMAIN q.tasks : q.tasks[i] # t
    /\ q' = Push(q, t)
    /\ owner' = IF q.locked THEN owner ELSE p

Acquires(p) ==
    /\ ~q.locked
    /\ q' = TryAcquire(q)
    /\ owner' = p

PushesPrivate(t) ==
    /\ owner # None
    /\ \A i \in DOMAIN q.tasks : q.tasks[i] # t
    /\ q' = PushPrivate(q, t)
    /\ UNCHANGED owner

Pulls ==
    /\ owner # None
    /\ q.tasks # <<>>
    /\ q' = Pull(q)
    /\ UNCHANGED owner

Releases ==
    /\ owner # None
    /\ CanRelease(q)
    /\ q' = TryRelease(q)
    /\ owner' = None

Next ==
    \/ \E p \in Threads : Acquires(p) \/ \E t \in Tasklets : Pushes(p, t)
    \/ \E t \in Tasklets : PushesPrivate(t)
    \/ Pulls
    \/ Releases

Spec == Init /\ [][Next]_vars

=============================================================================
