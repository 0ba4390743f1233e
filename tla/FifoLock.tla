------------------------------ MODULE FifoLock ------------------------------
(***************************************************************************)
(* What a fair mutex promises: threads join a queue, only the first one may *)
(* hold the lock, and it leaves the queue when it gives the lock up.        *)
(***************************************************************************)
EXTENDS Naturals, Sequences

CONSTANT Threads

VARIABLES queue,   \* the threads that asked for the lock, in the order they asked
          held     \* whether the first one holds it

vars == <<queue, held>>

Init == queue = <<>> /\ held = FALSE

Join(t) ==
    /\ \A i \in DOMAIN queue : queue[i] # t
    /\ queue' = Append(queue, t)
    /\ UNCHANGED held

Acquire ==
    /\ queue # <<>>
    /\ held = FALSE
    /\ held' = TRUE
    /\ UNCHANGED queue

Release ==
    /\ queue # <<>>
    /\ held = TRUE
    /\ queue' = Tail(queue)
    /\ held' = FALSE

Next == (\E t \in Threads : Join(t)) \/ Acquire \/ Release

Spec == Init /\ [][Next]_vars

=============================================================================
