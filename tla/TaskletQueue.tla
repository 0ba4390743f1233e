---------------------------- MODULE TaskletQueue ----------------------------
(***************************************************************************)
(* The exchange-based queue of async/monitor-common/async/TaskletQueue.hh   *)
(* (ChainFIFO), step by step at the granularity of its atomic operations,   *)
(* together with the two ways its users drive it: a thread pushes a tasklet *)
(* (or calls tryAcquire) and, if that acquired the queue, pulls and runs    *)
(* tasklets until tryRelease succeeds.                                      *)
(*                                                                         *)
(* Tasklets are reused: a tasklet is UNUSED from the start of its handler   *)
(* on and may be pushed again by any thread, also by the handler itself,    *)
(* which may also call pushPrivate.  Steps that only touch memory that no   *)
(* other thread can reach (the fields of a tasklet that is not in the       *)
(* shared chain, the private tail) are merged with the next shared access.  *)
(***************************************************************************)
EXTENDS Naturals, Sequences

CONSTANTS Threads,     \* hardware threads
          Tasklets,
          None

\* The values of Chainable::next that are not addresses of tasklets.
FREE == "FREE"
INCOMPLETE == "INCOMPLETE"   \* insertion is still in progress
LOCKED == "LOCKED"
UNUSED == "UNUSED"           \* neither initialised nor in a queue
INIT == "INIT"               \* initialised
Marks == {FREE, INCOMPLETE, LOCKED, UNUSED, INIT}

\* The marks are no addresses.
MarksDistinct ==
    /\ Tasklets \cap Marks = {}
    /\ None \notin Threads \cup Tasklets \cup Marks

VARIABLES sharedTail,    \* FREE, LOCKED or the tasklet pushed last
          privateTail,   \* FREE or the tasklet to pull next
          next,          \* Chainable::next of each tasklet
          pc,            \* where each thread is
          cur,           \* the tasklet the thread is pushing, walking over or running
          oldtail,       \* push()'s local oldtail
          owns,          \* whether the thread's push or tryAcquire returned true
          fifo           \* history: the tasklets pushed and not yet pulled, in order

vars == <<sharedTail, privateTail, next, pc, cur, oldtail, owns, fifo>>

Init ==
    /\ sharedTail = FREE
    /\ privateTail = FREE
    /\ next = [t \in Tasklets |-> UNUSED]
    /\ pc = [p \in Threads |-> "idle"]
    /\ cur = [p \in Threads |-> None]
    /\ oldtail = [p \in Threads |-> FREE]
    /\ owns = [p \in Threads |-> FALSE]
    /\ fifo = <<>>

-----------------------------------------------------------------------------
(* push *)

\* The caller has set up t (setInit, checked by the assertion); push() marks
\* it as incomplete before anyone can see it.
PushMark(p, t) ==
    /\ pc[p] \in {"idle", "handler"}
    /\ next[t] = UNUSED
    /\ next' = [next EXCEPT ![t] = INCOMPLETE]
    /\ cur' = [cur EXCEPT ![p] = t]
    /\ pc' = [pc EXCEPT ![p] = "exchange"]
    /\ UNCHANGED <<sharedTail, privateTail, oldtail, owns, fifo>>

\* oldtail = sharedTail.exchange(&t).
PushExchange(p) ==
    /\ pc[p] = "exchange"
    /\ oldtail' = [oldtail EXCEPT ![p] = sharedTail]
    /\ sharedTail' = cur[p]
    /\ fifo' = Append(fifo, cur[p])
    /\ pc' = [pc EXCEPT ![p] = "complete"]
    /\ UNCHANGED <<privateTail, next, cur, owns>>

\* Mutant: the link to the older tasklets is lost.
PushCompleteCut(p) ==
    /\ pc[p] = "complete"
    /\ next' = [next EXCEPT ![cur[p]] = LOCKED]
    /\ owns' = [owns EXCEPT ![p] = owns[p] \/ oldtail[p] = FREE]
    /\ pc' = [pc EXCEPT ![p] = IF owns[p] THEN "handler" ELSE IF oldtail[p] = FREE THEN "pull" ELSE "idle"]
    /\ cur' = [cur EXCEPT ![p] = None]
    /\ oldtail' = [oldtail EXCEPT ![p] = None]
    /\ UNCHANGED <<sharedTail, privateTail, fifo>>

\* t.next.store(oldtail); the caller owns the queue iff oldtail was FREE.  A
\* handler that pushed to the queue its thread owns goes on.
PushComplete(p) ==
    /\ pc[p] = "complete"
    /\ next' = [next EXCEPT ![cur[p]] = oldtail[p]]
    /\ owns' = [owns EXCEPT ![p] = owns[p] \/ oldtail[p] = FREE]
    /\ pc' = [pc EXCEPT ![p] = IF owns[p] THEN "handler" ELSE IF oldtail[p] = FREE THEN "pull" ELSE "idle"]
    /\ cur' = [cur EXCEPT ![p] = None]
    /\ oldtail' = [oldtail EXCEPT ![p] = None]
    /\ UNCHANGED <<sharedTail, privateTail, fifo>>

-----------------------------------------------------------------------------
(* tryAcquire, pull, tryRelease and pushPrivate *)

\* The sequence s without t.
Without(s, t) ==
    IF \E i \in DOMAIN s : s[i] = t
    THEN LET k == CHOOSE i \in DOMAIN s : s[i] = t IN SubSeq(s, 1, k - 1) \o SubSeq(s, k + 1, Len(s))
    ELSE s

TryAcquire(p) ==
    /\ pc[p] = "idle"
    /\ sharedTail = FREE
    /\ sharedTail' = LOCKED
    /\ owns' = [owns EXCEPT ![p] = TRUE]
    /\ pc' = [pc EXCEPT ![p] = "pull"]
    /\ UNCHANGED <<privateTail, next, cur, oldtail, fifo>>

\* pull() serves the private queue first.
PullPrivate(p) ==
    /\ pc[p] = "pull"
    /\ privateTail # FREE
    /\ cur' = [cur EXCEPT ![p] = privateTail]
    /\ privateTail' = next[privateTail]
    /\ next' = [next EXCEPT ![privateTail] = INIT]
    /\ fifo' = Without(fifo, privateTail)
    /\ pc' = [pc EXCEPT ![p] = "run"]
    /\ UNCHANGED <<sharedTail, oldtail, owns>>

\* Mutant: the shared chain is detached by writing FREE.
PullSharedFree(p) ==
    /\ pc[p] = "pull"
    /\ privateTail = FREE
    /\ sharedTail' = FREE
    /\ IF sharedTail \in {FREE, LOCKED}
       THEN /\ pc' = [pc EXCEPT ![p] = "release"]
            /\ UNCHANGED cur
       ELSE /\ pc' = [pc EXCEPT ![p] = "walk"]
            /\ cur' = [cur EXCEPT ![p] = sharedTail]
    /\ UNCHANGED <<privateTail, next, oldtail, owns, fifo>>

\* pull() detaches the shared chain and leaves LOCKED.
PullShared(p) ==
    /\ pc[p] = "pull"
    /\ privateTail = FREE
    /\ sharedTail' = LOCKED
    /\ IF sharedTail \in {FREE, LOCKED}
       THEN /\ pc' = [pc EXCEPT ![p] = "release"]
            /\ UNCHANGED cur
       ELSE /\ pc' = [pc EXCEPT ![p] = "walk"]
            /\ cur' = [cur EXCEPT ![p] = sharedTail]
    /\ UNCHANGED <<privateTail, next, oldtail, owns, fifo>>

\* pull(): wait for the push of cur to be complete, then move cur to the
\* private queue, or return it if it is the oldest one of the chain.
PullWalk(p) ==
    /\ pc[p] = "walk"
    /\ next[cur[p]] # INCOMPLETE
    /\ IF next[cur[p]] \in {FREE, LOCKED}
       THEN /\ next' = [next EXCEPT ![cur[p]] = INIT]
            /\ fifo' = Without(fifo, cur[p])
            /\ pc' = [pc EXCEPT ![p] = "run"]
            /\ UNCHANGED <<privateTail, cur>>
       ELSE /\ next' = [next EXCEPT ![cur[p]] = privateTail]
            /\ privateTail' = cur[p]
            /\ cur' = [cur EXCEPT ![p] = next[cur[p]]]
            /\ UNCHANGED <<fifo, pc>>
    /\ UNCHANGED <<sharedTail, oldtail, owns>>

\* TaskletBase::run(): the tasklet is UNUSED before its handler starts.
Run(p) ==
    /\ pc[p] = "run"
    /\ next' = [next EXCEPT ![cur[p]] = UNUSED]
    /\ cur' = [cur EXCEPT ![p] = None]
    /\ pc' = [pc EXCEPT ![p] = "handler"]
    /\ UNCHANGED <<sharedTail, privateTail, oldtail, owns, fifo>>

\* The handler of the running tasklet pushes t to the private queue.
PushPrivate(p, t) ==
    /\ pc[p] = "handler"
    /\ next[t] = UNUSED
    /\ privateTail' = t
    /\ next' = [next EXCEPT ![t] = privateTail]
    /\ fifo' = <<t>> \o fifo
    /\ UNCHANGED <<sharedTail, pc, cur, oldtail, owns>>

\* The handler returns and the owner pulls the next tasklet.
HandlerDone(p) ==
    /\ pc[p] = "handler"
    /\ pc' = [pc EXCEPT ![p] = "pull"]
    /\ UNCHANGED <<sharedTail, privateTail, next, cur, oldtail, owns, fifo>>

TryRelease(p) ==
    /\ pc[p] = "release"
    /\ IF sharedTail = LOCKED
       THEN /\ sharedTail' = FREE
            /\ owns' = [owns EXCEPT ![p] = FALSE]
            /\ pc' = [pc EXCEPT ![p] = "idle"]
       ELSE /\ pc' = [pc EXCEPT ![p] = "pull"]
            /\ UNCHANGED <<sharedTail, owns>>
    /\ UNCHANGED <<privateTail, next, cur, oldtail, fifo>>

-----------------------------------------------------------------------------

Step(p) ==
    \/ PushExchange(p) \/ PushComplete(p)
    \/ PullPrivate(p) \/ PullShared(p) \/ PullWalk(p)
    \/ Run(p) \/ HandlerDone(p) \/ TryRelease(p)

Next ==
    \E p \in Threads :
        \/ Step(p)
        \/ TryAcquire(p)
        \/ \E t \in Tasklets : PushMark(p, t) \/ PushPrivate(p, t)

Spec == Init /\ [][Next]_vars

\* A thread inside the queue code is running kernel code, which is not
\* preempted, and handlers return.  A handler that pushes all the time could
\* keep its thread from returning: hence fairness of HandlerDone is strong.
\* Nobody has to push or to acquire.
Fairness == (\A p \in Threads : WF_vars(Step(p))) /\ SF_vars(\E p \in Threads : HandlerDone(p))
FairSpec == Spec /\ Fairness

-----------------------------------------------------------------------------

\* The thread that may use the private tail and pull: it owns the queue, or
\* its push has just exchanged FREE and it is about to find out.
IsOwner(p) == owns[p] \/ (pc[p] = "complete" /\ oldtail[p] = FREE)

\* push() and tryAcquire() give the queue to one thread at a time, and the
\* queue is FREE exactly when nobody owns it: no two threads run handlers of
\* the same monitor, and no push leaves a tasklet in a queue without owner.
SingleOwner ==
    /\ \A p, r \in Threads : IsOwner(p) /\ IsOwner(r) => p = r
    /\ sharedTail = FREE <=> \A p \in Threads : ~IsOwner(p)

Owner == IF \E p \in Threads : IsOwner(p) THEN CHOOSE p \in Threads : IsOwner(p) ELSE None
DQ == INSTANCE DelegationQueue WITH
        q <- [locked |-> sharedTail # FREE, tasks |-> fifo], owner <- Owner

\* The queue implements the FIFO lock queue that its users rely on.
ImplementsDelegationQueue == DQ!Spec

\* Every tasklet that was pushed is pulled and run eventually, whoever owns
\* the queue, unless handlers use the LIFO pushPrivate() again and again.
EventuallyRun ==
    <>[][~\E p \in Threads, t \in Tasklets : PushPrivate(p, t)]_vars =>
        \A t \in Tasklets : (\E i \in DOMAIN fifo : fifo[i] = t) ~> next[t] = INIT

=============================================================================
