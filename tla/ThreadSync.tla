----------------------------- MODULE ThreadSync -----------------------------
(***************************************************************************)
(* Synchronisation of user threads in the runtime: the futex operations     *)
(* behind the C library's locks (runtime/cxx/runtime/futex.cc) and the       *)
(* handshake between pthread_exit() and pthread_join()                      *)
(* (PthreadCleaner in cxxsupport.cc).  Both sleep in mythos_wait(), which    *)
(* returns on a signal to the thread's execution context and also on any    *)
(* unrelated event.                                                         *)
(*                                                                         *)
(* A futex queue is a singly linked list of elements on the waiters'        *)
(* stacks; queueTail is the address of the last queueNext field, or of      *)
(* queueHead.  Each queue has a mutex and is shared by all words with the   *)
(* same hash.                                                               *)
(***************************************************************************)
EXTENDS Naturals, FiniteSets

CONSTANTS Threads, Addrs, Queues,
          Hash,         \* hash_futex()
          Requeues,     \* the pairs <<condition word, mutex word>> passed to futex_requeue()
          Waiters, Wakers,    \* the threads that call futex_wait(), and those that wake
          Others,       \* the threads that also receive unrelated events
          Exiting,      \* the threads that exit and are joined
          QueueHead, Nil, Removed, None

All == Cardinality(Threads)

VARIABLES word,         \* the futex words
          head, tail, next, uaddr,    \* queueHead, queueTail and the elements' fields
          lock,         \* FutexQueue::readLock
          requeueLock,
          notified,     \* IS_NOTIFIED, or an event in the queue, of the thread's context
          flag,         \* PthreadCleaner::flag
          th            \* what each thread is doing

vars == <<word, head, tail, next, uaddr, lock, requeueLock, notified, flag, th>>
lists == <<head, tail, next, uaddr>>
locks == <<lock, requeueLock>>

Idle == [pc |-> "idle", addr |-> None, addr2 |-> None, val |-> 0, n |-> 0, n2 |-> 0, curr |-> QueueHead, who |-> None]

Init ==
    /\ word = [a \in Addrs |-> 0]
    /\ head = [q \in Queues |-> Nil]
    /\ tail = [q \in Queues |-> QueueHead]
    /\ next = [t \in Threads |-> Nil]
    /\ uaddr = [t \in Threads |-> None]
    /\ lock = [q \in Queues |-> None]
    /\ requeueLock = None
    /\ notified = [t \in Threads |-> FALSE]
    /\ flag = [t \in Threads |-> "FREE"]
    /\ th = [t \in Threads |-> Idle]

\* The content of the pointer at location l of queue q.
Load(q, l) == IF l = QueueHead THEN head[q] ELSE next[l]

\* The locations from l to the end of the list.
RECURSIVE Locations(_, _, _)
Locations(q, l, k) ==
    IF k = 0 \/ Load(q, l) \in {Nil, Removed} THEN {l} ELSE {l} \cup Locations(q, Load(q, l), k - 1)
Chain(q) == Locations(q, QueueHead, All + 1)
Queued(q) == Chain(q) \ {QueueHead}

\* From location l, skip the elements that wait for another word.
RECURSIVE Skip(_, _, _)
Skip(q, l, a) == IF Load(q, l) = Nil \/ uaddr[Load(q, l)] = a THEN l ELSE Skip(q, Load(q, l), a)

Set(t, r) == th' = [th EXCEPT ![t] = r]
Return(t) == Set(t, Idle)
Signalled(t) == notified' = [notified EXCEPT ![t] = TRUE]

\* The tail moves to the location that points to the removed element.
TailAfterRemove(q, l) == IF tail[q] = Load(q, l) THEN [tail EXCEPT ![q] = l] ELSE tail

\* Take the element that location l points to out of queue q and set its queueNext to mark.
Unlink(q, l, mark) ==
    LET e == Load(q, l) IN
    /\ tail' = TailAfterRemove(q, l)
    /\ head' = IF l = QueueHead THEN [head EXCEPT ![q] = next[e]] ELSE head
    /\ next' = [t \in Threads |-> IF t = e THEN mark ELSE IF t = l THEN next[e] ELSE next[t]]

-----------------------------------------------------------------------------
(* futex_wait() *)

Store(t, a) ==
    /\ t \in Wakers
    /\ th[t].pc = "idle"
    /\ word' = [word EXCEPT ![a] = 1 - @]
    /\ Set(t, [Idle EXCEPT !.pc = "stored", !.addr = a])
    /\ UNCHANGED <<lists, locks, notified, flag>>

FutexWait(t, a) ==
    /\ t \in Waiters
    /\ th[t].pc = "idle"
    /\ Set(t, [Idle EXCEPT !.pc = "enqueue", !.addr = a, !.val = word[a]])
    /\ UNCHANGED <<word, lists, locks, notified, flag>>

\* Mutant: the word is not compared again while the queue is locked.
ExpectedUnchecked(t) == TRUE

Expected(t) == th[t].val = word[th[t].addr]

Enqueue(t) ==
    LET q == Hash[th[t].addr] IN
    /\ th[t].pc = "enqueue" /\ lock[q] = None
    /\ IF Expected(t)
       THEN /\ head' = IF tail[q] = QueueHead THEN [head EXCEPT ![q] = t] ELSE head
            /\ next' = [x \in Threads |-> IF x = t THEN Nil ELSE IF x = tail[q] THEN t ELSE next[x]]
            /\ tail' = [tail EXCEPT ![q] = t]
            /\ uaddr' = [uaddr EXCEPT ![t] = th[t].addr]
            /\ Set(t, [th[t] EXCEPT !.pc = "sleep"])
       ELSE Return(t) /\ UNCHANGED lists                    \* -EAGAIN
    /\ UNCHANGED <<word, locks, notified, flag>>

\* mythos_wait() returns; the element may still be in the queue.
WakeUp(t) ==
    /\ th[t].pc = "sleep" /\ notified[t]
    /\ notified' = [notified EXCEPT ![t] = FALSE]
    /\ IF next[t] = Removed
       THEN Return(t) /\ next' = [next EXCEPT ![t] = Nil] /\ uaddr' = [uaddr EXCEPT ![t] = None]
       ELSE Set(t, [th[t] EXCEPT !.pc = "remove"]) /\ UNCHANGED <<next, uaddr>>
    /\ UNCHANGED <<word, head, tail, locks, flag>>

\* The waiter takes its own element out of the queue it was put into.
Remove(t) ==
    LET q == Hash[th[t].addr]
        at == {l \in Chain(q) : Load(q, l) = t}
    IN  /\ th[t].pc = "remove" /\ lock[q] = None
        /\ \/ next[t] = Removed /\ next' = [next EXCEPT ![t] = Nil] /\ UNCHANGED <<head, tail>>
           \/ next[t] # Removed /\ \E l \in at : Unlink(q, l, Nil)
           \/ next[t] # Removed /\ at = {} /\ UNCHANGED <<head, tail, next>>
        /\ uaddr' = IF next[t] # Removed /\ at = {} THEN uaddr ELSE [uaddr EXCEPT ![t] = None]
        /\ Return(t)
        /\ UNCHANGED <<word, locks, notified, flag>>

\* The context is woken by something else, for example the answer to a portal.
OtherEvent(t) ==
    /\ t \in Others /\ th[t].pc = "sleep" /\ ~notified[t]
    /\ Signalled(t)
    /\ UNCHANGED <<word, lists, locks, flag, th>>

-----------------------------------------------------------------------------
(* futex_wake() and futex_requeue() *)

FutexWake(t, a, n) ==
    /\ (t \in Wakers /\ th[t].pc = "idle") \/ (th[t].pc = "stored" /\ th[t].addr = a /\ n = All)
    /\ lock[Hash[a]] = None
    /\ lock' = [lock EXCEPT ![Hash[a]] = t]
    /\ Set(t, [Idle EXCEPT !.pc = "wake", !.addr = a, !.n = n])
    /\ UNCHANGED <<word, lists, requeueLock, notified, flag>>

\* requeueLock orders the two queue locks.
FutexRequeue(t, a, b, n, n2) ==
    /\ t \in Wakers /\ th[t].pc = "idle"
    /\ requeueLock = None /\ requeueLock' = t
    /\ lock[Hash[a]] = None /\ lock' = [lock EXCEPT ![Hash[a]] = t]
    /\ Set(t, [Idle EXCEPT !.pc = "wake", !.addr = a, !.addr2 = b, !.n = n, !.n2 = n2])
    /\ UNCHANGED <<word, lists, notified, flag>>

\* The guards of t release their locks.
Finish(t) ==
    /\ Return(t)
    /\ lock' = [q \in Queues |-> IF lock[q] = t THEN None ELSE lock[q]]
    /\ requeueLock' = IF requeueLock = t THEN None ELSE requeueLock

\* The next waiter for the word is removed and marked ...
WakeNext(t) ==
    LET q == Hash[th[t].addr]
        l == Skip(q, th[t].curr, th[t].addr)
    IN  /\ th[t].pc = "wake"
        /\ IF th[t].n > 0 /\ Load(q, l) # Nil
           THEN /\ Unlink(q, l, Removed)
                /\ Set(t, [th[t] EXCEPT !.pc = "signal", !.curr = l, !.n = @ - 1, !.who = Load(q, l)])
                /\ UNCHANGED locks
           ELSE /\ IF th[t].addr2 # None /\ th[t].n = 0
                   THEN Set(t, [th[t] EXCEPT !.pc = "move"]) /\ UNCHANGED locks
                   ELSE Finish(t)
                /\ UNCHANGED <<head, tail, next>>
        /\ UNCHANGED <<word, uaddr, notified, flag>>

\* ... and its context gets a signal.
WakeSignal(t) ==
    /\ th[t].pc = "signal"
    /\ Signalled(th[t].who)
    /\ Set(t, [th[t] EXCEPT !.pc = "wake"])
    /\ UNCHANGED <<word, lists, locks, flag>>

\* The remaining waiters go to the end of the other word's queue, whose mutex
\* is a dummy if it is the same queue.
MoveNext(t) ==
    LET from == Hash[th[t].addr]
        to == Hash[th[t].addr2]
        l == Skip(from, th[t].curr, th[t].addr)
        e == Load(from, l)
        last == IF tail[from] = e /\ to = from THEN l ELSE tail[to]
        out == IF e = Nil THEN next ELSE [x \in Threads |-> IF x = l THEN next[e] ELSE next[x]]
    IN  /\ th[t].pc = "move" /\ lock[to] \in {None, t}
        /\ IF th[t].n2 > 0 /\ e # Nil
           THEN /\ LET hd == IF l = QueueHead THEN [head EXCEPT ![from] = next[e]] ELSE head IN
                   head' = IF last = QueueHead THEN [hd EXCEPT ![to] = e] ELSE hd
                /\ next' = [x \in Threads |-> IF x = e THEN Nil ELSE IF x = last THEN e ELSE out[x]]
                /\ tail' = [TailAfterRemove(from, l) EXCEPT ![to] = e]
                /\ uaddr' = [uaddr EXCEPT ![e] = th[t].addr2]
                /\ lock' = [lock EXCEPT ![to] = t]
                /\ Set(t, [th[t] EXCEPT !.curr = l, !.n2 = @ - 1])
                /\ UNCHANGED requeueLock
           ELSE Finish(t) /\ UNCHANGED lists
        /\ UNCHANGED <<word, notified, flag>>

-----------------------------------------------------------------------------
(* PthreadCleaner *)

\* exit(): the flag holds the waiter, if there is one.
Exit(t) ==
    /\ t \in Exiting /\ th[t].pc = "idle" /\ flag[t] # "EXITED"
    /\ flag' = [flag EXCEPT ![t] = "EXITED"]
    /\ Set(t, IF flag[t] = "FREE" THEN [Idle EXCEPT !.pc = "exited"]
              ELSE [Idle EXCEPT !.pc = "exitsignal", !.who = flag[t]])
    /\ UNCHANGED <<word, lists, locks, notified>>

ExitSignal(t) ==
    /\ th[t].pc = "exitsignal"
    /\ Signalled(th[t].who)
    /\ Set(t, [Idle EXCEPT !.pc = "exited"])
    /\ UNCHANGED <<word, lists, locks, flag>>

Join(t, u) ==
    /\ th[t].pc = "idle" /\ t \notin Exiting /\ u \in Exiting
    /\ \A x \in Threads : th[x].who # u              \* one joiner
    /\ Set(t, [Idle EXCEPT !.pc = "join", !.who = u])
    /\ UNCHANGED <<word, lists, locks, notified, flag>>

\* Mutant: the joiner goes to sleep without registering itself.
RegisteredNot(t, u) == flag

Registered(t, u) == [flag EXCEPT ![u] = t]

\* wait(): register as waiter and sleep, or find the thread's exit.
JoinCheck(t) ==
    LET u == th[t].who IN
    /\ th[t].pc = "join"
    /\ \/ flag[u] = "EXITED" /\ Return(t) /\ UNCHANGED flag
       \/ flag[u] = "FREE" /\ flag' = Registered(t, u) /\ Set(t, [th[t] EXCEPT !.pc = "joinsleep"])
    /\ UNCHANGED <<word, lists, locks, notified>>

JoinWakeUp(t) ==
    /\ th[t].pc = "joinsleep" /\ notified[t]
    /\ notified' = [notified EXCEPT ![t] = FALSE]
    /\ Set(t, [th[t] EXCEPT !.pc = "join"])
    /\ UNCHANGED <<word, lists, locks, flag>>

-----------------------------------------------------------------------------

Step(t) ==
    \/ Enqueue(t) \/ WakeUp(t) \/ Remove(t) \/ WakeNext(t) \/ WakeSignal(t) \/ MoveNext(t)
    \/ ExitSignal(t) \/ JoinCheck(t) \/ JoinWakeUp(t)
    \/ \E a \in Addrs : th[t].pc = "stored" /\ FutexWake(t, a, All)

Next ==
    \E t \in Threads :
      \/ Step(t) \/ OtherEvent(t) \/ Exit(t)
      \/ \E a \in Addrs : Store(t, a) \/ FutexWait(t, a) \/ FutexWake(t, a, 1)
      \/ \E r \in Requeues : Hash[r[1]] = Hash[r[2]] /\ FutexRequeue(t, r[1], r[2], 1, All)
      \/ \E u \in Threads : Join(t, u)

NextRequeue == Next \/ \E t \in Threads, r \in Requeues : FutexRequeue(t, r[1], r[2], 1, All)

\* Threads run, and the TidexMutexes of the queues are fair.
Fairness == \A t \in Threads : SF_vars(Step(t))

Spec == Init /\ [][Next]_vars
FairSpec == Spec /\ Fairness
SpecRequeue == Init /\ [][NextRequeue]_vars

-----------------------------------------------------------------------------

\* The lists stay intact, whichever of waiter, waker and requeueing thread
\* takes an element out: a list ends at its tail and holds only elements of
\* threads that are inside futex_wait().
QueueIntact ==
    \A q \in Queues :
      /\ tail[q] \in Chain(q) /\ Load(q, tail[q]) = Nil
      /\ \A t \in Queued(q) : th[t].pc \in {"sleep", "remove"} /\ Hash[uaddr[t]] = q

\* No lost wake-up: a thread does not sleep on a word that has changed since
\* it read it, unless the thread that changed the word is still waking, and a
\* thread that was taken out of the queue gets its signal.
NoLostWakeUp ==
    \A t \in Threads : th[t].pc = "sleep" /\ ~notified[t] =>
      IF next[t] = Removed THEN \E w \in Threads : th[w].pc = "signal" /\ th[w].who = t
      ELSE word[th[t].addr] # th[t].val /\ uaddr[t] = th[t].addr
             => \E w \in Threads : th[w].pc \in {"stored", "wake", "signal"} /\ th[w].addr = th[t].addr

\* Wakers, woken threads and joiners of a thread that exits return.
SyncReturns ==
    \A t \in Threads :
      (\/ th[t].pc \in {"wake", "remove"}
       \/ th[t].pc = "sleep" /\ next[t] = Removed
       \/ th[t].pc \in {"join", "joinsleep"} /\ flag[th[t].who] = "EXITED") ~> (th[t].pc = "idle")

\* "remove the own element from the queue in case it is still there": also
\* when futex_requeue() has moved it to the queue of another word.
ElementRemoved == \A q \in Queues : \A t \in Queued(q) : th[t].pc \in {"sleep", "remove"}
=============================================================================
