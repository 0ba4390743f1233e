------------------------------- MODULE Place -------------------------------
(***************************************************************************)
(* Place (async/monitor-common/async/Place.{hh,cc}), the kernel entries and *)
(* exits of boot/kernel-main/boot/kernel.cc that drive it, and              *)
(* SynchronousTask.  There is one place per hardware thread: it runs user   *)
(* code, sleeps, or is in the kernel, which runs to completion with         *)
(* interrupts off.  Other places send it tasklets through the queue         *)
(* `queue`, and functions to be run synchronously through `queueSync`; the  *)
(* sender that finds the queue released wakes the place with an IPI.        *)
(*                                                                         *)
(* The two queues are used at the level of DelegationQueue.  Each step      *)
(* below contains one operation on state that other places can see.         *)
(***************************************************************************)
EXTENDS Naturals, Sequences

CONSTANTS Places,
          Tasks,    \* tasklets with asynchronous handlers
          None

ASSUME PlacesAssumption == None \notin Places

VARIABLES queue,            \* pending tasklets of each place
          queueSync,        \* pending synchronous tasklets, named by the place that waits for them
          nestingMonitor,   \* whether the place is in the kernel and processing tasks
          irq,              \* whether the wakeup interrupt is pending at the place's LAPIC
          pc,
          dest,             \* the place to wake up or to preempt
          after,            \* where to continue after waking up or preempting
          done              \* SynchronousTask's flag: cleared when the function was run

vars == <<queue, queueSync, nestingMonitor, irq, pc, dest, after, done>>

Q == INSTANCE DelegationQueue WITH q <- queue, owner <- pc, Threads <- Places, Tasklets <- Tasks

Goto(p, l) == pc' = [pc EXCEPT ![p] = l]

\* Place::init() and the boot code that follows it.
Init ==
    /\ queue = [p \in Places |-> Q!LockedQueue]
    /\ queueSync = [p \in Places |-> Q!LockedQueue]
    /\ nestingMonitor = [p \in Places |-> TRUE]
    /\ irq = [p \in Places |-> FALSE]
    /\ pc = [p \in Places |-> "handler"]
    /\ dest = [p \in Places |-> None]
    /\ after = [p \in Places |-> "handler"]
    /\ done = [p \in Places |-> FALSE]

-----------------------------------------------------------------------------
(* Kernel entry *)

\* System calls and traps of the user program, and interrupts other than the wakeup.
Trap(p) ==
    /\ pc[p] \in {"user", "sleep"}
    /\ Goto(p, "acquire")
    /\ UNCHANGED <<queue, queueSync, nestingMonitor, irq, dest, after, done>>

Interrupt(p) ==
    /\ pc[p] \in {"user", "sleep"}
    /\ irq[p]
    /\ irq' = [irq EXCEPT ![p] = FALSE]
    /\ Goto(p, "acquire")
    /\ UNCHANGED <<queue, queueSync, nestingMonitor, dest, after, done>>

\* Mutant: the kernel entry does not acquire the queue.
EnterKernelQueueSkipped(p) ==
    /\ pc[p] = "acquire"
    /\ Goto(p, "acquireSync")
    /\ UNCHANGED <<queue, queueSync, nestingMonitor, irq, dest, after, done>>

\* enterKernel(): both queues belong to the place, maybe because a sender
\* acquired them on its behalf.
EnterKernelQueue(p) ==
    /\ pc[p] = "acquire"
    /\ queue' = [queue EXCEPT ![p] = Q!TryAcquire(@)]
    /\ Goto(p, "acquireSync")
    /\ UNCHANGED <<queueSync, nestingMonitor, irq, dest, after, done>>

EnterKernelSync(p) ==
    /\ pc[p] = "acquireSync"
    /\ queueSync' = [queueSync EXCEPT ![p] = Q!TryAcquire(@)]
    /\ Goto(p, "nest")
    /\ UNCHANGED <<queue, nestingMonitor, irq, dest, after, done>>

\* The rest of the entry: handling of the system call or interrupt.
EnterKernelNest(p) ==
    /\ pc[p] = "nest"
    /\ nestingMonitor' = [nestingMonitor EXCEPT ![p] = TRUE]
    /\ Goto(p, "handler")
    /\ UNCHANGED <<queue, queueSync, irq, dest, after, done>>

-----------------------------------------------------------------------------
(* What handlers do to places.  A tasklet can be sent while it is in no queue. *)

IsFree(t) == \A p \in Places : \A i \in DOMAIN queue[p].tasks : queue[p].tasks[i] # t

\* pushShared(t), also by run(t) for a remote place: the sender that acquired
\* the queue has to wake up d.
PushShared(p, d, t) ==
    /\ pc[p] = "handler"
    /\ IsFree(t)
    /\ queue' = [queue EXCEPT ![d] = Q!Push(@, t)]
    /\ IF queue[d].locked
       THEN UNCHANGED <<pc, dest, after>>
       ELSE /\ Goto(p, "wakeup")
            /\ dest' = [dest EXCEPT ![p] = d]
            /\ after' = [after EXCEPT ![p] = "handler"]
    /\ UNCHANGED <<queueSync, nestingMonitor, irq, done>>

\* runLocal(t), also by run(t) for the local place.
PushPrivate(p, t) ==
    /\ pc[p] = "handler"
    /\ IsFree(t)
    /\ queue' = [queue EXCEPT ![p] = Q!PushPrivate(@, t)]
    /\ UNCHANGED <<queueSync, nestingMonitor, irq, pc, dest, after, done>>

\* SynchronousTask::atomic() for a remote place: pushSync().
PushSync(p, d) ==
    /\ pc[p] = "handler"
    /\ p # d
    /\ queueSync' = [queueSync EXCEPT ![d] = Q!Push(@, p)]
    /\ IF queueSync[d].locked
       THEN /\ Goto(p, "wait")
            /\ UNCHANGED <<dest, after>>
       ELSE /\ Goto(p, "preempt")
            /\ dest' = [dest EXCEPT ![p] = d]
            /\ after' = [after EXCEPT ![p] = "wait"]
    /\ UNCHANGED <<queue, nestingMonitor, irq, done>>

\* A handler preempts d to make it look at its scheduling state (SchedulingContext::ready).
StartPreempt(p, d) ==
    /\ pc[p] = "handler"
    /\ Goto(p, "preempt")
    /\ dest' = [dest EXCEPT ![p] = d]
    /\ after' = [after EXCEPT ![p] = "handler"]
    /\ UNCHANGED <<queue, queueSync, nestingMonitor, irq, done>>

\* Return to the handler, or to the loop of a synchronous task.
Continue(p) ==
    /\ Goto(p, after[p])
    /\ dest' = [dest EXCEPT ![p] = None]
    /\ after' = [after EXCEPT ![p] = "handler"]

\* preempt(): an IPI is needed only if d does not already have its queue.
Preempt(p) ==
    /\ pc[p] = "preempt"
    /\ queue' = [queue EXCEPT ![dest[p]] = Q!TryAcquire(@)]
    /\ IF queue[dest[p]].locked
       THEN Continue(p)
       ELSE Goto(p, "wakeup") /\ UNCHANGED <<dest, after>>
    /\ UNCHANGED <<queueSync, nestingMonitor, irq, done>>

\* wakeup(): pending interrupts of the same vector coalesce.
Wakeup(p) ==
    /\ pc[p] = "wakeup"
    /\ irq' = [irq EXCEPT ![dest[p]] = TRUE]
    /\ Continue(p)
    /\ UNCHANGED <<queue, queueSync, nestingMonitor, done>>

\* The loop of SynchronousTask::atomic(): test done, then process incoming
\* synchronous tasklets until there are none.
WaitDone(p) ==
    /\ pc[p] = "wait"
    /\ Goto(p, IF done[p] THEN "handler" ELSE "waitSync")
    /\ done' = [done EXCEPT ![p] = FALSE]
    /\ UNCHANGED <<queue, queueSync, nestingMonitor, irq, dest, after>>

WaitSync(p) ==
    /\ pc[p] = "waitSync"
    /\ queueSync[p].tasks = <<>>
    /\ queueSync' = [queueSync EXCEPT ![p] = Q!Pull(@)]
    /\ Goto(p, "wait")
    /\ UNCHANGED <<queue, nestingMonitor, irq, dest, after, done>>

\* The system call, interrupt or task handler returns.
HandlerDone(p) ==
    /\ pc[p] = "handler"
    /\ Goto(p, "sync")
    /\ UNCHANGED <<queue, queueSync, nestingMonitor, irq, dest, after, done>>

-----------------------------------------------------------------------------
(* processTasks() and the kernel exit *)

\* processSyncTasks(): run one function and signal its sender.
RunSync(p) ==
    /\ pc[p] \in {"sync", "waitSync"}
    /\ queueSync[p].tasks # <<>>
    /\ queueSync' = [queueSync EXCEPT ![p] = Q!Pull(@)]
    /\ done' = [done EXCEPT ![Head(queueSync[p].tasks)] = TRUE]
    /\ UNCHANGED <<queue, nestingMonitor, irq, pc, dest, after>>

SyncEmpty(p) ==
    /\ pc[p] = "sync"
    /\ queueSync[p].tasks = <<>>
    /\ queueSync' = [queueSync EXCEPT ![p] = Q!Pull(@)]
    /\ Goto(p, "pull")
    /\ UNCHANGED <<queue, nestingMonitor, irq, dest, after, done>>

\* One normal task, or start to release the queues.
PullTask(p) ==
    /\ pc[p] = "pull"
    /\ queue' = [queue EXCEPT ![p] = Q!Pull(@)]
    /\ Goto(p, IF queue[p].tasks = <<>> THEN "release" ELSE "handler")
    /\ UNCHANGED <<queueSync, nestingMonitor, irq, dest, after, done>>

\* Mutant: the sync queue is released first.
ReleaseSwapped(p) ==
    \/ /\ pc[p] = "release"
       /\ queueSync' = [queueSync EXCEPT ![p] = Q!TryRelease(@)]
       /\ Goto(p, IF Q!CanRelease(queueSync[p]) THEN "releaseSync" ELSE "sync")
       /\ UNCHANGED <<queue, nestingMonitor, irq, dest, after, done>>
    \/ /\ pc[p] = "releaseSync"
       /\ queue' = [queue EXCEPT ![p] = Q!TryRelease(@)]
       /\ Goto(p, IF Q!CanRelease(queue[p]) THEN "leave" ELSE "sync")
       /\ UNCHANGED <<queueSync, nestingMonitor, irq, dest, after, done>>

\* Mutant: a failed release is tried again instead of processing the tasks.
ReleaseSpin(p) ==
    \/ /\ pc[p] = "release"
       /\ queue' = [queue EXCEPT ![p] = Q!TryRelease(@)]
       /\ Goto(p, IF Q!CanRelease(queue[p]) THEN "releaseSync" ELSE "release")
       /\ UNCHANGED <<queueSync, nestingMonitor, irq, dest, after, done>>
    \/ /\ pc[p] = "releaseSync"
       /\ queueSync' = [queueSync EXCEPT ![p] = Q!TryRelease(@)]
       /\ Goto(p, IF Q!CanRelease(queueSync[p]) THEN "leave" ELSE "sync")
       /\ UNCHANGED <<queue, nestingMonitor, irq, dest, after, done>>

\* queue.tryRelease() && queueSync.tryRelease(), in that order.
Release(p) ==
    \/ /\ pc[p] = "release"
       /\ queue' = [queue EXCEPT ![p] = Q!TryRelease(@)]
       /\ Goto(p, IF Q!CanRelease(queue[p]) THEN "releaseSync" ELSE "sync")
       /\ UNCHANGED <<queueSync, nestingMonitor, irq, dest, after, done>>
    \/ /\ pc[p] = "releaseSync"
       /\ queueSync' = [queueSync EXCEPT ![p] = Q!TryRelease(@)]
       /\ Goto(p, IF Q!CanRelease(queueSync[p]) THEN "leave" ELSE "sync")
       /\ UNCHANGED <<queue, nestingMonitor, irq, dest, after, done>>

LeaveKernel(p) ==
    /\ pc[p] = "leave"
    /\ nestingMonitor' = [nestingMonitor EXCEPT ![p] = FALSE]
    /\ Goto(p, "exit")
    /\ UNCHANGED <<queue, queueSync, irq, dest, after, done>>

\* runUser(): tryRunUser() does not return if an execution context can run.
RunUser(p) ==
    /\ pc[p] = "exit"
    /\ pc' \in {[pc EXCEPT ![p] = "user"], [pc EXCEPT ![p] = "sleep"]}
    /\ UNCHANGED <<queue, queueSync, nestingMonitor, irq, dest, after, done>>

-----------------------------------------------------------------------------

KernelStep(p) ==
    \/ Interrupt(p)
    \/ EnterKernelQueue(p) \/ EnterKernelSync(p) \/ EnterKernelNest(p)
    \/ Preempt(p) \/ Wakeup(p) \/ WaitDone(p) \/ WaitSync(p)
    \/ RunSync(p) \/ SyncEmpty(p) \/ PullTask(p)
    \/ Release(p) \/ LeaveKernel(p) \/ RunUser(p)

Next ==
    \E p \in Places :
        \/ KernelStep(p)
        \/ HandlerDone(p)
        \/ Trap(p)
        \/ \E d \in Places : PushSync(p, d) \/ StartPreempt(p, d)
        \/ \E t \in Tasks : PushPrivate(p, t) \/ \E d \in Places : PushShared(p, d, t)

Spec == Init /\ [][Next]_vars

\* The kernel is not preempted, the LAPIC delivers pending interrupts once
\* they are enabled, and handlers return even if they send again and again.
Fairness == \A p \in Places : WF_vars(KernelStep(p)) /\ SF_vars(HandlerDone(p))
FairSpec == Spec /\ Fairness

-----------------------------------------------------------------------------

QueueType(S) == [locked : BOOLEAN, tasks : Seq(S)]

TypeOK ==
    /\ queue \in [Places -> QueueType(Tasks)]
    /\ queueSync \in [Places -> QueueType(Places)]
    /\ nestingMonitor \in [Places -> BOOLEAN]
    /\ irq \in [Places -> BOOLEAN]
    /\ pc \in [Places -> {"user", "sleep", "acquire", "acquireSync", "nest", "handler", "wakeup", "preempt",
                          "wait", "waitSync", "sync", "pull", "release", "releaseSync", "leave", "exit"}]
    /\ dest \in [Places -> Places \cup {None}]
    /\ after \in [Places -> {"handler", "wait"}]
    /\ done \in [Places -> BOOLEAN]

\* The place looks at its queues once more before it leaves the kernel.
WillCheck(p) == pc[p] \notin {"user", "sleep", "leave", "exit"}

\* Somebody is going to interrupt p.
WakeupComing(p) == irq[p] \/ \E s \in Places : pc[s] = "wakeup" /\ dest[s] = p
PreemptComing(p) == \E s \in Places : pc[s] = "preempt" /\ dest[s] = p

\* No lost wakeup: a queue is only locked while its place is going to look at
\* it, or an interrupt is on its way.  In particular the early return of a
\* sender that finds the queue locked (pushShared, preempt, pushSync) never
\* leaves a tasklet behind at a place that sleeps or runs user code.
NoLostWakeup ==
    \A p \in Places :
        /\ queue[p].locked => WillCheck(p) \/ WakeupComing(p)
        /\ queueSync[p].locked => WillCheck(p) \/ WakeupComing(p) \/ PreemptComing(p)

\* Only the kernel between enterKernel() and the end of processTasks() uses
\* the owner's side of the queues, and it has acquired them: senders never
\* find them released while a handler runs.
KernelOwnsQueues ==
    \A p \in Places :
        pc[p] \in {"handler", "wakeup", "preempt", "wait", "waitSync"} =>
            queue[p].locked /\ queueSync[p].locked /\ nestingMonitor[p]

QuietHandlers ==
    <>[][~\E p, d \in Places : PushSync(p, d) \/ \E t \in Tasks : PushPrivate(p, t)]_vars

\* Every tasklet that was sent is run eventually, and synchronousAt() returns,
\* also if places wait for each other mutually, unless handlers keep using the
\* LIFO runLocal() or keep sending synchronous tasks, which go first.
TasksEventuallyRun ==
    QuietHandlers =>
        /\ \A t \in Tasks : ~IsFree(t) ~> IsFree(t)
        /\ \A p \in Places : pc[p] = "wait" ~> pc[p] = "handler"

=============================================================================
