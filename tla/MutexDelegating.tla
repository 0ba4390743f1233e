-------------------------- MODULE MutexDelegating --------------------------
(***************************************************************************)
(* MutexDelegating (async/mutex-delegating/async/MutexDelegating.{hh,cc}),  *)
(* the kernel's ThreadMutex: atomic(fun) puts the critical section into a   *)
(* tasklet on the caller's stack and pushes it.  The thread whose push      *)
(* acquired the queue combines: it runs the critical sections of all        *)
(* waiting threads, up to a limit, and then hands the processing over to    *)
(* the thread whose section it ran last.                                    *)
(*                                                                         *)
(* The tasklet of a call is named by the calling thread.  The macro NDEBUG  *)
(* selects Chainable's flag functions (Tasklet.hh): without it, as in the   *)
(* repository's configurations, TaskletBase::run() overwrites the handover  *)
(* mark before the handler can read it.  Both builds are modelled.          *)
(***************************************************************************)
EXTENDS Naturals, Sequences

CONSTANTS Threads,
          HandoverLimit,    \* the initial handoverCount, 100 in the code
          None

VARIABLES queue,            \* the delegation queue
          pc,
          done,             \* the flag of the thread's current call
          msg,              \* the tasklet that process() has pulled
          handoverCount,
          NDEBUG            \* whether the kernel is built without assertions, chosen at the start

vars == <<queue, pc, done, msg, handoverCount, NDEBUG>>

Q == INSTANCE DelegationQueue WITH q <- queue, owner <- pc, Tasklets <- Threads

Init ==
    /\ queue = Q!FreeQueue
    /\ pc = [p \in Threads |-> "idle"]
    /\ done = [p \in Threads |-> "PENDING"]
    /\ msg = [p \in Threads |-> None]
    /\ handoverCount = [p \in Threads |-> 0]
    /\ NDEBUG \in BOOLEAN

\* process() starts.
StartProcess(p) ==
    /\ pc' = [pc EXCEPT ![p] = "process"]
    /\ handoverCount' = [handoverCount EXCEPT ![p] = HandoverLimit]

\* atomic(fun): push, then process() or wait().
Atomic(p) ==
    /\ pc[p] = "idle"
    /\ queue' = Q!Push(queue, p)
    /\ IF queue.locked
       THEN pc' = [pc EXCEPT ![p] = "wait"] /\ UNCHANGED handoverCount
       ELSE StartProcess(p)
    /\ UNCHANGED <<done, msg, NDEBUG>>

\* Mutant: the waiting thread is told before its critical section is run.
PullMsgEarly(p) ==
    /\ pc[p] = "process"
    /\ queue' = Q!Pull(queue)
    /\ IF queue.tasks = <<>>
       THEN /\ pc' = [pc EXCEPT ![p] = "release"]
            /\ UNCHANGED <<done, msg>>
       ELSE /\ msg' = [msg EXCEPT ![p] = Head(queue.tasks)]
            /\ done' = [done EXCEPT ![Head(queue.tasks)] = "DONE"]
            /\ pc' = [pc EXCEPT ![p] = IF handoverCount[p] = 0 THEN "runHandover" ELSE "run"]
    /\ UNCHANGED handoverCount

\* process(): pull the next critical section and start to run it, marked for
\* handover once the count is used up.
PullMsg(p) ==
    /\ pc[p] = "process"
    /\ queue' = Q!Pull(queue)
    /\ IF queue.tasks = <<>>
       THEN /\ pc' = [pc EXCEPT ![p] = "release"]
            /\ UNCHANGED msg
       ELSE /\ msg' = [msg EXCEPT ![p] = Head(queue.tasks)]
            /\ pc' = [pc EXCEPT ![p] = IF handoverCount[p] = 0 THEN "runHandover" ELSE "run"]
    /\ UNCHANGED <<done, handoverCount>>

\* Mutant: there is no count.
RunUncounted(p) ==
    /\ pc[p] = "run"
    /\ done' = [done EXCEPT ![msg[p]] = "DONE"]
    /\ pc' = [pc EXCEPT ![p] = "process"]
    /\ msg' = [msg EXCEPT ![p] = None]
    /\ UNCHANGED <<queue, handoverCount>>

\* The end of the critical section: the handler tells the waiting thread.
Run(p) ==
    /\ pc[p] = "run"
    /\ done' = [done EXCEPT ![msg[p]] = "DONE"]
    /\ pc' = [pc EXCEPT ![p] = "process"]
    /\ handoverCount' = [handoverCount EXCEPT ![p] = @ - 1]
    /\ msg' = [msg EXCEPT ![p] = None]
    /\ UNCHANGED queue

\* The same for the last one.  Without NDEBUG, run() has set the tasklet to UNUSED before, so that
\* isHandover() is false and nobody continues the processing.
RunHandover(p) ==
    /\ pc[p] = "runHandover"
    /\ done' = [done EXCEPT ![msg[p]] = IF NDEBUG THEN "HANDOVER" ELSE "DONE"]
    /\ pc' = [pc EXCEPT ![p] = "return"]
    /\ msg' = [msg EXCEPT ![p] = None]
    /\ UNCHANGED <<queue, handoverCount>>

TryRelease(p) ==
    /\ pc[p] = "release"
    /\ queue' = Q!TryRelease(queue)
    /\ pc' = [pc EXCEPT ![p] = IF Q!CanRelease(queue) THEN "return" ELSE "process"]
    /\ UNCHANGED <<done, msg, handoverCount>>

\* wait(): poll the flag.
WaitHandover(p) ==
    /\ pc[p] = "wait"
    /\ done[p] = "HANDOVER"
    /\ StartProcess(p)
    /\ UNCHANGED <<queue, done, msg>>

WaitDone(p) ==
    /\ pc[p] = "wait"
    /\ done[p] = "DONE"
    /\ pc' = [pc EXCEPT ![p] = "return"]
    /\ UNCHANGED <<queue, done, msg, handoverCount>>

\* atomic() returns; its tasklet and its flag cease to exist.
Return(p) ==
    /\ pc[p] = "return"
    /\ pc' = [pc EXCEPT ![p] = "idle"]
    /\ done' = [done EXCEPT ![p] = "PENDING"]
    /\ handoverCount' = [handoverCount EXCEPT ![p] = 0]
    /\ UNCHANGED <<queue, msg>>

Step(p) ==
    /\ \/ PullMsg(p) \/ Run(p) \/ RunHandover(p) \/ TryRelease(p)
       \/ WaitHandover(p) \/ WaitDone(p) \/ Return(p)
    /\ UNCHANGED NDEBUG

Next == \E p \in Threads : Atomic(p) \/ Step(p)

Spec == Init /\ [][Next]_vars

\* Kernel threads are not preempted and critical sections end.
Fairness == \A p \in Threads : WF_vars(Step(p))
FairSpec == Spec /\ Fairness

-----------------------------------------------------------------------------

TypeOK ==
    /\ queue \in [locked : BOOLEAN, tasks : Seq(Threads)]
    /\ pc \in [Threads -> {"idle", "wait", "process", "run", "runHandover", "release", "return"}]
    /\ done \in [Threads -> {"PENDING", "DONE", "HANDOVER"}]
    /\ msg \in [Threads -> Threads \cup {None}]
    /\ handoverCount \in [Threads -> 0..HandoverLimit]

\* The thread that combines, or has been chosen to continue.
Processing(p) ==
    \/ pc[p] \in {"process", "run", "runHandover", "release"}
    \/ pc[p] = "wait" /\ done[p] = "HANDOVER"

\* At most one thread combines, also across handovers, so that critical
\* sections exclude each other although they run on foreign threads.
SingleCombiner ==
    \A p, r \in Threads : Processing(p) /\ Processing(r) => p = r

\* A handover was lost: the queue stays locked and nobody processes it.
Abandoned == queue.locked /\ \A p \in Threads : ~Processing(p)

\* The critical section happens within the call: it runs while the thread
\* that asked for it is in atomic(), on whose stack the tasklet and the flag
\* live, and it was run when process() or wait() returns.  With NDEBUG the
\* processing of a locked queue is never left to nobody.
SectionWithinCall ==
    /\ NDEBUG => ~Abandoned
    /\ \A p \in Threads :
        /\ pc[p] \in {"run", "runHandover"} =>
              /\ done[msg[p]] = "PENDING"
              /\ msg[p] = p \/ pc[msg[p]] = "wait"
        /\ \A i \in DOMAIN queue.tasks :
              queue.tasks[i] = p => done[p] = "PENDING" /\ pc[p] \in {"wait", "process", "release"}
        /\ pc[p] = "return" => done[p] # "PENDING"

\* Every atomic() returns: waiting threads are served, and the combiner does
\* not serve the others for ever.  The only calls that do not return are those
\* that wait when a build without NDEBUG has lost a handover, which takes as
\* many critical sections of other threads in one process() as HandoverLimit.
AtomicReturns == \A p \in Threads : pc[p] # "idle" ~> (pc[p] = "idle" \/ Abandoned)
=============================================================================
