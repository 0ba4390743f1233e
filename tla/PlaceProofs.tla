---------------------------- MODULE PlaceProofs ----------------------------
(***************************************************************************)
(* No wakeup is lost and the kernel owns its queues, for any set of places  *)
(* and tasklets.  NoLostWakeup is not inductive: a place between the        *)
(* release of its two queues still looks at them in the sense of WillCheck, *)
(* but leaves the kernel when the second release succeeds.  Ownership adds  *)
(* that a queue which was taken in this window has an interrupt on its way. *)
(***************************************************************************)
EXTENDS Place, SequenceTheorems, TLAPS

\* Which of its queues a place holds at each point of the kernel, and that a
\* place that wakes up or preempts knows whom.
Ownership ==
    \A p \in Places :
        /\ pc[p] \in {"acquireSync", "nest", "handler", "wakeup", "preempt", "wait", "waitSync", "release"} =>
               queue[p].locked
        /\ pc[p] \in {"nest", "handler", "wakeup", "preempt", "wait", "waitSync", "sync", "pull", "release", "releaseSync"} =>
               queueSync[p].locked
        /\ pc[p] \in {"handler", "wakeup", "preempt", "wait", "waitSync", "sync", "pull", "release", "releaseSync"} =>
               nestingMonitor[p]
        /\ pc[p] \in {"wakeup", "preempt"} => dest[p] \in Places
        /\ pc[p] = "releaseSync" /\ queue[p].locked => WakeupComing(p)

IInv == TypeOK /\ Ownership /\ NoLostWakeup

\* The queue operations keep the type, push, tryAcquire and pull lock the
\* queue, and tryRelease unlocks it exactly if it succeeds.
LEMMA QueueFacts ==
    ASSUME NEW S, NEW r \in QueueType(S)
    PROVE  /\ r.locked \in BOOLEAN /\ r.tasks \in Seq(S)
           /\ \A t \in S : Q!Push(r, t) \in QueueType(S) /\ Q!Push(r, t).locked
           /\ \A t \in S : Q!PushPrivate(r, t) \in QueueType(S) /\ Q!PushPrivate(r, t).locked = r.locked
           /\ Q!TryAcquire(r) \in QueueType(S) /\ Q!TryAcquire(r).locked
           /\ Q!Pull(r) \in QueueType(S) /\ Q!Pull(r).locked
           /\ Q!TryRelease(r) \in QueueType(S)
           /\ Q!CanRelease(r) => ~Q!TryRelease(r).locked
           /\ ~Q!CanRelease(r) => Q!TryRelease(r) = r
<1>1. r.locked \in BOOLEAN /\ r.tasks \in Seq(S) /\ DOMAIN r = {"locked", "tasks"}
  BY DEF QueueType
<1>2. \A t \in S : Append(r.tasks, t) \in Seq(S) /\ <<t>> \o r.tasks \in Seq(S)
  BY <1>1
<1>3. r.tasks # <<>> => Tail(r.tasks) \in Seq(S)
  BY <1>1
<1>4. <<>> \in Seq(S)
  OBVIOUS
<1>5. \A t \in S : Q!Push(r, t) \in QueueType(S) /\ Q!Push(r, t).locked
  BY <1>2 DEF QueueType, Q!Push
<1>6. \A t \in S : Q!PushPrivate(r, t) \in QueueType(S) /\ Q!PushPrivate(r, t).locked = r.locked
  BY Zenon, <1>1, <1>2 DEF QueueType, Q!PushPrivate
<1>7. Q!TryAcquire(r) \in QueueType(S) /\ Q!TryAcquire(r).locked
  BY Zenon, <1>1 DEF QueueType, Q!TryAcquire
<1>8. Q!Pull(r) \in QueueType(S) /\ Q!Pull(r).locked
  BY <1>3, <1>4 DEF QueueType, Q!Pull
<1>9. /\ Q!TryRelease(r) \in QueueType(S)
      /\ Q!CanRelease(r) => ~Q!TryRelease(r).locked
      /\ ~Q!CanRelease(r) => Q!TryRelease(r) = r
  BY <1>4 DEF QueueType, Q!TryRelease, Q!CanRelease, Q!FreeQueue
<1> QED BY <1>1, <1>5, <1>6, <1>7, <1>8, <1>9

\* QueueFacts for the queues of all places.
LEMMA AllQueues ==
    ASSUME TypeOK, NEW d \in Places
    PROVE  /\ queue[d].locked \in BOOLEAN /\ queueSync[d].locked \in BOOLEAN
           /\ \A t \in Tasks : Q!Push(queue[d], t) \in QueueType(Tasks) /\ Q!Push(queue[d], t).locked
           /\ \A t \in Tasks : /\ Q!PushPrivate(queue[d], t) \in QueueType(Tasks)
                              /\ Q!PushPrivate(queue[d], t).locked = queue[d].locked
           /\ \A s \in Places : Q!Push(queueSync[d], s) \in QueueType(Places) /\ Q!Push(queueSync[d], s).locked
           /\ Q!TryAcquire(queue[d]) \in QueueType(Tasks) /\ Q!TryAcquire(queue[d]).locked
           /\ Q!TryAcquire(queueSync[d]) \in QueueType(Places) /\ Q!TryAcquire(queueSync[d]).locked
           /\ Q!Pull(queue[d]) \in QueueType(Tasks) /\ Q!Pull(queue[d]).locked
           /\ Q!Pull(queueSync[d]) \in QueueType(Places) /\ Q!Pull(queueSync[d]).locked
           /\ Q!TryRelease(queue[d]) \in QueueType(Tasks)
           /\ Q!CanRelease(queue[d]) => ~Q!TryRelease(queue[d]).locked
           /\ ~Q!CanRelease(queue[d]) => Q!TryRelease(queue[d]) = queue[d]
           /\ Q!TryRelease(queueSync[d]) \in QueueType(Places)
           /\ Q!CanRelease(queueSync[d]) => ~Q!TryRelease(queueSync[d]).locked
           /\ ~Q!CanRelease(queueSync[d]) => Q!TryRelease(queueSync[d]) = queueSync[d]
<1>1. queue[d] \in QueueType(Tasks) /\ queueSync[d] \in QueueType(Places)
  BY DEF TypeOK
<1> QED BY Zenon, <1>1, QueueFacts

\* After boot every place is in the kernel and owns its queues.
LEMMA InitIInv == Init => IInv
<1>1. Q!LockedQueue \in QueueType(Tasks) /\ Q!LockedQueue \in QueueType(Places) /\ Q!LockedQueue.locked
  BY DEF Q!LockedQueue, QueueType
<1> QED BY <1>1 DEF Init, IInv, TypeOK, Ownership, NoLostWakeup, WillCheck

\* Every step of the code keeps the invariant.
LEMMA NextIInv == IInv /\ [Next]_vars => IInv'
<1> SUFFICES ASSUME IInv, [Next]_vars PROVE IInv'
  OBVIOUS
<1> USE DEF IInv
<1>1. ASSUME NEW p \in Places, Interrupt(p) PROVE IInv'
  <2>1. TypeOK'
    BY <1>1, AllQueues DEF TypeOK, Interrupt, Goto
  <2>2. Ownership'
    BY <1>1, AllQueues DEF TypeOK, Ownership, WakeupComing, Interrupt, Goto
  <2>3. NoLostWakeup'
    BY <1>1, AllQueues DEF TypeOK, Ownership, NoLostWakeup, WillCheck, WakeupComing, PreemptComing, Interrupt, Goto
  <2> QED BY <2>1, <2>2, <2>3
<1>2. ASSUME NEW p \in Places, EnterKernelQueue(p) PROVE IInv'
  <2>1. TypeOK'
    BY <1>2, AllQueues DEF TypeOK, EnterKernelQueue, Goto
  <2>2. Ownership'
    BY <1>2, AllQueues DEF TypeOK, Ownership, WakeupComing, EnterKernelQueue, Goto
  <2>3. NoLostWakeup'
    BY <1>2, AllQueues DEF TypeOK, Ownership, NoLostWakeup, WillCheck, WakeupComing, PreemptComing, EnterKernelQueue, Goto
  <2> QED BY <2>1, <2>2, <2>3
<1>3. ASSUME NEW p \in Places, EnterKernelSync(p) PROVE IInv'
  <2>1. TypeOK'
    BY <1>3, AllQueues DEF TypeOK, EnterKernelSync, Goto
  <2>2. Ownership'
    BY <1>3, AllQueues DEF TypeOK, Ownership, WakeupComing, EnterKernelSync, Goto
  <2>3. NoLostWakeup'
    BY <1>3, AllQueues DEF TypeOK, Ownership, NoLostWakeup, WillCheck, WakeupComing, PreemptComing, EnterKernelSync, Goto
  <2> QED BY <2>1, <2>2, <2>3
<1>4. ASSUME NEW p \in Places, EnterKernelNest(p) PROVE IInv'
  <2>1. TypeOK'
    BY <1>4, AllQueues DEF TypeOK, EnterKernelNest, Goto
  <2>2. Ownership'
    BY <1>4, AllQueues DEF TypeOK, Ownership, WakeupComing, EnterKernelNest, Goto
  <2>3. NoLostWakeup'
    BY <1>4, AllQueues DEF TypeOK, Ownership, NoLostWakeup, WillCheck, WakeupComing, PreemptComing, EnterKernelNest, Goto
  <2> QED BY <2>1, <2>2, <2>3
<1>5. ASSUME NEW p \in Places, Preempt(p) PROVE IInv'
  <2> DEFINE d == dest[p]
  <2>1. d \in Places /\ pc[p] = "preempt" /\ queue[p].locked /\ queueSync[p].locked /\ nestingMonitor[p]
    BY <1>5 DEF Preempt, Ownership
  <2>2. Q!TryAcquire(queue[d]) \in QueueType(Tasks) /\ Q!TryAcquire(queue[d]).locked
    BY <2>1, AllQueues
  <2>3. CASE queue[d].locked
    <3>1. /\ queue' = [queue EXCEPT ![d] = Q!TryAcquire(queue[d])]
          /\ pc' = [pc EXCEPT ![p] = after[p]]
          /\ dest' = [dest EXCEPT ![p] = None]
          /\ after' = [after EXCEPT ![p] = "handler"]
          /\ UNCHANGED <<queueSync, nestingMonitor, irq, done>>
      BY <1>5, <2>3 DEF Preempt, Continue, Goto
    <3>2. TypeOK'
      BY <2>1, <2>2, <3>1 DEF TypeOK
    <3>3. Ownership'
      BY <2>1, <2>2, <2>3, <3>1 DEF TypeOK, Ownership, WakeupComing
    <3>4. NoLostWakeup'
      BY <2>1, <2>2, <2>3, <3>1 DEF TypeOK, Ownership, NoLostWakeup, WillCheck, WakeupComing, PreemptComing
    <3> QED BY <3>2, <3>3, <3>4
  <2>4. CASE ~queue[d].locked
    <3>1. /\ queue' = [queue EXCEPT ![d] = Q!TryAcquire(queue[d])]
          /\ pc' = [pc EXCEPT ![p] = "wakeup"]
          /\ UNCHANGED <<queueSync, nestingMonitor, irq, dest, after, done>>
      BY <1>5, <2>4 DEF Preempt, Goto
    <3>2. TypeOK'
      BY <2>1, <2>2, <3>1 DEF TypeOK
    <3>3. Ownership'
      BY <2>1, <2>2, <3>1 DEF TypeOK, Ownership, WakeupComing
    <3>4. NoLostWakeup'
      BY <2>1, <2>2, <3>1 DEF TypeOK, Ownership, NoLostWakeup, WillCheck, WakeupComing, PreemptComing
    <3> QED BY <3>2, <3>3, <3>4
  <2> QED BY <2>3, <2>4
<1>6. ASSUME NEW p \in Places, Wakeup(p) PROVE IInv'
  <2>1. /\ dest[p] \in Places /\ pc[p] = "wakeup"
        /\ irq' = [irq EXCEPT ![dest[p]] = TRUE]
        /\ pc' = [pc EXCEPT ![p] = after[p]]
        /\ dest' = [dest EXCEPT ![p] = None]
        /\ after' = [after EXCEPT ![p] = "handler"]
        /\ UNCHANGED <<queue, queueSync, nestingMonitor, done>>
    BY <1>6 DEF Wakeup, Continue, Goto, Ownership
  <2>2. TypeOK'
    BY <2>1 DEF TypeOK
  <2>3. \A r \in Places : WakeupComing(r) => WakeupComing(r)'
    BY <2>1 DEF TypeOK, WakeupComing
  <2>4. Ownership'
    BY <2>1, <2>3 DEF TypeOK, Ownership
  <2>5. NoLostWakeup'
    BY <2>1, <2>3 DEF TypeOK, NoLostWakeup, WillCheck, PreemptComing
  <2> QED BY <2>2, <2>4, <2>5
<1>7. ASSUME NEW p \in Places, WaitDone(p) PROVE IInv'
  <2>1. TypeOK'
    BY <1>7, AllQueues DEF TypeOK, WaitDone, Goto
  <2>2. Ownership'
    BY <1>7, AllQueues DEF TypeOK, Ownership, WakeupComing, WaitDone, Goto
  <2>3. NoLostWakeup'
    BY <1>7, AllQueues DEF TypeOK, Ownership, NoLostWakeup, WillCheck, WakeupComing, PreemptComing, WaitDone, Goto
  <2> QED BY <2>1, <2>2, <2>3
<1>8. ASSUME NEW p \in Places, WaitSync(p) PROVE IInv'
  <2>1. TypeOK'
    BY <1>8, AllQueues DEF TypeOK, WaitSync, Goto
  <2>2. Ownership'
    BY <1>8, AllQueues DEF TypeOK, Ownership, WakeupComing, WaitSync, Goto
  <2>3. NoLostWakeup'
    BY <1>8, AllQueues DEF TypeOK, Ownership, NoLostWakeup, WillCheck, WakeupComing, PreemptComing, WaitSync, Goto
  <2> QED BY <2>1, <2>2, <2>3
<1>9. ASSUME NEW p \in Places, RunSync(p) PROVE IInv'
  <2>1. TypeOK'
    BY Zenon, <1>9, AllQueues DEF TypeOK, RunSync, Goto
  <2>2. Ownership'
    BY <1>9, AllQueues DEF TypeOK, Ownership, WakeupComing, RunSync, Goto
  <2>3. NoLostWakeup'
    BY <1>9, AllQueues DEF TypeOK, Ownership, NoLostWakeup, WillCheck, WakeupComing, PreemptComing, RunSync, Goto
  <2> QED BY <2>1, <2>2, <2>3
<1>10. ASSUME NEW p \in Places, SyncEmpty(p) PROVE IInv'
  <2>1. TypeOK'
    BY <1>10, AllQueues DEF TypeOK, SyncEmpty, Goto
  <2>2. Ownership'
    BY <1>10, AllQueues DEF TypeOK, Ownership, WakeupComing, SyncEmpty, Goto
  <2>3. NoLostWakeup'
    BY <1>10, AllQueues DEF TypeOK, Ownership, NoLostWakeup, WillCheck, WakeupComing, PreemptComing, SyncEmpty, Goto
  <2> QED BY <2>1, <2>2, <2>3
<1>11. ASSUME NEW p \in Places, PullTask(p) PROVE IInv'
  <2>1. TypeOK'
    BY <1>11, AllQueues DEF TypeOK, PullTask, Goto
  <2>2. Ownership'
    BY <1>11, AllQueues DEF TypeOK, Ownership, WakeupComing, PullTask, Goto
  <2>3. NoLostWakeup'
    BY <1>11, AllQueues DEF TypeOK, Ownership, NoLostWakeup, WillCheck, WakeupComing, PreemptComing, PullTask, Goto
  <2> QED BY <2>1, <2>2, <2>3
<1>12. ASSUME NEW p \in Places, Release(p) PROVE IInv'
  <2>1. CASE pc[p] = "release"
    <3>1. /\ pc[p] = "release"
          /\ queue' = [queue EXCEPT ![p] = Q!TryRelease(queue[p])]
          /\ pc' = [pc EXCEPT ![p] = IF Q!CanRelease(queue[p]) THEN "releaseSync" ELSE "sync"]
          /\ UNCHANGED <<queueSync, nestingMonitor, irq, dest, after, done>>
      BY <1>12, <2>1 DEF Release, Goto
    <3>2. /\ Q!TryRelease(queue[p]) \in QueueType(Tasks)
          /\ Q!CanRelease(queue[p]) => ~Q!TryRelease(queue[p]).locked
          /\ ~Q!CanRelease(queue[p]) => Q!TryRelease(queue[p]) = queue[p]
      BY AllQueues
    <3>3. TypeOK'
      BY <3>1, <3>2 DEF TypeOK
    <3>4. CASE Q!CanRelease(queue[p])
      <4>1. Ownership'
        BY <3>1, <3>2, <3>4 DEF TypeOK, Ownership, WakeupComing
      <4>2. NoLostWakeup'
        BY <3>1, <3>2, <3>4 DEF TypeOK, Ownership, NoLostWakeup, WillCheck, WakeupComing, PreemptComing
      <4> QED BY <3>3, <4>1, <4>2
    <3>5. CASE ~Q!CanRelease(queue[p])
      <4>1. Ownership'
        BY <3>1, <3>2, <3>5 DEF TypeOK, Ownership, WakeupComing
      <4>2. NoLostWakeup'
        BY <3>1, <3>2, <3>5 DEF TypeOK, Ownership, NoLostWakeup, WillCheck, WakeupComing, PreemptComing
      <4> QED BY <3>3, <4>1, <4>2
    <3> QED BY <3>4, <3>5
  <2>2. CASE pc[p] = "releaseSync"
    <3>1. /\ pc[p] = "releaseSync"
          /\ queueSync' = [queueSync EXCEPT ![p] = Q!TryRelease(queueSync[p])]
          /\ pc' = [pc EXCEPT ![p] = IF Q!CanRelease(queueSync[p]) THEN "leave" ELSE "sync"]
          /\ UNCHANGED <<queue, nestingMonitor, irq, dest, after, done>>
      BY <1>12, <2>2 DEF Release, Goto
    <3>2. /\ Q!TryRelease(queueSync[p]) \in QueueType(Places)
          /\ Q!CanRelease(queueSync[p]) => ~Q!TryRelease(queueSync[p]).locked
          /\ ~Q!CanRelease(queueSync[p]) => Q!TryRelease(queueSync[p]) = queueSync[p]
      BY AllQueues
    <3>3. TypeOK'
      BY <3>1, <3>2 DEF TypeOK
    <3>4. CASE Q!CanRelease(queueSync[p])
      <4>1. Ownership'
        BY <3>1, <3>2, <3>4 DEF TypeOK, Ownership, WakeupComing
      <4>2. NoLostWakeup'
        BY <3>1, <3>2, <3>4 DEF TypeOK, Ownership, NoLostWakeup, WillCheck, WakeupComing, PreemptComing
      <4> QED BY <3>3, <4>1, <4>2
    <3>5. CASE ~Q!CanRelease(queueSync[p])
      <4>1. Ownership'
        BY <3>1, <3>2, <3>5 DEF TypeOK, Ownership, WakeupComing
      <4>2. NoLostWakeup'
        BY <3>1, <3>2, <3>5 DEF TypeOK, Ownership, NoLostWakeup, WillCheck, WakeupComing, PreemptComing
      <4> QED BY <3>3, <4>1, <4>2
    <3> QED BY <3>4, <3>5
  <2> QED BY <1>12, <2>1, <2>2 DEF Release
<1>13. ASSUME NEW p \in Places, LeaveKernel(p) PROVE IInv'
  <2>1. TypeOK'
    BY <1>13, AllQueues DEF TypeOK, LeaveKernel, Goto
  <2>2. Ownership'
    BY <1>13, AllQueues DEF TypeOK, Ownership, WakeupComing, LeaveKernel, Goto
  <2>3. NoLostWakeup'
    BY <1>13, AllQueues DEF TypeOK, Ownership, NoLostWakeup, WillCheck, WakeupComing, PreemptComing, LeaveKernel, Goto
  <2> QED BY <2>1, <2>2, <2>3
<1>14. ASSUME NEW p \in Places, RunUser(p) PROVE IInv'
  <2>1. PICK l \in {"user", "sleep"} : pc' = [pc EXCEPT ![p] = l]
    BY <1>14 DEF RunUser
  <2>2. pc[p] = "exit" /\ UNCHANGED <<queue, queueSync, nestingMonitor, irq, dest, after, done>>
    BY <1>14 DEF RunUser
  <2>3. TypeOK'
    BY <2>1, <2>2 DEF TypeOK
  <2>4. Ownership'
    BY <2>1, <2>2 DEF TypeOK, Ownership, WakeupComing
  <2>5. NoLostWakeup'
    BY <2>1, <2>2 DEF TypeOK, Ownership, NoLostWakeup, WillCheck, WakeupComing, PreemptComing
  <2> QED BY <2>3, <2>4, <2>5
<1>15. ASSUME NEW p \in Places, HandlerDone(p) PROVE IInv'
  <2>1. TypeOK'
    BY <1>15, AllQueues DEF TypeOK, HandlerDone, Goto
  <2>2. Ownership'
    BY <1>15, AllQueues DEF TypeOK, Ownership, WakeupComing, HandlerDone, Goto
  <2>3. NoLostWakeup'
    BY <1>15, AllQueues DEF TypeOK, Ownership, NoLostWakeup, WillCheck, WakeupComing, PreemptComing, HandlerDone, Goto
  <2> QED BY <2>1, <2>2, <2>3
<1>16. ASSUME NEW p \in Places, Trap(p) PROVE IInv'
  <2>1. TypeOK'
    BY <1>16, AllQueues DEF TypeOK, Trap, Goto
  <2>2. Ownership'
    BY <1>16, AllQueues DEF TypeOK, Ownership, WakeupComing, Trap, Goto
  <2>3. NoLostWakeup'
    BY <1>16, AllQueues DEF TypeOK, Ownership, NoLostWakeup, WillCheck, WakeupComing, PreemptComing, Trap, Goto
  <2> QED BY <2>1, <2>2, <2>3
<1>17. ASSUME NEW p \in Places, NEW d \in Places, PushSync(p, d) PROVE IInv'
  <2>1. Q!Push(queueSync[d], p) \in QueueType(Places) /\ Q!Push(queueSync[d], p).locked
    BY AllQueues
  <2>2. /\ pc[p] = "handler" /\ queue[p].locked /\ queueSync[p].locked /\ nestingMonitor[p]
        /\ queueSync' = [queueSync EXCEPT ![d] = Q!Push(queueSync[d], p)]
        /\ UNCHANGED <<queue, nestingMonitor, irq, done>>
    BY <1>17 DEF PushSync, Ownership
  <2>3. CASE queueSync[d].locked
    <3>1. pc' = [pc EXCEPT ![p] = "wait"] /\ UNCHANGED <<dest, after>>
      BY <1>17, <2>3 DEF PushSync, Goto
    <3>2. TypeOK'
      BY <2>1, <2>2, <3>1 DEF TypeOK
    <3>3. Ownership'
      BY <2>1, <2>2, <2>3, <3>1 DEF TypeOK, Ownership, WakeupComing
    <3>4. NoLostWakeup'
      BY <2>1, <2>2, <2>3, <3>1 DEF TypeOK, Ownership, NoLostWakeup, WillCheck, WakeupComing, PreemptComing
    <3> QED BY <3>2, <3>3, <3>4
  <2>4. CASE ~queueSync[d].locked
    <3>1. /\ pc' = [pc EXCEPT ![p] = "preempt"]
          /\ dest' = [dest EXCEPT ![p] = d]
          /\ after' = [after EXCEPT ![p] = "wait"]
      BY <1>17, <2>4 DEF PushSync, Goto
    <3>2. TypeOK'
      BY <2>1, <2>2, <3>1 DEF TypeOK
    <3>3. Ownership'
      BY <2>1, <2>2, <3>1 DEF TypeOK, Ownership, WakeupComing
    <3>4. NoLostWakeup'
      BY <2>1, <2>2, <3>1 DEF TypeOK, Ownership, NoLostWakeup, WillCheck, WakeupComing, PreemptComing
    <3> QED BY <3>2, <3>3, <3>4
  <2> QED BY <2>3, <2>4
<1>18. ASSUME NEW p \in Places, NEW d \in Places, StartPreempt(p, d) PROVE IInv'
  <2>1. TypeOK'
    BY <1>18, AllQueues DEF TypeOK, StartPreempt, Goto
  <2>2. Ownership'
    BY <1>18, AllQueues DEF TypeOK, Ownership, WakeupComing, StartPreempt, Goto
  <2>3. NoLostWakeup'
    BY <1>18, AllQueues DEF TypeOK, Ownership, NoLostWakeup, WillCheck, WakeupComing, PreemptComing, StartPreempt, Goto
  <2> QED BY <2>1, <2>2, <2>3
<1>19. ASSUME NEW p \in Places, NEW t \in Tasks, PushPrivate(p, t) PROVE IInv'
  <2>1. TypeOK'
    BY <1>19, AllQueues DEF TypeOK, PushPrivate, Goto
  <2>2. Ownership'
    BY <1>19, AllQueues DEF TypeOK, Ownership, WakeupComing, PushPrivate, Goto
  <2>3. NoLostWakeup'
    BY <1>19, AllQueues DEF TypeOK, Ownership, NoLostWakeup, WillCheck, WakeupComing, PreemptComing, PushPrivate, Goto
  <2> QED BY <2>1, <2>2, <2>3
<1>20. ASSUME NEW p \in Places, NEW d \in Places, NEW t \in Tasks, PushShared(p, d, t) PROVE IInv'
  <2>1. Q!Push(queue[d], t) \in QueueType(Tasks) /\ Q!Push(queue[d], t).locked
    BY AllQueues
  <2>2. /\ pc[p] = "handler" /\ queue[p].locked /\ queueSync[p].locked /\ nestingMonitor[p]
        /\ queue' = [queue EXCEPT ![d] = Q!Push(queue[d], t)]
        /\ UNCHANGED <<queueSync, nestingMonitor, irq, done>>
    BY <1>20 DEF PushShared, Ownership
  <2>3. CASE queue[d].locked
    <3>1. UNCHANGED <<pc, dest, after>>
      BY <1>20, <2>3 DEF PushShared, Goto
    <3>2. TypeOK'
      BY <2>1, <2>2, <3>1 DEF TypeOK
    <3>3. Ownership'
      BY <2>1, <2>2, <2>3, <3>1 DEF TypeOK, Ownership, WakeupComing
    <3>4. NoLostWakeup'
      BY <2>1, <2>2, <2>3, <3>1 DEF TypeOK, Ownership, NoLostWakeup, WillCheck, WakeupComing, PreemptComing
    <3> QED BY <3>2, <3>3, <3>4
  <2>4. CASE ~queue[d].locked
    <3>1. /\ pc' = [pc EXCEPT ![p] = "wakeup"]
          /\ dest' = [dest EXCEPT ![p] = d]
          /\ after' = [after EXCEPT ![p] = "handler"]
      BY <1>20, <2>4 DEF PushShared, Goto
    <3>2. TypeOK'
      BY <2>1, <2>2, <3>1 DEF TypeOK
    <3>3. Ownership'
      BY <2>1, <2>2, <3>1 DEF TypeOK, Ownership, WakeupComing
    <3>4. NoLostWakeup'
      BY <2>1, <2>2, <3>1 DEF TypeOK, Ownership, NoLostWakeup, WillCheck, WakeupComing, PreemptComing
    <3> QED BY <3>2, <3>3, <3>4
  <2> QED BY <2>3, <2>4
<1>21. CASE UNCHANGED vars
  BY <1>21 DEF TypeOK, Ownership, NoLostWakeup, WillCheck, WakeupComing, PreemptComing, vars
<1> QED BY <1>1, <1>2, <1>3, <1>4, <1>5, <1>6, <1>7, <1>8, <1>9, <1>10, <1>11, <1>12, <1>13, <1>14, <1>15, <1>16, <1>17, <1>18, <1>19, <1>20, <1>21 DEF Next, KernelStep

\* For any set of places: the wakeup protocol of pushShared(), pushSync(),
\* preempt() and processTasks() loses no wakeup.
THEOREM PlaceNoLostWakeup == Spec => []NoLostWakeup
<1>1. IInv => NoLostWakeup
  BY DEF IInv
<1> QED BY <1>1, InitIInv, NextIInv, PTL DEF Spec

\* For any set of places: handlers run only while the place owns its queues
\* and is marked active, as enterKernel() establishes.
THEOREM PlaceOwnsQueues == Spec => [](TypeOK /\ KernelOwnsQueues)
<1>1. IInv => TypeOK /\ KernelOwnsQueues
  BY DEF IInv, Ownership, KernelOwnsQueues
<1> QED BY <1>1, InitIInv, NextIInv, PTL DEF Spec

=============================================================================
