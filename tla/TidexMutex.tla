----------------------------- MODULE TidexMutex -----------------------------
(***************************************************************************)
(* The ticket-free FIFO spin lock of util/tidex-mutex/util/TidexMutex.hh.   *)
(* A thread announces itself in ingress and waits until egress shows the    *)
(* identifier that it found there.  The thread whose identifier is still in *)
(* egress enters with the bitwise complement of its identifier instead, so  *)
(* that its two rounds are told apart.                                      *)
(*                                                                         *)
(* Threads are their identifiers.  MaxID is the largest value of ThreadID   *)
(* (2^16-1 in the kernel), hence ~t is MaxID - t.                           *)
(***************************************************************************)
EXTENDS Integers, Sequences

CONSTANTS Threads,             \* the identifiers of the threads that use the mutex
          MaxID,               \* all bits of ThreadID set
          INVALID_THREAD_ID    \* 0xFF00: the initial value of ingress and egress

Neg(t) == MaxID - t

ThreadIDs == 0 .. MaxID

\* No identifier in use is the complement of another one (all are below the
\* top bit of ThreadID).  INVALID_THREAD_ID may be such a complement: 0xFF00
\* is ~255.
ASSUME ThreadsAssumption ==
    /\ MaxID \in Nat
    /\ Threads \subseteq ThreadIDs
    /\ \A t, u \in Threads : t # Neg(u)
    /\ INVALID_THREAD_ID \in ThreadIDs \ Threads

VARIABLES ingress,   \* last acquiring thread
          egress,    \* last thread that released the mutex
          pc,        \* where each thread is in lock(), fun() or unlock()
          mytid,     \* lock()'s local mytid, nextEgress of the Lock object later
          prevtid,   \* lock()'s local prevtid
          queue      \* history: the threads between their exchange and their unlock

vars == <<ingress, egress, pc, mytid, prevtid, queue>>

Init ==
    /\ ingress = INVALID_THREAD_ID
    /\ egress = INVALID_THREAD_ID
    /\ pc = [t \in Threads |-> "idle"]
    /\ mytid = [t \in Threads |-> t]
    /\ prevtid = [t \in Threads |-> INVALID_THREAD_ID]
    /\ queue = <<>>

\* Mutant of ChooseID: the identifier is never complemented.
ChooseIDPlain(t) ==
    /\ pc[t] = "idle"
    /\ mytid' = [mytid EXCEPT ![t] = t]
    /\ pc' = [pc EXCEPT ![t] = "exchange"]
    /\ UNCHANGED <<ingress, egress, prevtid, queue>>

\* lock(): read egress and choose the identifier for this round.
ChooseID(t) ==
    /\ pc[t] = "idle"
    /\ mytid' = [mytid EXCEPT ![t] = IF egress = t THEN Neg(t) ELSE t]
    /\ pc' = [pc EXCEPT ![t] = "exchange"]
    /\ UNCHANGED <<ingress, egress, prevtid, queue>>

\* lock(): prevtid = ingress.exchange(mytid).
Exchange(t) ==
    /\ pc[t] = "exchange"
    /\ prevtid' = [prevtid EXCEPT ![t] = ingress]
    /\ ingress' = mytid[t]
    /\ queue' = Append(queue, t)
    /\ pc' = [pc EXCEPT ![t] = "spin"]
    /\ UNCHANGED <<egress, mytid>>

\* Mutant of Enter: the loop compares with ingress instead of egress.
EnterIngress(t) ==
    /\ pc[t] = "spin"
    /\ ingress = mytid[t]
    /\ pc' = [pc EXCEPT ![t] = "critical"]
    /\ UNCHANGED <<ingress, egress, mytid, prevtid, queue>>

\* lock(): the polling loop ends once egress shows the predecessor.
Enter(t) ==
    /\ pc[t] = "spin"
    /\ egress = prevtid[t]
    /\ pc' = [pc EXCEPT ![t] = "critical"]
    /\ UNCHANGED <<ingress, egress, mytid, prevtid, queue>>

\* ~Lock(): unlock(nextEgress).
Unlock(t) ==
    /\ pc[t] = "critical"
    /\ egress' = mytid[t]
    /\ queue' = Tail(queue)
    /\ pc' = [pc EXCEPT ![t] = "idle"]
    /\ UNCHANGED <<ingress, mytid, prevtid>>

Next == \E t \in Threads : ChooseID(t) \/ Exchange(t) \/ Enter(t) \/ Unlock(t)

\* A hardware thread inside the lock keeps executing: the kernel does not
\* preempt it and the protected functions end.  Nobody has to call lock().
Fairness == \A t \in Threads : WF_vars(Exchange(t) \/ Enter(t) \/ Unlock(t))

Spec == Init /\ [][Next]_vars
FairSpec == Spec /\ Fairness

-----------------------------------------------------------------------------

TypeOK ==
    /\ ingress \in ThreadIDs
    /\ egress \in ThreadIDs
    /\ pc \in [Threads -> {"idle", "exchange", "spin", "critical"}]
    /\ mytid \in [Threads -> ThreadIDs]
    /\ prevtid \in [Threads -> ThreadIDs]
    /\ queue \in Seq(Threads)

\* At most one thread is between lock() and unlock(), although a thread may
\* come back while its old identifier still shows in egress.
MutualExclusion ==
    \A t, u \in Threads : pc[t] = "critical" /\ pc[u] = "critical" => t = u

Fifo == INSTANCE FifoLock WITH held <- \E t \in Threads : pc[t] = "critical"

\* The lock is a FIFO lock: the threads hold it in the order of their
\* exchanges on ingress, and each step of the code is a step of FifoLock.
ImplementsFifoLock == Fifo!Spec

\* Nobody who announced itself waits forever for its predecessor's unlock().
NoStarvation == \A t \in Threads : pc[t] = "spin" ~> pc[t] = "critical"

\* Why it works: every waiting thread waits for the identifier of the one in
\* front of it, the first one for the value in egress, and the identifier of
\* a thread that is inside lock() or unlock() is never the one in egress.
ChainInv ==
    /\ \A t \in Threads : pc[t] \in {"spin", "critical"} <=> \E i \in DOMAIN queue : queue[i] = t
    /\ \A i, j \in DOMAIN queue : queue[i] = queue[j] => i = j
    /\ \A t \in Threads : pc[t] = "critical" => queue # <<>> /\ queue[1] = t
    /\ \A i \in DOMAIN queue :
          prevtid[queue[i]] = IF i = 1 THEN egress ELSE mytid[queue[i - 1]]
    /\ ingress = IF queue = <<>> THEN egress ELSE mytid[queue[Len(queue)]]
    /\ \A t \in Threads : mytid[t] \in {t, Neg(t)}
    /\ \A t \in Threads : pc[t] # "idle" => mytid[t] # egress

=============================================================================
