------------------------------- MODULE MCQueues -------------------------------
(***************************************************************************)
(* Instances of what hands messages or critical sections from one thread   *)
(* to another: TidexMutex, the queue behind all monitors (TaskletQueue),   *)
(* MutexDelegating, DebugChannel and Portal.  They share no state: a       *)
(* behaviour is one of a single part, chosen at the start, while the other *)
(* parts stay in their initial states.                                     *)
(***************************************************************************)
EXTENDS TidexMutex, TLC

CONSTANTS t1, t2, t3, None,           \* tasklets or threads
          w1, w2, e1, e2, d1, d2      \* portals, execution contexts, destinations

VARIABLES part,
          sharedTail, privateTail, next, tpc, cur, oldtail, owns, fifo,
          mqueue, mpc, done, msg, handoverCount, NDEBUG,
          slotz, writePos, readPos, cpc, handle, left, sent, host, stream, logged,
          state, dest, serving, owner, entryRefs, events, refcount, future, asked, thread, failed

tasklets == <<sharedTail, privateTail, next, tpc, cur, oldtail, owns, fifo>>
delegating == <<mqueue, mpc, done, msg, handoverCount, NDEBUG>>
channel == <<slotz, writePos, readPos, cpc, handle, left, sent, host, stream, logged>>
portal == <<state, dest, serving, owner, entryRefs, events, refcount, future, asked, thread, failed>>

MCTasklets == {t1, t2, t3}
T == INSTANCE TaskletQueue WITH Tasklets <- MCTasklets, pc <- tpc

M == INSTANCE MutexDelegating WITH HandoverLimit <- 2, queue <- mqueue, pc <- mpc

MCLengths == (t1 :> {2}) @@ (t2 :> {1})

C == INSTANCE DebugChannel WITH
    Threads <- {t1, t2}, SLOTS <- 2, Width <- 3, Lengths <- MCLengths, Turns <- 4, pc <- cpc

MCPortals == {w1, w2}
MCECs == {e1, e2}
MCDests == {d1, d2}
W == INSTANCE Portal WITH Portals <- MCPortals, ECs <- MCECs, Dests <- MCDests, queue <- events

\* Both portals belong to e1; e2 uses them as well.
MCInit ==
    /\ part \in {"tidex", "tasklets", "delegating", "channel", "portal"}
    /\ Init /\ T!Init /\ M!Init /\ C!Init /\ W!Init
    /\ part # "delegating" => ~NDEBUG
    /\ owner = [w \in MCPortals |-> e1]

MCNext ==
    /\ UNCHANGED part
    /\ \/ part = "tidex" /\ Next /\ UNCHANGED <<tasklets, delegating, channel, portal>>
       \/ part = "tasklets" /\ T!Next /\ UNCHANGED <<vars, delegating, channel, portal>>
       \/ part = "delegating" /\ M!Next /\ UNCHANGED <<vars, tasklets, channel, portal>>
       \/ part = "channel" /\ C!Next /\ UNCHANGED <<vars, tasklets, delegating, portal>>
       \/ part = "portal" /\ W!Next /\ UNCHANGED <<vars, tasklets, delegating, channel>>

\* The fairness of the five modules.
MCFairness ==
    /\ \A t \in Threads : WF_vars(part = "tidex" /\ (Exchange(t) \/ Enter(t) \/ Unlock(t)))
    /\ \A p \in Threads : WF_tasklets(part = "tasklets" /\ T!Step(p))
    /\ SF_tasklets(part = "tasklets" /\ \E p \in Threads : T!HandlerDone(p))
    /\ \A p \in Threads : WF_delegating(part = "delegating" /\ M!Step(p))
    /\ WF_channel(part = "channel" /\ C!Host)
    /\ \A t \in {t1, t2} : WF_channel(part = "channel" /\ C!Thread(t))
    /\ \A w \in MCPortals : WF_portal(part = "portal" /\ W!Answer(w))
    /\ \A e \in MCECs :
         /\ WF_portal(part = "portal" /\ thread[e].at # "user" /\ W!Syscall(e))
         /\ SF_portal(part = "portal" /\ W!WaitsForFuture(e) /\ W!Poll(e))

MCSpec == MCInit /\ [][MCNext]_<<part, vars, tasklets, delegating, channel, portal>> /\ MCFairness

\* TaskletQueue: push() and tryAcquire() give the queue to one thread at a
\* time, and a queue without owner is empty.
SingleOwner == T!SingleOwner

\* TaskletQueue: the queue is the FIFO lock queue that its users rely on.
ImplementsDelegationQueue == T!ImplementsDelegationQueue

\* MutexDelegating: one combiner at a time, and every critical section runs
\* within the call of atomic() that asked for it; with NDEBUG a locked queue
\* always has a combiner.
SectionWithinCall == M!TypeOK /\ M!SingleCombiner /\ M!SectionWithinCall

\* Every lock() returns, every tasklet that was pushed to a TaskletQueue is run,
\* and every atomic() returns unless a build without NDEBUG loses the handover.
CallsReturn == NoStarvation /\ T!EventuallyRun /\ M!AtomicReturns

\* DebugChannel: what the host has collected of a message is the beginning of
\* exactly that message, and what it has logged is the message before.
StreamsInOrder == C!StreamsInOrder

\* DebugChannel: every message that a thread has begun to write is logged.
MessagesLogged == C!MessagesLogged

\* Portal: a portal is busy exactly while its message or its answer is under
\* way, and counts one reference on the map of its destination.
PortalProtocol == W!PortalProtocol

\* Portal: an invocation by the owner of the portal gets the answer of its
\* destination, or an error.
RepliesArrive == W!RepliesArrive
=============================================================================
