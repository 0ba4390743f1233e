------------------------------- MODULE Portal -------------------------------
(***************************************************************************)
(* Invocations through portals (objects/portal) together with the runtime  *)
(* library that uses them (runtime/async).  A user thread locks a           *)
(* PortalBase, resets its future and enters the kernel with                 *)
(* syscall_invoke_poll().  Portal::sendInvocation() passes the message to   *)
(* the destination, whose handler answers later from any place.  The answer *)
(* queues the portal's handle at the owner's execution context; a poll or   *)
(* wait of that context pulls the handle and assigns the portal's future.   *)
(* The thread that invokes may run on another context than the owner.       *)
(*                                                                         *)
(* Sleeping and waking of the context is the subject of Scheduling.         *)
(***************************************************************************)
EXTENDS Naturals, Sequences, FiniteSets, Functions

CONSTANTS Portals, ECs,
          Dests,        \* the capability maps that hold the destinations
          None

VARIABLES state,        \* Portal::portalState
          dest,         \* Portal::currentDest
          serving,      \* the destination that works on the message, and how far the answer is
          owner,        \* Portal::_owner
          entryRefs,    \* references each capability map counts (CapMap::monitor)
          queue,        \* ExecutionContext::eventQueue
          refcount,     \* PortalBase::refcount
          future,       \* FutureBase::_error
          asked,        \* the destination (c) each future waits for and the context (by) that waits
          thread,       \* what each context's thread does in the kernel
          failed        \* an ASSERT of Portal did not hold

vars == <<state, dest, serving, owner, entryRefs, queue, refcount, future, asked, thread, failed>>
library == <<refcount, future, asked>>

UNSET == "UNSET"
Idle == [at |-> "user", p |-> None, c |-> None]
Errors == {"INVALID_CAPABILITY", "NO_LOOKUP", "PORTAL_NOT_OPEN"}
NotAsked == [c |-> None, by |-> None]
NoAnswer == [at |-> "none", c |-> None, to |-> None]

Init ==
    /\ state = [p \in Portals |-> "OPEN"]
    /\ dest = [p \in Portals |-> None]
    /\ serving = [p \in Portals |-> NoAnswer]
    /\ owner \in [Portals -> ECs]
    /\ entryRefs = [c \in Dests |-> 0]
    /\ queue = [e \in ECs |-> <<>>]
    /\ refcount = [p \in Portals |-> 0]
    /\ future = [p \in Portals |-> UNSET]
    /\ asked = [p \in Portals |-> NotAsked]
    /\ thread = [e \in ECs |-> Idle]
    /\ failed = FALSE

Asserted(cond) == failed' = (failed \/ ~cond)

-----------------------------------------------------------------------------
(* The library *)

\* PortalLock: acquire(), then invoke() with reset() of the future and the system call.
Invoke(e, p, c) ==
    /\ thread[e].at = "user"
    /\ refcount[p] = 0
    /\ refcount' = [refcount EXCEPT ![p] = 1]
    /\ future' = [future EXCEPT ![p] = UNSET]
    /\ asked' = [asked EXCEPT ![p] = [c |-> c, by |-> e]]
    /\ thread' = [thread EXCEPT ![e] = [at |-> "lookup", p |-> p, c |-> c]]
    /\ UNCHANGED <<state, dest, serving, owner, entryRefs, queue, failed>>

\* The future is read and the lock released.
Release(p) ==
    /\ refcount[p] = 1 /\ future[p] # UNSET
    /\ refcount' = [refcount EXCEPT ![p] = 0]
    /\ asked' = [asked EXCEPT ![p] = NotAsked]
    /\ UNCHANGED <<state, dest, serving, owner, entryRefs, queue, future, thread, failed>>

\* poll() or wait(): the kernel pulls a handle, Portal::deliverKEvent() opens
\* the portal and its future is assigned.
Poll(e) ==
    /\ thread[e].at \in {"user", "poll"}
    /\ queue[e] # <<>>
    /\ LET p == Head(queue[e]) IN
       /\ Asserted(state[p] = "REPLYING")
       /\ state' = [state EXCEPT ![p] = "OPEN"]
       /\ future' = [future EXCEPT ![p] = serving[p].c]
    /\ queue' = [queue EXCEPT ![e] = Tail(@)]
    /\ thread' = [thread EXCEPT ![e] = Idle]
    /\ UNCHANGED <<dest, serving, owner, entryRefs, refcount, asked>>

\* The poll at the end of an invocation finds no event.
PollNothing(e) ==
    /\ thread[e].at = "poll" /\ queue[e] = <<>>
    /\ thread' = [thread EXCEPT ![e] = Idle]
    /\ UNCHANGED <<state, dest, serving, owner, entryRefs, queue, library, failed>>

-----------------------------------------------------------------------------
(* Portal::sendInvocation() *)

\* lookupRef() by the owner and the assignment of currentDest and destCap.  The owner or the entry
\* may be missing, and the capability in the entry may not be usable.
Lookup(e) ==
    LET p == thread[e].p
        Fail(error) == thread' = [thread EXCEPT ![e] = Idle] /\ future' = [future EXCEPT ![p] = error]
    IN  /\ thread[e].at = "lookup"
        /\ \/ Fail("INVALID_CAPABILITY") /\ UNCHANGED dest
           \/ /\ owner[p] # None
              /\ dest' = [dest EXCEPT ![p] = thread[e].c]
              /\ \/ Fail("NO_LOOKUP")
                 \/ thread' = [thread EXCEPT ![e].at = "send"] /\ UNCHANGED future
        /\ UNCHANGED <<state, serving, owner, entryRefs, queue, refcount, asked, failed>>

\* currentDest.acquire()
EntryRefsAcquired(p) == [entryRefs EXCEPT ![dest[p]] = @ + 1]

\* The compare-and-exchange decides; then the destination gets the message.
Send(e) ==
    LET p == thread[e].p IN
    /\ thread[e].at = "send"
    /\ IF state[p] # "OPEN"
       THEN /\ thread' = [thread EXCEPT ![e] = Idle]
            /\ future' = [future EXCEPT ![p] = "PORTAL_NOT_OPEN"]
            /\ UNCHANGED <<state, entryRefs, serving>>
       ELSE /\ state' = [state EXCEPT ![p] = "INVOKING"]
            /\ entryRefs' = EntryRefsAcquired(p)
            /\ serving' = [serving EXCEPT ![p] = [at |-> "work", c |-> dest[p], to |-> None]]
            /\ thread' = [thread EXCEPT ![e].at = "poll"]
            /\ UNCHANGED future
    /\ UNCHANGED <<dest, owner, queue, refcount, asked, failed>>

-----------------------------------------------------------------------------
(* The destination's handler *)

\* currentDest.release()
ReleaseDest(p) ==
    /\ entryRefs' = IF dest[p] = None THEN entryRefs ELSE [entryRefs EXCEPT ![dest[p]] = @ - 1]
    /\ dest' = [dest EXCEPT ![p] = None]

\* Mutant: the portal is not marked as replying before its handle is queued.
StateUnmarked(p) == state

StateReplying(p) == [state EXCEPT ![p] = "REPLYING"]

\* replyResponse() up to the change of state.
ReplyResponse(p) ==
    /\ serving[p].at = "work"
    /\ Asserted(state[p] = "INVOKING")
    /\ ReleaseDest(p)
    /\ state' = StateReplying(p)
    /\ serving' = [serving EXCEPT ![p].at = "reply"]
    /\ UNCHANGED <<owner, queue, library, thread>>

\* deletionResponse(): the portal's RevokeOperation works on the request ...
DeletionResponse(p) ==
    /\ serving[p].at = "work"
    /\ Asserted(state[p] = "INVOKING")
    /\ ReleaseDest(p)
    /\ serving' = [serving EXCEPT ![p].at = "delete"]
    /\ UNCHANGED <<state, owner, queue, library, thread>>

\* ... and answers with response().
Response(p) ==
    /\ serving[p].at = "delete"
    /\ Asserted(state[p] = "INVOKING")
    /\ state' = StateReplying(p)
    /\ serving' = [serving EXCEPT ![p].at = "reply"]
    /\ UNCHANGED <<dest, owner, entryRefs, queue, library, thread>>

\* Mutant: an owner that is still in its invocation is not told.
IdleOwner(p) == IF owner[p] # None /\ thread[owner[p]].at = "poll" THEN None ELSE owner[p]

Recipient(p) == owner[p]

\* _owner.get(): without an owner nobody is told.
GetOwner(p) ==
    /\ serving[p].at = "reply"
    /\ serving' = [serving EXCEPT ![p].at = IF Recipient(p) = None THEN "none" ELSE "attach", ![p].to = Recipient(p)]
    /\ UNCHANGED <<state, dest, owner, entryRefs, queue, library, thread, failed>>

\* attachKEvent()
AttachKEvent(p) ==
    /\ serving[p].at = "attach"
    /\ queue' = [queue EXCEPT ![serving[p].to] = Append(@, p)]
    /\ serving' = [serving EXCEPT ![p].at = "none"]
    /\ UNCHANGED <<state, dest, owner, entryRefs, library, thread, failed>>

-----------------------------------------------------------------------------

Answer(p) == ReplyResponse(p) \/ DeletionResponse(p) \/ Response(p) \/ GetOwner(p) \/ AttachKEvent(p)
Syscall(e) == Lookup(e) \/ Send(e) \/ Poll(e) \/ PollNothing(e)

Next ==
    \/ \E p \in Portals : Answer(p) \/ Release(p)
    \/ \E e \in ECs : Syscall(e) \/ \E p \in Portals, c \in Dests : Invoke(e, p, c)

\* Handlers answer, system calls return, and a thread that waits for a future polls until it is set,
\* whatever else it does meanwhile.  A thread that does not wait for a future need not poll.
WaitsForFuture(e) == \E p \in Portals : refcount[p] = 1 /\ asked[p].by = e /\ future[p] = UNSET

Fairness ==
    /\ \A p \in Portals : WF_vars(Answer(p))
    /\ \A e \in ECs : WF_vars(thread[e].at # "user" /\ Syscall(e)) /\ SF_vars(WaitsForFuture(e) /\ Poll(e))

Spec == Init /\ [][Next]_vars
FairSpec == Spec /\ Fairness

-----------------------------------------------------------------------------

\* The portals whose messages the destination c works on.
Serving(c) == {p \in Portals : serving[p].at = "work" /\ serving[p].c = c}

\* A portal answers each invocation once and in the right state: the ASSERTs
\* in replyResponse(), deletionResponse(), response() and deliverKEvent() hold,
\* and a portal's handle is in a queue at most once and only while it replies.
\* The capability map of the destination is referenced from the send to the
\* answer and not longer: the release always meets the entry that was acquired.
PortalProtocol ==
    /\ ~failed
    /\ \A p \in Portals, e \in ECs : \A i, j \in DOMAIN queue[e] :
          queue[e][i] = p /\ queue[e][j] = p => i = j /\ state[p] = "REPLYING"
    /\ \A c \in Dests : entryRefs[c] = Cardinality(Serving(c))

\* A thread that invokes through a portal of its own context gets the answer of the destination it
\* has asked or an error of sendInvocation(), although one poll receives the events of all portals
\* of the context.  (The answer to an invocation through another context's portal arrives there, and
\* its future is set when the owner happens to poll.)
RepliesArrive ==
    \A p \in Portals :
        (refcount[p] = 1 /\ asked[p].by = owner[p]) ~> (future[p] \in {asked[p].c} \cup Errors)
=============================================================================
