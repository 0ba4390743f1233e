--------------------------- MODULE ProcessorAllocator ---------------------------
(***************************************************************************)
(* The processor allocator: scheduling contexts (SCs, one per hardware     *)
(* thread) are granted to processes by putting a reference to sc[id] into  *)
(* their capability space, and come back when SchedulingContext::unbind()  *)
(* finds its ready queue empty and emits idleSC: freeSC() then revokes     *)
(* sc[id] and pushes the id on the free list.  All of it runs in one       *)
(* NestedMonitorDelegating; the request of SC id travels in its paTask.    *)
(* The SC of the init application is put into the capability space by the  *)
(* loader under the memory root ("boot"), not under sc[id] ("sc").         *)
(***************************************************************************)
EXTENDS Naturals, Sequences, FiniteSets, SequencesExt

CONSTANTS SCs, ECs, Spaces, InitSC, InitSpace, None,
          MaxFrees   \* bound: ids on the free list, on their way to it, or bound to an EC

VARIABLES freeList,  \* LiFoProcessorAllocator: the stack freeList[0 .. nFree-1]
          user,      \* <<space, SC>> -> the parent of the capability there: none, sc, boot
          sched,     \* EC -> its _sched reference [sc, root], or None
          ready,     \* the ECs in a ready queue
          task,      \* SC -> its paTask: unused, init (in the monitor's queue)
          waitq,     \* the monitor's requests: [op, of], of a space or an SC
          toBeFreed, \* the SC whose revocation runs, or None
          shared,    \* history: the SCs bound while an EC or a free request still used them
          failed     \* the SC whose paTask was sent while in use (an ASSERT fails), or None

vars == <<freeList, user, sched, ready, task, waitq, toBeFreed, shared, failed>>

\* init() frees every id; the plugin allocates one and the loader maps it for the init application.
Init ==
    /\ \E s \in SetToSeqs(SCs \ {InitSC}) : freeList = s
    /\ user = [x \in Spaces \X SCs |-> IF x = <<InitSpace, InitSC>> THEN "boot" ELSE "none"]
    /\ sched = [e \in ECs |-> None]
    /\ ready = {}
    /\ task = [c \in SCs |-> "unused"]
    /\ waitq = <<>> /\ toBeFreed = None /\ shared = {} /\ failed = None

On(c) == {e \in ECs : sched[e] # None /\ sched[e].sc = c}

\* alloc() of a process: the invocation waits for the monitor.
InvokeAlloc(s) ==
    /\ [op |-> "alloc", of |-> s] \notin Range(waitq)
    /\ waitq' = Append(waitq, [op |-> "alloc", of |-> s])
    /\ UNCHANGED <<freeList, user, sched, ready, task, toBeFreed, shared, failed>>

\* No SC is free, or the capability entry is not found, or it is not empty: what alloc() popped
\* goes back on the stack.
AllocFails(s) == UNCHANGED <<freeList, user>>

AllocGrants(s) ==
    /\ freeList # <<>> /\ user[<<s, Last(freeList)>>] = "none"
    /\ user' = [user EXCEPT ![<<s, Last(freeList)>>] = "sc"]
    /\ freeList' = Front(freeList)

ServeAlloc ==
    /\ toBeFreed = None /\ waitq # <<>> /\ Head(waitq).op = "alloc"
    /\ AllocFails(Head(waitq).of) \/ AllocGrants(Head(waitq).of)
    /\ waitq' = Tail(waitq)
    /\ UNCHANGED <<sched, ready, task, toBeFreed, shared, failed>>

\* freeSC()'s handler sets toBeFreed and revokes sc[id]: until the end it keeps the monitor.
ServeFree ==
    /\ toBeFreed = None /\ waitq # <<>> /\ Head(waitq).op = "free"
    /\ toBeFreed' = Head(waitq).of
    /\ task' = [task EXCEPT ![Head(waitq).of] = "unused"]
    /\ waitq' = Tail(waitq)
    /\ UNCHANGED <<freeList, user, sched, ready, shared, failed>>

\* The revocation deletes one reference in a capability space.
RevokeUser(s) ==
    /\ toBeFreed # None /\ user[<<s, toBeFreed>>] = "sc"
    /\ user' = [user EXCEPT ![<<s, toBeFreed>>] = "none"]
    /\ UNCHANGED <<freeList, sched, ready, task, waitq, toBeFreed, shared, failed>>

\* ExecutionContext::unbind() and SchedulingContext::unbind(): if nothing is left in the ready queue,
\* idleSC sends paTask, which has to be unused, to freeSC().
Unbind(e) ==
    LET c == sched[e].sc
        idle == ready \cap On(c) \subseteq {e}
    IN  /\ sched' = [sched EXCEPT ![e] = None]
        /\ ready' = ready \ {e}
        /\ task' = IF idle THEN [task EXCEPT ![c] = "init"] ELSE task
        /\ waitq' = IF idle THEN Append(waitq, [op |-> "free", of |-> c]) ELSE waitq
        /\ failed' = IF idle /\ task[c] # "unused" THEN c ELSE None
        /\ UNCHANGED <<freeList, user, toBeFreed, shared>>

\* The revocation deletes the reference an EC holds.
RevokeEC(e) == toBeFreed # None /\ sched[e] = [sc |-> toBeFreed, root |-> "sc"] /\ Unbind(e)

\* Mutant: the response comes while references are left.
RevokedEarly(c) == \A e \in ECs : sched[e] # [sc |-> c, root |-> "sc"]

Revoked(c) ==
    /\ \A s \in Spaces : user[<<s, c>>] # "sc"
    /\ \A e \in ECs : sched[e] # [sc |-> c, root |-> "sc"]

\* response(): the id goes on the free list, requestDone() lets the next request in.
Response ==
    /\ toBeFreed # None /\ Revoked(toBeFreed)
    /\ freeList' = Append(freeList, toBeFreed)
    /\ toBeFreed' = None
    /\ UNCHANGED <<user, sched, ready, task, waitq, shared, failed>>

Frees(c) == {i \in DOMAIN waitq : waitq[i] = [op |-> "free", of |-> c]}

\* An EC is on c, or c is on its way to the free list or on it already.
InUse(c) == On(c) # {} \/ Frees(c) # {} \/ c \in {toBeFreed} \cup Range(freeList)

Outstanding ==
    Len(freeList) + Cardinality(UNION {Frees(c) : c \in SCs} \cup UNION {On(c) : c \in SCs})
        + (IF toBeFreed = None THEN 0 ELSE 1)

\* A process creates or configures an EC with its SC.  Nothing in setSchedulingContext() asks
\* whether the SC is used already.
Bind(e, s, c) ==
    /\ Outstanding < MaxFrees
    /\ sched[e] = None /\ user[<<s, c>>] # "none"
    /\ sched' = [sched EXCEPT ![e] = [sc |-> c, root |-> user[<<s, c>>]]]
    /\ shared' = IF InUse(c) THEN shared \cup {c} ELSE shared
    /\ UNCHANGED <<freeList, user, ready, task, waitq, toBeFreed, failed>>

\* The EC is deleted, or its SC unset.
Reset(e) == sched[e] # None /\ Unbind(e)

\* The EC becomes ready, or is pulled from the ready queue to run.
Schedule(e) ==
    /\ sched[e] # None
    /\ ready' = IF e \in ready THEN ready \ {e} ELSE ready \cup {e}
    /\ UNCHANGED <<freeList, user, sched, task, waitq, toBeFreed, shared, failed>>

\* A process deletes its capability to the SC.
DeleteUser(s, c) ==
    /\ user[<<s, c>>] # "none"
    /\ user' = [user EXCEPT ![<<s, c>>] = "none"]
    /\ UNCHANGED <<freeList, sched, ready, task, waitq, toBeFreed, shared, failed>>

Monitor ==
    \/ ServeAlloc \/ ServeFree \/ Response
    \/ \E s \in Spaces : RevokeUser(s)
    \/ \E e \in ECs : RevokeEC(e)

Processes ==
    \/ \E s \in Spaces : InvokeAlloc(s) \/ \E c \in SCs : DeleteUser(s, c)
    \/ \E e \in ECs : Reset(e) \/ Schedule(e) \/ \E s \in Spaces, c \in SCs : Bind(e, s, c)

\* A failed ASSERT stops the kernel.
Next == failed = None /\ (Monitor \/ Processes)

Spec == Init /\ [][Next]_vars
-----------------------------------------------------------------------------
\* An SC on the free list is there once and is nobody's: no process has it from the allocator and no
\* EC is scheduled on it (response() of the revocation against alloc(), its error paths and the ECs'
\* resets); and paTask is never sent while it is on its way, as Tasklet::set() asserts.  The code
\* keeps this only for an SC that was never given to an EC while another EC, or the free request of
\* one, still used it: each of them emits idleSC when it is unbound, so that response() pushes the
\* same id twice, or paTask is set while it is queued.  Such an SC does not spoil the others.
FreeListExact ==
    /\ failed # None => failed \in shared
    /\ \A i, j \in DOMAIN freeList : freeList[i] = freeList[j] => i = j \/ freeList[i] \in shared
    /\ \A c \in Range(freeList) \ shared : On(c) = {} /\ \A s \in Spaces : user[<<s, c>>] # "sc"
=============================================================================
