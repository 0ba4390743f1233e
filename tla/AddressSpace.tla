------------------------------ MODULE AddressSpace ------------------------------
(***************************************************************************)
(* Address spaces on the hardware threads.  Every place runs one execution *)
(* context (EC), which loads its root page map into cr3 when it resumes.   *)
(* When a root map is revoked, the ECs that use it are suspended one after *)
(* the other (setFlagsSuspend(), synchronously if they run), then the      *)
(* delete broadcast passes the places that are in the kernel, then         *)
(* deleteObject() sends PML4InvalidationBroadcast to the places whose cr3  *)
(* still holds the map, and only then its memory is freed.  A place that   *)
(* goes to sleep or enters the kernel keeps its cr3.                       *)
(* One revocation at a time.  The flags of an EC are reduced to blocked    *)
(* (NO_AS ...) and running (neither NOT_RUNNING nor DONT_PREEMPT).         *)
(***************************************************************************)
EXTENDS PlaceRing

CONSTANTS Roots, Kernel, None

ASSUME RootsAssumption == Kernel \notin Roots /\ None \notin Roots

VARIABLES pc,       \* place -> kernel (isActive()), resume, load, user, idle
          found,    \* place -> the root map that resume() has found in _as
          cr3,      \* place -> its _cr3: a root map, or the kernel's
          as,       \* place -> the root map its EC's _as refers to, or None
          blocked,  \* places whose EC has NO_AS set, or another blocking flag
          running,  \* places whose EC may be in user mode
          root,     \* root map -> usable, revoked, freed
          op        \* the revocation: [phase, of, by, at, start], at: the place it is at or waits for

vars == <<pc, found, cr3, as, blocked, running, root, op>>

NoOp == [phase |-> "none"]
Tasks(p) == pc[p] = "kernel"   \* the place runs the tasklets sent to it

Init ==
    /\ pc = [p \in Places |-> "kernel"]
    /\ found = [p \in Places |-> None]
    /\ cr3 = [p \in Places |-> Kernel]
    /\ as \in [Places -> Roots]
    /\ blocked = {} /\ running = {}
    /\ root = [r \in Roots |-> "usable"]
    /\ op = NoOp

\* runUser(): processTasks() has emptied the queues and tryRunUser() resumes the EC: the flags are
\* checked and NOT_RUNNING cleared in one step.  Without a ready EC the place goes to sleep.
RunUser(p) ==
    /\ pc[p] = "kernel"
    /\ ~(op.phase \in {"unbind", "killed", "wait"} /\ op.by = p)
    /\ ~(op.phase \in {"wait", "broadcast", "delete", "invalidate"} /\ op.at = p)
    /\ pc' = [pc EXCEPT ![p] = IF p \in blocked THEN "idle" ELSE "resume"]
    /\ running' = IF p \in blocked THEN running ELSE running \cup {p}
    /\ UNCHANGED <<found, cr3, as, blocked, root, op>>

\* resume() checks the _as reference once more ...
CheckAS(p) ==
    /\ pc[p] = "resume"
    /\ pc' = [pc EXCEPT ![p] = IF as[p] = None THEN "idle" ELSE "load"]
    /\ found' = [found EXCEPT ![p] = as[p]]
    /\ UNCHANGED <<cr3, as, blocked, running, root, op>>

\* ... and Place::setCR3() loads the table.
LoadCR3(p) ==
    /\ pc[p] = "load"
    /\ cr3' = [cr3 EXCEPT ![p] = found[p]]
    /\ found' = [found EXCEPT ![p] = None]
    /\ pc' = [pc EXCEPT ![p] = "user"]
    /\ UNCHANGED <<as, blocked, running, root, op>>

\* A system call, a trap, or the interrupt that wakes the place up.
EnterKernel(p) ==
    /\ pc[p] \in {"user", "idle"}
    /\ pc' = [pc EXCEPT ![p] = "kernel"]
    /\ running' = IF pc[p] = "user" THEN running \ {p} ELSE running
    /\ UNCHANGED <<found, cr3, as, blocked, root, op>>
-----------------------------------------------------------------------------
\* Place q starts to revoke or delete a root map.
Revoke(q, r) ==
    /\ Tasks(q) /\ op = NoOp /\ root[r] = "usable"
    /\ root' = [root EXCEPT ![r] = "revoked"]
    /\ op' = [phase |-> "unbind", of |-> r, by |-> q, at |-> q, start |-> q]
    /\ UNCHANGED <<pc, found, cr3, as, blocked, running>>

Unchanged == UNCHANGED <<pc, found, running, root>>

\* The _as reference of one EC is killed and unlinked, it cannot be used from now on.
KillRef(p) ==
    /\ op.phase = "unbind" /\ as[p] = op.of
    /\ as' = [as EXCEPT ![p] = None]
    /\ op' = [op EXCEPT !.phase = "killed", !.at = p]
    /\ Unchanged /\ UNCHANGED <<cr3, blocked>>

\* setFlagsSuspend() waits for a synchronous task on the place of a running EC.
Suspend(p) == IF p \in running /\ p # op.by THEN "wait" ELSE "unbind"

\* ExecutionContext::unbind(IPageMap) sets NO_AS.
Unbind ==
    /\ op.phase = "killed"
    /\ blocked' = blocked \cup {op.at}
    /\ op' = [op EXCEPT !.phase = Suspend(op.at)]
    /\ Unchanged /\ UNCHANGED <<cr3, as>>

\* The place has run the synchronous task.
Suspended ==
    /\ op.phase = "wait" /\ Tasks(op.at)
    /\ op' = [op EXCEPT !.phase = "unbind"]
    /\ Unchanged /\ UNCHANGED <<cr3, as, blocked>>

\* DeleteBroadcast::broadcast(): to the next active place, at the end back to the home of the monitor.
Forward(p) ==
    LET n == NextIn(p, {op.start} \cup {q \in Places : pc[q] = "kernel"})
    IN  /\ op' = [op EXCEPT !.phase = IF n = op.start THEN "delete" ELSE "broadcast", !.at = n]
        /\ Unchanged /\ UNCHANGED <<cr3, as, blocked>>

StartBroadcast == op.phase = "unbind" /\ (\A p \in Places : as[p] # op.of) /\ Forward(op.start)
Broadcast == op.phase = "broadcast" /\ Tasks(op.at) /\ Forward(op.at)

\* deleteObject() on the monitor's home starts the invalidation there.
DeleteObject ==
    /\ op.phase = "delete" /\ Tasks(op.at)
    /\ op' = [op EXCEPT !.phase = "invalidate"]
    /\ Unchanged /\ UNCHANGED <<cr3, as, blocked>>

\* Mutant: only the next place is looked at.
RelayNext(p, start, r) == IF cr3[Hop(p, 1)] = r THEN Hop(p, 1) ELSE start

Relay(p, start, r) == NextIn(p, {start} \cup {q \in Places : cr3[q] = r})

\* PML4InvalidationBroadcast::broadcast() on one place; response() frees the tables at the end.
Invalidate ==
    LET n == Relay(op.at, op.start, op.of)
    IN  /\ op.phase = "invalidate" /\ Tasks(op.at)
        /\ cr3' = [cr3 EXCEPT ![op.at] = IF @ = op.of THEN Kernel ELSE @]
        /\ op' = IF n = op.start THEN NoOp ELSE [op EXCEPT !.at = n]
        /\ root' = IF n = op.start THEN [root EXCEPT ![op.of] = "freed"] ELSE root
        /\ UNCHANGED <<pc, found, as, blocked, running>>

\* A place binds its suspended EC to another address space.
Bind(p, r) ==
    /\ Tasks(p) /\ as[p] = None /\ p \in blocked /\ root[r] = "usable"
    /\ as' = [as EXCEPT ![p] = r]
    /\ blocked' = blocked \ {p}
    /\ UNCHANGED <<pc, found, cr3, running, root, op>>

Next ==
    \/ \E p \in Places : RunUser(p) \/ CheckAS(p) \/ LoadCR3(p) \/ EnterKernel(p) \/ KillRef(p)
    \/ \E p \in Places, r \in Roots : Revoke(p, r) \/ Bind(p, r)
    \/ Unbind \/ Suspended \/ StartBroadcast \/ Broadcast \/ DeleteObject \/ Invalidate

\* Another caller suspends the EC, for example through its portal: setFlagsSuspend() sets
\* DONT_PREEMPT before it waits, and the next caller takes that for not running.
SuspendOther(p) ==
    /\ p \in running
    /\ running' = running \ {p}
    /\ blocked' = blocked \cup {p}
    /\ UNCHANGED <<pc, found, cr3, as, root, op>>

NextSuspend == Next \/ \E p \in Places : SuspendOther(p)

Spec == Init /\ [][Next]_vars
SpecSuspend == Init /\ [][NextSuspend]_vars
-----------------------------------------------------------------------------
\* No place uses, or is about to load, a root map whose memory has been freed: neither resume()
\* between its check of _as and setCR3(), nor a sleeping place that still has it in cr3.
NoFreedTable ==
    \A p \in Places, r \in Roots : root[r] = "freed" => cr3[p] # r /\ found[p] # r
=============================================================================
