------------------------------ MODULE CapTree ------------------------------
(***************************************************************************)
(* The capability inheritance tree: the circular doubly linked list of      *)
(* CapEntry with its per-entry spin locks, the operations of CapEntry and   *)
(* capability-utils, and the synchronous phase of RevokeOperation with the  *)
(* deletion of a capability map's own entries, at the granularity of single *)
(* atomic memory accesses.                                                  *)
(*                                                                         *)
(* Each entry has the words _cap (st, val), _next (nx, locked) and _prev    *)
(* (pv, revoking).  A scenario says which tree the system starts with and   *)
(* which operations each thread may run one after the other; a failed       *)
(* assertion panics and stops the system.                                   *)
(***************************************************************************)
EXTENDS Naturals, Sequences, FiniteSets, Caps

CONSTANTS Threads,
          Entries,
          Root,         \* the entry of initRoot()
          RootObject,
          Null,
          Guarded,      \* the objects whose deletion is refused: _guarded or a failing deleteCap()
          Scenarios,    \* records with the entries behind the root (tree), the entries that a map
                        \* holds (slots), the operations of each thread (ops), the entries it starts
                        \* them at (on), those it puts new capabilities into (free), the bound on the
                        \* number of operations (max), and which operations may meet at neighbouring
                        \* entries (race: "none", "insert" or "remove")
          MaxOps        \* the largest bound

VARIABLES scenario,
          st, val,          \* CapEntry::_cap: state and value
          nx, locked,       \* CapEntry::_next: pointer and LOCKED_FLAG
          pv, revoking,     \* CapEntry::_prev: pointer and REVOKING_FLAG
          pc, loc,          \* program counter and locals of each thread
          started,          \* number of operations started by each thread
          deletes,          \* how often deleteObject() was called for each object
          victims,          \* history: the descendants at the start of the thread's revoke or delete
          panic             \* whether an assertion has failed

tree == <<st, val, nx, locked, pv, revoking>>
vars == <<scenario, st, val, nx, locked, pv, revoking, pc, loc, started, deletes, victims, panic>>

NoValue == Original(RootObject)
NoLocals == [op |-> "none", e |-> Null, val |-> NoValue, zombie |-> FALSE, cur |-> Null, p |-> Null,
             tgt |-> Null, new |-> NoValue, slots |-> <<>>, failed |-> FALSE, caller |-> Null]

\* The ring through the root and the entries of a tree, as insertions leave it.
Ring0(tr) == <<Root>> \o [i \in DOMAIN tr |-> tr[i].entry]
Index(s, e) == CHOOSE i \in DOMAIN s : s[i] = e

InitTree(tr) ==
    LET r == Ring0(tr)
        Linked(e) == \E i \in DOMAIN r : r[i] = e
    IN  /\ st = [e \in Entries |-> IF Linked(e) THEN "usable" ELSE "empty"]
        /\ val = [e \in Entries |-> IF Linked(e) /\ e # Root THEN tr[Index(r, e) - 1].val ELSE NoValue]
        /\ nx = [e \in Entries |-> IF Linked(e) THEN r[(Index(r, e) % Len(r)) + 1] ELSE Null]
        /\ pv = [e \in Entries |-> IF Linked(e) THEN r[((Index(r, e) + Len(r) - 2) % Len(r)) + 1] ELSE Null]

Init ==
    /\ scenario \in Scenarios
    /\ InitTree(scenario.tree)
    /\ locked = [e \in Entries |-> FALSE]
    /\ revoking = [e \in Entries |-> FALSE]
    /\ pc = [t \in Threads |-> "idle"]
    /\ loc = [t \in Threads |-> NoLocals]
    /\ started = [t \in Threads |-> 0]
    /\ deletes = [o \in Objects |-> 0]
    /\ victims = [t \in Threads |-> {}]
    /\ panic = FALSE

-----------------------------------------------------------------------------
(* Helpers.  ghost: what only bookkeeping changes. *)

ghost == <<started, deletes, victims>>

Goto(t, l) == ~panic /\ pc' = [pc EXCEPT ![t] = l] /\ UNCHANGED scenario

\* lock(): one successful attempt of the spin loop.
Lock(e) == ~locked[e] /\ locked' = [locked EXCEPT ![e] = TRUE]

\* unlock(), with its assertion.  Following a null link is an assertion, too.
Unlock(e) ==
    IF e = Null THEN panic' = TRUE /\ UNCHANGED locked
    ELSE panic' = ~locked[e] /\ locked' = [locked EXCEPT ![e] = FALSE]

\* The entries reached from e by n links.
RECURSIVE Ring(_, _)
Ring(e, n) == IF n = 0 \/ e = Null THEN {} ELSE {e} \cup Ring(nx[e], n - 1)

\* The entries behind e that isParentOf() makes children of value v, in a list that is intact.
RECURSIVE Descend(_, _, _)
Descend(v, e, n) ==
    IF n = 0 \/ e \in {Null, Root} \/ st[e] \notin {"usable", "zombie"} \/ ~IsParentOf(v, val[e]) THEN {}
    ELSE {e} \cup Descend(v, nx[e], n - 1)
Descendants(e) == Descend(val[e], nx[e], Cardinality(Entries))

\* A thread starts an operation.
Start(t, op, l, r) ==
    /\ op \in scenario.ops[t]
    /\ Goto(t, l)
    /\ loc' = [loc EXCEPT ![t] = r]
    /\ started' = [started EXCEPT ![t] = @ + 1]
    /\ UNCHANGED <<deletes, panic>>

\* An operation ends.  A _delete() that deleteEntry() has called returns to its loop over the slots
\* of a map, or with its error to the _delete() of that map.
Return(t) ==
    IF loc[t].caller = Null
    THEN Goto(t, "idle") /\ loc' = [loc EXCEPT ![t] = NoLocals]
    ELSE /\ Goto(t, IF loc[t].failed THEN "unlockEntry" ELSE "slot")
         /\ loc' = [loc EXCEPT ![t] = [loc[t].caller EXCEPT !.failed = loc[t].failed]]

-----------------------------------------------------------------------------
(* insertAfter(), called by inherit() for derive(), reference() and factories *)

\* An original is created for an object once.
Fresh(c) ==
    IsOriginal(c) =>
        /\ deletes[c.obj] = 0
        /\ \A e \in Entries : st[e] \in {"usable", "zombie"} => val[e] # c
        /\ \A t \in Threads : loc[t].op = "insert" => loc[t].new # c

\* Mutant: the child is appended to the ring instead of behind its parent.
InsertStartTail(t, e, x, c) ==
    LET p == IF st[pv[Root]] = "usable" THEN pv[Root] ELSE e IN
    /\ st[e] = "usable" /\ c \in Inheritable(val[e]) /\ Fresh(c)
    /\ x \in scenario.free[t] /\ st[x] = "empty"
    /\ Start(t, "insert", "insLock", [NoLocals EXCEPT !.op = "insert", !.e = p, !.val = val[p], !.tgt = x, !.new = c])
    /\ st' = [st EXCEPT ![x] = "allocated"]
    /\ UNCHANGED <<val, nx, locked, pv, revoking, victims>>

\* The caller has read the parent's value and acquires the target entry.
InsertStart(t, e, x, c) ==
    /\ st[e] = "usable" /\ c \in Inheritable(val[e]) /\ Fresh(c)
    /\ x \in scenario.free[t] /\ st[x] = "empty"
    /\ Start(t, "insert", "insLock", [NoLocals EXCEPT !.op = "insert", !.e = e, !.val = val[e], !.tgt = x, !.new = c])
    /\ st' = [st EXCEPT ![x] = "allocated"]
    /\ UNCHANGED <<val, nx, locked, pv, revoking, victims>>

InsertLock(t) ==
    /\ pc[t] = "insLock"
    /\ Lock(loc[t].e)
    /\ Goto(t, "insCheck")
    /\ UNCHANGED <<st, val, nx, pv, revoking, loc, ghost, panic>>

\* Lazy locking: is it still the same parent?
InsertCheck(t) ==
    /\ pc[t] = "insCheck"
    /\ Goto(t, IF st[loc[t].e] = "usable" /\ val[loc[t].e] = loc[t].val THEN "insPrev" ELSE "insFail")
    /\ UNCHANGED <<tree, loc, ghost, panic>>

InsertFail(t) ==
    /\ pc[t] = "insFail"
    /\ Unlock(loc[t].e)
    /\ Goto(t, "reset")
    /\ loc' = [loc EXCEPT ![t].cur = loc[t].tgt]
    /\ UNCHANGED <<st, val, nx, pv, revoking, ghost>>

\* next->setPrevPreserveFlags(&target).
InsertPrev(t) ==
    /\ pc[t] = "insPrev"
    /\ loc' = [loc EXCEPT ![t].cur = nx[loc[t].e]]
    /\ pv' = [pv EXCEPT ![nx[loc[t].e]] = loc[t].tgt]
    /\ panic' = (nx[loc[t].e] = Null)
    /\ Goto(t, "insNext")
    /\ UNCHANGED <<st, val, nx, locked, revoking, ghost>>

InsertNext(t) ==
    /\ pc[t] = "insNext"
    /\ nx' = [nx EXCEPT ![loc[t].tgt] = loc[t].cur]
    /\ locked' = [locked EXCEPT ![loc[t].tgt] = FALSE]
    /\ Goto(t, "insTarget")
    /\ UNCHANGED <<st, val, pv, revoking, loc, ghost, panic>>

InsertTarget(t) ==
    /\ pc[t] = "insTarget"
    /\ pv' = [pv EXCEPT ![loc[t].tgt] = loc[t].e]
    /\ revoking' = [revoking EXCEPT ![loc[t].tgt] = FALSE]
    /\ Goto(t, "insLink")
    /\ UNCHANGED <<st, val, nx, locked, loc, ghost, panic>>

\* The store to the parent's _next also unlocks it.
InsertLink(t) ==
    /\ pc[t] = "insLink"
    /\ nx' = [nx EXCEPT ![loc[t].e] = loc[t].tgt]
    /\ locked' = [locked EXCEPT ![loc[t].e] = FALSE]
    /\ Goto(t, "insCommit")
    /\ UNCHANGED <<st, val, pv, revoking, loc, ghost, panic>>

\* commit(), with its assertion isLinked().
InsertCommit(t) ==
    /\ pc[t] = "insCommit"
    /\ panic' = ~(st[loc[t].tgt] = "allocated" /\ nx[loc[t].tgt] # Null /\ pv[loc[t].tgt] # Null)
    /\ st' = [st EXCEPT ![loc[t].tgt] = "usable"]
    /\ val' = [val EXCEPT ![loc[t].tgt] = loc[t].new]
    /\ Return(t)
    /\ UNCHANGED <<nx, locked, pv, revoking, ghost>>

-----------------------------------------------------------------------------
(* Starting _delete(), _revoke(), resetReference() and moveTo() *)

Locals(op, e) == [NoLocals EXCEPT !.op = op, !.e = e]

Killed(e) == IF st[e] = "usable" THEN "zombie" ELSE st[e]

\* _delete(): kill the entry; its value is read afterwards.
DeleteStart(t, e) ==
    /\ e # Root
    /\ st[e] \in {"usable", "zombie"}
    /\ Start(t, "delete", "delRead", Locals("delete", e))
    /\ st' = [st EXCEPT ![e] = "zombie"]
    /\ victims' = [victims EXCEPT ![t] = IF e \in Ring(Root, Cardinality(Entries)) THEN {e} \cup Descendants(e) ELSE {}]
    /\ UNCHANGED <<val, nx, locked, pv, revoking>>

DeleteRead(t) ==
    /\ pc[t] = "delRead"
    /\ Goto(t, "lockPrev")
    /\ loc' = [loc EXCEPT ![t].val = val[loc[t].e], ![t].zombie = st[loc[t].e] = "zombie"]
    /\ UNCHANGED <<tree, ghost, panic>>

\* _revoke(): lock, check, set the flag, unlock.  The root of the ring is
\* revoked by ProcessorAllocator::freeSC() only.
RevokeStart(t, e) ==
    /\ Lock(e)
    /\ Start(t, IF e = Root THEN "revokeRoot" ELSE "revoke", "revCheck", Locals("revoke", e))
    /\ UNCHANGED <<st, val, nx, pv, revoking, victims>>

RevokeCheck(t) ==
    /\ pc[t] = "revCheck"
    /\ Goto(t, IF st[loc[t].e] = "usable" THEN "revSet" ELSE "revFail")
    /\ loc' = [loc EXCEPT ![t].val = val[loc[t].e]]
    /\ UNCHANGED <<tree, ghost, panic>>

RevokeSet(t) ==
    /\ pc[t] = "revSet"
    /\ revoking' = [revoking EXCEPT ![loc[t].e] = TRUE]
    /\ victims' = [victims EXCEPT ![t] = Descendants(loc[t].e)]
    /\ Goto(t, "revUnlock")
    /\ UNCHANGED <<st, val, nx, locked, pv, loc, started, deletes, panic>>

RevokeUnlock(t) ==
    \/ /\ pc[t] = "revUnlock"
       /\ Unlock(loc[t].e)
       /\ Goto(t, "lockPrev")
       /\ UNCHANGED <<st, val, nx, pv, revoking, loc, ghost>>
    \/ /\ pc[t] = "revFail"
       /\ Unlock(loc[t].e)
       /\ Return(t)
       /\ UNCHANGED <<st, val, nx, pv, revoking, ghost>>

\* resetReference(): the holder of a reference drops it.
ResetReferenceStart(t, e) ==
    /\ st[e] \in {"usable", "zombie"} /\ val[e].ref
    /\ Start(t, "reset", "lockPrev", Locals("reset", e))
    /\ st' = [st EXCEPT ![e] = "zombie"]
    /\ UNCHANGED <<val, nx, locked, pv, revoking, victims>>

\* moveTo(): the caller has acquired the target entry.
MoveStart(t, e, x) ==
    /\ e # Root
    /\ st[e] = "usable"
    /\ x \in scenario.free[t] /\ st[x] = "empty"
    /\ Start(t, "move", "lockPrev", [Locals("move", e) EXCEPT !.tgt = x])
    /\ st' = [st EXCEPT ![x] = "allocated"]
    /\ UNCHANGED <<val, nx, locked, pv, revoking, victims>>

-----------------------------------------------------------------------------
(* lock_prev() and lock() of the entry loc.e *)

\* The entry is not linked: somebody else has deleted it, success.
LockPrevUnlinked(t) ==
    /\ pc[t] = "lockPrev"
    /\ pv[loc[t].e] = Null
    /\ IF loc[t].op = "move"
       THEN Goto(t, "reset") /\ loc' = [loc EXCEPT ![t].cur = loc[t].tgt]
       ELSE Return(t)
    /\ UNCHANGED <<tree, ghost, panic>>

\* try_lock_prev(): read prev, lock it, check that it still is prev.
LockPrevRead(t) ==
    /\ pc[t] = "lockPrev"
    /\ pv[loc[t].e] # Null
    /\ loc' = [loc EXCEPT ![t].p = pv[loc[t].e]]
    /\ Goto(t, "tryPrev")
    /\ UNCHANGED <<tree, ghost, panic>>

LockPrevTry(t) ==
    /\ pc[t] = "tryPrev"
    /\ locked' = [locked EXCEPT ![loc[t].p] = TRUE]
    /\ Goto(t, IF locked[loc[t].p] THEN "lockPrev" ELSE "checkPrev")
    /\ UNCHANGED <<st, val, nx, pv, revoking, loc, ghost, panic>>

\* Mutant: the links are compared with their flags.
LockPrevCheckRaw(t) ==
    /\ pc[t] = "checkPrev"
    /\ Goto(t, IF pv[loc[t].e] = loc[t].p /\ ~revoking[loc[t].e] THEN "lockEntry" ELSE "undoPrev")
    /\ UNCHANGED <<tree, loc, ghost, panic>>

LockPrevCheck(t) ==
    /\ pc[t] = "checkPrev"
    /\ Goto(t, IF pv[loc[t].e] = loc[t].p THEN "lockEntry" ELSE "undoPrev")
    /\ UNCHANGED <<tree, loc, ghost, panic>>

LockPrevUndo(t) ==
    /\ pc[t] = "undoPrev"
    /\ Unlock(loc[t].p)
    /\ Goto(t, "lockPrev")
    /\ UNCHANGED <<st, val, nx, pv, revoking, loc, ghost>>

Traversal(t) == loc[t].op \in {"delete", "revoke"}

\* _startTraversal(): the root of the tree without children does not lock itself.
LonelyRoot(t) ==
    /\ pc[t] = "lockEntry"
    /\ Traversal(t) /\ pv[loc[t].e] = loc[t].e
    /\ Goto(t, "unlockPrev")
    /\ loc' = [loc EXCEPT ![t].cur = loc[t].e]
    /\ UNCHANGED <<tree, ghost, panic>>

\* Mutant: the entry is not locked before its children are looked for.
LockEntryFree(t) ==
    /\ pc[t] = "lockEntry"
    /\ ~(Traversal(t) /\ pv[loc[t].e] = loc[t].e)
    /\ locked' = [locked EXCEPT ![loc[t].e] = TRUE]
    /\ loc' = [loc EXCEPT ![t].cur = loc[t].e]
    /\ Goto(t, CASE Traversal(t) -> "checkRoot"
                 [] loc[t].op = "move" -> "moveCheck"
                 [] loc[t].op = "reset" -> "killAgain")
    /\ UNCHANGED <<st, val, nx, pv, revoking, ghost, panic>>

LockEntry(t) ==
    /\ pc[t] = "lockEntry"
    /\ ~(Traversal(t) /\ pv[loc[t].e] = loc[t].e)
    /\ Lock(loc[t].e)
    /\ loc' = [loc EXCEPT ![t].cur = loc[t].e]
    /\ Goto(t, CASE Traversal(t) -> "checkRoot"
                 [] loc[t].op = "move" -> "moveCheck"
                 [] loc[t].op = "reset" -> "killAgain")
    /\ UNCHANGED <<st, val, nx, pv, revoking, ghost, panic>>

\* Unlock the current entry, then its predecessor.
UnlockEntry(t) ==
    /\ pc[t] = "unlockEntry"
    /\ Unlock(loc[t].cur)
    /\ Goto(t, "unlockPrev")
    /\ UNCHANGED <<st, val, nx, pv, revoking, loc, ghost>>

UnlockPrev(t) ==
    /\ pc[t] = "unlockPrev"
    /\ Unlock(pv[loc[t].cur])
    /\ Return(t)
    /\ UNCHANGED <<st, val, nx, pv, revoking, ghost>>

-----------------------------------------------------------------------------
(* RevokeOperation::_delete(root, rootCap) *)

\* A root with another value was deleted by somebody else: success.
CheckRoot(t) ==
    /\ pc[t] = "checkRoot"
    /\ Goto(t, IF st[loc[t].e] \in {"usable", "zombie"} /\ val[loc[t].e] = loc[t].val
               THEN "find" ELSE "unlockEntry")
    /\ UNCHANGED <<tree, loc, ghost, panic>>

\* _findLockedLeaf(): look at the next entry, once it is not in the process
\* of being inserted.
Find(t) ==
    LET cur == loc[t].cur
        n == nx[cur]
    IN  /\ pc[t] = "find"
        /\ n # Null => st[n] # "allocated"
        /\ IF ~locked[cur] \/ n = Null \/ (n # Null /\ st[n] \in {"empty", "deleted"})
           THEN panic' = TRUE /\ UNCHANGED <<scenario, pc, loc>>
           ELSE /\ Goto(t, IF IsParentOf(val[cur], val[n]) THEN "leavePrev" ELSE "leaf")
                /\ loc' = [loc EXCEPT ![t].tgt = n]
                /\ UNCHANGED panic
        /\ ~panic
        /\ UNCHANGED <<tree, ghost>>

\* Go to the child: unlock the predecessor, kill and lock the child.
LeavePrev(t) ==
    /\ pc[t] = "leavePrev"
    /\ Unlock(pv[loc[t].cur])
    /\ Goto(t, "killChild")
    /\ UNCHANGED <<st, val, nx, pv, revoking, loc, ghost>>

\* Mutant: the child is not killed.
KillChildSkipped(t) ==
    /\ pc[t] = "killChild"
    /\ Goto(t, "lockChild")
    /\ UNCHANGED <<tree, loc, ghost, panic>>

KillChild(t) ==
    /\ pc[t] = "killChild"
    /\ st' = [st EXCEPT ![loc[t].tgt] = Killed(loc[t].tgt)]
    /\ Goto(t, "lockChild")
    /\ UNCHANGED <<val, nx, locked, pv, revoking, loc, ghost, panic>>

LockChild(t) ==
    /\ pc[t] = "lockChild"
    /\ Lock(loc[t].tgt)
    /\ loc' = [loc EXCEPT ![t].cur = loc[t].tgt]
    /\ Goto(t, "find")
    /\ UNCHANGED <<st, val, nx, pv, revoking, ghost, panic>>

\* No more children and the root is to be kept: finishRevoke().
FinishRevoke(t) ==
    /\ pc[t] = "leaf"
    /\ loc[t].cur = loc[t].e /\ ~loc[t].zombie
    /\ revoking' = [revoking EXCEPT ![loc[t].e] = FALSE]
    /\ Goto(t, "unlockEntry")
    /\ UNCHANGED <<st, val, nx, locked, pv, loc, ghost, panic>>

\* deleteCap() of the leaf, under its lock and its predecessor's.  The original of a map first
\* deletes the entries of the map.
DeleteLeaf(t) ==
    LET cur == loc[t].cur IN
    /\ pc[t] = "leaf"
    /\ ~(cur = loc[t].e /\ ~loc[t].zombie)
    /\ val[cur].obj \notin Guarded
    /\ panic' = (st[cur] # "zombie")
    /\ IF IsOriginal(val[cur])
       THEN Goto(t, "slot") /\ loc' = [loc EXCEPT ![t].slots = scenario.slots[val[cur].obj]]
       ELSE Goto(t, "unlink") /\ UNCHANGED loc
    /\ UNCHANGED <<tree, ghost>>

\* deleteEntry(): an empty entry is allocated for good, in two steps; a capability is deleted first,
\* recursively and without giving up the locks of the map's entry; an allocated entry is waited for.
AtSlot(t, S) == pc[t] = "slot" /\ loc[t].slots # <<>> /\ st[Head(loc[t].slots)] \in S

SlotSkip(t) ==
    /\ AtSlot(t, {"deleted"})
    /\ loc' = [loc EXCEPT ![t].slots = Tail(@)]
    /\ Goto(t, "slot")
    /\ UNCHANGED <<tree, ghost, panic>>

\* Mutant: an empty entry is left as it is.
SlotLeft(t) ==
    /\ AtSlot(t, {"empty"})
    /\ loc' = [loc EXCEPT ![t].slots = Tail(@)]
    /\ Goto(t, "slot")
    /\ UNCHANGED <<tree, ghost, panic>>

SlotAcquire(t) ==
    /\ AtSlot(t, {"empty"})
    /\ st' = [st EXCEPT ![Head(loc[t].slots)] = "allocated"]
    /\ Goto(t, "setDeleted")
    /\ UNCHANGED <<val, nx, locked, pv, revoking, loc, ghost, panic>>

SlotDeleted(t) ==
    /\ pc[t] = "setDeleted"
    /\ st' = [st EXCEPT ![Head(loc[t].slots)] = "deleted"]
    /\ loc' = [loc EXCEPT ![t].slots = Tail(@)]
    /\ Goto(t, "slot")
    /\ UNCHANGED <<val, nx, locked, pv, revoking, ghost, panic>>

SlotKill(t) ==
    LET e == Head(loc[t].slots) IN
    /\ AtSlot(t, {"usable", "zombie"})
    /\ st' = [st EXCEPT ![e] = "zombie"]
    /\ loc' = [loc EXCEPT ![t] = [Locals("delete", e) EXCEPT !.caller = loc[t]]]
    /\ Goto(t, "delRead")
    /\ UNCHANGED <<val, nx, locked, pv, revoking, ghost, panic>>

\* The object of an original is queued for deletion.
DeleteObject(t) ==
    /\ pc[t] = "slot" /\ loc[t].slots = <<>>
    /\ deletes' = [deletes EXCEPT ![val[loc[t].cur].obj] = @ + 1]
    /\ Goto(t, "unlink")
    /\ UNCHANGED <<tree, loc, started, victims, panic>>

\* A guarded object or a failing deleteCap(): the operation gives up with an
\* error and leaves the zombies it has made.
DeleteRefused(t) ==
    LET cur == loc[t].cur IN
    /\ pc[t] = "leaf"
    /\ ~(cur = loc[t].e /\ ~loc[t].zombie)
    /\ val[cur].obj \in Guarded
    /\ panic' = (st[cur] # "zombie")
    /\ victims' = [victims EXCEPT ![t] = {}]
    /\ Goto(t, "unlockEntry")
    /\ loc' = [loc EXCEPT ![t].failed = TRUE]
    /\ UNCHANGED <<tree, started, deletes>>

-----------------------------------------------------------------------------
(* unlink() and reset() of the entry loc.cur *)

KillAgain(t) ==
    /\ pc[t] = "killAgain"
    /\ st' = [st EXCEPT ![loc[t].cur] = Killed(loc[t].cur)]
    /\ Goto(t, "unlink")
    /\ UNCHANGED <<val, nx, locked, pv, revoking, loc, ghost, panic>>

\* next->_prev.store(prev): the flags of next are overwritten.
UnlinkNext(t) ==
    LET cur == loc[t].cur IN
    /\ pc[t] = "unlink"
    /\ pv' = [pv EXCEPT ![nx[cur]] = pv[cur]]
    /\ revoking' = [revoking EXCEPT ![nx[cur]] = FALSE]
    /\ loc' = [loc EXCEPT ![t].tgt = nx[cur], ![t].p = pv[cur]]
    /\ panic' = (nx[cur] = Null \/ pv[cur] = Null)
    /\ Goto(t, "unlinkPrev")
    /\ UNCHANGED <<st, val, nx, locked, ghost>>

\* prev->_next.store(next), which also unlocks prev.
UnlinkPrev(t) ==
    /\ pc[t] = "unlinkPrev"
    /\ nx' = [nx EXCEPT ![loc[t].p] = loc[t].tgt]
    /\ locked' = [locked EXCEPT ![loc[t].p] = FALSE]
    /\ victims' = [r \in Threads |-> victims[r] \ {loc[t].cur}]
    /\ Goto(t, "clearPrev")
    /\ UNCHANGED <<st, val, pv, revoking, loc, started, deletes, panic>>

ClearPrev(t) ==
    /\ pc[t] = "clearPrev"
    /\ pv' = [pv EXCEPT ![loc[t].cur] = Null]
    /\ revoking' = [revoking EXCEPT ![loc[t].cur] = FALSE]
    /\ Goto(t, "clearNext")
    /\ UNCHANGED <<st, val, nx, locked, loc, ghost, panic>>

ClearNext(t) ==
    /\ pc[t] = "clearNext"
    /\ nx' = [nx EXCEPT ![loc[t].cur] = Null]
    /\ locked' = [locked EXCEPT ![loc[t].cur] = FALSE]
    /\ Goto(t, "reset")
    /\ UNCHANGED <<st, val, pv, revoking, loc, ghost, panic>>

\* reset(), with its assertion, in three stores.
ResetPrev(t) ==
    LET cur == loc[t].cur IN
    /\ pc[t] = "reset"
    /\ panic' = ~(st[cur] = "allocated" \/ (st[cur] = "zombie" /\ nx[cur] = Null /\ pv[cur] = Null))
    /\ pv' = [pv EXCEPT ![cur] = Null]
    /\ revoking' = [revoking EXCEPT ![cur] = FALSE]
    /\ Goto(t, "resetNext")
    /\ UNCHANGED <<st, val, nx, locked, loc, ghost>>

ResetNext(t) ==
    /\ pc[t] = "resetNext"
    /\ nx' = [nx EXCEPT ![loc[t].cur] = Null]
    /\ locked' = [locked EXCEPT ![loc[t].cur] = FALSE]
    /\ Goto(t, "resetCap")
    /\ UNCHANGED <<st, val, pv, revoking, loc, ghost, panic>>

\* Mutant: the traversal ends after its first leaf.
ResetCapOnce(t) ==
    /\ pc[t] = "resetCap"
    /\ st' = [st EXCEPT ![loc[t].cur] = "empty"]
    /\ val' = [val EXCEPT ![loc[t].cur] = NoValue]
    /\ Return(t)
    /\ UNCHANGED <<nx, locked, pv, revoking, ghost, panic>>

\* The traversal goes on until the root has been deleted; a failed move has
\* to unlock what it has locked.
ResetCap(t) ==
    /\ pc[t] = "resetCap"
    /\ st' = [st EXCEPT ![loc[t].cur] = "empty"]
    /\ val' = [val EXCEPT ![loc[t].cur] = NoValue]
    /\ CASE Traversal(t) /\ loc[t].cur # loc[t].e ->
                Goto(t, "lockPrev") /\ loc' = [loc EXCEPT ![t].cur = Null, ![t].p = Null, ![t].tgt = Null]
         [] loc[t].zombie /\ loc[t].op = "move" ->
                Goto(t, "unlockEntry") /\ loc' = [loc EXCEPT ![t].cur = loc[t].e]
         [] OTHER -> Return(t)
    /\ UNCHANGED <<nx, locked, pv, revoking, ghost, panic>>

-----------------------------------------------------------------------------
(* moveTo() under both locks *)

MoveCheck(t) ==
    LET e == loc[t].e IN
    /\ pc[t] = "moveCheck"
    /\ IF revoking[e] \/ st[e] # "usable"
       THEN Goto(t, "reset") /\ loc' = [loc EXCEPT ![t].cur = loc[t].tgt, ![t].zombie = TRUE]
       ELSE Goto(t, "movePrev") /\ loc' = [loc EXCEPT ![t].cur = nx[e], ![t].p = pv[e], ![t].val = val[e]]
    /\ UNCHANGED <<tree, ghost, panic>>

MovePrev(t) ==
    /\ pc[t] = "movePrev"
    /\ pv' = [pv EXCEPT ![loc[t].cur] = loc[t].tgt]
    /\ panic' = (loc[t].cur = Null \/ loc[t].p = Null)
    /\ Goto(t, "moveNext")
    /\ UNCHANGED <<st, val, nx, locked, revoking, loc, ghost>>

MoveNext(t) ==
    /\ pc[t] = "moveNext"
    /\ nx' = [nx EXCEPT ![loc[t].tgt] = loc[t].cur]
    /\ locked' = [locked EXCEPT ![loc[t].tgt] = FALSE]
    /\ Goto(t, "moveTarget")
    /\ UNCHANGED <<st, val, pv, revoking, loc, ghost, panic>>

MoveTarget(t) ==
    /\ pc[t] = "moveTarget"
    /\ pv' = [pv EXCEPT ![loc[t].tgt] = loc[t].p]
    /\ revoking' = [revoking EXCEPT ![loc[t].tgt] = FALSE]
    /\ Goto(t, "moveLink")
    /\ UNCHANGED <<st, val, nx, locked, loc, ghost, panic>>

MoveLink(t) ==
    /\ pc[t] = "moveLink"
    /\ nx' = [nx EXCEPT ![loc[t].p] = loc[t].tgt]
    /\ locked' = [locked EXCEPT ![loc[t].p] = FALSE]
    /\ Goto(t, "moveCommit")
    /\ UNCHANGED <<st, val, pv, revoking, loc, ghost, panic>>

MoveCommit(t) ==
    LET x == loc[t].tgt IN
    /\ pc[t] = "moveCommit"
    /\ panic' = ~(st[x] = "allocated" /\ nx[x] # Null /\ pv[x] # Null)
    /\ st' = [st EXCEPT ![x] = "usable"]
    /\ val' = [val EXCEPT ![x] = loc[t].val]
    /\ victims' = [r \in Threads |-> IF loc[t].e \in victims[r] THEN (victims[r] \ {loc[t].e}) \cup {x} ELSE victims[r]]
    /\ Goto(t, "moveClearPrev")
    /\ UNCHANGED <<nx, locked, pv, revoking, loc, started, deletes>>

MoveClearPrev(t) ==
    /\ pc[t] = "moveClearPrev"
    /\ pv' = [pv EXCEPT ![loc[t].e] = Null]
    /\ revoking' = [revoking EXCEPT ![loc[t].e] = FALSE]
    /\ Goto(t, "moveClearNext")
    /\ UNCHANGED <<st, val, nx, locked, loc, ghost, panic>>

MoveClearNext(t) ==
    /\ pc[t] = "moveClearNext"
    /\ nx' = [nx EXCEPT ![loc[t].e] = Null]
    /\ locked' = [locked EXCEPT ![loc[t].e] = FALSE]
    /\ Goto(t, "moveClearCap")
    /\ UNCHANGED <<st, val, pv, revoking, loc, ghost, panic>>

MoveClearCap(t) ==
    /\ pc[t] = "moveClearCap"
    /\ st' = [st EXCEPT ![loc[t].e] = "empty"]
    /\ val' = [val EXCEPT ![loc[t].e] = NoValue]
    /\ Return(t)
    /\ UNCHANGED <<nx, locked, pv, revoking, ghost, panic>>

-----------------------------------------------------------------------------

Insert(t) ==
    \/ InsertLock(t) \/ InsertCheck(t) \/ InsertFail(t) \/ InsertPrev(t) \/ InsertNext(t)
    \/ InsertTarget(t) \/ InsertLink(t) \/ InsertCommit(t)
Revoke(t) ==
    \/ DeleteRead(t) \/ RevokeCheck(t) \/ RevokeSet(t) \/ RevokeUnlock(t)
    \/ CheckRoot(t) \/ LonelyRoot(t) \/ Find(t) \/ LeavePrev(t) \/ KillChild(t) \/ LockChild(t)
    \/ FinishRevoke(t) \/ DeleteLeaf(t) \/ DeleteRefused(t) \/ DeleteObject(t)
    \/ SlotSkip(t) \/ SlotAcquire(t) \/ SlotDeleted(t) \/ SlotKill(t)
LockUnlock(t) ==
    \/ LockPrevUnlinked(t) \/ LockPrevRead(t) \/ LockPrevTry(t) \/ LockPrevCheck(t) \/ LockPrevUndo(t)
    \/ LockEntry(t) \/ UnlockEntry(t) \/ UnlockPrev(t)
Unlink(t) ==
    \/ KillAgain(t) \/ UnlinkNext(t) \/ UnlinkPrev(t) \/ ClearPrev(t) \/ ClearNext(t)
    \/ ResetPrev(t) \/ ResetNext(t) \/ ResetCap(t)
Move(t) ==
    \/ MoveCheck(t) \/ MovePrev(t) \/ MoveNext(t) \/ MoveTarget(t) \/ MoveLink(t)
    \/ MoveCommit(t) \/ MoveClearPrev(t) \/ MoveClearNext(t) \/ MoveClearCap(t)

Step(t) == Insert(t) \/ Revoke(t) \/ LockUnlock(t) \/ Unlink(t) \/ Move(t)

StartAny(t) ==
    /\ pc[t] = "idle"
    /\ started[t] < scenario.max
    /\ \E e \in scenario.on[t] :
          \/ DeleteStart(t, e) \/ RevokeStart(t, e) \/ ResetReferenceStart(t, e)
          \/ \E x \in Entries : MoveStart(t, e, x) \/ \E c \in Inheritable(val[e]) : InsertStart(t, e, x, c)

Next == \E t \in Threads : StartAny(t) \/ Step(t)

Spec == Init /\ [][Next]_vars

\* Kernel threads are not preempted.
Fairness == \A t \in Threads : WF_vars(Step(t))
FairSpec == Spec /\ Fairness

-----------------------------------------------------------------------------

Links == Entries \cup {Null}

\* "deleted" is an allocated entry with the DELETED flag.
TypeOK ==
    /\ st \in [Entries -> States \cup {"deleted"}]
    /\ val \in [Entries -> Values] /\ \A e \in Entries : st[e] = "empty" => val[e] = NoValue
    /\ nx \in [Entries -> Links] /\ pv \in [Entries -> Links]
    /\ locked \in [Entries -> BOOLEAN] /\ revoking \in [Entries -> BOOLEAN]
    /\ started \in [Threads -> 0..MaxOps]
    /\ deletes \in [Objects -> Nat]
    /\ victims \in [Threads -> SUBSET Entries]
    /\ panic \in BOOLEAN

Idle == \A t \in Threads : pc[t] = "idle"

\* No insertion meets a removal at neighbouring entries, and no two operations do.
NoInsertRace == scenario.race # "insert"
NoRace == scenario.race = "none"

InMap(e, o) == \E i \in DOMAIN scenario.slots[o] : scenario.slots[o][i] = e

\* A guarded object keeps the delete of e from finishing.
Refused(e) ==
    \E o \in Guarded :
        \/ val[e].obj = o \/ IsParentOf(val[e], Original(o))
        \/ \E s \in Entries : InMap(s, val[e].obj) /\ val[s].obj = o

\* The list is a ring through all non-empty entries when nobody works on it:
\* no entry is lost or left allocated outside of a deleted map, no lock is left
\* behind, and a zombie only where a guarded object kept a delete from
\* finishing.  (Not so after an insertion has raced with a deletion, see
\* NoPanic.)  The position in the ring encodes the inheritance: the
\* capabilities below an original are exactly the uninterrupted run of entries
\* behind it, which is what a revoke follows.
ListIntact ==
    Idle /\ ~panic /\ NoInsertRace =>
        /\ \A e \in Entries :
              /\ ~locked[e]
              /\ \/ st[e] \in {"empty", "usable"}
                 \/ st[e] = "zombie" /\ Refused(e)
                 \/ st[e] = "deleted" /\ \E o \in Objects : InMap(e, o)
              /\ IF st[e] \in {"empty", "deleted"} THEN nx[e] = Null /\ pv[e] = Null
                 ELSE nx[e] # Null /\ pv[e] # Null /\ pv[nx[e]] = e /\ nx[pv[e]] = e
        /\ Ring(Root, Cardinality(Entries)) = {e \in Entries : st[e] \in {"usable", "zombie"}}
        /\ \A e \in Entries : st[e] \in {"usable", "zombie"} /\ IsOriginal(val[e]) =>
              Descendants(e) = {x \in Entries \ {Root, e} : st[x] \in {"usable", "zombie"} /\ IsParentOf(val[e], val[x])}

\* When a revoke or delete returns, everything that was below its entry when
\* it started has been unlinked, by itself or by somebody else.
RevokeComplete ==
    NoInsertRace => \A t \in Threads : pc[t] = "idle" => victims[t] = {}

\* moveTo() has published the new entry and clears the old one.
Leaving(t, e) == pc[t] \in {"moveClearPrev", "moveClearNext", "moveClearCap"} /\ loc[t].e = e

\* An object is handed to deleteObject() once, although several revokes may
\* race for its last capability, and no capability outlives it: insertAfter()
\* does not slip one in behind a traversal that has looked for children.  (The
\* entry that a move is leaving is cleared before the move returns.)  When a
\* map is handed over, its entries are empty and stay unusable, although others
\* insert into them meanwhile.
ObjectLifetime ==
    /\ \A o \in Objects : deletes[o] <= 1
    /\ \A e \in Entries : deletes[val[e].obj] > 0 => st[e] # "usable" \/ \E t \in Threads : Leaving(t, e)
    /\ \A o \in Objects : deletes[o] > 0 => \A e \in Entries : InMap(e, o) => st[e] = "deleted"

\* The assertions of CapEntry and RevokeOperation hold; in particular
\* unlock() is only called on locked entries.
NoPanic == ~panic

\* The same as long as no two operations meet at neighbouring entries, one of
\* them removing; and the words of the entries are always well-formed.
AssertionsHold == TypeOK /\ (NoRace => ~panic)

\* Every operation returns.
Returns == \A t \in Threads : pc[t] # "idle" ~> pc[t] = "idle"

\* Every operation returns when no two meet at neighbouring entries, one of
\* them removing: the locks are taken from left to right, the lonely root does
\* not lock itself, and an insertion or another removal never blocks the
\* deletion of a map for good.  When removals do meet, they do not block each
\* other, but an assertion may fail.  (A map that holds a neighbour of its own
\* entry is not among the scenarios, see Returns; neither is the revoke of the
\* root of a populated ring against a delete of its last entry.)
OperationsReturn ==
    \A t \in Threads : (NoInsertRace /\ pc[t] # "idle") ~> (pc[t] = "idle" \/ (panic /\ ~NoRace))

=============================================================================
