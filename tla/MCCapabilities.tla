---------------------------- MODULE MCCapabilities ----------------------------
(***************************************************************************)
(* Instances of ObjectDeletion and CapTree.  They share no state: a        *)
(* behaviour is one of a single part, chosen at the start, while the other *)
(* part stays in its initial state.                                        *)
(*                                                                         *)
(* ObjectDeletion: a memory object with an object in it, a capability map  *)
(* that holds that object's capability, and two portals that delete any of *)
(* them or each other.  CapTree: the scenarios of MCCapTree.               *)
(***************************************************************************)
EXTENDS ObjectDeletion, TLC

CONSTANTS mem, obj, map, p1, p2, dev, root, a, b, c, d, t1, t2, Null
VARIABLES part, scenario, st, val, nx, locked, pv, revoking, pc, loc, started, deletes, victims, panic

tree == <<scenario, st, val, nx, locked, pv, revoking, pc, loc, started, deletes, victims, panic>>

MCMemory == (mem :> None) @@ (obj :> mem) @@ (map :> None) @@ (p1 :> None) @@ (p2 :> None)
MCContents == (map :> {obj}) @@ [o \in Objects \ {map} |-> {}]
MCRoots == (p1 :> {mem, p2}) @@ (p2 :> {map, p1})

MCThreads == {t1, t2}
MCEntries == {root, a, b, c, d}
MCObjects == {mem, obj, dev}

MCAddr == (mem :> {1, 2}) @@ (obj :> {1}) @@ (dev :> {2})

\* The scenarios, and the capability tree in one of them.
S == INSTANCE MCCapTree WITH
    Threads <- MCThreads, Entries <- MCEntries, Root <- root, Objects <- MCObjects, RootObject <- mem,
    Guarded <- {dev}, Addr <- MCAddr, MaxOps <- 3, Scenarios <- {}
K == INSTANCE CapTree WITH
    Threads <- MCThreads, Entries <- MCEntries, Root <- root, Objects <- MCObjects, RootObject <- mem,
    Guarded <- {dev}, Addr <- MCAddr, MaxOps <- 3, Scenarios <- S!MCScenarios

MCInit ==
    /\ part \in {"deletion", "tree"}
    /\ Init /\ K!Init
    /\ part = "deletion" => scenario = S!Sequential

MCNext ==
    /\ UNCHANGED part
    /\ \/ part = "deletion" /\ Next /\ UNCHANGED tree
       \/ part = "tree" /\ K!Next /\ UNCHANGED vars

\* The fairness of the two modules.
MCFairness ==
    /\ \A q \in Places : /\ WF_vars(part = "deletion" /\ HandlerDone(q))
                         /\ WF_vars(part = "deletion" /\ HasTask(q) /\ EnterKernel(q))
    /\ \A o \in Objects : WF_vars(part = "deletion" /\ RequestDone(o))
    /\ \A p \in Portals : SF_vars(part = "deletion" /\ Progress(p))
    /\ \A t \in MCThreads : WF_tree(part = "tree" /\ K!Step(t))

MCSpec == MCInit /\ [][MCNext]_<<part, vars, tree>> /\ MCFairness

\* CapTree: a revocation that has ended with success has left no descendant, a
\* deletion nothing of its object.
RevokeComplete == K!RevokeComplete

\* CapTree: the list is intact and its links agree with the locks.
ListIntact == K!ListIntact

\* CapTree: every object is deleted once, and not before its capabilities.
ObjectLifetime == K!ObjectLifetime

\* CapTree: no assertion fails unless operations race at neighbouring entries.
AssertionsHold == K!AssertionsHold

\* CapTree: every operation returns unless operations race at neighbouring
\* entries.
OperationsReturn == K!OperationsReturn
=============================================================================
