------------------------ MODULE NestedMonitorProofs ------------------------
(***************************************************************************)
(* Mutual exclusion and safe deletion of NestedMonitor, for any number of   *)
(* places and requests.                                                     *)
(*                                                                         *)
(* The monitor is a token: while the wait queue is locked, the token is     *)
(* either a place inside the monitor, or a request that waits for a         *)
(* response (nested), or a tasklet in the queue of the home place (todo).   *)
(*                                                                         *)
(* The reference count is the number of places that have yet to release a  *)
(* reference, plus one for the token.  It does not count a place that has   *)
(* locked the queue and is about to acquire its reference: that there is no *)
(* such place when the count reaches zero follows from the grace period.    *)
(***************************************************************************)
EXTENDS NestedMonitor, FiniteSetTheorems, TLAPS

Labels == {"idle", "acquired", "setHome", "first", "run", "release", "retry", "resetHome",
           "releaseRef", "checkDelete", "delete", "deleteUnref"}

Types ==
    /\ waitq \in [locked : BOOLEAN, tasks : Seq(Msgs)]
    /\ home \in Places \cup {None}
    /\ pc \in [Places -> Labels]
    /\ cur \in [Places -> Msgs \cup {None}]
    /\ todo \in [Places -> SUBSET Msgs]
    /\ nested \in SUBSET Msgs

\* A place has a current request exactly while it runs a handler.
CurInv == \A p \in Places : pc[p] = "run" <=> cur[p] # None

\* There is at most one token, and none while the wait queue is released.
TokenInv ==
    /\ \A p, r \in Places : Inside(p) /\ Inside(r) => p = r
    /\ \A p, r \in Places : Inside(p) => nested = {} /\ todo[r] = {}
    /\ \A m, n \in nested : m = n
    /\ \A p \in Places : nested # {} => todo[p] = {}
    /\ \A p, r \in Places : \A m \in todo[p], n \in todo[r] : p = r /\ m = n
    /\ waitq.locked \/ (nested = {} /\ \A p \in Places : ~Inside(p) /\ todo[p] = {})

\* The queue is not empty where its head is pulled without a check.
QueueInv ==
    /\ ~waitq.locked => waitq.tasks = <<>>
    /\ \A p \in Places : pc[p] \in {"acquired", "setHome", "first", "retry"} => waitq.tasks # <<>>

\* home is the place of the token; a place that has released the queue finds
\* itself there only until the next owner sets it.
HomeInv ==
    /\ nested # {} => home \in Places
    /\ \A p \in Places : pc[p] \in {"first", "run", "release", "retry"} \/ todo[p] # {} => home = p
    /\ \A p \in Places : pc[p] = "resetHome" /\ home = p => nested = {} /\ todo[p] = {}

IInv == Types /\ CurInv /\ TokenInv /\ QueueInv /\ HomeInv

NoneAssumption == None \notin Places \cup Msgs

\* The queue operations keep the type of the queue.
LEMMA QueueTypes ==
    ASSUME Types, NEW m \in Msgs
    PROVE  /\ Q!Push(waitq, m) \in [locked : BOOLEAN, tasks : Seq(Msgs)]
           /\ Q!Push(waitq, m).locked /\ Q!Push(waitq, m).tasks # <<>>
BY DEF Types, Q!Push

\* Pulling from the wait queue yields a queue and one of its messages.
LEMMA PullTypes ==
    ASSUME Types
    PROVE  /\ Q!Pull(waitq) \in [locked : BOOLEAN, tasks : Seq(Msgs)]
           /\ Q!Pull(waitq).locked
           /\ waitq.tasks # <<>> => Head(waitq.tasks) \in Msgs
BY DEF Types, Q!Pull

\* What is processed is the token.
LEMMA InvImplies ==
    ASSUME IInv, NoneAssumption
    PROVE  MonitorExclusive
BY DEF IInv, Types, CurInv, TokenInv, HomeInv, NoneAssumption, MonitorExclusive, Processed, Inside

\* Every step of the monitor keeps the invariant.
LEMMA Step_IInv ==
    ASSUME NoneAssumption, IInv, [Next]_vars
    PROVE  IInv'
<1> USE DEF IInv, Types, Labels, CurInv, TokenInv, QueueInv, HomeInv, Inside, Goto, NoneAssumption
<1>1. ASSUME NEW p \in Places, NEW m \in Msgs, Request(p, m) PROVE IInv'
  <2>1. /\ waitq' \in [locked : BOOLEAN, tasks : Seq(Msgs)]
        /\ waitq'.locked /\ waitq'.tasks # <<>>
        /\ UNCHANGED <<home, cur, todo, nested>>
    BY <1>1, QueueTypes DEF Request
  <2>2. CASE waitq.locked
    <3>1. UNCHANGED pc
      BY <1>1, <2>2 DEF Request
    <3> QED
      BY <2>1, <2>2, <3>1
  <2>3. CASE ~waitq.locked
    <3>1. pc' = [pc EXCEPT ![p] = "acquired"] /\ pc[p] = "idle"
      BY <1>1, <2>3 DEF Request
    <3> QED
      BY <2>1, <2>3, <3>1
  <2> QED
    BY <2>2, <2>3
<1>2. ASSUME NEW p \in Places, RequestAcquireRef(p) PROVE IInv'
  BY <1>2 DEF RequestAcquireRef
<1>3. ASSUME NEW p \in Places, RequestSetHome(p) PROVE IInv'
  BY <1>3 DEF RequestSetHome
<1>4. ASSUME NEW p \in Places, RequestRun(p) PROVE IInv'
  BY <1>4, PullTypes DEF RequestRun
<1>5. ASSUME NEW p \in Places, HandlerNested(p) PROVE IInv'
  BY <1>5 DEF HandlerNested
<1>6. ASSUME NEW p \in Places, NEW m \in Msgs, Response(p, m) PROVE IInv'
  BY <1>6 DEF Response
<1>7. ASSUME NEW p \in Places, NEW m \in Msgs, RunLocal(p, m) PROVE IInv'
  BY <1>7 DEF RunLocal
<1>8. ASSUME NEW p \in Places, RequestDone(p) PROVE IInv'
  <2>1. /\ waitq' \in [locked : BOOLEAN, tasks : Seq(Msgs)]
        /\ waitq'.locked
        /\ cur' = [cur EXCEPT ![p] = None]
        /\ UNCHANGED <<home, nested>>
        /\ pc[p] = "run"
    BY <1>8, PullTypes DEF RequestDone
  <2>2. CASE waitq.tasks = <<>>
    <3>1. pc' = [pc EXCEPT ![p] = "release"] /\ UNCHANGED todo
      BY <1>8, <2>2 DEF RequestDone
    <3> QED
      BY <2>1, <3>1
  <2>3. CASE waitq.tasks # <<>>
    <3>1. PICK m \in Msgs : todo' = [todo EXCEPT ![p] = @ \cup {m}]
      BY <1>8, <2>3, PullTypes DEF RequestDone
    <3>2. pc' = [pc EXCEPT ![p] = "idle"]
      BY <1>8, <2>3 DEF RequestDone
    <3> QED
      BY <2>1, <3>1, <3>2
  <2> QED
    BY SMTT(20), <2>2, <2>3
<1>9. ASSUME NEW p \in Places, Release(p) PROVE IInv'
  BY <1>9 DEF Release, Q!TryRelease, Q!CanRelease, Q!FreeQueue
<1>10. ASSUME NEW p \in Places, Retry(p) PROVE IInv'
  BY <1>10, PullTypes DEF Retry
<1>11. ASSUME NEW p \in Places, ResetHome(p) PROVE IInv'
  BY <1>11 DEF ResetHome
<1>12. ASSUME NEW p \in Places, ReleaseRef(p) PROVE IInv'
  BY <1>12 DEF ReleaseRef
<1>13. ASSUME NEW p \in Places, CheckDelete(p) PROVE IInv'
  BY <1>13 DEF CheckDelete
<1>14. ASSUME NEW p \in Places, DoDelete(p) PROVE IInv'
  BY <1>14 DEF DoDelete
<1>15. ASSUME NEW p \in Places, DoDeleteSet(p) PROVE IInv'
  BY <1>15 DEF DoDeleteSet
<1>16. ASSUME NEW p \in Places, DoDeleteUnref(p) PROVE IInv'
  BY <1>16 DEF DoDeleteUnref
<1>17. CASE Unlink
  BY <1>17 DEF Unlink
<1>18. CASE UNCHANGED vars
  BY <1>18 DEF vars
<1> QED
  BY Zenon, <1>1, <1>2, <1>3, <1>4, <1>5, <1>6, <1>7, <1>8, <1>9, <1>10, <1>11, <1>12, <1>13, <1>14, <1>15, <1>16, <1>17, <1>18 DEF Next, Step

\* The monitor of the kernel objects is exclusive, and its home is the place that
\* processes requests, for any number of places and requests.
THEOREM NestedMonitorExclusive ==
    ASSUME NoneAssumption
    PROVE  Spec => []MonitorExclusive
<1>1. Init => IInv
  BY DEF Init, IInv, Types, Labels, CurInv, TokenInv, QueueInv, HomeInv, Inside, Q!FreeQueue
<1>2. IInv /\ [Next]_vars => IInv'
  BY Step_IInv
<1>3. IInv => MonitorExclusive
  BY InvImplies
<1> QED
  BY <1>1, <1>2, <1>3, PTL DEF Spec
-----------------------------------------------------------------------------
(* Deletion *)

DeletionTypes ==
    /\ refcount \in Nat
    /\ pushes \in Nat
    /\ deleteTask \in BOOLEAN
    /\ reachable \in BOOLEAN
    /\ grace \in SUBSET Places

\* The places that own a reference, and whether the token owns one.
Holders == {p \in Places : pc[p] \in {"resetHome", "releaseRef", "delete", "deleteUnref"}}
Held == nested # {} \/ \E p \in Places : todo[p] # {} \/ pc[p] \in {"setHome", "first", "run", "release", "retry"}

RefInv ==
    /\ IsFiniteSet(Holders)
    /\ refcount = Cardinality(Holders) + (IF Held THEN 1 ELSE 0)

\* A locked queue has a token.
LockedInv == waitq.locked => Held \/ \E p \in Places : pc[p] = "acquired"

\* Nobody uses the monitor, or is going to touch the reference count for it.
Quiescent == ~waitq.locked /\ \A p \in Places : pc[p] \notin {"resetHome", "releaseRef"}

\* Requests arrive only from handlers that started before the object became
\* unreachable.  If another handler releases the queue afterwards, it stays released.
GraceInv ==
    ~reachable => \A p \in Places :
        /\ pc[p] = "acquired" => p \in grace
        /\ p \notin grace /\ pc[p] \in {"resetHome", "releaseRef", "checkDelete"} => ~waitq.locked
        /\ p \notin grace /\ pc[p] = "checkDelete" => Quiescent

DeleteInv ==
    /\ deleteTask \/ (\E p \in Places : pc[p] \in {"delete", "deleteUnref"}) => ~reachable /\ grace = {}
    /\ pushes > 0 => ~reachable /\ Quiescent

DInv == DeletionTypes /\ RefInv /\ LockedInv /\ GraceInv /\ DeleteInv

\* A deleted object has no request, because its queue is released and there is no token.
LEMMA DInvImplies ==
    ASSUME IInv, DInv, NoneAssumption
    PROVE  DeleteOnlyIdle
<1> SUFFICES ASSUME pushes > 0
             PROVE  /\ Processed = {} /\ Waiting = {} /\ ~waitq.locked
                    /\ \A p \in Places : ~Inside(p) /\ pc[p] \notin {"resetHome", "releaseRef"}
  BY Zenon DEF DeleteOnlyIdle
<1>1. ~waitq.locked /\ \A p \in Places : pc[p] \notin {"resetHome", "releaseRef"}
  BY Zenon DEF DInv, DeleteInv, Quiescent
<1>2. nested = {} /\ \A p \in Places : ~Inside(p) /\ todo[p] = {}
  BY Zenon, <1>1 DEF IInv, TokenInv
<1>3. Processed = {}
  BY <1>2 DEF IInv, CurInv, Processed, Inside, NoneAssumption
<1>4. Waiting = {}
  <2>1. DOMAIN waitq.tasks = {}
    BY <1>1 DEF IInv, QueueInv
  <2> QED
    BY Zenon, <2>1 DEF Waiting
<1> QED
  BY Zenon, <1>1, <1>2, <1>3, <1>4

\* A step that moves no reference.
LEMMA SameRefs ==
    ASSUME DInv, Holders' = Holders, Held' <=> Held, refcount' = refcount
    PROVE  RefInv'
BY Zenon DEF DInv, RefInv

\* Place p gets a reference, or gives it back.
LEMMA HolderAdded ==
    ASSUME DInv, NEW p, p \notin Holders, Holders' = Holders \cup {p}
    PROVE  IsFiniteSet(Holders') /\ Cardinality(Holders') = Cardinality(Holders) + 1 /\ Cardinality(Holders) \in Nat
<1>1. IsFiniteSet(Holders)
  BY Zenon DEF DInv, RefInv
<1> QED
  BY <1>1, FS_AddElement, FS_CardinalityType

LEMMA HolderRemoved ==
    ASSUME DInv, NEW p, p \in Holders, Holders' = Holders \ {p}
    PROVE  IsFiniteSet(Holders') /\ Cardinality(Holders') = Cardinality(Holders) - 1 /\ Cardinality(Holders) \in Nat
<1>1. IsFiniteSet(Holders)
  BY Zenon DEF DInv, RefInv
<1> QED
  BY <1>1, FS_RemoveElement, FS_CardinalityType

\* The last reference belongs to nobody else.
LEMMA LastRef ==
    ASSUME DInv, NEW p, p \in Holders, refcount = 1
    PROVE  Holders = {p} /\ ~Held
<1>1. IsFiniteSet(Holders) /\ Cardinality(Holders) \in Nat /\ Cardinality(Holders) + (IF Held THEN 1 ELSE 0) = 1
  BY FS_CardinalityType DEF DInv, RefInv
<1>2. Cardinality(Holders) # 0
  BY <1>1, FS_EmptySet
<1>3. Cardinality(Holders) = 1 /\ ~Held
  BY <1>1, <1>2
<1>4. Cardinality(Holders \ {p}) = 0 /\ IsFiniteSet(Holders \ {p})
  BY <1>1, <1>3, FS_RemoveElement
<1>5. Holders \ {p} = {}
  BY <1>4, FS_EmptySet
<1> QED
  BY Zenon, <1>3, <1>5

TokenLabels == {"setHome", "first", "run", "release", "retry"}

\* The token, which owns a reference, moves.
LEMMA TokenStep ==
    ASSUME DInv, NEW p \in Places, pc \in [Places -> Labels], NEW l \in TokenLabels \cup {"idle"},
           pc[p] \in TokenLabels \cup {"idle"}, pc' = [pc EXCEPT ![p] = l], grace' \in {grace, grace \ {p}},
           Held, Held', waitq.locked, waitq'.locked, UNCHANGED <<refcount, deletion>>
    PROVE  DInv'
<1>1. /\ UNCHANGED <<refcount, deleteTask, pushes, reachable>>
      /\ pc'[p] = l /\ \A q \in Places : q # p => pc'[q] = pc[q]
  BY Zenon DEF deletion
<1>2. DeletionTypes'
  BY Zenon, <1>1 DEF DInv, DeletionTypes
<1>3. Holders' = Holders
  BY <1>1 DEF Holders, TokenLabels
<1>4. RefInv'
  BY Zenon, <1>1, <1>3, SameRefs
<1>5. LockedInv'
  BY Zenon DEF LockedInv
<1>6. GraceInv'
  BY <1>1 DEF DInv, GraceInv, Quiescent, TokenLabels
<1>7. DeleteInv'
  <2>1. ~(pushes > 0)
    BY Zenon DEF DInv, DeleteInv, Quiescent
  <2>2. (deleteTask' \/ \E q \in Places : pc'[q] \in {"delete", "deleteUnref"}) =>
        (deleteTask \/ \E q \in Places : pc[q] \in {"delete", "deleteUnref"})
    BY <1>1 DEF TokenLabels
  <2>3. grace = {} => grace' = {}
    BY Zenon
  <2> QED
    BY Zenon, <1>1, <2>1, <2>2, <2>3 DEF DInv, DeleteInv
<1> QED
  BY Zenon, <1>2, <1>4, <1>5, <1>6, <1>7 DEF DInv

\* The tasklet or response that is processed stays the token.
LEMMA Token_DInv ==
    ASSUME IInv, DInv, NoneAssumption, NEW p \in Places,
           \/ RequestSetHome(p) \/ RequestRun(p) \/ HandlerNested(p) \/ RequestDone(p) \/ Retry(p)
           \/ \E m \in Msgs : Response(p, m) \/ RunLocal(p, m)
           \/ Release(p) /\ ~Q!CanRelease(waitq)
    PROVE  DInv'
<1> USE DEF Goto
<1>0. pc \in [Places -> Labels] /\ UNCHANGED <<refcount, deletion>>
  BY Zenon DEF IInv, Types, RequestSetHome, RequestRun, HandlerNested, RequestDone, Retry, Response, RunLocal, Release
<1>1. PICK l \in TokenLabels \cup {"idle"} :
         pc[p] \in TokenLabels \cup {"idle"} /\ pc' = [pc EXCEPT ![p] = l] /\ grace' \in {grace, grace \ {p}}
  <2>1. CASE \E m \in Msgs : Response(p, m)
    <3>1. pc[p] = "idle" /\ \/ pc' = [pc EXCEPT ![p] = "run"] /\ grace' = grace
                            \/ pc' = pc /\ grace' = grace
      BY <2>1 DEF Response
    <3>2. pc = [pc EXCEPT ![p] = "idle"]
      BY <1>0, <3>1
    <3> QED
      BY Zenon, <3>1, <3>2 DEF TokenLabels
  <2>2. CASE RequestSetHome(p) \/ RequestRun(p) \/ \E m \in Msgs : RunLocal(p, m)
    BY <2>2 DEF RequestSetHome, RequestRun, RunLocal, TokenLabels
  <2>3. CASE HandlerNested(p) \/ RequestDone(p) \/ Retry(p)
    BY <2>3 DEF HandlerNested, RequestDone, Retry, TokenLabels
  <2>4. CASE Release(p) /\ ~Q!CanRelease(waitq)
    BY <2>4 DEF Release, TokenLabels
  <2> QED
    BY Zenon, <2>1, <2>2, <2>3, <2>4
<1>2. Held
  BY DEF Held, RequestSetHome, RequestRun, HandlerNested, RequestDone, Retry, Response, RunLocal, Release
<1>3. waitq.locked
  BY Zenon, <1>2 DEF Held, IInv, TokenInv, Inside
<1>4. waitq'.locked
  BY <1>3, PullTypes DEF IInv, RequestSetHome, RequestRun, HandlerNested, RequestDone, Retry, Response, RunLocal,
                         Release, Q!TryRelease
<1>5. Held'
  <2>1. CASE RequestSetHome(p) \/ RequestRun(p) \/ (\E m \in Msgs : RunLocal(p, m))
             \/ (Release(p) /\ ~Q!CanRelease(waitq))
    BY <1>0, <2>1 DEF Held, RequestSetHome, RequestRun, RunLocal, Release
  <2>2. CASE HandlerNested(p)
    BY Zenon, <2>2 DEF Held, HandlerNested
  <2>3. CASE RequestDone(p) \/ Retry(p)
    <3>1. \/ pc' = [pc EXCEPT ![p] = "release"]
          \/ todo' = [todo EXCEPT ![p] = @ \cup {Head(waitq.tasks)}]
      BY Zenon, <2>3 DEF RequestDone, Retry
    <3>2. todo \in [Places -> SUBSET Msgs]
      BY Zenon DEF IInv, Types
    <3> QED
      BY <1>0, <3>1, <3>2 DEF Held
  <2>4. CASE \E m \in Msgs : Response(p, m)
    <3>1. PICK m \in Msgs : Response(p, m)
      BY Zenon, <2>4
    <3>2. home \in Places /\ todo \in [Places -> SUBSET Msgs]
      BY Zenon, <3>1 DEF IInv, Types, HomeInv, Response
    <3>3. CASE home = p
      <4>1. pc'[p] = "run"
        BY Zenon, <1>0, <3>1, <3>3 DEF Response
      <4> QED
        BY Zenon, <4>1 DEF Held
    <3>4. CASE home # p
      <4>1. todo'[home] # {}
        BY Zenon, <3>1, <3>2, <3>4 DEF Response
      <4> QED
        BY Zenon, <3>2, <4>1 DEF Held
    <3> QED
      BY Zenon, <3>3, <3>4
  <2> QED
    BY Zenon, <2>1, <2>2, <2>3, <2>4
<1> QED
  BY Zenon, <1>0, <1>1, <1>2, <1>3, <1>4, <1>5, TokenStep

\* A request locks the queue; it is accepted only while the object is reachable.
LEMMA Request_DInv ==
    ASSUME IInv, DInv, NEW p \in Places, NEW m \in Msgs, Request(p, m)
    PROVE  DInv'
<1>0. pc \in [Places -> Labels] /\ pc[p] = "idle" /\ reachable
  BY Zenon DEF IInv, Types, Request
<1>1. UNCHANGED <<refcount, deleteTask, pushes, reachable, nested, todo, grace>>
  BY DEF Request, Goto, deletion
<1>2. pc' = pc \/ pc' = [pc EXCEPT ![p] = "acquired"]
  BY Zenon DEF Request, Goto
<1>3. \A q \in Places : pc'[q] = pc[q] \/ (q = p /\ pc'[q] = "acquired")
  BY <1>0, <1>2
<1>4. Holders' = Holders /\ (Held' <=> Held)
  BY <1>0, <1>1, <1>3 DEF Holders, Held
<1>5. RefInv'
  BY Zenon, <1>1, <1>4, SameRefs
<1>6. LockedInv'
  <2>1. CASE waitq.locked
    <3>1. \A q \in Places : pc[q] = "acquired" => pc'[q] = "acquired"
      BY <1>3
    <3> QED
      BY Zenon, <1>4, <2>1, <3>1 DEF DInv, LockedInv
  <2>2. CASE ~waitq.locked
    <3>1. pc'[p] = "acquired"
      BY Zenon, <1>0, <2>2 DEF Request, Goto
    <3> QED
      BY Zenon, <3>1 DEF LockedInv
  <2> QED
    BY Zenon, <2>1, <2>2
<1>7. GraceInv' /\ DeletionTypes'
  BY Zenon, <1>0, <1>1 DEF DInv, GraceInv, DeletionTypes
<1>8. DeleteInv'
  <2>1. ~deleteTask /\ ~(pushes > 0) /\ \A q \in Places : pc[q] \notin {"delete", "deleteUnref"}
    BY Zenon, <1>0 DEF DInv, DeleteInv
  <2>2. \A q \in Places : pc'[q] \notin {"delete", "deleteUnref"}
    BY <1>3, <2>1
  <2> QED
    BY Zenon, <1>1, <2>1, <2>2 DEF DeleteInv
<1> QED
  BY Zenon, <1>5, <1>6, <1>7, <1>8 DEF DInv

\* The place that locked the queue is the token, and owns a reference from now on.
LEMMA RequestAcquireRef_DInv ==
    ASSUME IInv, DInv, NEW p \in Places, RequestAcquireRef(p)
    PROVE  DInv'
<1>0. pc \in [Places -> Labels] /\ pc[p] = "acquired" /\ pc' = [pc EXCEPT ![p] = "setHome"] /\ refcount' = refcount + 1
  BY Zenon DEF IInv, Types, RequestAcquireRef, Goto
<1>1. UNCHANGED <<waitq, deleteTask, pushes, reachable, nested, todo, grace>>
  BY DEF RequestAcquireRef, Goto, deletion
<1>2. pc'[p] = "setHome" /\ \A q \in Places : q # p => pc'[q] = pc[q]
  BY Zenon, <1>0
<1>3. ~Held /\ waitq.locked
  BY <1>0 DEF Held, IInv, TokenInv, Inside
<1>4. Held' /\ Holders' = Holders
  BY <1>0, <1>2 DEF Held, Holders
<1>5. RefInv' /\ DeletionTypes'
  <2>1. refcount = Cardinality(Holders) /\ IsFiniteSet(Holders) /\ refcount \in Nat
    BY <1>3, FS_CardinalityType DEF DInv, RefInv, DeletionTypes
  <2>2. refcount' = Cardinality(Holders') + 1 /\ IsFiniteSet(Holders') /\ refcount' \in Nat
    BY <1>0, <1>4, <2>1
  <2> QED
    BY Zenon, <1>1, <1>4, <2>2 DEF RefInv, DInv, DeletionTypes
<1>6. LockedInv'
  BY Zenon, <1>4 DEF LockedInv
<1>7. GraceInv'
  BY <1>1, <1>2 DEF DInv, GraceInv, Quiescent
<1>8. DeleteInv'
  <2>1. ~(pushes > 0)
    BY Zenon, <1>3 DEF DInv, DeleteInv, Quiescent
  <2>2. \A q \in Places : pc'[q] \in {"delete", "deleteUnref"} => pc[q] \in {"delete", "deleteUnref"}
    BY <1>2
  <2> QED
    BY Zenon, <1>1, <2>1, <2>2 DEF DInv, DeleteInv
<1> QED
  BY Zenon, <1>5, <1>6, <1>7, <1>8 DEF DInv

\* The place that releases the queue keeps the reference of the token.
LEMMA Release_DInv ==
    ASSUME IInv, DInv, NEW p \in Places, Release(p), Q!CanRelease(waitq)
    PROVE  DInv'
<1>0. pc \in [Places -> Labels] /\ pc[p] = "release" /\ pc' = [pc EXCEPT ![p] = "resetHome"]
  BY Zenon DEF IInv, Types, Release, Goto
<1>1. UNCHANGED <<refcount, deleteTask, pushes, reachable, nested, todo, grace>> /\ ~waitq'.locked
  BY DEF Release, Goto, deletion, Q!TryRelease, Q!FreeQueue
<1>2. pc'[p] = "resetHome" /\ \A q \in Places : q # p => pc'[q] = pc[q]
  BY Zenon, <1>0
<1>3. Held /\ waitq.locked
  BY <1>0 DEF Held, IInv, TokenInv, Inside
<1>4. nested = {} /\ \A q \in Places : todo[q] = {} /\ (q # p => ~Inside(q))
  BY <1>0 DEF IInv, TokenInv, Inside
<1>5. ~Held'
  BY <1>1, <1>2, <1>4 DEF Held, Inside
<1>6. p \notin Holders /\ Holders' = Holders \cup {p}
  BY <1>0, <1>2 DEF Holders
<1>7. RefInv'
  <2>1. IsFiniteSet(Holders') /\ Cardinality(Holders') = Cardinality(Holders) + 1 /\ Cardinality(Holders) \in Nat
    BY Zenon, <1>6, HolderAdded
  <2>2. refcount = Cardinality(Holders) + 1
    BY Zenon, <1>3 DEF DInv, RefInv
  <2>3. Cardinality(Holders') = refcount' /\ Cardinality(Holders') + 0 = refcount'
    BY <1>1, <2>1, <2>2
  <2> QED
    BY Zenon, <1>5, <2>1, <2>3 DEF RefInv
<1>8. LockedInv' /\ DeletionTypes'
  BY Zenon, <1>1 DEF LockedInv, DInv, DeletionTypes
<1>9. GraceInv'
  <2>1. ASSUME NEW q \in Places, ~reachable', pc'[q] = "acquired" PROVE q \in grace'
    BY <1>1, <1>2, <2>1 DEF DInv, GraceInv
  <2>2. ASSUME NEW q \in Places, ~reachable', q \notin grace', pc'[q] = "checkDelete" PROVE FALSE
    BY <1>1, <1>2, <1>3, <2>2 DEF DInv, GraceInv, Quiescent
  <2> QED
    BY Zenon, <1>1, <2>1, <2>2 DEF GraceInv
<1>10. DeleteInv'
  <2>1. ~(pushes > 0)
    BY Zenon, <1>3 DEF DInv, DeleteInv, Quiescent
  <2>2. \A q \in Places : pc'[q] \in {"delete", "deleteUnref"} => pc[q] \in {"delete", "deleteUnref"}
    BY <1>2
  <2> QED
    BY Zenon, <1>1, <2>1, <2>2 DEF DInv, DeleteInv
<1> QED
  BY Zenon, <1>7, <1>8, <1>9, <1>10 DEF DInv

\* Resetting home does not touch references.
LEMMA ResetHome_DInv ==
    ASSUME IInv, DInv, NEW p \in Places, ResetHome(p)
    PROVE  DInv'
<1>0. pc \in [Places -> Labels] /\ pc[p] = "resetHome" /\ pc' = [pc EXCEPT ![p] = "releaseRef"]
  BY Zenon DEF IInv, Types, ResetHome, Goto
<1>1. UNCHANGED <<waitq, refcount, deleteTask, pushes, reachable, nested, todo, grace>>
  BY DEF ResetHome, Goto, deletion
<1>2. pc'[p] = "releaseRef" /\ \A q \in Places : q # p => pc'[q] = pc[q]
  BY Zenon, <1>0
<1>3. Holders' = Holders /\ (Held' <=> Held) /\ (Quiescent' <=> Quiescent)
  BY <1>0, <1>1, <1>2 DEF Holders, Held, Quiescent
<1>4. RefInv' /\ DeletionTypes'
  BY Zenon, <1>1, <1>3, SameRefs DEF DInv, DeletionTypes
<1>5. LockedInv' /\ GraceInv'
  BY <1>0, <1>1, <1>2, <1>3 DEF DInv, LockedInv, GraceInv
<1>6. DeleteInv'
  BY <1>0, <1>1, <1>2, <1>3 DEF DInv, DeleteInv
<1> QED
  BY Zenon, <1>4, <1>5, <1>6 DEF DInv

\* A place that drops the last reference after the object became unreachable, in a
\* handler that started afterwards, leaves nobody behind.
LEMMA ReleaseRef_DInv ==
    ASSUME IInv, DInv, NEW p \in Places, ReleaseRef(p)
    PROVE  DInv'
<1>0. PICK l \in {"checkDelete", "idle"} :
         /\ pc' = [pc EXCEPT ![p] = l] /\ grace' = (IF l = "idle" THEN grace \ {p} ELSE grace)
         /\ l = "checkDelete" => refcount = 1
  BY Zenon DEF ReleaseRef, Goto
<1>1. /\ pc \in [Places -> Labels] /\ pc[p] = "releaseRef" /\ refcount' = refcount - 1
      /\ UNCHANGED <<waitq, deleteTask, pushes, reachable, nested, todo>>
  BY Zenon DEF IInv, Types, ReleaseRef, deletion
<1>2. pc'[p] = l /\ \A q \in Places : q # p => pc'[q] = pc[q]
  BY Zenon, <1>0, <1>1
<1>3. p \in Holders /\ Holders' = Holders \ {p} /\ (Held' <=> Held)
  BY <1>1, <1>2 DEF Holders, Held
<1>4. RefInv' /\ DeletionTypes'
  <2>1. IsFiniteSet(Holders') /\ Cardinality(Holders') = Cardinality(Holders) - 1 /\ Cardinality(Holders) \in Nat
    BY Zenon, <1>3, HolderRemoved
  <2>2. refcount = Cardinality(Holders) + (IF Held THEN 1 ELSE 0) /\ IsFiniteSet(Holders)
    BY Zenon DEF DInv, RefInv
  <2>3. Cardinality(Holders) # 0
    BY <1>3, <2>2, FS_EmptySet
  <2>4. refcount' = Cardinality(Holders') + (IF Held' THEN 1 ELSE 0) /\ refcount' \in Nat
    BY <1>1, <1>3, <2>1, <2>2, <2>3
  <2> QED
    BY Zenon, <1>0, <1>1, <2>1, <2>4 DEF RefInv, DInv, DeletionTypes
<1>5. LockedInv'
  BY <1>1, <1>2, <1>3 DEF DInv, LockedInv
<1>6. GraceInv'
  <2>1. ASSUME NEW q \in Places, ~reachable', pc'[q] = "acquired" PROVE q \in grace'
    BY <1>0, <1>1, <1>2, <2>1 DEF DInv, GraceInv
  <2>2. ASSUME NEW q \in Places, ~reachable', q \notin grace', pc'[q] \in {"resetHome", "releaseRef", "checkDelete"}
        PROVE  ~waitq'.locked
    BY <1>0, <1>1, <1>2, <2>2 DEF DInv, GraceInv
  <2>3. ASSUME NEW q \in Places, ~reachable', q \notin grace', pc'[q] = "checkDelete" PROVE Quiescent'
    <3>1. CASE q = p
      <4>1. Holders = {p}
        BY Zenon, <1>0, <1>2, <1>3, <2>3, <3>1, LastRef
      <4>2. \A r \in Places : pc'[r] \notin {"resetHome", "releaseRef"}
        BY <1>2, <1>3, <4>1, <2>3, <3>1 DEF Holders
      <4> QED
        BY Zenon, <2>2, <2>3, <4>2 DEF Quiescent
    <3>2. CASE q # p
      BY <1>0, <1>1, <1>2, <2>3, <3>2 DEF DInv, GraceInv, Quiescent
    <3> QED
      BY Zenon, <3>1, <3>2
  <2> QED
    BY Zenon, <2>1, <2>2, <2>3 DEF GraceInv
<1>7. DeleteInv'
  <2>1. \A q \in Places : pc'[q] \in {"delete", "deleteUnref"} => pc[q] \in {"delete", "deleteUnref"}
    BY <1>2
  <2>2. grace = {} => grace' = {}
    BY Zenon, <1>0
  <2>3. ~(pushes > 0)
    BY Zenon, <1>1 DEF DInv, DeleteInv, Quiescent
  <2> QED
    BY Zenon, <1>1, <2>1, <2>2, <2>3 DEF DInv, DeleteInv
<1> QED
  BY Zenon, <1>4, <1>5, <1>6, <1>7 DEF DInv

\* The delete task that is found after the last releaseRef() was set after the grace period.
LEMMA CheckDelete_DInv ==
    ASSUME IInv, DInv, NEW p \in Places, CheckDelete(p)
    PROVE  DInv'
<1>0. /\ pc \in [Places -> Labels] /\ pc[p] = "checkDelete"
      /\ pc' = [pc EXCEPT ![p] = "idle"] /\ grace' = grace \ {p}
      /\ pushes' = IF deleteTask THEN pushes + 1 ELSE pushes
      /\ UNCHANGED <<waitq, refcount, deleteTask, reachable, nested, todo>>
  BY Zenon DEF IInv, Types, CheckDelete, Goto
<1>1. pc'[p] = "idle" /\ \A q \in Places : q # p => pc'[q] = pc[q]
  BY Zenon, <1>0
<1>2. Holders' = Holders /\ (Held' <=> Held) /\ (Quiescent' <=> Quiescent)
  BY <1>0, <1>1 DEF Holders, Held, Quiescent
<1>3. RefInv'
  BY Zenon, <1>0, <1>2, SameRefs
<1>4. DeletionTypes'
  BY <1>0 DEF DInv, DeletionTypes
<1>5. LockedInv' /\ GraceInv'
  BY <1>0, <1>1, <1>2 DEF DInv, LockedInv, GraceInv
<1>6. DeleteInv'
  <2>1. \A q \in Places : pc'[q] \in {"delete", "deleteUnref"} => pc[q] \in {"delete", "deleteUnref"}
    BY <1>1
  <2>2. grace = {} => grace' = {}
    BY Zenon, <1>0
  <2>3. deleteTask => ~reachable /\ Quiescent
    BY Zenon, <1>0 DEF DInv, DeleteInv, GraceInv
  <2>4. pushes' > 0 => ~reachable /\ Quiescent
    BY <1>0, <2>3 DEF DInv, DeleteInv
  <2> QED
    BY Zenon, <1>0, <1>2, <2>1, <2>2, <2>4 DEF DInv, DeleteInv
<1> QED
  BY Zenon, <1>3, <1>4, <1>5, <1>6 DEF DInv

\* doDelete() holds a reference of its own while it sets the delete task.
LEMMA DoDelete_DInv ==
    ASSUME IInv, DInv, NEW p \in Places, DoDelete(p)
    PROVE  DInv'
<1>0. /\ pc \in [Places -> Labels] /\ pc[p] = "idle" /\ ~reachable /\ grace = {}
      /\ pc' = [pc EXCEPT ![p] = "delete"] /\ refcount' = refcount + 1
  BY Zenon DEF IInv, Types, DoDelete, Goto
<1>1. UNCHANGED <<waitq, deleteTask, pushes, reachable, nested, todo, grace>>
  BY DEF DoDelete, Goto, deletion
<1>2. pc'[p] = "delete" /\ \A q \in Places : q # p => pc'[q] = pc[q]
  BY Zenon, <1>0
<1>3. p \notin Holders /\ Holders' = Holders \cup {p} /\ (Held' <=> Held) /\ (Quiescent' <=> Quiescent)
  BY <1>0, <1>1, <1>2 DEF Holders, Held, Quiescent
<1>4. RefInv' /\ DeletionTypes'
  <2>1. IsFiniteSet(Holders') /\ Cardinality(Holders') = Cardinality(Holders) + 1 /\ Cardinality(Holders) \in Nat
    BY Zenon, <1>3, HolderAdded
  <2>2. refcount = Cardinality(Holders) + (IF Held THEN 1 ELSE 0)
    BY Zenon DEF DInv, RefInv
  <2>3. refcount' = Cardinality(Holders') + (IF Held' THEN 1 ELSE 0) /\ refcount' \in Nat
    BY <1>0, <1>3, <2>1, <2>2
  <2> QED
    BY Zenon, <1>1, <2>1, <2>3 DEF RefInv, DInv, DeletionTypes
<1>5. LockedInv' /\ GraceInv'
  BY <1>0, <1>1, <1>2, <1>3 DEF DInv, LockedInv, GraceInv
<1>6. DeleteInv'
  BY Zenon, <1>0, <1>1, <1>3 DEF DInv, DeleteInv
<1> QED
  BY Zenon, <1>4, <1>5, <1>6 DEF DInv

\* The delete task is set after the grace period.
LEMMA DoDeleteSet_DInv ==
    ASSUME IInv, DInv, NEW p \in Places, DoDeleteSet(p)
    PROVE  DInv'
<1>0. /\ pc \in [Places -> Labels] /\ pc[p] = "delete" /\ ~reachable /\ grace = {}
      /\ pc' = [pc EXCEPT ![p] = "deleteUnref"] /\ deleteTask' = TRUE
  BY Zenon DEF IInv, Types, DoDeleteSet, Goto, DInv, DeleteInv
<1>1. UNCHANGED <<waitq, refcount, pushes, reachable, nested, todo, grace>>
  BY DEF DoDeleteSet, Goto
<1>2. pc'[p] = "deleteUnref" /\ \A q \in Places : q # p => pc'[q] = pc[q]
  BY Zenon, <1>0
<1>3. Holders' = Holders /\ (Held' <=> Held) /\ (Quiescent' <=> Quiescent)
  BY <1>0, <1>1, <1>2 DEF Holders, Held, Quiescent
<1>4. RefInv' /\ DeletionTypes'
  BY Zenon, <1>0, <1>1, <1>3, SameRefs DEF DInv, DeletionTypes
<1>5. LockedInv' /\ GraceInv'
  BY <1>0, <1>1, <1>2, <1>3 DEF DInv, LockedInv, GraceInv
<1>6. DeleteInv'
  BY Zenon, <1>0, <1>1, <1>3 DEF DInv, DeleteInv
<1> QED
  BY Zenon, <1>4, <1>5, <1>6 DEF DInv

\* If doDelete() drops the last reference there is no token: neither one that owns a
\* reference nor a place about to acquire one.
LEMMA DoDeleteUnref_DInv ==
    ASSUME IInv, DInv, NEW p \in Places, DoDeleteUnref(p)
    PROVE  DInv'
<1>0. /\ pc \in [Places -> Labels] /\ pc[p] = "deleteUnref" /\ ~reachable /\ grace = {}
      /\ pc' = [pc EXCEPT ![p] = "idle"] /\ refcount' = refcount - 1
      /\ pushes' = (IF refcount = 1 THEN pushes + 1 ELSE pushes)
      /\ UNCHANGED <<waitq, deleteTask, reachable, nested, todo>>
  BY Zenon DEF IInv, Types, DoDeleteUnref, Goto, DInv, DeleteInv
<1>1. grace' = {} /\ pc'[p] = "idle" /\ \A q \in Places : q # p => pc'[q] = pc[q]
  BY Zenon, <1>0 DEF DoDeleteUnref, Goto
<1>2. p \in Holders /\ Holders' = Holders \ {p} /\ (Held' <=> Held) /\ (Quiescent' <=> Quiescent)
  BY <1>0, <1>1 DEF Holders, Held, Quiescent
<1>3. RefInv' /\ DeletionTypes'
  <2>1. IsFiniteSet(Holders') /\ Cardinality(Holders') = Cardinality(Holders) - 1 /\ Cardinality(Holders) \in Nat
    BY Zenon, <1>2, HolderRemoved
  <2>2. refcount = Cardinality(Holders) + (IF Held THEN 1 ELSE 0) /\ IsFiniteSet(Holders)
    BY Zenon DEF DInv, RefInv
  <2>3. Cardinality(Holders) # 0
    BY <1>2, <2>2, FS_EmptySet
  <2>4. refcount' = Cardinality(Holders') + (IF Held' THEN 1 ELSE 0) /\ refcount' \in Nat
    BY <1>0, <1>2, <2>1, <2>2, <2>3
  <2>5. pushes' \in Nat
    BY <1>0 DEF DInv, DeletionTypes
  <2> QED
    BY Zenon, <1>0, <1>1, <2>1, <2>4, <2>5 DEF RefInv, DInv, DeletionTypes
<1>4. LockedInv' /\ GraceInv'
  BY <1>0, <1>1, <1>2 DEF DInv, LockedInv, GraceInv
<1>5. DeleteInv'
  <2>1. ASSUME refcount = 1 PROVE Quiescent
    <3>1. Holders = {p} /\ ~Held
      BY Zenon, <1>2, <2>1, LastRef
    <3>2. \A q \in Places : pc[q] # "acquired"
      BY Zenon, <1>0 DEF DInv, GraceInv
    <3>3. ~waitq.locked
      BY Zenon, <3>1, <3>2 DEF DInv, LockedInv
    <3>4. \A q \in Places : pc[q] \notin {"resetHome", "releaseRef"}
      BY <1>0, <3>1 DEF Holders
    <3> QED
      BY Zenon, <3>3, <3>4 DEF Quiescent
  <2>2. pushes' > 0 => Quiescent
    BY <1>0, <2>1 DEF DInv, DeleteInv
  <2> QED
    BY Zenon, <1>0, <1>1, <1>2, <2>2 DEF DeleteInv
<1> QED
  BY Zenon, <1>3, <1>4, <1>5 DEF DInv

\* The grace period starts with all places that are in the code of the monitor.
LEMMA Unlink_DInv ==
    ASSUME IInv, DInv, Unlink
    PROVE  DInv'
<1>1. /\ reachable /\ ~reachable' /\ reachable' \in BOOLEAN /\ grace' = {p \in Places : pc[p] # "idle"}
      /\ UNCHANGED <<waitq, refcount, deleteTask, pushes, pc, todo, nested>>
  BY Zenon DEF Unlink
<1>2. Holders' = Holders /\ (Held' <=> Held)
  BY Zenon, <1>1 DEF Holders, Held
<1>3. RefInv' /\ LockedInv'
  BY Zenon, <1>1, <1>2, SameRefs DEF DInv, LockedInv
<1>4. DeletionTypes'
  BY Zenon, <1>1 DEF DInv, DeletionTypes
<1>5. GraceInv'
  BY <1>1 DEF GraceInv
<1>6. DeleteInv'
  BY Zenon, <1>1 DEF DInv, DeleteInv
<1> QED
  BY Zenon, <1>3, <1>4, <1>5, <1>6 DEF DInv

\* Every step keeps the invariant of deletion.
LEMMA Step_DInv ==
    ASSUME NoneAssumption, IInv, DInv, [Next]_vars
    PROVE  DInv'
<1>1. CASE Unlink
  BY Zenon, <1>1, Unlink_DInv
<1>2. CASE UNCHANGED vars
  <2>1. UNCHANGED <<waitq, refcount, deleteTask, pushes, reachable, grace, pc, todo, nested>>
    BY Zenon, <1>2 DEF vars
  <2>2. Holders' = Holders /\ (Held' <=> Held)
    BY Zenon, <2>1 DEF Holders, Held
  <2>3. RefInv'
    BY Zenon, <2>1, <2>2, SameRefs
  <2> QED
    BY Zenon, <2>1, <2>2, <2>3 DEF DInv, DeletionTypes, LockedInv, GraceInv, DeleteInv, Quiescent
<1>3. ASSUME NEW p \in Places, NEW m \in Msgs, Request(p, m) PROVE DInv'
  BY Zenon, <1>3, Request_DInv
<1>4. ASSUME NEW p \in Places, HandlerNested(p) PROVE DInv'
  BY Zenon, <1>4, Token_DInv
<1>5. ASSUME NEW p \in Places, Step(p) PROVE DInv'
  <2>1. CASE RequestSetHome(p) \/ RequestRun(p) \/ RequestDone(p) \/ Retry(p)
             \/ \E m \in Msgs : Response(p, m) \/ RunLocal(p, m)
    BY Zenon, <2>1, Token_DInv
  <2>2. CASE Release(p)
    BY Zenon, <2>2, Token_DInv, Release_DInv
  <2>3. CASE RequestAcquireRef(p) \/ ResetHome(p) \/ ReleaseRef(p) \/ CheckDelete(p)
    BY Zenon, <2>3, RequestAcquireRef_DInv, ResetHome_DInv, ReleaseRef_DInv, CheckDelete_DInv
  <2>4. CASE DoDelete(p) \/ DoDeleteSet(p) \/ DoDeleteUnref(p)
    BY Zenon, <2>4, DoDelete_DInv, DoDeleteSet_DInv, DoDeleteUnref_DInv
  <2> QED
    BY Zenon, <1>5, <2>1, <2>2, <2>3, <2>4 DEF Step
<1> QED
  BY Zenon, <1>1, <1>2, <1>3, <1>4, <1>5 DEF Next

\* A kernel object is deleted only when it is idle: nobody is in its monitor, waits
\* for it, or has yet to release a reference to it.  This holds for any number of
\* places and requests, and whichever of doDelete() and the last releaseRef() comes first.
THEOREM NestedMonitorDeletion ==
    ASSUME NoneAssumption
    PROVE  Spec => []DeleteOnlyIdle
<1>1. Init => IInv
  BY DEF Init, IInv, Types, Labels, CurInv, TokenInv, QueueInv, HomeInv, Inside, Q!FreeQueue
<1>2. Init => DInv
  <2> SUFFICES ASSUME Init PROVE DInv
    BY Zenon
  <2>1. Holders = {} /\ ~Held /\ refcount = 0
    BY DEF Init, Holders, Held
  <2>2. RefInv
    BY <2>1, FS_EmptySet DEF RefInv
  <2>3. DeletionTypes /\ LockedInv
    BY Zenon DEF Init, DeletionTypes, LockedInv, Q!FreeQueue
  <2>4. GraceInv /\ DeleteInv
    BY DEF Init, GraceInv, DeleteInv
  <2> QED
    BY Zenon, <2>2, <2>3, <2>4 DEF DInv
<1>3. IInv /\ DInv /\ [Next]_vars => IInv' /\ DInv'
  BY Zenon, Step_IInv, Step_DInv
<1>4. IInv /\ DInv => DeleteOnlyIdle
  BY Zenon, DInvImplies
<1> QED
  BY <1>1, <1>2, <1>3, <1>4, PTL DEF Spec
=============================================================================
