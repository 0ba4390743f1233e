------------------------ MODULE ObjectDeletionProofs ------------------------
(***************************************************************************)
(* Safety of ObjectDeletion, for any number of places and any finite tree   *)
(* of objects.                                                              *)
(*                                                                         *)
(* No handler can begin to use an object whose capability is gone.  What    *)
(* the delete broadcast contributes is that the handlers which began before *)
(* have ended: while it is at place `at`, no place between the home of the  *)
(* operation and `at` uses an object of the operation's queue.              *)
(***************************************************************************)
EXTENDS ObjectDeletion, FiniteSetTheorems, WellFoundedInduction, TLAPS

Phases == {"none", "invoked", "sent", "sync", "broadcast", "collect", "delete", "free"}
Working == {"sync", "broadcast", "collect", "delete", "free"}
Disposing == {"delete", "free"}

Ops == [phase : Phases, root : Objects \cup {None}, kind : {"delete", "revoke"},
        home : Places, at : Places, obj : Objects \cup {None}]

Types ==
    /\ cap \in [Objects -> {"usable", "zombie", "gone"}]
    /\ pending \in [Objects -> Nat]
    /\ freed \in SUBSET Objects
    /\ active \in [Places -> BOOLEAN]
    /\ uses \in [Places -> Objects \cup {None}]
    /\ portal \in [Portals -> {"OPEN", "INVOKING", "REPLYING"}]
    /\ lock \in [Portals -> BOOLEAN]
    /\ queue \in [Portals -> Seq(Objects)]
    /\ op \in [Portals -> Ops]

\* An operation belongs to a portal that waits for it, and its objects are
\* those of its phase.
OpInv ==
    \A p \in Portals :
        /\ op[p].phase # "none" => portal[p] = "INVOKING" /\ op[p].root \in Objects
        /\ op[p].phase \in Disposing => op[p].obj \in Objects
        /\ queue[p] # <<>> => op[p].phase \in Working

\* Only removed objects are in the queues, and what is below them is removed.
GoneInv ==
    /\ \A o \in freed : cap[o] = "gone"
    /\ \A p \in Portals : \A i \in DOMAIN queue[p] : cap[queue[p][i]] = "gone"
    /\ \A p \in Portals : op[p].phase \in Disposing => cap[op[p].obj] = "gone"
    /\ \A o \in Objects : cap[o] = "gone" => \A x \in Below(o) : cap[x] = "gone"

\* A portal that works is not removed, and a removed one does not begin to work.
LockInv ==
    \A p \in Portals : /\ op[p].phase \in Working => lock[p] /\ cap[p] # "gone"
                       /\ cap[p] = "gone" => lock[p]

\* Place q works with o, or is going to start the operation of portal o.
UsedAt(q, o) == uses[q] = o \/ (o \in Portals /\ op[o].phase \in {"sent", "sync"} /\ op[o].home = q)

ActiveInv == \A q \in Places, o \in Objects : UsedAt(q, o) => active[q]

\* How far it is from place a to place b on the ring.
Dist(a, b) == IF a <= b THEN b - a ELSE b + NumPlaces - a

\* What the broadcast has passed does not use the objects of its operation.
GraceInv ==
    /\ \A p \in Portals : \A i \in DOMAIN queue[p] : \A q \in Places :
          UsedAt(q, queue[p][i]) =>
              \/ op[p].phase = "sync" \/ q = op[p].home
              \/ op[p].phase = "broadcast" /\ Dist(op[p].home, op[p].at) <= Dist(op[p].home, q)
    /\ \A p \in Portals : op[p].phase \in Disposing => \A q \in Places : ~UsedAt(q, op[p].obj)
    /\ \A o \in freed : \A q \in Places : ~UsedAt(q, o)

\* The requests that portals wait for in the monitor of o.
Invoked(o) == {p \in Portals : op[p].phase = "invoked" /\ op[p].root = o}

Unused(o) == pending[o] = 0 /\ Children(o) \subseteq freed

\* An object whose delete task was run is unused, and stays so.
UnusedInv ==
    /\ \A o \in Objects : Cardinality(Invoked(o)) <= pending[o]
    /\ \A p \in Portals : op[p].phase = "free" => Unused(op[p].obj)
    /\ \A o \in freed : Unused(o)

\* A removed object is in one queue, or disposed of by one operation, or freed.
OnceInv ==
    /\ \A p, r \in Portals : \A i \in DOMAIN queue[p], j \in DOMAIN queue[r] :
          queue[p][i] = queue[r][j] => p = r /\ i = j
    /\ \A p \in Portals : \A i \in DOMAIN queue[p] :
          /\ queue[p][i] \notin freed
          /\ \A r \in Portals : op[r].phase \in Disposing => op[r].obj # queue[p][i]
    /\ \A p \in Portals : op[p].phase \in Disposing =>
          /\ op[p].obj \notin freed
          /\ \A r \in Portals : op[r].phase \in Disposing /\ op[r].obj = op[p].obj => r = p

IInv == Types /\ OpInv /\ GoneInv /\ LockInv /\ ActiveInv /\ GraceInv /\ UnusedInv /\ OnceInv

-----------------------------------------------------------------------------
(* The ring of places *)

\* A set of natural numbers that is not empty has a least element.
LEMMA LeastElement ==
    ASSUME NEW S \in SUBSET Nat, S # {}
    PROVE  \E m \in S : \A k \in S : m <= k
<1>1. PICK m \in S : \A k \in S : ~(<<k, m>> \in OpToRel(<, Nat))
  BY Zenon, WFMin, NatLessThanWellFounded
<1>2. \A k \in S : ~(k < m)
  BY Zenon, <1>1 DEF OpToRel
<1> QED
  BY <1>2

\* Following next k times, up to once around the ring.
LEMMA HopValue ==
    ASSUME NEW q \in Places, NEW k \in 1..NumPlaces
    PROVE  Hop(q, k) = IF q + k < NumPlaces THEN q + k ELSE q + k - NumPlaces
BY SMTT(20), NumPlacesAssumption DEF Hop, Places

\* The next place in S exists, and no place of S is skipped.
LEMMA NextInValue ==
    ASSUME NEW q \in Places, NEW S \in SUBSET Places, S # {}
    PROVE  \E k \in 1..NumPlaces :
               /\ NextIn(q, S) = Hop(q, k) /\ Hop(q, k) \in S
               /\ \A j \in 1..(k - 1) : Hop(q, j) \notin S
<1> DEFINE K == {k \in 1..NumPlaces : Hop(q, k) \in S}
<1>1. PICK r : r \in S
  BY Zenon
<1>2. r \in Places
  BY Zenon, <1>1
<1> DEFINE d == IF q < r THEN r - q ELSE r + NumPlaces - q
<1>3. d \in 1..NumPlaces /\ (IF q + d < NumPlaces THEN q + d ELSE q + d - NumPlaces) = r
  BY <1>2, NumPlacesAssumption DEF Places
<1>4. d \in K
  BY Zenon, <1>1, <1>3, HopValue
<1>5. PICK m \in K : \A k \in K : m <= k
  <2>1. K \in SUBSET Nat
    BY NumPlacesAssumption
  <2> QED
    BY Zenon, <1>4, <2>1, LeastElement
<1>6. m \in 1..NumPlaces /\ Hop(q, m) \in S /\ \A j \in 1..(m - 1) : Hop(q, j) \notin S
  <2>1. ASSUME NEW j \in 1..(m - 1), Hop(q, j) \in S PROVE FALSE
    <3>1. j \in 1..NumPlaces /\ ~(m <= j)
      BY NumPlacesAssumption
    <3> QED
      BY Zenon, <2>1, <3>1, <1>5
  <2> QED
    BY Zenon, <2>1
<1> QED
  BY Zenon, <1>6 DEF NextIn

\* One hop, from place q, of a broadcast that was started at h: a place of S
\* that was still to come is reached, or still to come.
LEMMA RingStep ==
    ASSUME NEW h \in Places, NEW q \in Places, NEW S \in SUBSET Places, h \in S
    PROVE  /\ NextIn(q, S) \in S
           /\ \A r \in S : r \notin {h, q} /\ Dist(h, q) <= Dist(h, r) =>
                              NextIn(q, S) # h /\ Dist(h, NextIn(q, S)) <= Dist(h, r)
<1>1. PICK k \in 1..NumPlaces : /\ NextIn(q, S) = Hop(q, k) /\ Hop(q, k) \in S
                                /\ \A j \in 1..(k - 1) : Hop(q, j) \notin S
  BY Zenon, NextInValue
<1>2. NextIn(q, S) \in S
  BY Zenon, <1>1
<1> SUFFICES ASSUME NEW r \in S, r # h, r # q, Dist(h, q) <= Dist(h, r)
             PROVE  NextIn(q, S) # h /\ Dist(h, NextIn(q, S)) <= Dist(h, r)
  BY Zenon, <1>2
<1> DEFINE d(x) == IF q < x THEN x - q ELSE x + NumPlaces - q
<1>3. ASSUME NEW x \in S PROVE d(x) \in 1..NumPlaces /\ Hop(q, d(x)) = x
  <2>1. d(x) \in 1..NumPlaces /\ (IF q + d(x) < NumPlaces THEN q + d(x) ELSE q + d(x) - NumPlaces) = x
    BY NumPlacesAssumption DEF Places
  <2> QED
    BY Zenon, <2>1, HopValue
<1>4. \A x \in S : k <= d(x)
  <2> SUFFICES ASSUME NEW x \in S, ~(k <= d(x)) PROVE FALSE
    BY Zenon
  <2>1. d(x) \in 1..(k - 1)
    BY <1>3, NumPlacesAssumption DEF Places
  <2> QED
    BY Zenon, <2>1, <1>1, <1>3
<1>5. k <= d(r) /\ k <= d(h)
  BY Zenon, <1>4
<1>6. NextIn(q, S) = IF q + k < NumPlaces THEN q + k ELSE q + k - NumPlaces
  BY Zenon, <1>1, HopValue
<1>7. r \in 0..(NumPlaces - 1) /\ h \in 0..(NumPlaces - 1) /\ q \in 0..(NumPlaces - 1)
  BY Zenon DEF Places
<1> QED
  BY <1>5, <1>6, <1>7, NumPlacesAssumption DEF Dist

-----------------------------------------------------------------------------
(* The inheritance tree, queues and reference counts *)

\* What is below an object is closed under the two parent relations.
LEMMA BelowClosed ==
    ASSUME NEW o \in Objects
    PROVE  /\ Below(o) \subseteq Objects
           /\ Before(o) \subseteq Below(o)
           /\ \A x \in Below(o) : Below(x) \subseteq Below(o)
<1>1. Before(o) \subseteq Objects
  BY Zenon, ObjectAssumption DEF Before, Children
<1>2. ASSUME NEW x \in Below(o), NEW y \in Below(x) PROVE y \in Below(o)
  <2>1. x \in Objects /\ y \in Objects
    BY Zenon, <1>2 DEF Below, BelowFun
  <2> SUFFICES ASSUME NEW S \in SUBSET Objects, Before(o) \subseteq S, Closed(S) PROVE y \in S
    BY Zenon, <2>1 DEF Below, BelowFun
  <2>2. x \in S
    BY Zenon DEF Below, BelowFun
  <2>3. Before(x) \subseteq S
    BY Zenon, <2>2 DEF Closed
  <2> QED
    BY Zenon, <2>1, <2>3 DEF Below, BelowFun
<1> QED
  BY Zenon, <1>1, <1>2 DEF Below, BelowFun

\* The items of a sequence after an append.
LEMMA AppendItems ==
    ASSUME NEW S, NEW s \in Seq(S), NEW e \in S
    PROVE  /\ Append(s, e) \in Seq(S)
           /\ DOMAIN Append(s, e) = 1..(Len(s) + 1) /\ DOMAIN s = 1..Len(s) /\ Len(s) \in Nat
           /\ \A i \in DOMAIN s : Append(s, e)[i] = s[i]
           /\ Append(s, e)[Len(s) + 1] = e
OBVIOUS

\* The items of a sequence without its first one.
LEMMA TailItems ==
    ASSUME NEW S, NEW s \in Seq(S), s # <<>>
    PROVE  /\ Tail(s) \in Seq(S)
           /\ DOMAIN Tail(s) = 1..(Len(s) - 1) /\ DOMAIN s = 1..Len(s) /\ Len(s) \in Nat \ {0}
           /\ \A i \in DOMAIN Tail(s) : Tail(s)[i] = s[i + 1]
           /\ Head(s) = s[1] /\ Head(s) \in S
OBVIOUS

\* An object without references has no pending requests and no blocks.
LEMMA RefsZero ==
    ASSUME Types, NEW o \in Objects, Refs(o) = 0
    PROVE  Unused(o)
<1> DEFINE F == {p \in Portals : op[p].phase = "free" /\ Memory[op[p].obj] = o}
<1>1. IsFiniteSet(Children(o) \ freed) /\ IsFiniteSet(F)
  BY Zenon, FS_Subset, ObjectAssumption DEF Children
<1>2. Cardinality(Children(o) \ freed) \in Nat /\ Cardinality(F) \in Nat
  BY Zenon, <1>1, FS_CardinalityType
<1>3. pending[o] = 0 /\ Cardinality(Children(o) \ freed) = 0
  BY <1>2 DEF Refs, Types
<1>4. Children(o) \ freed = {}
  BY Zenon, <1>1, <1>3, FS_EmptySet
<1> QED
  BY Zenon, <1>3, <1>4 DEF Unused

\* There are finitely many requests of portals in a monitor.
LEMMA InvokedFinite ==
    ASSUME NEW o \in Objects
    PROVE  IsFiniteSet(Invoked(o)) /\ Cardinality(Invoked(o)) \in Nat
BY Zenon, FS_Subset, FS_CardinalityType, ObjectAssumption DEF Invoked

-----------------------------------------------------------------------------
(* Places *)

\* A free place uses nothing.
LEMMA FreePlace ==
    ASSUME Types, NEW q \in Places, Free(q), NEW o \in Objects
    PROVE  ~UsedAt(q, o)
BY Zenon, ObjectAssumption DEF Types, Free, Busy, UsedAt

\* Steps that only change what places do.
LEMMA PlaceStep ==
    ASSUME IInv, UNCHANGED <<cap, pending, freed, portal, lock, queue, op>>,
           active' \in [Places -> BOOLEAN], uses' \in [Places -> Objects \cup {None}],
           ActiveInv',
           \A q \in Places, o \in Objects : UsedAt(q, o)' => UsedAt(q, o) \/ cap[o] # "gone"
    PROVE  IInv'
<1>1. Types'
  BY Zenon DEF IInv, Types, Ops
<1>2. OpInv' /\ LockInv' /\ OnceInv'
  BY DEF IInv, OpInv, LockInv, OnceInv
<1>3. GoneInv'
  BY Zenon DEF IInv, GoneInv
<1>4. GraceInv'
  <2>1. ASSUME NEW p \in Portals, NEW i \in DOMAIN queue[p], NEW q \in Places, UsedAt(q, queue[p][i])'
        PROVE  UsedAt(q, queue[p][i])
    BY <2>1 DEF IInv, Types, GoneInv
  <2>2. ASSUME NEW p \in Portals, op[p].phase \in Disposing, NEW q \in Places
        PROVE  ~UsedAt(q, op[p].obj)'
    BY Zenon, <2>2 DEF IInv, OpInv, GoneInv, GraceInv
  <2>3. ASSUME NEW o \in freed, NEW q \in Places
        PROVE  ~UsedAt(q, o)'
    BY Zenon DEF IInv, Types, GoneInv, GraceInv
  <2> QED
    BY Zenon, <2>1, <2>2, <2>3 DEF IInv, GraceInv
<1>5. UnusedInv'
  BY Zenon DEF IInv, UnusedInv, Unused, Invoked
<1> QED
  BY Zenon, <1>1, <1>2, <1>3, <1>4, <1>5 DEF IInv

\* A place that enters the kernel uses nothing yet.
LEMMA EnterKernel_IInv ==
    ASSUME IInv, NEW q \in Places, EnterKernel(q)
    PROVE  IInv'
<1>1. active' \in [Places -> BOOLEAN] /\ uses' \in [Places -> Objects \cup {None}]
  BY Zenon DEF IInv, Types, EnterKernel
<1>2. ActiveInv'
  BY Zenon DEF IInv, Types, ActiveInv, UsedAt, EnterKernel
<1>3. \A r \in Places, o \in Objects : UsedAt(r, o)' => UsedAt(r, o)
  BY Zenon DEF UsedAt, EnterKernel
<1> QED
  BY Zenon, <1>1, <1>2, <1>3, PlaceStep DEF EnterKernel, caps

\* A place leaves the kernel only after its handlers and operations.
LEMMA LeaveKernel_IInv ==
    ASSUME IInv, NEW q \in Places, LeaveKernel(q)
    PROVE  IInv'
<1>1. active' \in [Places -> BOOLEAN] /\ uses' \in [Places -> Objects \cup {None}]
  BY Zenon DEF IInv, Types, LeaveKernel
<1>2. \A r \in Places, o \in Objects : UsedAt(r, o)' => UsedAt(r, o)
  BY Zenon DEF UsedAt, LeaveKernel
<1>3. \A o \in Objects : ~UsedAt(q, o)
  BY Zenon, FreePlace DEF IInv, LeaveKernel
<1>4. ActiveInv'
  BY Zenon, <1>2, <1>3 DEF IInv, Types, ActiveInv, LeaveKernel
<1> QED
  BY Zenon, <1>1, <1>2, <1>4, PlaceStep DEF LeaveKernel, caps

\* A handler finds usable objects only, so none that an operation has removed.
LEMMA Lookup_IInv ==
    ASSUME IInv, NEW q \in Places, NEW o \in Objects, Lookup(q, o)
    PROVE  IInv'
<1>1. active' \in [Places -> BOOLEAN] /\ uses' \in [Places -> Objects \cup {None}]
  BY Zenon DEF IInv, Types, Lookup
<1>2. \A r \in Places, x \in Objects : UsedAt(r, x)' => UsedAt(r, x) \/ (r = q /\ x = o)
  BY Zenon DEF IInv, Types, UsedAt, Lookup
<1>3. ActiveInv'
  BY Zenon, <1>2 DEF IInv, ActiveInv, Lookup, Free
<1> QED
  BY Zenon, <1>1, <1>2, <1>3, PlaceStep DEF Lookup, caps

\* The request that a handler leaves behind is not for an unused object.
LEMMA HandlerDone_IInv ==
    ASSUME IInv, NEW q \in Places, HandlerDone(q)
    PROVE  IInv'
<1> DEFINE o == uses[q]
<1>1. o \in Objects /\ UsedAt(q, o) /\ UNCHANGED <<cap, freed, active, portal, lock, queue, op>>
  BY Zenon DEF IInv, Types, HandlerDone, UsedAt
<1>2. /\ pending' \in [Objects -> Nat]
      /\ \A x \in Objects : pending'[x] = pending[x] \/ (x = o /\ pending'[x] = pending[x] + 1)
  BY <1>1 DEF IInv, Types, HandlerDone
<1>3. Types'
  BY Zenon, <1>1, <1>2 DEF IInv, Types, HandlerDone, Ops
<1>4. \A r \in Places, x \in Objects : UsedAt(r, x)' => UsedAt(r, x)
  BY Zenon, <1>1, ObjectAssumption DEF IInv, Types, UsedAt, HandlerDone
<1>5. OpInv' /\ LockInv' /\ OnceInv' /\ GoneInv'
  BY <1>1 DEF IInv, OpInv, LockInv, OnceInv, GoneInv
<1>6. ActiveInv'
  BY Zenon, <1>1, <1>4 DEF IInv, ActiveInv
<1>7. GraceInv'
  <2>1. \A p \in Portals : \A i \in DOMAIN queue[p] : queue[p][i] \in Objects
    BY DEF IInv, Types
  <2> QED
    BY Zenon, <1>1, <1>4, <2>1 DEF IInv, GraceInv, Types, OpInv
<1>8. UnusedInv'
  <2>1. \A x \in Objects : Cardinality(Invoked(x))' = Cardinality(Invoked(x))
    BY Zenon, <1>1 DEF Invoked
  <2>2. ASSUME NEW x \in Objects PROVE Cardinality(Invoked(x))' <= pending'[x]
    <3>1. Cardinality(Invoked(x)) \in Nat /\ pending[x] \in Nat /\ Cardinality(Invoked(x)) <= pending[x]
      BY Zenon, InvokedFinite DEF IInv, Types, UnusedInv
    <3> QED
      BY <1>2, <2>1, <3>1
  <2>3. \A x \in Objects : x # o /\ Unused(x) => Unused(x)'
    BY Zenon, <1>1, <1>2 DEF Unused
  <2>4. ASSUME NEW p \in Portals, op[p].phase = "free" PROVE Unused(op[p].obj)'
    <3>1. op[p].obj \in Objects /\ ~UsedAt(q, op[p].obj) /\ Unused(op[p].obj)
      BY Zenon, <2>4 DEF IInv, OpInv, GraceInv, UnusedInv, Disposing
    <3> QED
      BY Zenon, <1>1, <2>3, <3>1
  <2>5. ASSUME NEW x \in freed PROVE Unused(x)'
    <3>1. x \in Objects /\ ~UsedAt(q, x) /\ Unused(x)
      BY Zenon DEF IInv, Types, GraceInv, UnusedInv
    <3> QED
      BY Zenon, <1>1, <2>3, <3>1
  <2> QED
    BY Zenon, <1>1, <2>2, <2>4, <2>5 DEF UnusedInv
<1> QED
  BY Zenon, <1>3, <1>5, <1>6, <1>7, <1>8 DEF IInv

\* A request that ends is not one that a portal still waits for.
LEMMA RequestDone_IInv ==
    ASSUME IInv, NEW o \in Objects, RequestDone(o)
    PROVE  IInv'
<1>1. UNCHANGED <<cap, freed, active, uses, portal, lock, queue, op>>
  BY Zenon DEF RequestDone, places
<1>2. Cardinality(Invoked(o)) \in Nat /\ pending[o] \in Nat /\ pending[o] > Cardinality(Invoked(o))
  BY Zenon, InvokedFinite DEF IInv, Types, RequestDone, Invoked
<1>3. pending' = [pending EXCEPT ![o] = pending[o] - 1] /\ pending[o] - 1 \in Nat
  BY <1>2 DEF RequestDone
<1>4. Types'
  BY Zenon, <1>1, <1>3 DEF IInv, Types, Ops
<1>5. OpInv' /\ LockInv' /\ OnceInv' /\ GoneInv' /\ ActiveInv' /\ GraceInv'
  BY <1>1 DEF IInv, OpInv, LockInv, OnceInv, GoneInv, ActiveInv, GraceInv, UsedAt
<1>6. UnusedInv'
  <2>1. \A x \in Objects : Cardinality(Invoked(x))' = Cardinality(Invoked(x))
    BY Zenon, <1>1 DEF Invoked
  <2>2. ASSUME NEW x \in Objects PROVE Cardinality(Invoked(x))' <= pending'[x]
    BY <1>2, <1>3, <2>1 DEF IInv, Types, UnusedInv
  <2>3. \A x \in Objects : Unused(x) => Unused(x)'
    BY <1>1, <1>2, <1>3 DEF IInv, Types, Unused
  <2> QED
    BY Zenon, <1>1, <2>2, <2>3 DEF IInv, Types, OpInv, UnusedInv, Disposing
<1> QED
  BY Zenon, <1>4, <1>5, <1>6 DEF IInv

-----------------------------------------------------------------------------
(* Beginning and end of an operation *)

\* A portal that is not removed starts to wait for an operation or an object.
LEMMA BeginOp ==
    ASSUME IInv, NEW p \in Portals, NEW new \in Ops,
           portal[p] = "OPEN", cap[p] # "gone",
           portal' = [portal EXCEPT ![p] = "INVOKING"],
           op' = [op EXCEPT ![p] = new],
           new.phase \in {"sent", "invoked"}, new.root \in Objects,
           new.phase = "sent" => active[new.home],
           UNCHANGED <<cap, freed, active, uses, lock, queue>>,
           pending' \in [Objects -> Nat], UnusedInv'
    PROVE  IInv'
<1>1. op[p].phase = "none" /\ queue[p] = <<>>
  BY Zenon DEF IInv, OpInv, Working
<1>2. op'[p] = new /\ \A r \in Portals : r # p => op'[r] = op[r]
  BY Zenon DEF IInv, Types
<1>3. Types'
  BY Zenon DEF IInv, Types
<1>4. OpInv'
  BY <1>1, <1>2 DEF IInv, Types, OpInv, Disposing
<1>5. \A r \in Portals : op'[r].phase \in Working \cup Disposing => op'[r] = op[r]
  BY Zenon, <1>2 DEF Working, Disposing
<1>6. GoneInv' /\ OnceInv'
  BY <1>5 DEF IInv, GoneInv, OnceInv
<1>7. LockInv'
  BY Zenon, <1>5 DEF IInv, LockInv
<1>8. \A q \in Places, o \in Objects : UsedAt(q, o)' => UsedAt(q, o) \/ (o = p /\ active[q])
  BY Zenon, <1>2 DEF UsedAt
<1>9. ActiveInv'
  BY Zenon, <1>8 DEF IInv, ActiveInv
<1>10. GraceInv'
  <2>1. ASSUME NEW r \in Portals, NEW i \in DOMAIN queue[r], NEW q \in Places, UsedAt(q, queue[r][i])'
        PROVE  r # p /\ UsedAt(q, queue[r][i])
    BY <1>1, <1>8, <2>1 DEF IInv, Types, GoneInv
  <2>2. ASSUME NEW r \in Portals, op'[r].phase \in Disposing, NEW q \in Places
        PROVE  ~UsedAt(q, op[r].obj)'
    <3>1. op'[r] = op[r] /\ op[r].obj \in Objects /\ ~UsedAt(q, op[r].obj) /\ cap[op[r].obj] = "gone"
      BY Zenon, <1>5, <2>2 DEF IInv, OpInv, GoneInv, GraceInv
    <3> QED
      BY Zenon, <1>8, <3>1
  <2>3. ASSUME NEW o \in freed, NEW q \in Places
        PROVE  ~UsedAt(q, o)'
    BY Zenon, <1>8 DEF IInv, Types, GoneInv, GraceInv
  <2> QED
    BY <1>2, <2>1, <2>2, <2>3 DEF IInv, GraceInv
<1> QED
  BY Zenon, <1>3, <1>4, <1>6, <1>7, <1>9, <1>10 DEF IInv

\* A portal that sends an operation has none in progress.
LEMMA Send_IInv ==
    ASSUME IInv, NEW p \in Portals, NEW r \in Roots[p], NEW k \in {"delete", "revoke"}, NEW q \in Places,
           Send(p, r, k, q)
    PROVE  IInv'
<1> DEFINE new == [NoOp EXCEPT !.phase = "sent", !.root = r, !.kind = k, !.home = q]
<1>1. r \in Objects /\ 0 \in Places
  BY ObjectAssumption, NumPlacesAssumption DEF Places
<1>2. new \in Ops /\ new.phase = "sent" /\ new.root = r /\ new.home = q
  BY Zenon, <1>1 DEF NoOp, Ops, Phases
<1>3. op[p].phase = "none"
  BY Zenon DEF IInv, OpInv, Send
<1>4. UnusedInv'
  <2>1. op'[p] = new /\ \A x \in Portals : x # p => op'[x] = op[x]
    BY Zenon DEF IInv, Types, Send
  <2>2. \A x \in Portals : op'[x].phase \in {"invoked", "free"} => op'[x] = op[x]
    BY Zenon, <1>2, <2>1
  <2>3. \A x \in Portals : op[x].phase \in {"invoked", "free"} => op'[x] = op[x]
    BY Zenon, <1>3, <2>1
  <2>4. \A x \in Objects : Cardinality(Invoked(x))' = Cardinality(Invoked(x))
    <3> SUFFICES ASSUME NEW x \in Objects PROVE Invoked(x)' = Invoked(x)
      BY Zenon
    <3> QED
      BY Zenon, <2>2, <2>3 DEF Invoked
  <2> QED
    BY Zenon, <2>2, <2>4 DEF IInv, UnusedInv, Unused, Send, caps
<1>5. UNCHANGED <<cap, freed, active, uses, lock, queue, pending>> /\ pending \in [Objects -> Nat]
  BY Zenon DEF IInv, Types, Send, caps, places
<1>6. /\ portal[p] = "OPEN" /\ cap[p] # "gone" /\ active[q]
      /\ portal' = [portal EXCEPT ![p] = "INVOKING"] /\ op' = [op EXCEPT ![p] = new]
  BY Zenon DEF Send
<1> HIDE DEF new
<1> QED
  BY Zenon, <1>1, <1>2, <1>4, <1>5, <1>6, BeginOp

\* A portal that sends a request counts as one pending request of the object.
LEMMA Invoke_IInv ==
    ASSUME IInv, NEW p \in Portals, NEW o \in Users, Invoke(p, o)
    PROVE  IInv'
<1> DEFINE new == [NoOp EXCEPT !.phase = "invoked", !.root = o]
<1>1. o \in Objects /\ 0 \in Places
  BY ObjectAssumption, NumPlacesAssumption DEF Places
<1>2. new \in Ops /\ new.phase = "invoked" /\ new.root = o
  BY Zenon, <1>1 DEF NoOp, Ops, Phases
<1>3. op[p].phase = "none"
  BY Zenon DEF IInv, OpInv, Invoke
<1>4. /\ portal[p] = "OPEN" /\ cap[p] # "gone" /\ cap[o] # "gone"
      /\ portal' = [portal EXCEPT ![p] = "INVOKING"] /\ op' = [op EXCEPT ![p] = new]
      /\ pending' = [pending EXCEPT ![o] = pending[o] + 1]
      /\ UNCHANGED <<cap, freed, active, uses, lock, queue>>
  BY Zenon DEF Invoke, places
<1>5. op'[p] = new /\ \A x \in Portals : x # p => op'[x] = op[x]
  BY Zenon, <1>4 DEF IInv, Types
<1> HIDE DEF new
<1>6. pending' \in [Objects -> Nat] /\ pending'[o] = pending[o] + 1 /\ pending[o] \in Nat
  BY <1>1, <1>4 DEF IInv, Types
<1>7. UnusedInv'
  <2>1. ASSUME NEW x \in Objects PROVE Cardinality(Invoked(x))' <= pending'[x]
    <3>1. CASE x = o
      <4>1. Invoked(x)' = Invoked(x) \cup {p} /\ p \notin Invoked(x)
        BY Zenon, <1>2, <1>3, <1>5, <3>1 DEF Invoked
      <4>2. Cardinality(Invoked(x))' = Cardinality(Invoked(x)) + 1
        BY Zenon, <4>1, FS_AddElement, InvokedFinite
      <4> QED
        BY <1>6, <3>1, <4>2, InvokedFinite DEF IInv, UnusedInv
    <3>2. CASE x # o
      <4>1. Invoked(x)' = Invoked(x)
        BY Zenon, <1>2, <1>3, <1>5, <3>2 DEF Invoked
      <4>2. Cardinality(Invoked(x))' = Cardinality(Invoked(x))
        BY Zenon, <4>1
      <4> QED
        BY Zenon, <1>1, <1>4, <3>2, <4>2 DEF IInv, Types, UnusedInv
    <3> QED
      BY Zenon, <3>1, <3>2
  <2>2. \A x \in Objects : cap[x] = "gone" /\ Unused(x) => Unused(x)'
    BY Zenon, <1>4 DEF IInv, Types, Unused
  <2>3. ASSUME NEW x \in Portals, op'[x].phase = "free" PROVE Unused(op[x].obj)'
    <3>1. op'[x] = op[x]
      BY Zenon, <1>2, <1>5, <2>3
    <3>2. op[x].obj \in Objects /\ cap[op[x].obj] = "gone" /\ Unused(op[x].obj)
      BY Zenon, <2>3, <3>1 DEF IInv, OpInv, GoneInv, UnusedInv, Disposing
    <3> QED
      BY Zenon, <2>2, <3>1, <3>2
  <2>4. ASSUME NEW x \in freed PROVE Unused(x)'
    BY Zenon, <2>2 DEF IInv, Types, GoneInv, UnusedInv
  <2> QED
    BY Zenon, <1>4, <2>1, <2>3, <2>4 DEF UnusedInv
<1> QED
  BY Zenon, <1>1, <1>2, <1>4, <1>6, <1>7, BeginOp

\* A portal whose answer is received has no operation.
LEMMA Deliver_IInv ==
    ASSUME IInv, NEW p \in Portals, Deliver(p)
    PROVE  IInv'
<1>1. UNCHANGED <<cap, pending, freed, active, uses, lock, queue, op>>
  BY Zenon DEF Deliver, caps, places
<1>2. Types'
  BY Zenon, <1>1 DEF IInv, Types, Ops, Deliver
<1>3. OpInv'
  BY Zenon, <1>1 DEF IInv, Types, OpInv, Deliver
<1>4. LockInv' /\ OnceInv' /\ GoneInv' /\ ActiveInv' /\ GraceInv'
  BY <1>1 DEF IInv, LockInv, OnceInv, GoneInv, ActiveInv, GraceInv, UsedAt
<1>5. UnusedInv'
  BY Zenon, <1>1 DEF IInv, UnusedInv, Unused, Invoked
<1> QED
  BY Zenon, <1>2, <1>3, <1>4, <1>5 DEF IInv

\* The operation ends with an empty queue.
LEMMA EndOp ==
    ASSUME IInv, NEW p \in Portals, queue[p] = <<>>,
           op' = [op EXCEPT ![p] = NoOp],
           portal' \in [Portals -> {"OPEN", "INVOKING", "REPLYING"}],
           \A r \in Portals : r # p => portal'[r] = portal[r],
           lock' \in [Portals -> BOOLEAN],
           \A r \in Portals : r # p \/ cap[p] = "gone" => lock'[r] = lock[r],
           UNCHANGED <<cap, freed, active, uses, queue>>,
           pending' \in [Objects -> Nat], UnusedInv'
    PROVE  IInv'
<1>1. op'[p] = NoOp /\ NoOp.phase = "none" /\ \A r \in Portals : r # p => op'[r] = op[r]
  BY Zenon DEF IInv, Types, NoOp
<1>2. Types'
  <2>1. NoOp \in Ops
    BY NumPlacesAssumption DEF NoOp, Ops, Phases, Places
  <2> QED
    BY Zenon, <2>1 DEF IInv, Types
<1>3. OpInv'
  BY Zenon, <1>1 DEF IInv, Types, OpInv, Disposing
<1>4. \A r \in Portals : op'[r].phase # "none" => r # p /\ op'[r] = op[r]
  BY Zenon, <1>1
<1>5. GoneInv' /\ OnceInv'
  BY <1>4 DEF IInv, GoneInv, OnceInv, Disposing
<1>6. LockInv'
  BY Zenon, <1>4 DEF IInv, LockInv, Working
<1>7. \A q \in Places, o \in Objects : UsedAt(q, o)' => UsedAt(q, o)
  BY Zenon, <1>4 DEF UsedAt
<1>8. ActiveInv'
  BY Zenon, <1>7 DEF IInv, ActiveInv
<1>9. GraceInv'
  <2>1. ASSUME NEW r \in Portals, NEW i \in DOMAIN queue[r], NEW q \in Places, UsedAt(q, queue[r][i])'
        PROVE  r # p /\ UsedAt(q, queue[r][i])
    BY <1>7, <2>1 DEF IInv, Types
  <2>2. ASSUME NEW r \in Portals, op'[r].phase \in Disposing, NEW q \in Places
        PROVE  ~UsedAt(q, op[r].obj)'
    <3>1. op'[r] = op[r] /\ op[r].obj \in Objects /\ ~UsedAt(q, op[r].obj)
      BY Zenon, <1>4, <2>2 DEF IInv, OpInv, GraceInv, Disposing
    <3> QED
      BY Zenon, <1>7, <3>1
  <2>3. ASSUME NEW o \in freed, NEW q \in Places
        PROVE  ~UsedAt(q, o)'
    BY Zenon, <1>7 DEF IInv, Types, GraceInv
  <2> QED
    BY <1>1, <2>1, <2>2, <2>3 DEF IInv, GraceInv
<1> QED
  BY Zenon, <1>2, <1>3, <1>5, <1>6, <1>8, <1>9 DEF IInv

\* The reference counts do not change, and no delete task is run.
LEMMA UnusedKept ==
    ASSUME IInv, NEW p \in Portals, \A r \in Portals : r # p => op'[r] = op[r],
           op[p].phase # "invoked", op'[p].phase \notin {"invoked", "free"},
           UNCHANGED <<pending, freed>>
    PROVE  UnusedInv'
<1>1. ASSUME NEW x \in Objects PROVE Cardinality(Invoked(x))' <= pending'[x]
  <2>1. Invoked(x)' = Invoked(x)
    BY Zenon DEF Invoked
  <2>2. Cardinality(Invoked(x))' = Cardinality(Invoked(x))
    BY Zenon, <2>1
  <2> QED
    BY Zenon, <2>2 DEF IInv, UnusedInv
<1>2. \A r \in Portals : op'[r].phase = "free" => op'[r] = op[r]
  BY Zenon
<1> QED
  BY Zenon, <1>1, <1>2 DEF IInv, UnusedInv, Unused

\* An answer ends the one pending request of its portal.
LEMMA Reply_IInv ==
    ASSUME IInv, NEW p \in Portals, Reply(p)
    PROVE  IInv'
<1>1. PICK o \in Objects : o = op[p].root
  BY Zenon DEF IInv, OpInv, Reply
<1>2. /\ op[p].phase = "invoked" /\ op[p].root = o /\ queue[p] = <<>>
      /\ pending' = [pending EXCEPT ![o] = pending[o] - 1]
      /\ op' = [op EXCEPT ![p] = NoOp]
      /\ UNCHANGED <<cap, freed, active, uses, lock, queue>>
  BY Zenon, <1>1 DEF IInv, OpInv, Working, Reply, Respond, places
<1>3. op'[p] = NoOp /\ NoOp.phase = "none" /\ \A x \in Portals : x # p => op'[x] = op[x]
  BY Zenon, <1>2 DEF IInv, Types, NoOp
<1>4. Invoked(o)' = Invoked(o) \ {p} /\ p \in Invoked(o)
  BY Zenon, <1>2, <1>3 DEF Invoked
<1>5. Cardinality(Invoked(o))' = Cardinality(Invoked(o)) - 1
  BY ZenonT(20), <1>2, <1>4, FS_RemoveElement, InvokedFinite
<1>6. IsFiniteSet(Invoked(o)) /\ Cardinality(Invoked(o)) \in Nat \ {0}
  <2>1. IsFiniteSet(Invoked(o)) /\ Cardinality(Invoked(o)) \in Nat
    BY Zenon, <1>2, InvokedFinite
  <2> QED
    BY Zenon, <1>4, <2>1, FS_EmptySet
<1>7. pending[o] \in Nat \ {0} /\ Cardinality(Invoked(o)) <= pending[o]
  BY <1>2, <1>6 DEF IInv, Types, UnusedInv
<1>8. pending' \in [Objects -> Nat] /\ pending'[o] = pending[o] - 1
  BY <1>2, <1>7 DEF IInv, Types
<1>9. UnusedInv'
  <2>1. ASSUME NEW x \in Objects PROVE Cardinality(Invoked(x))' <= pending'[x]
    <3>1. CASE x = o
      BY <1>5, <1>6, <1>7, <1>8, <3>1
    <3>2. CASE x # o
      <4>1. Invoked(x)' = Invoked(x)
        BY Zenon, <1>2, <1>3, <3>2 DEF Invoked
      <4>2. Cardinality(Invoked(x))' = Cardinality(Invoked(x))
        BY Zenon, <4>1
      <4> QED
        BY Zenon, <1>2, <3>2, <4>2 DEF IInv, Types, UnusedInv
    <3> QED
      BY Zenon, <3>1, <3>2
  <2>2. \A x \in Objects : Unused(x) => Unused(x)'
    BY Zenon, <1>2, <1>7 DEF IInv, Types, Unused
  <2>3. ASSUME NEW x \in Portals, op'[x].phase = "free" PROVE Unused(op[x].obj)'
    <3>1. op'[x] = op[x]
      BY Zenon, <1>3, <2>3
    <3>2. op[x].obj \in Objects /\ Unused(op[x].obj)
      BY Zenon, <2>3, <3>1 DEF IInv, OpInv, UnusedInv, Disposing
    <3> QED
      BY Zenon, <2>2, <3>1, <3>2
  <2>4. ASSUME NEW x \in freed PROVE Unused(x)'
    BY Zenon, <2>2 DEF IInv, Types, UnusedInv
  <2> QED
    BY Zenon, <1>2, <2>1, <2>3, <2>4 DEF UnusedInv
<1>10. /\ portal' \in [Portals -> {"OPEN", "INVOKING", "REPLYING"}]
       /\ \A r \in Portals : r # p => portal'[r] = portal[r]
       /\ lock' \in [Portals -> BOOLEAN] /\ \A r \in Portals : lock'[r] = lock[r]
  BY ZenonT(20), <1>2 DEF IInv, Types, Reply, Respond
<1> QED
  BY Zenon, <1>2, <1>8, <1>9, <1>10, EndOp

\* An operation starts at its home place, in a portal that is not removed.
LEMMA Start_IInv ==
    ASSUME IInv, NEW p \in Portals, Start(p)
    PROVE  IInv'
<1> DEFINE r == op[p].root
           live == IF op[p].kind = "delete" THEN cap[r] # "gone" ELSE cap[r] = "usable"
<1>1. /\ op[p].phase = "sent" /\ r \in Objects /\ queue[p] = <<>>
      /\ UNCHANGED <<pending, freed, active, uses, queue>>
  BY Zenon DEF IInv, OpInv, Working, Start, places
<1>2. CASE lock[p] \/ ~live
  <2>1. /\ op' = [op EXCEPT ![p] = NoOp] /\ portal' = [portal EXCEPT ![p] = "REPLYING"]
        /\ UNCHANGED <<cap, lock>>
    BY Zenon, <1>2 DEF Start, Respond
  <2>2. op'[p].phase = "none" /\ \A x \in Portals : x # p => op'[x] = op[x]
    BY Zenon, <2>1 DEF IInv, Types, NoOp
  <2>3. UnusedInv'
    BY Zenon, <1>1, <2>2, UnusedKept
  <2>4. /\ portal' \in [Portals -> {"OPEN", "INVOKING", "REPLYING"}]
        /\ \A x \in Portals : x # p => portal'[x] = portal[x]
        /\ lock' \in [Portals -> BOOLEAN] /\ pending' \in [Objects -> Nat]
    BY Zenon, <1>1, <2>1 DEF IInv, Types
  <2> QED
    BY Zenon, <1>1, <2>1, <2>3, <2>4, EndOp
<1>3. CASE ~lock[p] /\ live
  <2>1. /\ lock' = [lock EXCEPT ![p] = TRUE]
        /\ op' = [op EXCEPT ![p].phase = "sync"]
        /\ cap' = IF op[p].kind = "delete" THEN [cap EXCEPT ![r] = "zombie"] ELSE cap
        /\ UNCHANGED portal
    BY Zenon, <1>3 DEF Start
  <2>2. /\ op'[p].phase = "sync" /\ op'[p].home = op[p].home /\ op'[p].root = op[p].root
        /\ \A x \in Portals : x # p => op'[x] = op[x]
    BY Zenon, <2>1 DEF IInv, Types, Ops
  <2>3. Types'
    <3>1. op[p] \in Ops /\ op'[p] = [op[p] EXCEPT !.phase = "sync"]
      BY Zenon, <2>1 DEF IInv, Types
    <3>2. op'[p] \in Ops
      BY <3>1 DEF Ops, Phases
    <3>3. op' \in [Portals -> Ops]
      BY Zenon, <2>1, <2>2, <3>2 DEF IInv, Types
    <3>4. cap' \in [Objects -> {"usable", "zombie", "gone"}] /\ lock' \in [Portals -> BOOLEAN]
      BY <1>1, <2>1 DEF IInv, Types
    <3> QED
      BY Zenon, <1>1, <2>1, <3>3, <3>4 DEF IInv, Types
  <2>4. \A x \in Objects : cap'[x] = "gone" <=> cap[x] = "gone"
    BY Zenon, <1>1, <1>3, <2>1 DEF IInv, Types
  <2>5. cap[p] # "gone" /\ p \in Objects
    BY Zenon, <1>3, ObjectAssumption DEF IInv, LockInv
  <2>6. OpInv'
    BY <1>1, <2>1, <2>2 DEF IInv, Types, Ops, OpInv, Working, Disposing
  <2>7. \A x \in Portals : op'[x].phase \in Disposing \/ op[x].phase \in Disposing => op'[x] = op[x]
    BY Zenon, <1>1, <2>2 DEF Disposing
  <2>8. GoneInv'
    <3>1. \A x \in Objects : Below(x) \subseteq Objects
      BY Zenon, BelowClosed
    <3>2. \A x \in Objects : cap'[x] = "gone" => \A y \in Below(x) : cap'[y] = "gone"
      BY Zenon, <2>4, <3>1 DEF IInv, GoneInv
    <3>3. \A x \in Portals : \A i \in DOMAIN queue[x] : queue[x][i] \in Objects
      BY DEF IInv, Types
    <3> QED
      BY <1>1, <2>4, <2>7, <3>2, <3>3 DEF IInv, Types, OpInv, GoneInv
  <2>9. OnceInv'
    BY <1>1, <2>7 DEF IInv, OnceInv
  <2>10. LockInv'
    BY <2>1, <2>2, <2>4, <2>5, ObjectAssumption DEF IInv, Types, LockInv
  <2>11. \A q \in Places, o \in Objects : UsedAt(q, o)' <=> UsedAt(q, o)
    BY Zenon, <1>1, <2>2 DEF UsedAt
  <2>12. ActiveInv'
    BY Zenon, <1>1, <2>11 DEF IInv, ActiveInv
  <2>13. GraceInv'
    <3>1. ASSUME NEW x \in Portals, NEW i \in DOMAIN queue[x], NEW q \in Places, UsedAt(q, queue[x][i])'
          PROVE  x # p /\ UsedAt(q, queue[x][i])
      BY <1>1, <2>11, <3>1 DEF IInv, Types
    <3>2. ASSUME NEW x \in Portals, op'[x].phase \in Disposing, NEW q \in Places
          PROVE  ~UsedAt(q, op[x].obj)'
      <4>1. op'[x] = op[x] /\ op[x].obj \in Objects /\ ~UsedAt(q, op[x].obj)
        BY Zenon, <2>7, <3>2 DEF IInv, OpInv, GraceInv
      <4> QED
        BY Zenon, <2>11, <4>1
    <3>3. ASSUME NEW o \in freed, NEW q \in Places
          PROVE  ~UsedAt(q, o)'
      BY Zenon, <2>11 DEF IInv, Types, GraceInv
    <3> QED
      BY <1>1, <2>2, <3>1, <3>2, <3>3 DEF IInv, GraceInv
  <2>14. UnusedInv'
    BY Zenon, <1>1, <2>2, UnusedKept
  <2> QED
    BY Zenon, <2>3, <2>6, <2>8, <2>9, <2>10, <2>12, <2>13, <2>14 DEF IInv
<1> QED
  BY Zenon, <1>2, <1>3
-----------------------------------------------------------------------------
(* The phases of an operation *)

\* The leaf is added to the objects that are gone, and what is below it is gone.
LEMMA LeafIsLast ==
    ASSUME IInv, NEW p \in Portals, op[p].phase = "sync", NEW o \in Leaves(p)
    PROVE  /\ o \in Objects /\ cap[o] # "gone"
           /\ \A x \in Below(o) : cap[x] = "gone"
<1> DEFINE r == op[p].root
<1>1. r \in Objects
  BY Zenon DEF IInv, OpInv
<1>2. o = r \/ o \in Below(r)
  BY Zenon DEF Leaves, Remaining
<1>3. o \in Objects /\ cap[o] # "gone"
  BY Zenon, <1>1, <1>2, BelowClosed DEF Leaves, Remaining
<1>4. Below(o) \subseteq Below(r)
  BY Zenon, <1>1, <1>2, BelowClosed
<1>5. ASSUME NEW x \in Below(o), cap[x] # "gone" PROVE FALSE
  <2>1. x \in Remaining(p)
    BY Zenon, <1>4, <1>5 DEF Remaining
  <2> QED
    BY Zenon, <2>1 DEF Leaves
<1> QED
  BY Zenon, <1>3, <1>5

\* A removed object enters one queue; the places that still use it are ahead of
\* the broadcast of the operation, which has not begun.
LEMMA RemoveLeaf_IInv ==
    ASSUME IInv, NEW p \in Portals, NEW o \in Objects, RemoveLeaf(p, o)
    PROVE  IInv'
<1>1. /\ op[p].phase = "sync" /\ o # p /\ (o \in Portals => ~lock[o])
      /\ queue' = [queue EXCEPT ![p] = Append(queue[p], o)]
      /\ UNCHANGED <<pending, freed, active, uses, portal, op>>
  BY Zenon DEF RemoveLeaf, PushDying, places
<1>2. cap[o] # "gone" /\ \A x \in Below(o) : cap[x] = "gone"
  BY Zenon, LeafIsLast DEF RemoveLeaf
<1>3. /\ cap' \in [Objects -> {"usable", "zombie", "gone"}]
      /\ \A x \in Objects : cap'[x] = "gone" <=> x = o \/ cap[x] = "gone"
  BY Zenon DEF IInv, Types, RemoveLeaf, Remaining
<1>4. /\ lock' \in [Portals -> BOOLEAN]
      /\ \A x \in Portals : lock'[x] <=> x = o \/ lock[x]
  BY Zenon DEF IInv, Types, RemoveLeaf
<1> DEFINE n == Len(queue[p]) + 1
<1>5. /\ queue' \in [Portals -> Seq(Objects)]
      /\ n \in Nat /\ DOMAIN queue'[p] = 1..n /\ DOMAIN queue[p] = 1..(n - 1)
      /\ queue'[p][n] = o /\ \A i \in DOMAIN queue[p] : queue'[p][i] = queue[p][i]
      /\ \A r \in Portals : r # p => queue'[r] = queue[r]
  BY <1>1, AppendItems DEF IInv, Types
<1>6. \A r \in Portals : \A i \in DOMAIN queue'[r] :
          \/ i \in DOMAIN queue[r] /\ queue'[r][i] = queue[r][i] /\ queue[r][i] \in Objects
          \/ r = p /\ i = n /\ queue'[r][i] = o
  <2>1. \A r \in Portals : \A i \in DOMAIN queue[r] : queue[r][i] \in Objects
    BY DEF IInv, Types
  <2>2. \A i \in 1..n : i \in 1..(n - 1) \/ i = n
    BY <1>5
  <2> HIDE DEF n
  <2> QED
    BY Zenon, <1>5, <2>1, <2>2
<1> HIDE DEF n
<1>7. Types'
  BY Zenon, <1>1, <1>3, <1>4, <1>5 DEF IInv, Types, Ops
<1>8. OpInv'
  BY Zenon, <1>1, <1>5 DEF IInv, OpInv, Working
<1>9. GoneInv'
  <2>1. \A x \in Objects : Below(x) \subseteq Objects
    BY Zenon, BelowClosed
  <2>2. \A x \in Objects : cap'[x] = "gone" => \A y \in Below(x) : cap'[y] = "gone"
    BY Zenon, <1>2, <1>3, <2>1 DEF IInv, GoneInv
  <2>3. \A r \in Portals : \A i \in DOMAIN queue'[r] : cap'[queue'[r][i]] = "gone"
    BY <1>3, <1>6 DEF IInv, GoneInv
  <2> QED
    BY Zenon, <1>1, <1>3, <2>2, <2>3 DEF IInv, Types, OpInv, GoneInv
<1>10. LockInv'
  BY Zenon, <1>1, <1>3, <1>4, ObjectAssumption DEF IInv, LockInv
<1>11. \A q \in Places, x \in Objects : UsedAt(q, x)' <=> UsedAt(q, x)
  BY Zenon, <1>1 DEF UsedAt
<1>12. ActiveInv'
  BY Zenon, <1>1, <1>11 DEF IInv, ActiveInv
<1>13. GraceInv'
  <2>1. ASSUME NEW r \in Portals, NEW i \in DOMAIN queue'[r], NEW q \in Places, UsedAt(q, queue[r][i])'
        PROVE  op[r].phase = "sync" \/ (i \in DOMAIN queue[r] /\ UsedAt(q, queue[r][i]))
    BY Zenon, <1>1, <1>6, <1>11, <2>1
  <2>2. ASSUME NEW r \in Portals, op[r].phase \in Disposing, NEW q \in Places
        PROVE  ~UsedAt(q, op[r].obj)'
    BY Zenon, <1>1, <1>11, <2>2 DEF IInv, OpInv, GraceInv
  <2> QED
    BY Zenon, <1>1, <1>11, <2>1, <2>2 DEF IInv, Types, GraceInv
<1>14. OnceInv'
  <2>1. \A r \in Portals : \A i \in DOMAIN queue[r] : queue[r][i] # o
    BY Zenon, <1>2 DEF IInv, GoneInv
  <2>2. ASSUME NEW r \in Portals, NEW s \in Portals, NEW i \in DOMAIN queue'[r], NEW j \in DOMAIN queue'[s],
               queue'[r][i] = queue'[s][j]
        PROVE  r = s /\ i = j
    BY <1>6, <2>1, <2>2 DEF IInv, OnceInv
  <2>3. o \notin freed /\ \A r \in Portals : op[r].phase \in Disposing => op[r].obj # o
    BY Zenon, <1>2 DEF IInv, GoneInv
  <2>4. ASSUME NEW r \in Portals, NEW i \in DOMAIN queue'[r]
        PROVE  /\ queue'[r][i] \notin freed
               /\ \A s \in Portals : op[s].phase \in Disposing => op[s].obj # queue'[r][i]
    BY <1>6, <2>3 DEF IInv, OnceInv
  <2> QED
    BY <1>1, <2>2, <2>4 DEF IInv, OnceInv
<1>15. UnusedInv'
  BY Zenon, <1>1 DEF IInv, UnusedInv, Unused, Invoked
<1> QED
  BY Zenon, <1>7, <1>8, <1>9, <1>10, <1>12, <1>13, <1>14, <1>15 DEF IInv

\* The broadcast moves on from place q: the places it skips are not in the
\* kernel, and thus use nothing.
LEMMA Forward_IInv ==
    ASSUME IInv, NEW p \in Portals, NEW q \in Places, Forward(p, q),
           \/ op[p].phase = "sync" /\ q = op[p].home
           \/ op[p].phase = "broadcast" /\ q = op[p].at /\ Free(q),
           UNCHANGED <<cap, pending, freed, active, uses, portal, lock, queue>>
    PROVE  IInv'
<1> DEFINE h == op[p].home
           S == {h} \cup {r \in Places : active[r]}
           n == NextIn(q, S)
<1>1. h \in Places /\ S \in SUBSET Places /\ h \in S
  BY DEF IInv, Types, Ops
<1>2. /\ n \in Places
      /\ \A r \in S : r \notin {h, q} /\ Dist(h, q) <= Dist(h, r) => n # h /\ Dist(h, n) <= Dist(h, r)
  BY <1>1, RingStep
<1>3. op' = [op EXCEPT ![p].phase = IF n = h THEN "collect" ELSE "broadcast", ![p].at = n]
  BY Zenon DEF Forward, NextHop
<1> HIDE DEF n
<1>4. /\ op'[p].home = h /\ op'[p].root = op[p].root /\ op'[p].at = n
      /\ op'[p].phase = IF n = h THEN "collect" ELSE "broadcast"
      /\ \A r \in Portals : r # p => op'[r] = op[r]
  BY <1>3 DEF IInv, Types, Ops
<1>5. Types'
  <2>1. op'[p] \in Ops
    BY ZenonT(20), <1>2, <1>3 DEF IInv, Types, Ops, Phases
  <2>2. op' \in [Portals -> Ops]
    BY Zenon, <1>3, <1>4, <2>1 DEF IInv, Types
  <2> QED
    BY Zenon, <2>2 DEF IInv, Types
<1>6. OpInv'
  BY Zenon, <1>4 DEF IInv, OpInv, Working, Disposing
<1>7. \A r \in Portals : op'[r].phase \in Disposing => op'[r] = op[r]
  BY Zenon, <1>4 DEF Disposing
<1>8. GoneInv' /\ OnceInv'
  BY <1>7 DEF IInv, GoneInv, OnceInv
<1>9. LockInv'
  BY Zenon, <1>4 DEF IInv, LockInv, Working
<1>10. \A r \in Places, o \in Objects : UsedAt(r, o)' => UsedAt(r, o)
  BY Zenon, <1>4 DEF UsedAt
<1>11. ActiveInv'
  BY Zenon, <1>10 DEF IInv, ActiveInv
<1>12. GraceInv'
  <2>1. ASSUME NEW i \in DOMAIN queue[p], NEW r \in Places, UsedAt(r, queue[p][i])'
        PROVE  r = h \/ (n # h /\ Dist(h, n) <= Dist(h, r))
    <3>1. queue[p][i] \in Objects
      BY DEF IInv, Types
    <3>2. UsedAt(r, queue[p][i]) /\ r \in S
      BY Zenon, <1>10, <2>1, <3>1 DEF IInv, ActiveInv
    <3>3. CASE op[p].phase = "sync" /\ q = h
      <4>1. Dist(h, q) <= Dist(h, r)
        BY <1>1, <3>3, NumPlacesAssumption DEF Dist, Places
      <4> QED
        BY Zenon, <1>2, <3>2, <3>3, <4>1
    <3>4. CASE op[p].phase = "broadcast" /\ q = op[p].at /\ Free(q)
      <4>1. r # q
        BY Zenon, <3>1, <3>2, <3>4, FreePlace DEF IInv
      <4>2. r = h \/ Dist(h, q) <= Dist(h, r)
        BY Zenon, <3>2, <3>4 DEF IInv, GraceInv
      <4> QED
        BY Zenon, <1>2, <3>2, <4>1, <4>2
    <3> QED
      BY Zenon, <3>3, <3>4
  <2>2. ASSUME NEW x \in Portals, x # p, NEW i \in DOMAIN queue[x], NEW r \in Places, UsedAt(r, queue[x][i])'
        PROVE  UsedAt(r, queue[x][i])
    BY <1>10, <2>2 DEF IInv, Types
  <2>3. ASSUME NEW x \in Portals, op'[x].phase \in Disposing, NEW r \in Places
        PROVE  ~UsedAt(r, op[x].obj)'
    <3>1. op'[x] = op[x] /\ op[x].obj \in Objects /\ ~UsedAt(r, op[x].obj)
      BY Zenon, <1>7, <2>3 DEF IInv, OpInv, GraceInv
    <3> QED
      BY Zenon, <1>10, <3>1
  <2>4. ASSUME NEW o \in freed, NEW r \in Places
        PROVE  ~UsedAt(r, o)'
    BY Zenon, <1>10 DEF IInv, Types, GraceInv
  <2>5. ASSUME NEW x \in Portals, NEW i \in DOMAIN queue[x], NEW r \in Places, UsedAt(r, queue[x][i])'
        PROVE  \/ op'[x].phase = "sync" \/ r = op'[x].home
               \/ op'[x].phase = "broadcast" /\ Dist(op'[x].home, op'[x].at) <= Dist(op'[x].home, r)
    <3>1. CASE x = p
      BY Zenon, <1>4, <2>1, <2>5, <3>1
    <3>2. CASE x # p
      BY <1>4, <2>2, <2>5, <3>2 DEF IInv, GraceInv
    <3> QED
      BY Zenon, <3>1, <3>2
  <2> QED
    BY Zenon, <2>3, <2>4, <2>5 DEF GraceInv, Dist
<1>13. UnusedInv'
  BY Zenon, <1>4, UnusedKept
<1> QED
  BY Zenon, <1>5, <1>6, <1>8, <1>9, <1>11, <1>12, <1>13 DEF IInv

\* The operation is answered, and can be used again.
LEMMA Respond_IInv ==
    ASSUME IInv, NEW p \in Portals, op[p].phase \in Working, queue[p] = <<>>, Respond(p),
           lock' = [lock EXCEPT ![p] = FALSE],
           UNCHANGED <<cap, pending, freed, active, uses, queue>>
    PROVE  IInv'
<1>1. cap[p] # "gone"
  BY Zenon DEF IInv, LockInv
<1>2. op' = [op EXCEPT ![p] = NoOp] /\ op'[p].phase = "none" /\ \A x \in Portals : x # p => op'[x] = op[x]
  BY Zenon DEF IInv, Types, Respond, NoOp
<1>3. UnusedInv'
  BY Zenon, <1>2, UnusedKept DEF Working
<1>4. /\ portal' \in [Portals -> {"OPEN", "INVOKING", "REPLYING"}]
      /\ \A x \in Portals : x # p => portal'[x] = portal[x]
      /\ lock' \in [Portals -> BOOLEAN] /\ \A x \in Portals : x # p => lock'[x] = lock[x]
      /\ pending' \in [Objects -> Nat]
  BY Zenon DEF IInv, Types, Respond
<1> QED
  BY Zenon, <1>1, <1>2, <1>3, <1>4, EndOp

\* The broadcast starts at the home of the operation, so that all others are ahead of it.
LEMMA EndSync_IInv ==
    ASSUME IInv, NEW p \in Portals, EndSync(p)
    PROVE  IInv'
<1>1. op[p].phase = "sync" /\ UNCHANGED <<cap, pending, freed, active, uses, queue>>
  BY Zenon DEF EndSync, caps, places
<1>2. CASE queue[p] = <<>>
  BY Zenon, <1>1, <1>2, Respond_IInv DEF EndSync, Working
<1>3. CASE queue[p] # <<>>
  <2>1. Forward(p, op[p].home) /\ UNCHANGED <<portal, lock>>
    BY Zenon, <1>3 DEF EndSync
  <2>2. op[p].home \in Places
    BY Zenon DEF IInv, Types, Ops
  <2> QED
    BY Zenon, <1>1, <2>1, <2>2, Forward_IInv
<1> QED
  BY Zenon, <1>2, <1>3

\* The broadcast moves on from a place whose handlers have ended.
LEMMA Broadcast_IInv ==
    ASSUME IInv, NEW p \in Portals, Broadcast(p)
    PROVE  IInv'
<1>1. op[p].at \in Places
  BY Zenon DEF IInv, Types, Ops
<1> QED
  BY Zenon, <1>1, Forward_IInv DEF Broadcast, caps, places

\* An object leaves the queue when the broadcast has passed all places.
LEMMA DeleteNext_IInv ==
    ASSUME IInv, NEW p \in Portals, DeleteNext(p)
    PROVE  IInv'
<1>1. op[p].phase = "collect" /\ Free(op[p].home) /\ UNCHANGED <<cap, pending, freed, active, uses>>
  BY Zenon DEF DeleteNext, caps, places
<1>2. CASE queue[p] = <<>>
  BY Zenon, <1>1, <1>2, Respond_IInv DEF DeleteNext, Working
<1>3. CASE queue[p] # <<>>
  <2> DEFINE o == Head(queue[p])
  <2>1. /\ op' = [op EXCEPT ![p].phase = "delete", ![p].obj = o]
        /\ queue' = [queue EXCEPT ![p] = Tail(queue[p])]
        /\ UNCHANGED <<portal, lock>>
    BY Zenon, <1>3 DEF DeleteNext
  <2>2. /\ Tail(queue[p]) \in Seq(Objects) /\ DOMAIN queue[p] = 1..Len(queue[p]) /\ Len(queue[p]) \in Nat \ {0}
        /\ DOMAIN Tail(queue[p]) = 1..(Len(queue[p]) - 1)
        /\ \A i \in DOMAIN Tail(queue[p]) : Tail(queue[p])[i] = queue[p][i + 1]
        /\ o = queue[p][1] /\ o \in Objects
    BY <1>3, TailItems DEF IInv, Types
  <2> HIDE DEF o
  <2>3. /\ op'[p].home = op[p].home /\ op'[p].root = op[p].root /\ op'[p].obj = o /\ op'[p].phase = "delete"
        /\ \A r \in Portals : r # p => op'[r] = op[r] /\ queue'[r] = queue[r]
        /\ queue'[p] = Tail(queue[p])
    BY <2>1 DEF IInv, Types, Ops
  <2>4. Types'
    <3>1. op'[p] \in Ops
      <4>1. op[p] \in Ops /\ op'[p] = [op[p] EXCEPT !.phase = "delete", !.obj = o]
        BY Zenon, <2>1 DEF IInv, Types
      <4> QED
        BY Zenon, <2>2, <4>1 DEF Ops, Phases
    <3>2. op' \in [Portals -> Ops]
      BY Zenon, <2>1, <2>3, <3>1 DEF IInv, Types
    <3>3. queue' \in [Portals -> Seq(Objects)]
      BY Zenon, <2>1, <2>2 DEF IInv, Types
    <3> QED
      BY Zenon, <1>1, <2>1, <3>2, <3>3 DEF IInv, Types
  <2>5. OpInv'
    BY ZenonT(20), <1>1, <2>1, <2>2, <2>3 DEF IInv, OpInv, Working, Disposing
  <2>6. /\ 1 \in DOMAIN queue[p]
        /\ \A i \in DOMAIN queue'[p] : /\ i \in Nat /\ i + 1 \in DOMAIN queue[p] /\ i + 1 # 1
                                       /\ queue'[p][i] = queue[p][i + 1]
    BY <2>2, <2>3
  <2>7. ASSUME NEW x \in Portals, NEW i \in DOMAIN queue'[x]
        PROVE  \E j \in DOMAIN queue[x] : queue'[x][i] = queue[x][j] /\ (x = p => j # 1)
    <3>1. CASE x = p
      BY Zenon, <2>6, <2>7, <3>1
    <3>2. CASE x # p
      BY Zenon, <2>3, <2>7, <3>2
    <3> QED
      BY Zenon, <3>1, <3>2
  <2>8. \A x \in Portals : op'[x].phase \in Disposing => x = p \/ (op'[x] = op[x] /\ op[x].phase \in Disposing)
    BY Zenon, <2>3
  <2>9. GoneInv'
    <3>1. cap[o] = "gone"
      BY Zenon, <2>2, <2>6 DEF IInv, GoneInv
    <3>2. \A x \in Portals : \A i \in DOMAIN queue'[x] : cap[queue'[x][i]] = "gone"
      BY <2>7 DEF IInv, GoneInv
    <3> QED
      BY <1>1, <2>3, <2>8, <3>1, <3>2 DEF IInv, GoneInv
  <2>10. LockInv'
    BY Zenon, <1>1, <2>1, <2>3 DEF IInv, LockInv, Working
  <2>11. \A r \in Places, x \in Objects : UsedAt(r, x)' => UsedAt(r, x)
    BY Zenon, <1>1, <2>3 DEF UsedAt
  <2>12. ActiveInv'
    BY Zenon, <1>1, <2>11 DEF IInv, ActiveInv
  <2>13. GraceInv'
    <3>1. ASSUME NEW r \in Places PROVE ~UsedAt(r, o)
      <4>1. CASE r = op[p].home
        BY Zenon, <1>1, <2>2, <4>1, FreePlace DEF IInv
      <4>2. CASE r # op[p].home
        BY Zenon, <1>1, <2>2, <2>6, <4>2 DEF IInv, GraceInv
      <4> QED
        BY Zenon, <4>1, <4>2
    <3>2. ASSUME NEW x \in Portals, op'[x].phase \in Disposing, NEW r \in Places
          PROVE  ~UsedAt(r, op[x].obj)'
      <4>1. op'[x].obj \in Objects /\ ~UsedAt(r, op'[x].obj)
        BY <2>2, <2>3, <2>8, <3>1, <3>2 DEF IInv, OpInv, GraceInv
      <4>2. PICK y \in Objects : y = op'[x].obj
        BY Zenon, <4>1
      <4>3. ~UsedAt(r, y)'
        BY Zenon, <2>11, <4>1, <4>2
      <4> QED
        BY Zenon, <4>2, <4>3 DEF UsedAt
    <3>3. ASSUME NEW y \in freed, NEW r \in Places
          PROVE  ~UsedAt(r, y)'
      BY Zenon, <2>11 DEF IInv, Types, GraceInv
    <3>4. ASSUME NEW x \in Portals, NEW i \in DOMAIN queue'[x], NEW r \in Places, UsedAt(r, queue[x][i])'
          PROVE  \/ op'[x].phase = "sync" \/ r = op'[x].home
                 \/ op'[x].phase = "broadcast" /\ Dist(op'[x].home, op'[x].at) <= Dist(op'[x].home, r)
      <4>1. PICK j \in DOMAIN queue[x] : queue'[x][i] = queue[x][j]
        BY Zenon, <2>7
      <4>2. PICK y \in Objects : y = queue[x][j]
        BY DEF IInv, Types
      <4>3. UsedAt(r, y)'
        BY Zenon, <3>4, <4>1, <4>2 DEF UsedAt
      <4>4. UsedAt(r, queue[x][j])
        BY Zenon, <2>11, <4>2, <4>3
      <4> QED
        BY <1>1, <2>3, <4>4 DEF IInv, GraceInv
    <3> QED
      BY Zenon, <1>1, <3>2, <3>3, <3>4 DEF GraceInv, Dist
  <2>14. UnusedInv'
    BY Zenon, <1>1, <2>3, UnusedKept
  <2>15. OnceInv'
    <3>1. ASSUME NEW x \in Portals, NEW r \in Portals, NEW i \in DOMAIN queue'[x], NEW j \in DOMAIN queue'[r],
                 queue'[x][i] = queue'[r][j]
          PROVE  x = r /\ i = j
      <4>1. CASE x = p /\ r = p
        <5>1. i + 1 = j + 1
          BY <2>6, <3>1, <4>1 DEF IInv, OnceInv
        <5> QED
          BY <2>6, <4>1, <5>1
      <4>2. CASE x # p /\ r = p
        <5>1. i \in DOMAIN queue[x] /\ j + 1 \in DOMAIN queue[p] /\ queue[x][i] = queue[p][j + 1]
          BY Zenon, <2>3, <2>6, <3>1, <4>2
        <5> QED
          BY Zenon, <4>2, <5>1 DEF IInv, OnceInv
      <4>3. CASE x = p /\ r # p
        <5>1. j \in DOMAIN queue[r] /\ i + 1 \in DOMAIN queue[p] /\ queue[r][j] = queue[p][i + 1]
          BY Zenon, <2>3, <2>6, <3>1, <4>3
        <5> QED
          BY Zenon, <4>3, <5>1 DEF IInv, OnceInv
      <4>4. CASE x # p /\ r # p
        BY <2>3, <3>1, <4>4 DEF IInv, OnceInv
      <4> QED
        BY Zenon, <4>1, <4>2, <4>3, <4>4
    <3>2. \A x \in Portals : \A j \in DOMAIN queue[x] : (x = p => j # 1) => queue[x][j] # o
      BY <2>2, <2>6 DEF IInv, OnceInv
    <3>3. ASSUME NEW x \in Portals, NEW i \in DOMAIN queue'[x]
          PROVE  /\ queue'[x][i] \notin freed
                 /\ \A r \in Portals : op'[r].phase \in Disposing => op'[r].obj # queue'[x][i]
      <4>1. PICK j \in DOMAIN queue[x] : queue'[x][i] = queue[x][j] /\ (x = p => j # 1)
        BY Zenon, <2>7
      <4> QED
        BY <2>3, <2>8, <3>2, <4>1 DEF IInv, OnceInv
    <3>4. o \notin freed /\ \A r \in Portals : op[r].phase \in Disposing => op[r].obj # o
      BY <2>2, <2>6 DEF IInv, OnceInv
    <3>5. ASSUME NEW x \in Portals, op'[x].phase \in Disposing
          PROVE  /\ op'[x].obj \notin freed
                 /\ \A r \in Portals : op'[r].phase \in Disposing /\ op'[r].obj = op'[x].obj => r = x
      BY <2>3, <2>8, <3>4, <3>5 DEF IInv, OnceInv
    <3> QED
      BY Zenon, <1>1, <3>1, <3>3, <3>5 DEF OnceInv
  <2> QED
    BY Zenon, <2>4, <2>5, <2>9, <2>10, <2>12, <2>13, <2>14, <2>15 DEF IInv
<1> QED
  BY Zenon, <1>2, <1>3

\* The delete task runs when no request is pending and nothing allocated from the
\* object is left.
LEMMA DeleteTask_IInv ==
    ASSUME IInv, NEW p \in Portals, DeleteTask(p)
    PROVE  IInv'
<1>1. /\ op[p].phase = "delete" /\ Refs(op[p].obj) = 0
      /\ op' = [op EXCEPT ![p].phase = "free"]
      /\ UNCHANGED <<cap, pending, freed, active, uses, portal, lock, queue>>
  BY Zenon DEF DeleteTask, caps, places
<1>2. PICK o \in Objects : o = op[p].obj
  BY Zenon, <1>1 DEF IInv, OpInv, Disposing
<1>3. /\ op'[p].home = op[p].home /\ op'[p].root = op[p].root /\ op'[p].obj = o /\ op'[p].phase = "free"
      /\ \A r \in Portals : r # p => op'[r] = op[r]
  BY Zenon, <1>1, <1>2 DEF IInv, Types, Ops
<1>4. Types'
  <2>1. op[p] \in Ops /\ op'[p] = [op[p] EXCEPT !.phase = "free"]
    BY Zenon, <1>1 DEF IInv, Types
  <2>2. op'[p] \in Ops
    BY Zenon, <2>1 DEF Ops, Phases
  <2>3. op' \in [Portals -> Ops]
    BY Zenon, <1>1, <1>3, <2>2 DEF IInv, Types
  <2> QED
    BY Zenon, <1>1, <2>3 DEF IInv, Types
<1>5. \A x \in Portals : op'[x].phase \in Disposing => op[x].phase \in Disposing /\ op'[x].obj = op[x].obj
  BY Zenon, <1>1, <1>2, <1>3 DEF Disposing
<1>6. OpInv' /\ GoneInv'
  BY <1>1, <1>3, <1>5 DEF IInv, OpInv, GoneInv, Working
<1>7. LockInv'
  BY Zenon, <1>1, <1>3 DEF IInv, LockInv, Working
<1>8. \A r \in Places, x \in Objects : UsedAt(r, x)' <=> UsedAt(r, x)
  BY Zenon, <1>1, <1>3 DEF UsedAt
<1>9. ActiveInv'
  BY Zenon, <1>1, <1>8 DEF IInv, ActiveInv
<1>10. GraceInv'
  <2>1. ASSUME NEW x \in Portals, NEW i \in DOMAIN queue[x], NEW r \in Places, UsedAt(r, queue[x][i])'
        PROVE  \/ op'[x].phase = "sync" \/ r = op'[x].home
               \/ op'[x].phase = "broadcast" /\ Dist(op'[x].home, op'[x].at) <= Dist(op'[x].home, r)
    <3>1. UsedAt(r, queue[x][i])
      BY <1>1, <1>8, <2>1 DEF IInv, Types
    <3> QED
      BY Zenon, <1>1, <1>3, <3>1 DEF IInv, GraceInv
  <2>2. ASSUME NEW x \in Portals, op'[x].phase \in Disposing, NEW r \in Places
        PROVE  ~UsedAt(r, op[x].obj)'
    <3>1. PICK y \in Objects : y = op[x].obj /\ y = op'[x].obj
      BY Zenon, <1>5, <2>2 DEF IInv, OpInv
    <3>2. ~UsedAt(r, y)
      BY Zenon, <1>5, <2>2, <3>1 DEF IInv, GraceInv
    <3>3. ~UsedAt(r, y)'
      BY Zenon, <1>8, <3>2
    <3> QED
      BY Zenon, <3>1, <3>3 DEF UsedAt
  <2>3. ASSUME NEW y \in freed, NEW r \in Places
        PROVE  ~UsedAt(r, y)'
    BY Zenon, <1>8 DEF IInv, Types, GraceInv
  <2> QED
    BY Zenon, <1>1, <2>1, <2>2, <2>3 DEF GraceInv, Dist
<1>11. UnusedInv'
  <2>1. ASSUME NEW x \in Objects PROVE Cardinality(Invoked(x))' <= pending'[x]
    <3>1. Invoked(x)' = Invoked(x)
      BY Zenon, <1>1, <1>3 DEF Invoked
    <3>2. Cardinality(Invoked(x))' = Cardinality(Invoked(x))
      BY Zenon, <3>1
    <3> QED
      BY Zenon, <1>1, <3>2 DEF IInv, UnusedInv
  <2>2. Unused(o)
    BY Zenon, <1>1, <1>2, RefsZero DEF IInv
  <2> QED
    BY Zenon, <1>1, <1>2, <1>3, <2>1, <2>2 DEF IInv, UnusedInv, Unused
<1>12. OnceInv'
  BY <1>1, <1>5 DEF IInv, OnceInv
<1> QED
  BY Zenon, <1>4, <1>6, <1>7, <1>9, <1>10, <1>11, <1>12 DEF IInv

\* What is freed is unused, was in one queue only, and is not looked up again.
LEMMA FreeMemory_IInv ==
    ASSUME IInv, NEW p \in Portals, FreeMemory(p)
    PROVE  IInv'
<1>1. /\ op[p].phase = "free" /\ freed' = freed \cup {op[p].obj}
      /\ op' = [op EXCEPT ![p].phase = "collect", ![p].obj = None]
      /\ UNCHANGED <<cap, pending, active, uses, portal, lock, queue>>
  BY Zenon DEF FreeMemory, places
<1>2. PICK o \in Objects : o = op[p].obj
  BY Zenon, <1>1 DEF IInv, OpInv, Disposing
<1>3. /\ op'[p].home = op[p].home /\ op'[p].root = op[p].root /\ op'[p].phase = "collect"
      /\ \A r \in Portals : r # p => op'[r] = op[r]
  BY <1>1, <1>2 DEF IInv, Types, Ops
<1>4. Types'
  <2>1. op[p] \in Ops /\ op'[p] = [op[p] EXCEPT !.phase = "collect", !.obj = None]
    BY Zenon, <1>1 DEF IInv, Types
  <2>2. op'[p] \in Ops
    BY Zenon, <2>1 DEF Ops, Phases
  <2>3. op' \in [Portals -> Ops]
    BY Zenon, <1>1, <1>3, <2>2 DEF IInv, Types
  <2> QED
    BY Zenon, <1>1, <1>2, <2>3 DEF IInv, Types
<1>5. \A x \in Portals : op'[x].phase \in Disposing => x # p /\ op[x].phase \in Disposing /\ op'[x] = op[x]
  BY Zenon, <1>3 DEF Disposing
<1>6. OpInv'
  BY Zenon, <1>1, <1>3, <1>5 DEF IInv, OpInv, Working
<1>7. cap[o] = "gone"
  BY Zenon, <1>1, <1>2 DEF IInv, GoneInv, Disposing
<1>8. GoneInv'
  BY ZenonT(20), <1>1, <1>2, <1>5, <1>7 DEF IInv, GoneInv
<1>9. LockInv'
  BY Zenon, <1>1, <1>3 DEF IInv, LockInv, Working
<1>10. \A r \in Places, x \in Objects : UsedAt(r, x)' <=> UsedAt(r, x)
  BY Zenon, <1>1, <1>3 DEF UsedAt
<1>11. ActiveInv'
  BY Zenon, <1>1, <1>10 DEF IInv, ActiveInv
<1>12. GraceInv'
  <2>1. ASSUME NEW x \in Portals, NEW i \in DOMAIN queue[x], NEW r \in Places, UsedAt(r, queue[x][i])'
        PROVE  \/ op'[x].phase = "sync" \/ r = op'[x].home
               \/ op'[x].phase = "broadcast" /\ Dist(op'[x].home, op'[x].at) <= Dist(op'[x].home, r)
    <3>1. UsedAt(r, queue[x][i])
      BY <1>1, <1>10, <2>1 DEF IInv, Types
    <3> QED
      BY ZenonT(20), <1>1, <1>3, <3>1 DEF IInv, GraceInv
  <2>2. ASSUME NEW x \in Portals, op'[x].phase \in Disposing, NEW r \in Places
        PROVE  ~UsedAt(r, op[x].obj)'
    <3>1. PICK y \in Objects : y = op[x].obj /\ y = op'[x].obj
      BY Zenon, <1>5, <2>2 DEF IInv, OpInv
    <3>2. ~UsedAt(r, y)
      BY Zenon, <1>5, <2>2, <3>1 DEF IInv, GraceInv
    <3>3. ~UsedAt(r, y)'
      BY Zenon, <1>10, <3>2
    <3> QED
      BY Zenon, <3>1, <3>3 DEF UsedAt
  <2>3. ASSUME NEW y \in freed', NEW r \in Places
        PROVE  ~UsedAt(r, y)'
    <3>1. y \in Objects
      BY Zenon, <1>1, <1>2 DEF IInv, Types
    <3>2. ~UsedAt(r, y)
      BY Zenon, <1>1, <1>2, <3>1 DEF IInv, GraceInv, Disposing
    <3> QED
      BY Zenon, <1>10, <3>1, <3>2
  <2> QED
    BY Zenon, <1>1, <2>1, <2>2, <2>3 DEF GraceInv, Dist
<1>13. UnusedInv'
  <2>1. ASSUME NEW x \in Objects PROVE Cardinality(Invoked(x))' <= pending'[x]
    <3>1. Invoked(x)' = Invoked(x)
      BY Zenon, <1>1, <1>3 DEF Invoked
    <3>2. Cardinality(Invoked(x))' = Cardinality(Invoked(x))
      BY Zenon, <3>1
    <3> QED
      BY Zenon, <1>1, <3>2 DEF IInv, UnusedInv
  <2>2. Unused(o)
    BY Zenon, <1>1, <1>2 DEF IInv, UnusedInv
  <2>3. \A x \in Objects : Unused(x) => Unused(x)'
    BY Zenon, <1>1 DEF Unused
  <2>4. \A x \in freed' : Unused(x)'
    BY Zenon, <1>1, <1>2, <2>2, <2>3 DEF IInv, Types, UnusedInv
  <2>5. ASSUME NEW x \in Portals, op'[x].phase = "free"
        PROVE  Unused(op[x].obj)'
    <3>1. PICK y \in Objects : y = op[x].obj /\ y = op'[x].obj /\ op[x].phase = "free"
      BY Zenon, <1>3, <2>5 DEF IInv, OpInv, Disposing
    <3>2. Unused(y)'
      BY Zenon, <2>3, <3>1 DEF IInv, UnusedInv
    <3> QED
      BY Zenon, <3>1, <3>2 DEF Unused
  <2> QED
    BY Zenon, <2>1, <2>4, <2>5 DEF UnusedInv
<1>14. OnceInv'
  <2>1. /\ \A x \in Portals : \A i \in DOMAIN queue[x] : queue[x][i] # o
        /\ \A x \in Portals : op'[x].phase \in Disposing => op'[x].obj # o
    <3>1. op[p].phase \in Disposing /\ op[p].obj = o
      BY Zenon, <1>1, <1>2 DEF Disposing
    <3>2. \A x \in Portals : op[x].phase \in Disposing /\ op[x].obj = o => x = p
      BY Zenon, <3>1 DEF IInv, OnceInv
    <3>3. \A x \in Portals : \A i \in DOMAIN queue[x] : queue[x][i] # o
      BY Zenon, <3>1 DEF IInv, OnceInv
    <3> QED
      BY Zenon, <1>5, <3>2, <3>3
  <2>2. \A x, r \in Portals : \A i \in DOMAIN queue'[x], j \in DOMAIN queue'[r] :
            queue'[x][i] = queue'[r][j] => x = r /\ i = j
    BY <1>1 DEF IInv, OnceInv
  <2>3. ASSUME NEW x \in Portals, NEW i \in DOMAIN queue'[x]
        PROVE  /\ queue'[x][i] \notin freed'
               /\ \A r \in Portals : op'[r].phase \in Disposing => op'[r].obj # queue'[x][i]
    <3>1. i \in DOMAIN queue[x] /\ queue'[x][i] = queue[x][i] /\ freed' = freed \cup {o}
      BY Zenon, <1>1, <1>2
    <3>2. queue[x][i] \notin freed'
      BY Zenon, <2>1, <3>1 DEF IInv, OnceInv
    <3>3. ASSUME NEW r \in Portals, op'[r].phase \in Disposing PROVE op'[r].obj # queue[x][i]
      BY <1>5, <3>1, <3>3 DEF IInv, OnceInv
    <3> QED
      BY Zenon, <3>1, <3>2, <3>3
  <2>4. ASSUME NEW x \in Portals, op'[x].phase \in Disposing
        PROVE  /\ op'[x].obj \notin freed'
               /\ \A r \in Portals : op'[r].phase \in Disposing /\ op'[r].obj = op'[x].obj => r = x
    <3>1. op[x].phase \in Disposing /\ op'[x] = op[x] /\ op[x].obj # o /\ freed' = freed \cup {o}
      BY Zenon, <1>1, <1>2, <1>5, <2>1, <2>4
    <3>2. op[x].obj \notin freed
      BY Zenon, <3>1 DEF IInv, OnceInv
    <3>3. ASSUME NEW r \in Portals, op'[r].phase \in Disposing, op'[r].obj = op'[x].obj PROVE r = x
      BY Zenon, <1>5, <3>1, <3>3 DEF IInv, OnceInv
    <3> QED
      BY Zenon, <3>1, <3>2, <3>3
  <2> QED
    BY Zenon, <2>2, <2>3, <2>4 DEF OnceInv
<1> QED
  BY Zenon, <1>4, <1>6, <1>8, <1>9, <1>11, <1>12, <1>13, <1>14 DEF IInv

-----------------------------------------------------------------------------
(* The theorems *)

\* At first every capability is usable and no operation is in progress.
LEMMA Init_IInv == Init => IInv
<1> SUFFICES ASSUME Init PROVE IInv
  BY Zenon
<1>1. 0 \in Places
  BY NumPlacesAssumption DEF Places
<1>2. /\ NoOp \in Ops /\ NoOp.phase = "none"
      /\ \A p \in Portals : op[p] = NoOp /\ queue[p] = <<>>
  BY Zenon, <1>1 DEF Init, NoOp, Ops, Phases
<1>3. Types
  <2>1. op \in [Portals -> Ops] /\ queue \in [Portals -> Seq(Objects)]
    BY <1>2 DEF Init
  <2> QED
    BY Zenon, <2>1 DEF Init, Types
<1>4. OpInv /\ GoneInv /\ LockInv
  <2>1. freed = {} /\ \A o \in Objects : cap[o] # "gone"
    BY Zenon DEF Init
  <2>2. OpInv
    BY Zenon, <1>2 DEF OpInv, Disposing
  <2>3. GoneInv
    BY <1>2, <2>1 DEF GoneInv, Disposing
  <2> QED
    BY Zenon, <1>2, <2>1, <2>2, <2>3, ObjectAssumption DEF LockInv, Working
<1>5. \A q \in Places, o \in Objects : ~UsedAt(q, o)
  BY Zenon, <1>2, ObjectAssumption DEF Init, UsedAt
<1>6. ActiveInv /\ GraceInv
  BY <1>2, <1>5 DEF Init, ActiveInv, GraceInv, Disposing
<1>7. ASSUME NEW o \in Objects PROVE Cardinality(Invoked(o)) = 0
  <2>1. Invoked(o) = {}
    BY Zenon, <1>2 DEF Invoked
  <2> QED
    BY Zenon, <2>1, FS_EmptySet
<1>8. UnusedInv /\ OnceInv
  BY <1>2, <1>7 DEF Init, UnusedInv, OnceInv, Disposing
<1> QED
  BY Zenon, <1>3, <1>4, <1>6, <1>8 DEF IInv

\* Every step preserves the inductive invariant.
LEMMA Step_IInv == IInv /\ [Next]_vars => IInv'
<1> SUFFICES ASSUME IInv, [Next]_vars PROVE IInv'
  BY Zenon
<1>1. ASSUME NEW q \in Places, EnterKernel(q) PROVE IInv'
  BY Zenon, <1>1, EnterKernel_IInv
<1>2. ASSUME NEW q \in Places, LeaveKernel(q) PROVE IInv'
  BY Zenon, <1>2, LeaveKernel_IInv
<1>3. ASSUME NEW q \in Places, HandlerDone(q) PROVE IInv'
  BY Zenon, <1>3, HandlerDone_IInv
<1>4. ASSUME NEW q \in Places, NEW o \in Objects, Lookup(q, o) PROVE IInv'
  BY Zenon, <1>4, Lookup_IInv
<1>5. ASSUME NEW o \in Objects, RequestDone(o) PROVE IInv'
  BY Zenon, <1>5, RequestDone_IInv
<1>6. ASSUME NEW p \in Portals, NEW r \in Roots[p], NEW k \in {"delete", "revoke"}, NEW q \in Places,
             Send(p, r, k, q)
      PROVE  IInv'
  BY <1>6, Send_IInv, ObjectAssumption
<1>7. ASSUME NEW p \in Portals, NEW o \in Users, Invoke(p, o) PROVE IInv'
  BY Zenon, <1>7, Invoke_IInv, ObjectAssumption
<1>8. ASSUME NEW p \in Portals, Deliver(p) PROVE IInv'
  BY Zenon, <1>8, Deliver_IInv
<1>9. ASSUME NEW p \in Portals, Progress(p) PROVE IInv'
  <2>1. CASE Reply(p)
    BY Zenon, <2>1, Reply_IInv
  <2>2. CASE Start(p)
    BY Zenon, <2>2, Start_IInv
  <2>3. ASSUME NEW o \in Objects, RemoveLeaf(p, o) PROVE IInv'
    BY Zenon, <2>3, RemoveLeaf_IInv
  <2>4. CASE EndSync(p)
    BY Zenon, <2>4, EndSync_IInv
  <2>5. CASE Broadcast(p)
    BY Zenon, <2>5, Broadcast_IInv
  <2>6. CASE DeleteNext(p)
    BY Zenon, <2>6, DeleteNext_IInv
  <2>7. CASE DeleteTask(p)
    BY Zenon, <2>7, DeleteTask_IInv
  <2>8. CASE FreeMemory(p)
    BY Zenon, <2>8, FreeMemory_IInv
  <2> QED
    BY Zenon, <1>9, <2>1, <2>2, <2>3, <2>4, <2>5, <2>6, <2>7, <2>8 DEF Progress
<1>10. CASE UNCHANGED vars
  <2>1. UNCHANGED <<cap, pending, freed, active, uses, portal, lock, queue, op>>
    BY Zenon, <1>10 DEF vars, caps, places
  <2>2. ActiveInv'
    BY Zenon, <2>1 DEF IInv, ActiveInv, UsedAt
  <2>3. /\ active' \in [Places -> BOOLEAN] /\ uses' \in [Places -> Objects \cup {None}]
    BY Zenon, <2>1 DEF IInv, Types
  <2> QED
    BY Zenon, <2>1, <2>2, <2>3, PlaceStep DEF UsedAt
<1> QED
  BY Zenon, <1>1, <1>2, <1>3, <1>4, <1>5, <1>6, <1>7, <1>8, <1>9, <1>10 DEF Next

\* IInv gives both properties: a freed object is removed, used nowhere and
\* unused, and a removed portal does not work.
LEMMA InvImplies == IInv => NoUseAfterFree /\ MemoryNested
<1> SUFFICES ASSUME IInv PROVE NoUseAfterFree /\ MemoryNested
  BY Zenon
<1>1. \A o \in freed : o \in Objects /\ cap[o] = "gone" /\ Unused(o)
  BY Zenon DEF IInv, Types, GoneInv, UnusedInv
<1>2. \A q \in Places : uses[q] \notin freed
  BY Zenon DEF IInv, GraceInv, UsedAt
<1>3. ASSUME NEW p \in freed \cap Portals PROVE op[p].phase \in {"none", "invoked"}
  <2>1. op[p].phase \notin Working
    BY Zenon, <1>1 DEF IInv, LockInv
  <2>2. op[p].phase \in Phases /\ op[p].home \in Places
    BY Zenon DEF IInv, Types, Ops
  <2>3. op[p].phase # "sent"
    BY Zenon, <2>2 DEF IInv, GraceInv, UsedAt
  <2> QED
    BY Zenon, <2>1, <2>2, <2>3 DEF Phases, Working
<1>4. NoUseAfterFree
  BY Zenon, <1>1, <1>2, <1>3 DEF IInv, OnceInv, NoUseAfterFree, Unused, Disposing
<1>5. ASSUME NEW o \in freed, NEW x \in Contents[o] PROVE cap[x] = "gone"
  <2>1. x \in Below(o)
    BY Zenon, <1>1, BelowClosed DEF Before
  <2> QED
    BY Zenon, <1>1, <2>1 DEF IInv, GoneInv
<1>6. MemoryNested
  BY Zenon, <1>1, <1>5 DEF MemoryNested, Unused
<1> QED
  BY Zenon, <1>4, <1>6

\* What RevokeOperation and DeleteBroadcast promise, for any number of places:
\* no handler, no request in the monitor of an object, no delete or revoke
\* request of a portal and no running operation uses a freed object, and no
\* memory is returned twice.  Nothing is said of a portal that is freed while
\* its ordinary invocation is unanswered: the code does not wait for the answer.
THEOREM ObjectDeletionSafe == Spec => []NoUseAfterFree
<1>1. Spec => []IInv
  BY Init_IInv, Step_IInv, PTL DEF Spec
<1> QED
  BY <1>1, InvImplies, PTL

\* A KernelMemory outlives the blocks allocated from it, and a CapMap the
\* entries stored in it.
THEOREM ObjectMemoryNested == Spec => []MemoryNested
<1>1. Spec => []IInv
  BY Init_IInv, Step_IInv, PTL DEF Spec
<1> QED
  BY <1>1, InvImplies, PTL
=============================================================================
