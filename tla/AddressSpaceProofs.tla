------------------------- MODULE AddressSpaceProofs -------------------------
(***************************************************************************)
(* No place has or loads a freed root page map, for any number of places    *)
(* and root maps.                                                           *)
(*                                                                         *)
(* While a map is being unbound, the execution contexts that are about to   *)
(* load it either still refer to it or are the one that is waited for.      *)
(* Afterwards no context can load it, so that the places which have it in   *)
(* cr3 become fewer, and those are ahead of the invalidation broadcast.     *)
(***************************************************************************)
EXTENDS AddressSpace, WellFoundedInduction, TLAPS

Unbinding == {"unbind", "killed", "wait"}
Phases == Unbinding \cup {"broadcast", "delete", "invalidate"}

Ops == [phase : Phases, of : Roots, by : Places, at : Places, start : Places]

Types ==
    /\ pc \in [Places -> {"kernel", "resume", "load", "user", "idle"}]
    /\ found \in [Places -> Roots \cup {None}]
    /\ cr3 \in [Places -> Roots \cup {Kernel}]
    /\ as \in [Places -> Roots \cup {None}]
    /\ blocked \in SUBSET Places
    /\ running \in SUBSET Places
    /\ root \in [Roots -> {"usable", "revoked", "freed"}]
    /\ op = NoOp \/ op \in Ops

\* A place that is on its way to user mode is known to run, and the revoking
\* place is not.
RunInv ==
    /\ \A p \in Places : pc[p] \in {"resume", "load", "user"} => p \in running
    /\ \A p \in Places : found[p] # None <=> pc[p] = "load"
    /\ op.phase \in Unbinding => pc[op.by] = "kernel"

\* The revoked map is that of the operation.
OpInv ==
    /\ \A r \in Roots : root[r] = "revoked" <=> op # NoOp /\ op.of = r
    /\ op.phase = "delete" => op.at = op.start

\* Contexts refer to usable maps, or are still to be unbound.
RefInv ==
    \A p \in Places : as[p] # None => root[as[p]] = "usable" \/ (op.phase \in Unbinding /\ as[p] = op.of)

\* What a place found is what its context refers to, or it is waited for.
FoundInv ==
    \A p \in Places : found[p] # None =>
        as[p] = found[p] \/ (op.phase \in {"killed", "wait"} /\ op.at = p /\ op.of = found[p])

\* How far it is from place a to place b on the ring.
Dist(a, b) == IF a <= b THEN b - a ELSE b + NumPlaces - a

\* The places that have the map loaded are ahead of the invalidation.
LoadedInv ==
    /\ \A p \in Places : cr3[p] # Kernel => root[cr3[p]] # "freed"
    /\ op.phase = "invalidate" =>
          \A q \in Places : cr3[q] = op.of => Dist(op.start, op.at) <= Dist(op.start, q)

IInv == Types /\ RunInv /\ OpInv /\ RefInv /\ FoundInv /\ LoadedInv

-----------------------------------------------------------------------------
(* The ring of places *)

\* A set of natural numbers that is not empty has a least element.
LEMMA LeastElement ==
    ASSUME NEW S \in SUBSET Nat, S # {}
    PROVE  \E m \in S : \A k \in S : m <= k
<1>1. PICK m \in S : \A k \in S : ~(<<k, m>> \in OpToRel(<, Nat))
  BY Zenon, WFMin, NatLessThanWellFounded
<1>2. \A k \in S : ~(k < m)
  BY Zenon, <1>1 DEF OpToRel
<1> QED
  BY <1>2

\* Following next k times, up to once around the ring.
LEMMA HopValue ==
    ASSUME NEW q \in Places, NEW k \in 1..NumPlaces
    PROVE  Hop(q, k) = IF q + k < NumPlaces THEN q + k ELSE q + k - NumPlaces
BY SMTT(20), NumPlacesAssumption DEF Hop, Places

\* The next place in S exists, and no place of S is skipped.
LEMMA NextInValue ==
    ASSUME NEW q \in Places, NEW S \in SUBSET Places, S # {}
    PROVE  \E k \in 1..NumPlaces :
               /\ NextIn(q, S) = Hop(q, k) /\ Hop(q, k) \in S
               /\ \A j \in 1..(k - 1) : Hop(q, j) \notin S
<1> DEFINE K == {k \in 1..NumPlaces : Hop(q, k) \in S}
<1>1. PICK r : r \in S
  BY Zenon
<1>2. r \in Places
  BY Zenon, <1>1
<1> DEFINE d == IF q < r THEN r - q ELSE r + NumPlaces - q
<1>3. d \in 1..NumPlaces /\ (IF q + d < NumPlaces THEN q + d ELSE q + d - NumPlaces) = r
  BY <1>2, NumPlacesAssumption DEF Places
<1>4. d \in K
  BY Zenon, <1>1, <1>3, HopValue
<1>5. PICK m \in K : \A k \in K : m <= k
  <2>1. K \in SUBSET Nat
    BY NumPlacesAssumption
  <2> QED
    BY Zenon, <1>4, <2>1, LeastElement
<1>6. m \in 1..NumPlaces /\ Hop(q, m) \in S /\ \A j \in 1..(m - 1) : Hop(q, j) \notin S
  <2>1. ASSUME NEW j \in 1..(m - 1), Hop(q, j) \in S PROVE FALSE
    <3>1. j \in 1..NumPlaces /\ ~(m <= j)
      BY NumPlacesAssumption
    <3> QED
      BY Zenon, <2>1, <3>1, <1>5
  <2> QED
    BY Zenon, <2>1
<1> QED
  BY Zenon, <1>6 DEF NextIn

\* One hop, from place q, of a broadcast that was started at h: a place of S
\* that was still to come is reached, or still to come.
LEMMA RingStep ==
    ASSUME NEW h \in Places, NEW q \in Places, NEW S \in SUBSET Places, h \in S
    PROVE  /\ NextIn(q, S) \in S
           /\ \A r \in S : r \notin {h, q} /\ Dist(h, q) <= Dist(h, r) =>
                              NextIn(q, S) # h /\ Dist(h, NextIn(q, S)) <= Dist(h, r)
<1>1. PICK k \in 1..NumPlaces : /\ NextIn(q, S) = Hop(q, k) /\ Hop(q, k) \in S
                                /\ \A j \in 1..(k - 1) : Hop(q, j) \notin S
  BY Zenon, NextInValue
<1>2. NextIn(q, S) \in S
  BY Zenon, <1>1
<1> SUFFICES ASSUME NEW r \in S, r # h, r # q, Dist(h, q) <= Dist(h, r)
             PROVE  NextIn(q, S) # h /\ Dist(h, NextIn(q, S)) <= Dist(h, r)
  BY Zenon, <1>2
<1> DEFINE d(x) == IF q < x THEN x - q ELSE x + NumPlaces - q
<1>3. ASSUME NEW x \in S PROVE d(x) \in 1..NumPlaces /\ Hop(q, d(x)) = x
  <2>1. d(x) \in 1..NumPlaces /\ (IF q + d(x) < NumPlaces THEN q + d(x) ELSE q + d(x) - NumPlaces) = x
    BY NumPlacesAssumption DEF Places
  <2> QED
    BY Zenon, <2>1, HopValue
<1>4. \A x \in S : k <= d(x)
  <2> SUFFICES ASSUME NEW x \in S, ~(k <= d(x)) PROVE FALSE
    BY Zenon
  <2>1. d(x) \in 1..(k - 1)
    BY <1>3, NumPlacesAssumption DEF Places
  <2> QED
    BY Zenon, <2>1, <1>1, <1>3
<1>5. k <= d(r) /\ k <= d(h)
  BY Zenon, <1>4
<1>6. NextIn(q, S) = IF q + k < NumPlaces THEN q + k ELSE q + k - NumPlaces
  BY Zenon, <1>1, HopValue
<1>7. r \in 0..(NumPlaces - 1) /\ h \in 0..(NumPlaces - 1) /\ q \in 0..(NumPlaces - 1)
  BY Zenon DEF Places
<1> QED
  BY <1>5, <1>6, <1>7, NumPlacesAssumption DEF Dist

-----------------------------------------------------------------------------
(* The steps of a place *)

\* An operation that is under way has all its fields.
LEMMA OpFields ==
    ASSUME Types
    PROVE  op.phase # "none" => op # NoOp /\ op \in Ops
BY DEF Types, NoOp

\* What is found is not freed.
LEMMA FoundLive ==
    ASSUME IInv, NEW p \in Places, found[p] # None
    PROVE  found[p] \in Roots /\ root[found[p]] # "freed"
<1>1. found[p] \in Roots /\ (op.phase # "none" => op # NoOp /\ op \in Ops)
  BY Zenon, OpFields DEF IInv, Types
<1>2. CASE as[p] = found[p]
  BY Zenon, <1>1, <1>2 DEF IInv, RefInv, OpInv, Unbinding
<1>3. CASE op.phase \in {"killed", "wait"} /\ op.of = found[p]
  BY Zenon, <1>1, <1>3 DEF IInv, OpInv
<1> QED
  BY Zenon, <1>2, <1>3 DEF IInv, FoundInv

\* A place that begins to resume its context is known to run from then on.
LEMMA RunUser_IInv ==
    ASSUME IInv, NEW p \in Places, RunUser(p)
    PROVE  IInv'
<1>1. Types'
  BY Zenon DEF IInv, Types, RunUser
<1>2. RunInv'
  <2>1. \A q \in Places : q # p => pc'[q] = pc[q]
    BY Zenon DEF IInv, Types, RunUser
  <2>2. \A q \in Places : pc'[q] \in {"resume", "load", "user"} => q \in running'
    BY Zenon, <2>1 DEF IInv, Types, RunInv, RunUser
  <2>3. \A q \in Places : found'[q] # None <=> pc'[q] = "load"
    BY <2>1 DEF IInv, RunInv, RunUser
  <2>4. op'.phase \in Unbinding => pc'[op'.by] = "kernel"
    <3>1. op.phase \in Unbinding => op.by \in Places /\ op.by # p
      BY Zenon, OpFields DEF IInv, RunUser, Unbinding, Ops
    <3> QED
      BY Zenon, <2>1, <3>1 DEF IInv, RunInv, RunUser
  <2> QED
    BY Zenon, <2>2, <2>3, <2>4 DEF RunInv
<1>3. OpInv' /\ RefInv' /\ FoundInv' /\ LoadedInv'
  BY Zenon DEF IInv, OpInv, RefInv, FoundInv, LoadedInv, Dist, RunUser
<1> QED
  BY Zenon, <1>1, <1>2, <1>3 DEF IInv

\* The map that is found is the one the context refers to.
LEMMA CheckAS_IInv ==
    ASSUME IInv, NEW p \in Places, CheckAS(p)
    PROVE  IInv'
<1>1. Types'
  BY Zenon DEF IInv, Types, CheckAS
<1>2. /\ \A q \in Places : q # p => pc'[q] = pc[q] /\ found'[q] = found[q]
      /\ pc'[p] = (IF as[p] = None THEN "idle" ELSE "load") /\ found'[p] = as[p] /\ pc[p] = "resume"
  BY Zenon DEF IInv, Types, CheckAS
<1>3. RunInv'
  <2>1. op.phase \in Unbinding => op.by \in Places /\ op.by # p
    BY Zenon, <1>2, OpFields DEF IInv, RunInv, Unbinding, Ops
  <2>2. \A q \in Places : pc'[q] \in {"resume", "load", "user"} => q \in running'
    BY Zenon, <1>2 DEF IInv, RunInv, CheckAS
  <2>3. \A q \in Places : found'[q] # None <=> pc'[q] = "load"
    BY Zenon, <1>2 DEF IInv, RunInv
  <2>4. op'.phase \in Unbinding => pc'[op'.by] = "kernel"
    BY Zenon, <1>2, <2>1 DEF IInv, RunInv, CheckAS
  <2> QED
    BY Zenon, <2>2, <2>3, <2>4 DEF RunInv
<1>4. OpInv' /\ RefInv' /\ LoadedInv'
  BY Zenon DEF IInv, OpInv, RefInv, LoadedInv, Dist, CheckAS
<1>5. FoundInv'
  BY Zenon, <1>2 DEF IInv, FoundInv, CheckAS
<1> QED
  BY Zenon, <1>1, <1>3, <1>4, <1>5 DEF IInv

\* A map that is loaded was not yet passed by an invalidation: its context still
\* refers to it, or is the one that is waited for.
LEMMA LoadCR3_IInv ==
    ASSUME IInv, NEW p \in Places, LoadCR3(p)
    PROVE  IInv'
<1>1. /\ \A q \in Places : q # p => pc'[q] = pc[q] /\ found'[q] = found[q] /\ cr3'[q] = cr3[q]
      /\ pc[p] = "load" /\ pc'[p] = "user" /\ found'[p] = None /\ cr3'[p] = found[p]
  BY Zenon DEF IInv, Types, LoadCR3
<1>2. found[p] \in Roots /\ root[found[p]] # "freed"
  BY Zenon, <1>1, FoundLive DEF IInv, RunInv
<1>3. Types'
  BY Zenon, <1>2 DEF IInv, Types, LoadCR3
<1>4. RunInv'
  <2>1. op.phase \in Unbinding => op.by \in Places /\ op.by # p
    BY Zenon, <1>1, OpFields DEF IInv, RunInv, Unbinding, Ops
  <2> QED
    BY <1>1, <2>1 DEF IInv, RunInv, LoadCR3
<1>5. OpInv' /\ RefInv'
  BY Zenon DEF IInv, OpInv, RefInv, LoadCR3
<1>6. FoundInv'
  BY ZenonT(20), <1>1 DEF IInv, FoundInv, LoadCR3
<1>7. LoadedInv'
  <2>1. \A q \in Places : cr3'[q] # Kernel => root'[cr3'[q]] # "freed"
    BY Zenon, <1>1, <1>2 DEF IInv, LoadedInv, LoadCR3
  <2>2. ASSUME op'.phase = "invalidate", NEW q \in Places, cr3'[q] = op'.of
        PROVE  Dist(op'.start, op'.at) <= Dist(op'.start, q)
    <3>1. op' = op /\ op \in Ops /\ op # NoOp
      BY Zenon, <2>2, OpFields DEF IInv, LoadCR3
    <3>2. found[p] # op.of
      <4>1. as[p] = found[p]
        BY Zenon, <1>1, <1>2, <2>2, <3>1, RootsAssumption DEF IInv, FoundInv
      <4>2. root[found[p]] = "usable"
        BY Zenon, <1>2, <2>2, <3>1, <4>1, RootsAssumption DEF IInv, RefInv, Unbinding
      <4> QED
        BY Zenon, <3>1, <4>2 DEF IInv, OpInv, Ops
    <3> QED
      BY Zenon, <1>1, <2>2, <3>1, <3>2 DEF IInv, LoadedInv
  <2> QED
    BY Zenon, <2>1, <2>2 DEF LoadedInv, Dist
<1> QED
  BY Zenon, <1>3, <1>4, <1>5, <1>6, <1>7 DEF IInv

\* A place that enters the kernel keeps the map in cr3.
LEMMA EnterKernel_IInv ==
    ASSUME IInv, NEW p \in Places, EnterKernel(p)
    PROVE  IInv'
<1>1. /\ \A q \in Places : q # p => pc'[q] = pc[q] /\ (q \in running => q \in running')
      /\ pc[p] \in {"user", "idle"} /\ pc'[p] = "kernel"
  BY Zenon DEF IInv, Types, EnterKernel
<1>2. Types'
  BY Zenon DEF IInv, Types, EnterKernel
<1>3. RunInv'
  <2>1. op.phase \in Unbinding => op.by \in Places
    BY Zenon, <1>1, OpFields DEF IInv, Unbinding, Ops
  <2> QED
    BY Zenon, <1>1, <2>1 DEF IInv, RunInv, EnterKernel
<1>4. OpInv' /\ RefInv' /\ FoundInv' /\ LoadedInv'
  BY Zenon DEF IInv, OpInv, RefInv, FoundInv, LoadedInv, Dist, EnterKernel
<1> QED
  BY Zenon, <1>2, <1>3, <1>4 DEF IInv

\* A context is bound at its own place, in the kernel.
LEMMA Bind_IInv ==
    ASSUME IInv, NEW p \in Places, NEW r \in Roots, Bind(p, r)
    PROVE  IInv'
<1>1. /\ \A q \in Places : q # p => as'[q] = as[q]
      /\ as[p] = None /\ as'[p] = r /\ pc[p] = "kernel" /\ root[r] = "usable"
      /\ UNCHANGED <<pc, found, cr3, running, root, op>>
  BY Zenon DEF IInv, Types, Bind, Tasks
<1>2. Types'
  BY Zenon DEF IInv, Types, Bind
<1>3. RunInv' /\ OpInv' /\ LoadedInv'
  BY Zenon, <1>1 DEF IInv, RunInv, OpInv, LoadedInv, Dist
<1>4. RefInv'
  BY Zenon, <1>1 DEF IInv, RefInv
<1>5. FoundInv'
  BY Zenon, <1>1 DEF IInv, FoundInv, RunInv
<1> QED
  BY Zenon, <1>2, <1>3, <1>4, <1>5 DEF IInv

-----------------------------------------------------------------------------
(* The steps of the revocation *)

\* The revoking place is in the kernel and has found no map.
LEMMA Revoke_IInv ==
    ASSUME IInv, NEW q \in Places, NEW r \in Roots, Revoke(q, r)
    PROVE  IInv'
<1>1. /\ pc[q] = "kernel" /\ op = NoOp /\ root[r] = "usable"
      /\ root' = [root EXCEPT ![r] = "revoked"]
      /\ UNCHANGED <<pc, found, cr3, as, blocked, running>>
  BY Zenon DEF Revoke, Tasks
<1>2. /\ op' \in Ops /\ op'.phase = "unbind" /\ op'.of = r /\ op'.by = q /\ op' # NoOp
  BY Zenon DEF Revoke, Ops, Phases, Unbinding, NoOp
<1>3. \A x \in Roots : root'[x] = IF x = r THEN "revoked" ELSE root[x]
  BY Zenon, <1>1 DEF IInv, Types
<1>4. op.phase = "none"
  BY Zenon, <1>1 DEF NoOp
<1>5. Types'
  BY Zenon, <1>1, <1>2 DEF IInv, Types
<1>6. RunInv'
  BY Zenon, <1>1, <1>2 DEF IInv, RunInv
<1>7. OpInv'
  BY <1>1, <1>2, <1>3 DEF IInv, OpInv
<1>8. RefInv'
  BY Zenon, <1>1, <1>2, <1>3, <1>4 DEF IInv, Types, RefInv, Unbinding
<1>9. FoundInv'
  BY Zenon, <1>1, <1>4 DEF IInv, FoundInv
<1>10. LoadedInv'
  BY Zenon, <1>1, <1>2, <1>3 DEF IInv, Types, LoadedInv
<1> QED
  BY Zenon, <1>5, <1>6, <1>7, <1>8, <1>9, <1>10 DEF IInv

\* A context that has found the map it no longer refers to is the one waited for.
LEMMA KillRef_IInv ==
    ASSUME IInv, NEW p \in Places, KillRef(p)
    PROVE  IInv'
<1>1. /\ op.phase = "unbind" /\ as[p] = op.of /\ op \in Ops /\ op # NoOp
      /\ op' = [op EXCEPT !.phase = "killed", !.at = p]
      /\ as' = [as EXCEPT ![p] = None]
      /\ UNCHANGED <<pc, found, running, root, cr3, blocked>>
  BY Zenon, OpFields DEF IInv, KillRef, Unchanged
<1>2. /\ op'.phase = "killed" /\ op'.of = op.of /\ op'.by = op.by /\ op'.at = p /\ op' \in Ops /\ op' # NoOp
  BY Zenon, <1>1 DEF Ops, Phases, Unbinding, NoOp
<1>3. as'[p] = None /\ \A q \in Places : q # p => as'[q] = as[q]
  BY Zenon, <1>1 DEF IInv, Types
<1>4. Types'
  BY Zenon, <1>1, <1>2 DEF IInv, Types
<1>5. RunInv' /\ OpInv'
  BY <1>1, <1>2 DEF IInv, RunInv, OpInv, Unbinding
<1>6. RefInv'
  BY Zenon, <1>1, <1>2, <1>3 DEF IInv, RefInv, Unbinding
<1>7. FoundInv'
  BY Zenon, <1>1, <1>2, <1>3 DEF IInv, FoundInv
<1>8. LoadedInv'
  BY Zenon, <1>1, <1>2 DEF IInv, LoadedInv
<1> QED
  BY Zenon, <1>4, <1>5, <1>6, <1>7, <1>8 DEF IInv

\* The next context can be unbound: what the last one found is no longer used.
LEMMA NextRef ==
    ASSUME IInv, op.phase \in {"killed", "wait"}, found[op.at] = None,
           op' = [op EXCEPT !.phase = "unbind"],
           blocked' \in SUBSET Places, UNCHANGED <<pc, found, cr3, as, running, root>>
    PROVE  IInv'
<1>1. op \in Ops /\ op # NoOp
  BY Zenon, OpFields DEF IInv
<1>2. op'.phase = "unbind" /\ op'.of = op.of /\ op'.by = op.by /\ op' \in Ops /\ op' # NoOp
  BY Zenon, <1>1 DEF Ops, Phases, Unbinding, NoOp
<1>3. Types'
  BY Zenon, <1>2 DEF IInv, Types
<1>4. RunInv' /\ OpInv' /\ RefInv'
  BY Zenon, <1>1, <1>2 DEF IInv, RunInv, OpInv, RefInv, Unbinding
<1>5. FoundInv'
  BY Zenon DEF IInv, FoundInv
<1>6. LoadedInv'
  BY Zenon, <1>2 DEF IInv, LoadedInv
<1> QED
  BY Zenon, <1>3, <1>4, <1>5, <1>6 DEF IInv

\* A context that has found the map is running, and it is not the revoking one.
LEMMA Unbind_IInv ==
    ASSUME IInv, Unbind
    PROVE  IInv'
<1>1. op.phase = "killed" /\ op \in Ops /\ op # NoOp /\ UNCHANGED <<pc, found, cr3, as, running, root>>
  BY Zenon, OpFields DEF IInv, Unbind, Unchanged
<1>2. op.at \in Places /\ op.by \in Places /\ blocked' \in SUBSET Places
  BY Zenon, <1>1 DEF IInv, Types, Ops, Unbind
<1>3. CASE Suspend(op.at) = "wait"
  <2>1. op' = [op EXCEPT !.phase = "wait"]
    BY Zenon, <1>3 DEF Unbind
  <2>2. op'.phase = "wait" /\ op'.of = op.of /\ op'.by = op.by /\ op'.at = op.at /\ op' \in Ops /\ op' # NoOp
    BY Zenon, <1>1, <2>1 DEF Ops, Phases, Unbinding, NoOp
  <2>3. Types'
    BY Zenon, <1>1, <1>2, <2>2 DEF IInv, Types
  <2>4. RunInv' /\ OpInv' /\ RefInv'
    BY Zenon, <1>1, <2>2 DEF IInv, RunInv, OpInv, RefInv, Unbinding
  <2>5. FoundInv'
    BY Zenon, <1>1, <2>2 DEF IInv, FoundInv
  <2>6. LoadedInv'
    BY Zenon, <1>1, <2>2 DEF IInv, LoadedInv
  <2> QED
    BY Zenon, <2>3, <2>4, <2>5, <2>6 DEF IInv
<1>4. CASE Suspend(op.at) # "wait"
  <2>1. op' = [op EXCEPT !.phase = "unbind"] /\ (op.at \notin running \/ op.at = op.by)
    BY Zenon, <1>4 DEF Unbind, Suspend
  <2>2. found[op.at] = None
    BY Zenon, <1>1, <1>2, <2>1 DEF IInv, RunInv, Unbinding
  <2> QED
    BY Zenon, <1>1, <1>2, <2>1, <2>2, NextRef
<1> QED
  BY Zenon, <1>3, <1>4

\* The awaited place runs the synchronous task, so it is not about to load the map.
LEMMA Suspended_IInv ==
    ASSUME IInv, Suspended
    PROVE  IInv'
<1>1. op.phase = "wait" /\ op \in Ops /\ pc[op.at] = "kernel"
  BY Zenon, OpFields DEF IInv, Suspended, Tasks
<1>2. found[op.at] = None
  BY Zenon, <1>1 DEF IInv, RunInv, Ops
<1> QED
  BY Zenon, <1>1, <1>2, NextRef DEF Suspended, Unchanged, IInv, Types

\* Once all references are gone, no place has found the map.
LEMMA Forward_IInv ==
    ASSUME IInv, NEW q \in Places, Forward(q),
           op.phase = "broadcast" \/ (op.phase = "unbind" /\ \A p \in Places : as[p] # op.of)
    PROVE  IInv'
<1> DEFINE S == {op.start} \cup {r \in Places : pc[r] = "kernel"}
           n == NextIn(q, S)
<1>1. op \in Ops /\ op # NoOp /\ UNCHANGED <<pc, found, cr3, as, blocked, running, root>>
  BY Zenon, OpFields DEF IInv, Forward, Unchanged
<1>2. op.start \in Places /\ S \in SUBSET Places /\ op.start \in S
  BY Zenon, <1>1 DEF Ops
<1>3. n \in Places
  BY Zenon, <1>2, RingStep
<1>4. op' = [op EXCEPT !.phase = IF n = op.start THEN "delete" ELSE "broadcast", !.at = n]
  BY Zenon DEF Forward
<1> HIDE DEF n
<1>5. /\ op'.phase = IF n = op.start THEN "delete" ELSE "broadcast"
      /\ op'.of = op.of /\ op'.start = op.start /\ op'.at = n /\ op' \in Ops /\ op' # NoOp
  BY Zenon, <1>1, <1>3, <1>4 DEF Ops, Phases, NoOp
<1>6. Types'
  BY Zenon, <1>1, <1>5 DEF IInv, Types
<1>7. RunInv' /\ OpInv'
  BY Zenon, <1>1, <1>5 DEF IInv, RunInv, OpInv, Unbinding
<1>8. RefInv' /\ FoundInv'
  BY Zenon, <1>1, <1>5 DEF IInv, RefInv, FoundInv, Unbinding
<1>9. LoadedInv'
  BY Zenon, <1>1, <1>5 DEF IInv, LoadedInv
<1> QED
  BY Zenon, <1>6, <1>7, <1>8, <1>9 DEF IInv

\* At the start of the invalidation, every place is ahead of it.
LEMMA DeleteObject_IInv ==
    ASSUME IInv, DeleteObject
    PROVE  IInv'
<1>1. /\ op.phase = "delete" /\ op \in Ops /\ op # NoOp /\ op' = [op EXCEPT !.phase = "invalidate"]
      /\ UNCHANGED <<pc, found, cr3, as, blocked, running, root>>
  BY Zenon, OpFields DEF IInv, DeleteObject, Unchanged
<1>2. /\ op'.phase = "invalidate" /\ op'.of = op.of /\ op'.start = op.start /\ op'.at = op.at
      /\ op' \in Ops /\ op' # NoOp
  BY Zenon, <1>1 DEF Ops, Phases, NoOp
<1>3. Types'
  BY Zenon, <1>1, <1>2 DEF IInv, Types
<1>4. RunInv' /\ OpInv' /\ RefInv' /\ FoundInv'
  BY Zenon, <1>1, <1>2 DEF IInv, RunInv, OpInv, RefInv, FoundInv, Unbinding
<1>5. LoadedInv'
  <2>1. op.at = op.start /\ op.start \in Places
    BY Zenon, <1>1 DEF IInv, OpInv, Ops
  <2>2. \A q \in Places : Dist(op.start, op.at) <= Dist(op.start, q)
    BY <2>1, NumPlacesAssumption DEF Dist, Places
  <2> QED
    BY Zenon, <1>1, <1>2, <2>2 DEF IInv, LoadedInv, Dist
<1> QED
  BY Zenon, <1>3, <1>4, <1>5 DEF IInv

\* The invalidation reaches all places that have the map in cr3.
LEMMA Invalidate_IInv ==
    ASSUME IInv, Invalidate
    PROVE  IInv'
<1> DEFINE S == {op.start} \cup {q \in Places : cr3[q] = op.of}
           n == NextIn(op.at, S)
<1>1. /\ op.phase = "invalidate" /\ op \in Ops /\ op # NoOp
      /\ UNCHANGED <<pc, found, as, blocked, running>>
  BY Zenon, OpFields DEF IInv, Invalidate
<1>2. op.start \in Places /\ op.at \in Places /\ op.of \in Roots /\ S \in SUBSET Places /\ op.start \in S
  BY Zenon, <1>1 DEF Ops
<1>3. /\ n \in Places
      /\ \A r \in S : r \notin {op.start, op.at} /\ Dist(op.start, op.at) <= Dist(op.start, r) =>
                         n # op.start /\ Dist(op.start, n) <= Dist(op.start, r)
  BY <1>2, RingStep
<1>4. /\ cr3' = [cr3 EXCEPT ![op.at] = IF cr3[op.at] = op.of THEN Kernel ELSE cr3[op.at]]
      /\ op' = IF n = op.start THEN NoOp ELSE [op EXCEPT !.at = n]
      /\ root' = IF n = op.start THEN [root EXCEPT ![op.of] = "freed"] ELSE root
  BY Zenon DEF Invalidate, Relay
<1> HIDE DEF n
<1>5. ASSUME NEW q \in Places, cr3'[q] = op.of
      PROVE  n # op.start /\ Dist(op.start, n) <= Dist(op.start, q)
  <2>1. q # op.at /\ cr3[q] = op.of
    BY Zenon, <1>2, <1>4, <1>5, RootsAssumption DEF IInv, Types
  <2>2. Dist(op.start, op.at) <= Dist(op.start, q)
    BY Zenon, <1>1, <2>1 DEF IInv, LoadedInv
  <2>3. q # op.start
    BY <1>2, <2>1, <2>2, NumPlacesAssumption DEF Dist, Places
  <2> QED
    BY Zenon, <1>3, <2>1, <2>2, <2>3
<1>6. /\ cr3' \in [Places -> Roots \cup {Kernel}]
      /\ \A q \in Places : cr3'[q] # Kernel => cr3'[q] = cr3[q]
  BY Zenon, <1>4 DEF IInv, Types
<1>7. /\ \A p \in Places : as[p] # None => root[as[p]] = "usable" /\ as[p] # op.of
      /\ \A p \in Places : found[p] # None => as[p] = found[p]
  BY Zenon, <1>1, <1>2 DEF IInv, RefInv, FoundInv, OpInv, Unbinding
<1>8. CASE n = op.start
  <2>1. op' = NoOp /\ op'.phase = "none" /\ root' = [root EXCEPT ![op.of] = "freed"]
    BY Zenon, <1>4, <1>8 DEF NoOp
  <2>2. \A r \in Roots : root'[r] = IF r = op.of THEN "freed" ELSE root[r]
    BY Zenon, <2>1 DEF IInv, Types
  <2>3. Types'
    BY Zenon, <1>1, <1>6, <2>1 DEF IInv, Types
  <2>4. RunInv' /\ OpInv'
    BY <1>1, <2>1, <2>2 DEF IInv, RunInv, OpInv, Unbinding
  <2>5. RefInv' /\ FoundInv'
    BY ZenonT(20), <1>1, <1>7, <2>2 DEF IInv, Types, RefInv, FoundInv
  <2>6. LoadedInv'
    BY <1>5, <1>6, <1>8, <2>1, <2>2 DEF IInv, Types, LoadedInv
  <2> QED
    BY Zenon, <2>3, <2>4, <2>5, <2>6 DEF IInv
<1>9. CASE n # op.start
  <2>1. op' = [op EXCEPT !.at = n] /\ root' = root
    BY Zenon, <1>4, <1>9
  <2>2. /\ op'.phase = "invalidate" /\ op'.of = op.of /\ op'.start = op.start /\ op'.at = n
        /\ op' \in Ops /\ op' # NoOp
    BY Zenon, <1>1, <1>3, <2>1 DEF Ops, NoOp
  <2>3. Types'
    BY Zenon, <1>1, <1>6, <2>1, <2>2 DEF IInv, Types
  <2>4. RunInv' /\ OpInv'
    BY Zenon, <1>1, <2>1, <2>2 DEF IInv, RunInv, OpInv, Unbinding
  <2>5. RefInv' /\ FoundInv'
    BY Zenon, <1>1, <1>7, <2>1 DEF IInv, RefInv, FoundInv
  <2>6. LoadedInv'
    BY Zenon, <1>5, <1>6, <2>1, <2>2 DEF IInv, LoadedInv, Dist
  <2> QED
    BY Zenon, <2>3, <2>4, <2>5, <2>6 DEF IInv
<1> QED
  BY Zenon, <1>8, <1>9

-----------------------------------------------------------------------------
(* The theorem *)

\* At first all maps are usable, and no place has one loaded.
LEMMA Init_IInv == Init => IInv
<1> SUFFICES ASSUME Init PROVE IInv
  BY Zenon
<1>1. op.phase = "none" /\ op = NoOp
  BY Zenon DEF Init, NoOp
<1>2. Types
  BY Zenon, <1>1 DEF Init, Types
<1>3. RunInv /\ OpInv
  BY Zenon, <1>1 DEF Init, RunInv, OpInv, Unbinding
<1>4. RefInv /\ FoundInv /\ LoadedInv
  BY Zenon, <1>1 DEF Init, RefInv, FoundInv, LoadedInv
<1> QED
  BY Zenon, <1>2, <1>3, <1>4 DEF IInv

\* Every step preserves the inductive invariant.
LEMMA Step_IInv == IInv /\ [Next]_vars => IInv'
<1> SUFFICES ASSUME IInv, [Next]_vars PROVE IInv'
  BY Zenon
<1>1. ASSUME NEW p \in Places, RunUser(p) \/ CheckAS(p) \/ LoadCR3(p) \/ EnterKernel(p) \/ KillRef(p)
      PROVE  IInv'
  BY Zenon, <1>1, RunUser_IInv, CheckAS_IInv, LoadCR3_IInv, EnterKernel_IInv, KillRef_IInv
<1>2. ASSUME NEW p \in Places, NEW r \in Roots, Revoke(p, r) \/ Bind(p, r)
      PROVE  IInv'
  BY Zenon, <1>2, Revoke_IInv, Bind_IInv
<1>3. ASSUME Unbind \/ Suspended \/ DeleteObject \/ Invalidate PROVE IInv'
  BY Zenon, <1>3, Unbind_IInv, Suspended_IInv, DeleteObject_IInv, Invalidate_IInv
<1>4. ASSUME StartBroadcast \/ Broadcast PROVE IInv'
  <2>1. op.phase # "none" => op \in Ops
    BY Zenon, OpFields DEF IInv
  <2>2. op.start \in Places /\ op.at \in Places
    BY Zenon, <1>4, <2>1 DEF StartBroadcast, Broadcast, Ops
  <2> QED
    BY Zenon, <1>4, <2>2, Forward_IInv DEF StartBroadcast, Broadcast
<1>5. CASE UNCHANGED vars
  BY Zenon, <1>5 DEF vars, IInv, Types, RunInv, OpInv, RefInv, FoundInv, LoadedInv, Dist
<1> QED
  BY Zenon, <1>1, <1>2, <1>3, <1>4, <1>5 DEF Next

\* Suspending the contexts one by one and invalidating cr3 along the ring is
\* enough: no place has a freed root map in cr3, and none between the check of
\* _as in resume() and setCR3() is about to load one.
THEOREM AddressSpaceSafe == Spec => []NoFreedTable
<1>1. IInv => NoFreedTable
  <2> SUFFICES ASSUME IInv, NEW p \in Places, NEW r \in Roots, root[r] = "freed"
               PROVE  cr3[p] # r /\ found[p] # r
    BY Zenon DEF NoFreedTable
  <2> QED
    BY Zenon, FoundLive, RootsAssumption DEF IInv, LoadedInv
<1>2. Spec => []IInv
  BY Init_IInv, Step_IInv, PTL DEF Spec
<1> QED
  BY <1>1, <1>2, PTL
=============================================================================
