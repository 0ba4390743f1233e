------------------------------ MODULE PlaceRing ------------------------------
(***************************************************************************)
(* The ring in which DeleteBroadcast and PML4InvalidationBroadcast pass the *)
(* places: nodes[id].next is the node of the next hardware thread.          *)
(***************************************************************************)
EXTENDS Naturals

CONSTANT NumPlaces

ASSUME NumPlacesAssumption == NumPlaces \in Nat \ {0}

Places == 0..(NumPlaces - 1)

\* The place after following next k times.
Hop(q, k) == (q + k) % NumPlaces

\* while (pnext is not in S) pnext = pnext->next, beginning after q.
NextIn(q, S) ==
    LET first == CHOOSE k \in 1..NumPlaces : Hop(q, k) \in S /\ \A j \in 1..(k - 1) : Hop(q, j) \notin S
    IN  Hop(q, first)
=============================================================================
