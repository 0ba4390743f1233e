-------------------------------- MODULE Caps --------------------------------
(***************************************************************************)
(* Capability values (objects/common/objects/Cap.hh) and the inheritance    *)
(* relation on them (objects/capability-utils/objects/ops.cc).  A value     *)
(* names an object and has the flags derived and reference; the rights data *)
(* is left out.  The state of an entry's value (the transition flag and     *)
(* whether the pointer is null) is kept separately.                         *)
(***************************************************************************)
CONSTANTS Objects,
          Addr      \* addressRange() of each object, as a set of addresses

Values == [obj : Objects, der : BOOLEAN, ref : BOOLEAN]

\* Cap::isEmpty, isAllocated, isUsable and isZombie.
States == {"empty", "allocated", "usable", "zombie"}

Original(o) == [obj |-> o, der |-> FALSE, ref |-> FALSE]
IsOriginal(c) == ~c.der /\ ~c.ref

\* cap::isParentOf(): sub-ranges are children of everything but references;
\* at the same range, originals have all others as children and derived
\* capabilities have derived references.
IsParentOf(parent, other) ==
    /\ Addr[other.obj] \subseteq Addr[parent.obj]
    /\ ~parent.ref
    /\ \/ ~(Addr[parent.obj] \subseteq Addr[other.obj])
       \/ ~parent.der
       \/ other.der /\ other.ref

\* The values that derive(), reference() and the factories of child objects
\* insert below a parent.
Derived(parent) == [parent EXCEPT !.der = TRUE, !.ref = FALSE]
Reference(parent) == [parent EXCEPT !.ref = TRUE]

Inheritable(parent) ==
    {Reference(parent)}
      \cup (IF parent.der THEN {} ELSE {Derived(parent)})
      \cup {Original(o) : o \in {x \in Objects : Addr[x] \subseteq Addr[parent.obj] /\ Addr[x] # Addr[parent.obj]}}

=============================================================================
