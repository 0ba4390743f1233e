--------------------------------- MODULE CapMap ---------------------------------
(***************************************************************************)
(* Capability spaces: a CapMap has 2^indexbits entries behind a guard, an  *)
(* entry may hold a capability to another CapMap, and lookup() resolves a  *)
(* pointer of ptrbits bits to a given depth, level by level.  Processes    *)
(* copy capabilities (Derive, Reference), which can only lose the writable *)
(* flag, and delete them.  Pointers and guards are integers, shifted as in *)
(* the code: a shift by ptrbits or more is undefined, the build for amd64  *)
(* shifts by the count modulo ptrbits.                                     *)
(***************************************************************************)
EXTENDS Naturals, Sequences, FiniteSets

CONSTANTS Maps,      \* the CapMaps
          Root,      \* the CapMap of the invoking process
          ptrbits,   \* bits of a CapPtr
          indexbits, guardbits, guard, \* CapMap -> its geometry, at most ptrbits
          Others,    \* objects that are no CapMaps
          None

VARIABLE caps        \* <<map, index>> -> the capability [obj, writable] there, or None

CapPtrs == 0 .. 2 ^ ptrbits - 1
Depths == 0 .. ptrbits
Entries == UNION {{<<m, i>> : i \in 0 .. 2 ^ indexbits[m] - 1} : m \in Maps}
NoEntry == <<>>

Shr(p, n) == p \div 2 ^ (n % ptrbits)
Shl(p, n) == (p * 2 ^ (n % ptrbits)) % 2 ^ ptrbits

\* Every map but the root, and every other object, is in some entry of the root.
Init ==
    caps \in {c \in [Entries -> {None} \cup [obj : (Maps \ {Root}) \cup Others, writable : {TRUE}]] :
                 /\ \A e \in Entries : c[e] # None => e[1] = Root
                 /\ \A e, f \in Entries : c[e] = c[f] /\ c[e] # None => e = f}

IsMap(c) == c # None /\ c.obj \in Maps

\* Mutant: the index is taken before the guard has been stripped.
IndexOf(m, ptr) == Shr(ptr, ptrbits - indexbits[m])

Index(m, ptr) == Shr(Shl(ptr, guardbits[m]), ptrbits - indexbits[m])

\* CapMap::lookup() with the capability self; the TypedCap of a sub-map fails unless it is a CapMap.
RECURSIVE Lookup(_, _, _, _)
Lookup(self, ptr, depth, writable) ==
    LET m == self.obj
        entry == <<m, Index(m, ptr)>>
        rest == depth - guardbits[m] - indexbits[m]
        ptr2 == Shl(Shl(ptr, guardbits[m]), indexbits[m])
    IN  IF \/ writable /\ ~self.writable
           \/ depth < guardbits[m] + indexbits[m]
           \/ Shr(ptr, ptrbits - guardbits[m]) # guard[m]
        THEN NoEntry
        ELSE IF rest = 0 THEN entry
        ELSE IF entry \in Entries /\ IsMap(caps[entry]) THEN Lookup(caps[entry], ptr2, rest, writable)
        ELSE NoEntry

RootCap == [obj |-> Root, writable |-> TRUE]

\* mint(): intersection of the own and the requested flags.
Mint(c, request) == [c EXCEPT !.writable = @ /\ request]

\* lookupDst(): the map of the invocation, or one that the process names by a pointer of full depth.
DstMaps ==
    LET named == Entries \cap {Lookup(RootCap, p, ptrbits, FALSE) : p \in CapPtrs \ {0}}
    IN  {RootCap} \cup {c \in {caps[e] : e \in named} : IsMap(c)}

\* invokeDerive() and invokeReference() on the process' own map: the destination is looked up for
\* writing, the source for reading, and the destination entry has to be empty.
Copy(src, srcDepth, dstMap, dst, dstDepth, request) ==
    LET d == Lookup(dstMap, dst, dstDepth, TRUE)
        s == Lookup(RootCap, src, srcDepth, FALSE)
    IN  /\ d # NoEntry /\ s # NoEntry /\ caps[s] # None /\ caps[d] = None
        /\ caps' = [caps EXCEPT ![d] = Mint(caps[s], request)]

\* invokeDelete(): the entry is looked up for writing.
Delete(ptr, depth) ==
    LET e == Lookup(RootCap, ptr, depth, TRUE)
    IN  /\ e # NoEntry /\ caps[e] # None
        /\ caps' = [caps EXCEPT ![e] = None]

Next ==
    \/ \E src, dst \in CapPtrs, sd, dd \in Depths, m \in DstMaps, r \in BOOLEAN : Copy(src, sd, m, dst, dd, r)
    \/ \E ptr \in CapPtrs, d \in Depths : Delete(ptr, d)

Spec == Init /\ [][Next]_caps
-----------------------------------------------------------------------------
\* The first n bits of a pointer.
Prefix(p, n) == p \div 2 ^ (ptrbits - n)

\* Reference: entry e is reached from map m by the address p of n bits.
RECURSIVE Reaches(_, _, _, _, _)
Reaches(self, e, p, n, writable) ==
    LET m == self.obj
        bits == guardbits[m] + indexbits[m]
    IN  /\ writable => self.writable
        /\ bits <= n
        /\ \E i \in 0 .. 2 ^ indexbits[m] - 1 :
              /\ p \div 2 ^ (n - bits) = guard[m] * 2 ^ indexbits[m] + i
              /\ IF n = bits THEN e = <<m, i>>
                 ELSE /\ IsMap(caps[<<m, i>>])
                      /\ Reaches(caps[<<m, i>>], e, p % 2 ^ (n - bits), n - bits, writable)

\* lookup() finds an entry exactly if the guards and indices on the way to it, put side by side, are
\* the first depth bits of the pointer and, for writing, every capability on the way is writable;
\* no two entries answer to one address.  (With guardbits = 0 or indexbits = 0 the code shifts by
\* ptrbits, which is undefined: the instances have neither.)
LookupExact ==
    \A p \in CapPtrs, d \in Depths \ {0}, w \in BOOLEAN : \A e \in Entries :
        Lookup(RootCap, p, d, w) = e <=> Reaches(RootCap, e, Prefix(p, d), d, w)
=============================================================================
