------------------------------ MODULE PageMap ------------------------------
(***************************************************************************)
(* Page maps: the walks of mmap, munmap, mprotect, installMap and           *)
(* removeMap through the tree of page tables.  Every root map has its own   *)
(* monitor, but lower tables may be mapped into several roots, so that two  *)
(* walks meet in one table.  Each table entry has a capability entry that   *)
(* references the mapped frame or table; revoking that frame or table       *)
(* removes the mapping.  Deleting a table deletes its entries, too, and its *)
(* memory is freed when no place can be in a walk that has reached it.      *)
(*                                                                         *)
(* Addresses count the smallest pages.  A table has Fan entries (512), the  *)
(* root TopCaps usable ones (256), and there are Top levels (4).            *)
(***************************************************************************)
EXTENDS Integers, Sequences

CONSTANTS Roots, Tables,      \* page maps of level Top, and of the lower levels
          Level,              \* level of each page map
          Frames, FrameStart, FrameSize, FrameWritable,
          Top, Fan, TopCaps,
          Requests,           \* the operations issued
          MaxOps,             \* bound: operations per root
          Revocable,          \* the capabilities that are revoked
          Installed,          \* <<map, index, lower map>> installed at the start
          Nothing, Wrap       \* target of an empty entry; 2^64

VARIABLES pm,           \* the page tables
          cap,          \* state of the capabilities to page maps and frames
          walk,         \* the operation in the monitor of each root
          ops           \* number of operations left
vars == <<pm, cap, walk, ops>>

PageSize(level) == Fan ^ (level - 1)
NumCaps(level) == IF level < Top THEN Fan ELSE TopCaps
Maps == Roots \cup Tables

NoEntry == [present |-> FALSE, page |-> FALSE, to |-> Nothing, addr |-> 0, writable |-> FALSE, conf |-> FALSE, deleted |-> FALSE]
TableEntry(t, conf) == [NoEntry EXCEPT !.present = TRUE, !.to = t, !.conf = conf]
DeletedEntry == [NoEntry EXCEPT !.deleted = TRUE]
Idle == [pc |-> "idle"]

Init ==
    /\ pm = [m \in Maps |-> [i \in 0 .. NumCaps(Level[m]) - 1 |->
               IF \E t \in Tables : <<m, i, t>> \in Installed
               THEN TableEntry(CHOOSE t \in Tables : <<m, i, t>> \in Installed, TRUE) ELSE NoEntry]]
    /\ cap = [c \in Maps \cup Frames |-> "usable"]
    /\ walk = [r \in Roots |-> Idle]
    /\ ops = MaxOps

SetEntry(m, i, e) == pm' = [pm EXCEPT ![m][i] = e]

\* resetReference(): without effect on an entry that was deleted with its table.
ResetEntry(m, i) == IF pm[m][i].deleted THEN UNCHANGED pm ELSE SetEntry(m, i, NoEntry)

\* What a root maps an address to: the frame address, or -1.
RECURSIVE Translate(_, _, _)
Translate(tables, m, a) ==
    LET l == Level[m]
        e == tables[m][a \div PageSize(l)]
        o == a % PageSize(l)
    IN  IF a \div PageSize(l) >= NumCaps(l) \/ ~e.present THEN -1
        ELSE IF e.to \in Frames THEN e.addr + o ELSE Translate(tables, e.to, o)
Space == 0 .. TopCaps * PageSize(Top) - 1
View(tables, r) == [a \in Space |-> Translate(tables, r, a)]

-----------------------------------------------------------------------------
(* The table walk of operations on pages: PageOp and visitPages() *)

VAddr(w) == w.vaddr + w.off
SizeRemaining(w) == (w.size - w.off) % Wrap
SkipNonMapped(w) == w.kind # "mmap"

\* Mutant: the end of the range is rounded down.
NumEntriesDown(w, size) == (VAddr(w) + SizeRemaining(w)) \div size - VAddr(w) \div size

\* The number of entries of the given size that the rest of the range touches.
NumEntries(w, size) == (VAddr(w) + SizeRemaining(w) + size - 1) \div size - VAddr(w) \div size

\* The part of one table that the operation has to visit.
Visit(w, m, base) ==
    LET l == Level[m]
        start == (VAddr(w) - base) \div PageSize(l)
        num == NumEntries(w, PageSize(l))
    IN  [map |-> m, base |-> base, start |-> start, i |-> 0,
         num |-> IF num > NumCaps(l) - start THEN NumCaps(l) - start ELSE num]

Update(r, w) == walk' = [walk EXCEPT ![r] = w]
Finish(r, w, err) == Update(r, [w EXCEPT !.pc = "done", !.err = err])

\* The entry is done: go on behind it.
Forward(w, size) == [w EXCEPT !.pc = "visit", !.off = @ + size, !.stack[Len(w.stack)].i = @ + 1]

Disturb(r) == [x \in Roots |-> IF x # r /\ walk[x].pc # "idle" THEN [walk[x] EXCEPT !.alone = FALSE] ELSE walk[x]]

\* invokeMmap() and the other invocations on the root map, through a capability that is writable or not.
Start(r, q) ==
    LET w == [pc |-> "visit", kind |-> q.kind, vaddr |-> q.vaddr, size |-> q.size, arg |-> q.arg, write |-> q.write,
              foff |-> q.foff, off |-> 0, stack |-> <<>>, err |-> "SUCCESS", entry |-> NoEntry, holds |-> {},
              alone |-> \A x \in Roots : walk[x].pc = "idle", before |-> View(pm, r)]
        v == Visit(w, r, 0)
    IN  /\ walk[r].pc = "idle" /\ cap[r] = "usable" /\ ops[r] > 0
        /\ ops' = [ops EXCEPT ![r] = @ - 1]
        /\ walk' = [Disturb(r) EXCEPT ![r] =
                     IF ~q.pd THEN [w EXCEPT !.pc = "done", !.err = "REQUEST_DENIED"]
                     ELSE IF q.kind \in {"install", "remove"} THEN [w EXCEPT !.pc = "table", !.stack = <<v>>]
                     ELSE IF q.kind = "mmap" /\ cap[q.arg] # "usable" THEN [w EXCEPT !.pc = "done", !.err = "INVALID_CAPABILITY"]
                     ELSE IF v.start >= NumCaps(Top) THEN [w EXCEPT !.pc = "done", !.err = "REQUEST_DENIED"]
                     ELSE [w EXCEPT !.stack = <<v>>]]
        /\ UNCHANGED <<pm, cap>>

TopOfStack(w) == w.stack[Len(w.stack)]

IsTable(l, e) == l > 1 /\ e.present /\ ~e.page

\* One iteration of the loop in visitPages().
VisitEntry(r) ==
    LET w == walk[r]
        v == TopOfStack(w)
        l == Level[v.map]
        i == v.start + v.i
        e == pm[v.map][i]
        apply == ~IsTable(l, e) /\ ((e.present /\ e.page) \/ ~SkipNonMapped(w))
        aligned == VAddr(w) % PageSize(l) = 0 /\ SizeRemaining(w) >= PageSize(l)
    IN  /\ w.pc = "visit" /\ v.i < v.num
        /\ \/ /\ IsTable(l, e) /\ ~e.conf /\ Finish(r, w, "PAGEMAP_NOCONF")
           \/ /\ IsTable(l, e) /\ e.conf
              /\ Update(r, [w EXCEPT !.stack = Append([@ EXCEPT ![Len(@)].i = v.i + 1], Visit(w, e.to, v.base + i * PageSize(l)))])
           \/ /\ apply /\ (~aligned \/ (~(e.present /\ e.page) /\ l > 2)) /\ Finish(r, w, "PAGEMAP_MISSING")
           \/ /\ apply /\ aligned /\ ((e.present /\ e.page) \/ l <= 2) /\ Update(r, [w EXCEPT !.pc = "apply"])
           \/ /\ ~apply /\ ~IsTable(l, e)
              /\ Update(r, Forward(w, PageSize(l) - (VAddr(w) % PageSize(l))))
        /\ UNCHANGED <<pm, cap, ops>>

\* End of the loop: return to the table above.
VisitReturn(r) ==
    LET w == walk[r] IN
    /\ w.pc = "visit" /\ TopOfStack(w).i = TopOfStack(w).num
    /\ IF Len(w.stack) = 1 THEN Finish(r, w, "SUCCESS")
       ELSE Update(r, [w EXCEPT !.stack = SubSeq(@, 1, Len(@) - 1)])
    /\ UNCHANGED <<pm, cap, ops>>

Here(w) == [map |-> TopOfStack(w).map, i |-> TopOfStack(w).start + TopOfStack(w).i]

\* mapFrame(): check the frame, remove the old mapping ...
ApplyMap(r) ==
    LET w == walk[r]
        h == Here(w)
        size == PageSize(Level[h.map])
        addr == FrameStart[w.arg] + w.foff + w.off
    IN  /\ w.pc = "apply" /\ w.kind = "mmap"
        /\ \/ cap[w.arg] # "usable" /\ Finish(r, w, "INVALID_CAPABILITY") /\ UNCHANGED pm
           \/ cap[w.arg] = "usable" /\ addr % size # 0 /\ Finish(r, w, "PAGEMAP_MISSING") /\ UNCHANGED pm
           \/ /\ cap[w.arg] = "usable" /\ addr % size = 0 /\ w.foff + w.off + size > FrameSize[w.arg]
              /\ Finish(r, w, "INSUFFICIENT_RESOURCES") /\ UNCHANGED pm
           \/ /\ cap[w.arg] = "usable" /\ addr % size = 0 /\ w.foff + w.off + size <= FrameSize[w.arg]
              /\ ResetEntry(h.map, h.i)
              /\ Update(r, [w EXCEPT !.pc = "set",
                              !.entry = [present |-> TRUE, page |-> Level[h.map] > 1, to |-> w.arg, addr |-> addr,
                                         writable |-> w.write /\ FrameWritable[w.arg], conf |-> FrameWritable[w.arg],
                                         deleted |-> FALSE]])
        /\ UNCHANGED <<cap, ops>>

\* Mutant: the reference is inherited without looking at the original again.
SourceStale(w) == TRUE

\* insertAfter(): the source must still be usable when it is locked.
SourceUsable(w) == cap[w.arg] = "usable"

\* ... and setReference() to the new one, which fails if the frame was revoked
\* or the entry was taken meanwhile.
SetMapping(r) ==
    LET w == walk[r]
        h == Here(w)
        ok == ~pm[h.map][h.i].present /\ ~pm[h.map][h.i].deleted /\ SourceUsable(w)
    IN  /\ w.pc = "set"
        /\ IF ok
           THEN /\ SetEntry(h.map, h.i, w.entry)
                /\ IF w.kind = "install" THEN Finish(r, w, "SUCCESS")
                   ELSE Update(r, Forward([w EXCEPT !.entry = NoEntry], PageSize(Level[h.map])))
           ELSE Finish(r, w, "LOST_RACE") /\ UNCHANGED pm
        /\ UNCHANGED <<cap, ops>>

\* unmapEntry()
ApplyUnmap(r) ==
    LET w == walk[r]
        h == Here(w)
    IN  /\ w.pc = "apply" /\ w.kind = "munmap"
        /\ ResetEntry(h.map, h.i)
        /\ Update(r, Forward(w, PageSize(Level[h.map])))
        /\ UNCHANGED <<cap, ops>>

\* ProtectPageVisitor::applyPage(): load the entry ...
ApplyProtect(r) ==
    LET w == walk[r]
        e == pm[Here(w).map][Here(w).i]
    IN  /\ w.pc = "apply" /\ w.kind = "mprotect"
        /\ IF e.present /\ e.page THEN Update(r, [w EXCEPT !.pc = "replace", !.entry = e])
           ELSE Finish(r, w, "LOST_RACE")
        /\ UNCHANGED <<pm, cap, ops>>

\* Mutant: an entry of a read-only frame can be made writable.
ProtectedUnchecked(e, write) == [e EXCEPT !.writable = write]

Protected(e, write) == [e EXCEPT !.writable = write /\ e.conf]

\* ... and replace it if it has not changed.
Replace(r) ==
    LET w == walk[r]
        h == Here(w)
    IN  /\ w.pc = "replace"
        /\ IF pm[h.map][h.i] = w.entry
           THEN /\ SetEntry(h.map, h.i, Protected(w.entry, w.write))
                /\ Update(r, Forward([w EXCEPT !.entry = NoEntry], PageSize(Level[h.map])))
           ELSE Finish(r, w, "LOST_RACE") /\ UNCHANGED pm
        /\ UNCHANGED <<cap, ops>>

-----------------------------------------------------------------------------
(* The walk of operations on tables: TableOp and visitTables() *)

\* The size of these operations is their target level.
VisitTable(r) ==
    LET w == walk[r]
        v == TopOfStack(w)
        l == Level[v.map]
        i == (w.vaddr - v.base) \div PageSize(l)
        e == pm[v.map][i]
        at == [w EXCEPT !.stack = <<[v EXCEPT !.start = i, !.i = 0]>>]
    IN  /\ w.pc = "table"
        /\ \/ (w.vaddr % PageSize(w.size) # 0 \/ i >= NumCaps(l)) /\ Finish(r, w, "UNALIGNED") /\ UNCHANGED pm
           \/ /\ w.vaddr % PageSize(w.size) = 0 /\ i < NumCaps(l)
              /\ \/ /\ l = w.size /\ w.kind = "remove"              \* unmapEntry()
                    /\ ResetEntry(v.map, i) /\ Finish(r, w, "SUCCESS")
                 \/ /\ l = w.size /\ w.kind = "install"             \* mapTable()
                    /\ IF cap[w.arg] = "usable" /\ l = Level[w.arg] + 1
                       THEN /\ ResetEntry(v.map, i)
                            /\ Update(r, [at EXCEPT !.pc = "set",
                                            !.entry = TableEntry(w.arg, w.write)])
                       ELSE Finish(r, w, "INVALID_CAPABILITY") /\ UNCHANGED pm
                 \/ /\ l # w.size /\ IsTable(l, e) /\ e.conf
                    /\ Update(r, [w EXCEPT !.stack = <<[v EXCEPT !.map = e.to, !.base = v.base + i * PageSize(l)]>>])
                    /\ UNCHANGED pm
                 \/ /\ l # w.size /\ ~(IsTable(l, e) /\ e.conf)
                    /\ Finish(r, w, "PAGEMAP_MISSING") /\ UNCHANGED pm
        /\ UNCHANGED <<cap, ops>>

\* The answer with the result, failaddr and faillevel.
Reply(r) ==
    /\ walk[r].pc = "done"
    /\ Update(r, Idle)
    /\ UNCHANGED <<pm, cap, ops>>

-----------------------------------------------------------------------------
(* Revocation *)

Kill(c) ==
    /\ cap[c] = "usable"
    /\ cap' = [cap EXCEPT ![c] = "killed"]
    /\ walk' = Disturb(Nothing)
    /\ UNCHANGED <<pm, ops>>

\* MappedFrame::deleteCap() and MappedPageMap::deleteCap()
DeleteMapping(m, i) ==
    /\ pm[m][i].present /\ cap[pm[m][i].to] = "killed"
    /\ SetEntry(m, i, NoEntry)
    /\ walk' = Disturb(Nothing)
    /\ UNCHANGED <<cap, ops>>

NotMapped(c) == \A m \in Maps : \A i \in DOMAIN pm[m] : pm[m][i].to # c

\* The frame's capability is removed.
Revoked(c) ==
    /\ c \in Frames
    /\ cap[c] = "killed" /\ NotMapped(c)
    /\ cap' = [cap EXCEPT ![c] = "revoked"]
    /\ UNCHANGED <<pm, walk, ops>>

\* PageMap::deleteCap(): deleteEntry() on every entry of the table ...
DeleteEntry(t, i) ==
    /\ cap[t] = "killed" /\ NotMapped(t)
    /\ ~pm[t][i].deleted
    /\ SetEntry(t, i, DeletedEntry)
    /\ walk' = Disturb(Nothing)
    /\ UNCHANGED <<cap, ops>>

\* Mutant: the deletion does not wait for the places.
NoPlaces(t) == walk

\* The deletion broadcast: the walks under way keep their places in the kernel.
WaitForPlaces(t) == [r \in Roots |-> IF walk[r].pc = "idle" THEN Idle ELSE [walk[r] EXCEPT !.holds = @ \cup {t}]]

\* ... then deleteObject() and the broadcast.
DeleteObject(t) ==
    /\ cap[t] = "killed" /\ \A i \in DOMAIN pm[t] : pm[t][i].deleted
    /\ cap' = [cap EXCEPT ![t] = "deleted"]
    /\ walk' = WaitForPlaces(t)
    /\ UNCHANGED <<pm, ops>>

\* All places have taken part in the broadcast: the memory of the table is freed.
Free(t) ==
    /\ cap[t] = "deleted"
    /\ \A r \in Roots : walk[r].pc # "idle" => t \notin walk[r].holds
    /\ cap' = [cap EXCEPT ![t] = "freed"]
    /\ UNCHANGED <<pm, walk, ops>>

-----------------------------------------------------------------------------

WalkStep(r) ==
    \/ VisitEntry(r) \/ VisitReturn(r) \/ ApplyMap(r) \/ SetMapping(r) \/ ApplyUnmap(r)
    \/ ApplyProtect(r) \/ Replace(r) \/ VisitTable(r) \/ Reply(r)

Next ==
    \/ \E r \in Roots : WalkStep(r) \/ \E q \in Requests : Start(r, q)
    \/ \E c \in Revocable : Kill(c) \/ Revoked(c)
    \/ \E m \in Maps : \E i \in DOMAIN pm[m] : DeleteMapping(m, i)
    \/ \E t \in Revocable \cap Tables : DeleteObject(t) \/ Free(t) \/ \E i \in DOMAIN pm[t] : DeleteEntry(t, i)

Spec == Init /\ [][Next]_vars

-----------------------------------------------------------------------------

\* Revocation is final: when the revocation of a frame or page map has ended,
\* no page table refers to it any more, although a walk that looked it up
\* earlier may still be running; and a freed table holds no mapping.
NoStaleMapping ==
    \A m \in Maps : \A i \in DOMAIN pm[m] : pm[m][i].present =>
        cap[m] # "freed" /\ cap[pm[m][i].to] \in {"usable", "killed"}

\* "The table pointed to by the pme cannot be deleted concurrently because of
\* the delete synchronisation broadcast": no walk is in a table that was freed.
NoFreedWalk ==
    \A r \in Roots : walk[r].pc \in {"visit", "table", "apply", "set", "replace"} =>
        \A i \in DOMAIN walk[r].stack : cap[walk[r].stack[i].map] # "freed"

\* A page is writable only if the mapped frame capability is, whatever
\* mprotect and mmap on the same entry overlap.
NoWriteEscalation ==
    \A m \in Maps : \A i \in DOMAIN pm[m] :
      pm[m][i].present /\ pm[m][i].to \in Frames /\ pm[m][i].writable => FrameWritable[pm[m][i].to]

\* The answer of an undisturbed mmap tells the truth: everything from vaddr to
\* the reported address is mapped to the frame, this is the whole range in case of
\* success, and nothing else has changed (no table is installed twice in one
\* root).
MmapExact ==
    \A r \in Roots : LET w == walk[r] IN w.pc = "done" /\ w.alone /\ w.kind = "mmap" =>
      /\ \A a \in Space : Translate(pm, r, a) =
           IF a \in w.vaddr .. VAddr(w) - 1 THEN FrameStart[w.arg] + w.foff + a - w.vaddr ELSE w.before[a]
      /\ w.err = "SUCCESS" => Space \cap (w.vaddr .. w.vaddr + w.size - 1) \subseteq w.vaddr .. VAddr(w) - 1
=============================================================================
