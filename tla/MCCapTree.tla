----------------------------- MODULE MCCapTree -----------------------------
(* Trees and scenarios for model checking CapTree. *)
EXTENDS CapTree, TLC

CONSTANTS mem, obj, dev, root, a, b, c, d, t1, t2

\* A memory object and two objects allocated in it.
MCAddr == [o \in Objects |-> CASE o = mem -> {1, 2} [] o = obj -> {1} [] o = dev -> {2}]

\* Trees to start from: the root alone; the object with a reference; the
\* object and a derived capability with its own reference.
Empty == <<>>
OneRef == << [entry |-> a, val |-> Original(obj)], [entry |-> b, val |-> Reference(Original(obj))] >>
Derivation == << [entry |-> a, val |-> Original(obj)],
                 [entry |-> b, val |-> Derived(Original(obj))],
                 [entry |-> c, val |-> Reference(Derived(Original(obj)))] >>

\* The same as a map that holds entry c, with a reference to the memory at b and, if any, a
\* capability at c; and with c next to the entry of the map, as two objects that are allocated one
\* after the other have it.
MapWith(v) == << [entry |-> a, val |-> Original(obj)], [entry |-> b, val |-> Reference(Original(mem))] >> \o v
MapOfRef == MapWith(<< [entry |-> c, val |-> Reference(Original(mem))] >>)
MapOfDev == MapWith(<< [entry |-> c, val |-> Original(dev)] >>)
MapBehindRef == << [entry |-> c, val |-> Reference(Original(mem))], [entry |-> a, val |-> Original(obj)] >>

\* Two references to different objects, with an entry in between.
TwoRefs == << [entry |-> a, val |-> Reference(Original(mem))],
              [entry |-> b, val |-> Original(obj)],
              [entry |-> c, val |-> Reference(Original(obj))] >>

Everywhere == {root, a, b, c}
NoMap == [o \in Objects |-> <<>>]
MapOfC == [NoMap EXCEPT ![obj] = <<c>>]
MapOfDC == [NoMap EXCEPT ![obj] = <<d, c>>]

Scenario(tr, sl, ops1, on1, ops2, on2, n, r) ==
    [tree |-> tr, slots |-> sl, ops |-> (t1 :> ops1 @@ t2 :> ops2), on |-> (t1 :> on1 @@ t2 :> on2),
     free |-> [t \in Threads |-> {a, b, c}], max |-> n, race |-> r]

\* One thread runs operations of any kind in a row.
AllOps == {"insert", "delete", "revoke", "revokeRoot", "reset", "move"}
Sequential == Scenario(Empty, NoMap, AllOps, Everywhere, {}, {}, 3, "none")
Inserters == [Scenario(Empty, NoMap, {"insert"}, Everywhere, {"insert"}, Everywhere, 2, "none")
                 EXCEPT !.free = (t1 :> {a, b} @@ t2 :> {b, c})]
RemoveApart == Scenario(TwoRefs, NoMap, {"delete", "reset"}, {a}, {"delete", "reset"}, {c}, 1, "none")
Deleters == Scenario(Derivation, NoMap, {"delete", "revoke", "reset"}, {a, b, c},
                     {"delete", "revoke"}, {root, a, b}, 2, "remove")
DeleteSame == Scenario(Derivation, NoMap, {"delete"}, {c}, {"delete"}, {c}, 1, "remove")
MoveVersusDelete == Scenario(OneRef, NoMap, {"move"}, {b}, {"delete"}, {a}, 1, "remove")
InsertVersusDelete == Scenario(OneRef, NoMap, {"insert"}, Everywhere, {"delete"}, Everywhere, 1, "insert")

\* A map is deleted: with a capability in it, twice with an empty entry and a capability that cannot
\* be deleted, and while another thread inserts one.
DeleteMap == Scenario(MapOfRef, MapOfC, {"delete"}, {a}, {}, {}, 1, "none")
DeleteMapRefused == Scenario(MapOfDev, MapOfDC, {"delete"}, {a}, {}, {}, 2, "none")
DeleteMapInsert == Scenario(MapWith(<<>>), MapOfC, {"delete"}, {a}, {"insert"}, {b}, 1, "none")
DeleteMapNeighbour == Scenario(MapBehindRef, MapOfC, {"delete"}, {a}, {}, {}, 1, "none")

MCScenarios == {Sequential, Inserters, RemoveApart, Deleters, MoveVersusDelete, InsertVersusDelete,
                DeleteMap, DeleteMapRefused, DeleteMapInsert}
MCInsertRace == {InsertVersusDelete}
MCTwoDeleters == {DeleteSame}
MCMapNeighbour == {DeleteMapNeighbour}
=============================================================================
