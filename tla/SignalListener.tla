--------------------------- MODULE SignalListener ---------------------------
(***************************************************************************)
(* SignalListener (objects/signal-listener): receives the signals of one    *)
(* source, an ISignalSource such as an ExecutionContext, collects the bits  *)
(* that pass its mask and announces them to one sink, an IKEventSink whose  *)
(* event queue holds the listener's handle until the sink pulls it.         *)
(*                                                                         *)
(* Source and sink are CapRefs: their capability entries can be reset by    *)
(* the bind invocation and, at the same time, by the revocation of the      *)
(* object and by the deletion of the listener.  The listener's own monitor  *)
(* serialises the invocations; signals, deliveries, revocations and the     *)
(* deletion come from other places.                                         *)
(***************************************************************************)
EXTENDS Naturals, FiniteSets

CONSTANTS Sources, Sinks,
          Bits,
          Keep,         \* null_cap in a bind request
          Drop,         \* delete_cap in a bind request
          Requests,     \* the bind requests
          Revocable,    \* the sources and sinks whose capabilities may be revoked
          None

Refs == {"source", "sink"}
Objects(r) == IF r = "source" THEN Sources ELSE Sinks

VARIABLES ref,          \* the two CapRefs: state of the entry, orig, who holds its locks
          mask,         \* _mask
          signal,       \* _signal, each bit with the source it came from
          attached,     \* _eventAttached
          observers,    \* the sources with the listener in their _sinkList
          raising,      \* the signal a source is passing on while it holds the list's mutex
          queued,       \* the sinks whose event queue begins with the handle
          looped,       \* whether the handle in a queue is its own successor
          pulled,       \* the sinks that pulled the handle and did not yet call deliverKEvent()
          revoked,      \* the objects whose capabilities were revoked
          pc, req,      \* progress of the monitor's current invocation, and its message
          deleting,     \* progress of deleteCap()
          maskFor,      \* history: the source for which the mask was requested
          crossed       \* history: steps of the listener met in one of the ways that Crosses names

handle == <<queued, looped, attached, crossed>>
events == <<signal, handle, pulled>>
request == <<pc, req>>
vars == <<ref, mask, events, observers, raising, revoked, request, deleting, maskFor>>

EmptyRef == [state |-> "empty", obj |-> None, by |-> None]
NoRequest == [source |-> Keep, sink |-> Keep, mask |-> {}, reset |-> {}]

Init ==
    /\ ref = [r \in Refs |-> EmptyRef]
    /\ mask = {}
    /\ signal = {}
    /\ attached = FALSE
    /\ observers = {}
    /\ raising = [s \in Sources |-> None]
    /\ queued = {} /\ looped = FALSE
    /\ pulled = {}
    /\ revoked = {}
    /\ pc = "idle" /\ req = NoRequest
    /\ deleting = "no"
    /\ maskFor = None
    /\ crossed = FALSE

-----------------------------------------------------------------------------
(* Sections of code that hold _mutex *)

\* The listener's sink as TypedCap(_sink) sees it: orig is cleared after unbind().
Sink == ref["sink"].obj

\* Two ways in which attachKEvent() comes at a bad time: to the sink that was just unbound, or while
\* the handle that a sink has pulled is still on its way to deliverKEvent().
Crosses == ref["sink"].state = "unbound" \/ pulled # {}

\* push(), and remove() or pull() of a list whose other items are left out.
Attach(k) ==
    /\ queued' = queued \cup {k} /\ looped' = (k \in queued)
    /\ attached' = TRUE
    /\ crossed' = (crossed \/ Crosses)
Unlinked(k) == IF looped THEN queued ELSE queued \ {k}
Detach(k) == queued' = Unlinked(k) /\ attached' = FALSE /\ UNCHANGED <<looped, crossed>>

\* Mutant: the handle is attached only by signalChanged().
AnnounceNever(s) ==
    IF Sink # None /\ s = {} /\ attached THEN Detach(Sink) ELSE UNCHANGED handle

\* The end of resetWithMask(): attach or detach as the bits s require.
Announce(s) ==
    IF Sink # None /\ s # {} /\ ~attached THEN Attach(Sink)
    ELSE IF Sink # None /\ s = {} /\ attached THEN Detach(Sink)
    ELSE UNCHANGED handle

\* changeSignal(): the source takes the mutex of its list ...
Raise(s, b) ==
    /\ s \in observers /\ raising[s] = None
    /\ raising' = [raising EXCEPT ![s] = b]
    /\ UNCHANGED <<ref, mask, events, observers, revoked, request, deleting, maskFor>>

\* ... and calls signalChanged() of the listener.
SignalChanged(s) ==
    LET new == IF raising[s] \in mask THEN {<<s, raising[s]>>} ELSE {}
    IN  /\ raising[s] # None
        /\ raising' = [raising EXCEPT ![s] = None]
        /\ signal' = signal \cup new
        /\ IF signal' # {} /\ Sink # None /\ ~attached THEN Attach(Sink) ELSE UNCHANGED handle
        /\ UNCHANGED <<ref, mask, observers, pulled, revoked, request, deleting, maskFor>>

\* The sink takes the handle out of its event queue ...
PullEvent(k) ==
    /\ k \in queued
    /\ k \notin pulled
    /\ queued' = Unlinked(k)
    /\ pulled' = pulled \cup {k}
    /\ UNCHANGED <<ref, mask, signal, looped, attached, crossed, observers, raising, revoked, request, deleting, maskFor>>

\* ... and calls deliverKEvent() of the listener.
DeliverKEvent(k) ==
    /\ k \in pulled
    /\ pulled' = pulled \ {k}
    /\ signal' = {}
    /\ attached' = FALSE
    /\ UNCHANGED <<ref, mask, observers, raising, queued, looped, crossed, revoked, request, deleting, maskFor>>

-----------------------------------------------------------------------------
(* CapRef: reset() by the invocation or the deletion, deleteCap() by a revocation *)

\* kill() and the locks of the entry; reset() also unlinks it.
KillRef(r, by) ==
    /\ ref[r].state = "usable"
    /\ \/ by = "bind" /\ pc = r
       \/ by = "delete" /\ deleting = r
       \/ by = "revoke" /\ ref[r].obj \in revoked
    /\ ref' = [ref EXCEPT ![r].state = "dying", ![r].by = by]
    /\ UNCHANGED <<mask, events, observers, raising, revoked, request, deleting, maskFor>>

\* unbind(): the source's list has a mutex, the sink's handle needs _mutex.
Unbind(r) ==
    /\ ref[r].state = "dying"
    /\ ref' = [ref EXCEPT ![r].state = "unbound"]
    /\ IF r = "source"
       THEN /\ raising[ref[r].obj] = None
            /\ observers' = observers \ {ref[r].obj}
            /\ UNCHANGED handle
       ELSE /\ IF attached THEN Detach(ref[r].obj) ELSE UNCHANGED handle
            /\ UNCHANGED observers
    /\ UNCHANGED <<mask, signal, pulled, raising, revoked, request, deleting, maskFor>>

\* orig is cleared; deleteCap() returns and the revocation unlinks the entry.
ClearRef(r) ==
    /\ ref[r].state = "unbound"
    /\ ref' = [ref EXCEPT ![r].state = "unlinked", ![r].obj = None]
    /\ UNCHANGED <<mask, events, observers, raising, revoked, request, deleting, maskFor>>

\* CapEntry::reset(): the entry can be acquired again.
FreeRef(r) ==
    /\ ref[r].state = "unlinked"
    /\ ref' = [ref EXCEPT ![r] = EmptyRef]
    /\ UNCHANGED <<mask, events, observers, raising, revoked, request, deleting, maskFor>>

\* A revocation of a source's or sink's capability starts.
Revoke(o) ==
    /\ o \in Revocable \ revoked
    /\ revoked' = revoked \cup {o}
    /\ UNCHANGED <<ref, mask, events, observers, raising, request, deleting, maskFor>>

-----------------------------------------------------------------------------
(* Invocations *)

\* Mutant: the old mask stays in effect while the source changes.
KeepMask(q) == mask

\* invokeBind(): no signal passes until the new mask is set.
MaskAtStart(q) == IF q.source = Keep THEN mask ELSE {}

\* The next step for the reference r, and the one after it.
Change(r) == IF r = "source" THEN "takeSource" ELSE "takeSink"
Setting(r) == IF r = "source" THEN "setSource" ELSE "setSink"
After(r) == IF r = "source" THEN "mask" ELSE "reset"
Begin(q, r) == IF q[r] = Keep THEN After(r) ELSE IF q[r] = Drop THEN r ELSE Change(r)

InvokeBind(q) ==
    /\ pc = "idle" /\ deleting = "no"
    /\ req' = q
    /\ mask' = MaskAtStart(q)
    /\ pc' = Begin(q, "source")
    /\ UNCHANGED <<ref, events, observers, raising, revoked, deleting, maskFor>>

\* invokeReset() is the last part of invokeBind().
InvokeReset(bits) ==
    /\ pc = "idle" /\ deleting = "no"
    /\ pc' = "reset"
    /\ req' = [NoRequest EXCEPT !.reset = bits]
    /\ UNCHANGED <<ref, mask, events, observers, raising, revoked, deleting, maskFor>>

\* setSource(), setSink(): the new capability is looked at before the old reference is reset.
TakeCap(r) ==
    /\ pc = Change(r)
    /\ IF req[r] \in revoked
       THEN pc' = "idle" /\ req' = NoRequest
       ELSE pc' = r /\ UNCHANGED req
    /\ UNCHANGED <<ref, mask, events, observers, raising, revoked, deleting, maskFor>>

\* CapRef::reset() of who returns: the entry is free, or another one has unlinked it.
ResetReturns(r, who) ==
    \/ ref[r].state = "empty"
    \/ ref[r].state = "unlinked" /\ ref[r].by = "revoke"
    \/ ref[r].state # "usable" /\ ref[r].by \in {"bind", "delete"} \ {who}

\* A request without a new object is done with the reference.
RefReset(r) ==
    /\ pc = r
    /\ ResetReturns(r, "bind")
    /\ pc' = IF req[r] = Drop THEN After(r) ELSE Setting(r)
    /\ UNCHANGED <<ref, mask, events, observers, raising, revoked, req, deleting, maskFor>>

\* CapRef::set(): acquire the entry and insert it below the object's capability;
\* orig and bind() take effect while both are locked.
SetRef(r) ==
    LET o == req[r] IN
    /\ pc = Setting(r)
    /\ r = "source" => raising[o] = None
    /\ IF ref[r].state # "empty" \/ o \in revoked
       THEN pc' = "idle" /\ req' = NoRequest /\ UNCHANGED <<ref, observers, crossed>>     \* LOST_RACE, INVALID_CAPABILITY
       ELSE /\ pc' = After(r) /\ UNCHANGED req
            /\ ref' = [ref EXCEPT ![r] = [state |-> "usable", obj |-> o, by |-> None]]
            /\ observers' = IF r = "source" THEN observers \cup {o} ELSE observers
            /\ crossed' = (crossed \/ deleting # "no")
    /\ UNCHANGED <<mask, signal, attached, queued, looped, pulled, raising, revoked, deleting, maskFor>>

SetMask ==
    /\ pc = "mask"
    /\ mask' = req.mask
    /\ maskFor' = IF req.source = Keep THEN maskFor ELSE req.source
    /\ pc' = Begin(req, "sink")
    /\ req' = [req EXCEPT !.source = Keep, !.mask = {}]         \* not used any more
    /\ UNCHANGED <<ref, events, observers, raising, revoked, deleting>>

\* resetWithMask(): the bits of the argument are the ones that stay.
ResetWithMask ==
    /\ pc = "reset"
    /\ signal' = {e \in signal : e[2] \in req.reset}
    /\ Announce(signal')
    /\ pc' = "idle" /\ req' = NoRequest
    /\ UNCHANGED <<ref, mask, observers, raising, pulled, revoked, deleting, maskFor>>

-----------------------------------------------------------------------------
(* deleteCap() of the listener *)

\* The original capability was killed: no new invocation comes, but one may be under way.
DeleteCap ==
    /\ deleting = "no"
    /\ deleting' = "sink"
    /\ UNCHANGED <<ref, mask, events, observers, raising, revoked, request, maskFor>>

\* _sink.reset(), then _source.reset(), then deleteObject().
DeleteReset(r) ==
    /\ deleting = r
    /\ ResetReturns(r, "delete")
    /\ deleting' = IF r = "sink" THEN "source" ELSE "done"
    /\ UNCHANGED <<ref, mask, events, observers, raising, revoked, request, maskFor>>

-----------------------------------------------------------------------------

Next ==
    \/ \E s \in Sources : SignalChanged(s) \/ \E b \in Bits : Raise(s, b)
    \/ \E k \in Sinks : PullEvent(k) \/ DeliverKEvent(k)
    \/ \E r \in Refs : \/ \E by \in {"bind", "delete", "revoke"} : KillRef(r, by)
                       \/ Unbind(r) \/ ClearRef(r) \/ FreeRef(r)
                       \/ TakeCap(r) \/ RefReset(r) \/ SetRef(r) \/ DeleteReset(r)
    \/ \E o \in Sources \cup Sinks : Revoke(o)
    \/ \E q \in Requests : InvokeBind(q)
    \/ \E bits \in SUBSET Bits : InvokeReset(bits)
    \/ SetMask \/ ResetWithMask \/ DeleteCap

Spec == Init /\ [][Next]_vars

-----------------------------------------------------------------------------

\* No lost event.  When no invocation is under way, a listener with a sink that has collected signals
\* takes them for announced.  And it does so rightly, unless one of these happened before: a signal or
\* a reset came between unbind() and the end of the reset of _sink, or between the pull of the handle
\* and deliverKEvent() after the listener had detached it; or a bind set a reference while the listener
\* was deleted.  Rightly means: the handle is once in the event queue of the bound sink exactly when
\* there is a signal to deliver, or else on its way to deliverKEvent(), whatever signals, deliveries,
\* bindings and revocations came in between; and a deleted listener is in no list any more.
SignalsAnnounced ==
    /\ signal # {} /\ pc = "idle" /\ ref["sink"].state = "usable" => attached
    /\ ~crossed =>
          /\ queued # {} => attached /\ queued = {Sink} /\ ~looped /\ pulled = {} /\ signal # {}
          /\ attached => queued # {} \/ Sink \in pulled
          /\ deleting = "done" /\ pc = "idle" => observers = {} /\ queued = {}

\* A bind never combines the signals of one source with the mask that was
\* requested for another one.
SourceMaskPaired ==
    [][\A e \in signal' \ signal : maskFor \in Sources => maskFor = e[1]]_vars
=============================================================================
