----------------------------- MODULE Scheduling -----------------------------
(***************************************************************************)
(* ExecutionContext (objects/execution-context) and SchedulingContext       *)
(* (objects/scheduling-context), composed with the hardware threads that    *)
(* run them.  The state of an execution context is a word of flags updated  *)
(* with atomic and/or operations: invocations, signals, events and          *)
(* revocations change it from any place while the scheduler of the home     *)
(* place resumes the context.                                               *)
(*                                                                         *)
(* A place in kernel mode executes a program: a sequence of instructions,   *)
(* each with one access to shared state.  Handlers are programs; a tasklet  *)
(* or a synchronous task is a program that is sent to another place.  The   *)
(* task queues of the places are used as module Place shows them to work:   *)
(* whatever is sent to a place that has released its queues interrupts it.  *)
(***************************************************************************)
EXTENDS Naturals, Sequences, FiniteSets

CONSTANTS Places, ECs, Null,
          Home,        \* the place whose SchedulingContext the execution contexts are bound to
          Scenarios    \* [ecs, callers, ops, max]: who invokes which operations, and how many in all

\* Invocations of an execution context are serialized by its monitor; signals,
\* events and revocations come from outside.
Monitored == {"resume", "suspend", "read", "write", "setFSGS", "configure"}
Operations == Monitored \cup {"signal", "attachKEvent", "revokeAS", "revokeSched", "delete"}

ASSUME SchedulingAssumption ==
    /\ Home \in Places /\ Null \notin Places \cup ECs
    /\ \A s \in Scenarios : s.ecs \subseteq ECs /\ s.callers \subseteq Places /\ s.ops \subseteq Operations

INSTANCE LinkedList WITH Handles <- ECs

VARIABLES scenario,
          flags, currentPlace, eventQueue,              \* ExecutionContext; eventQueue counts the pending KEvents
          as, sched,                                    \* the objects that _as and _sched refer to
          refs,                                         \* which of _as and _sched are usable capability entries
          busy,                                         \* an invocation holds the monitor of the execution context
          readyQueue, current_handle,                   \* SchedulingContext of each place
          current_ec,                                   \* the execution context whose state is loaded
          mode, sel, prog, tasks, syncs, done, irq,     \* the hardware threads
          calls,                                        \* operations invoked so far
          life,                                         \* "alive", "dying" during deleteCap(), then "deleted"
          stale,                                        \* history: the places that returned to user mode with older bases
          panic                                         \* an ASSERT failed

ecVars == <<flags, currentPlace, eventQueue, as, sched, refs, busy>>
scVars == <<readyQueue, current_handle>>
hwVars == <<current_ec, mode, sel, prog, tasks, syncs, done, irq>>
vars == <<scenario, ecVars, scVars, hwVars, calls, life, stale, panic>>

BLOCK_MASK == {"IS_WAITING", "IS_TRAPPED", "NO_AS", "NO_SCHED", "REGISTER_ACCESS"}
Flags == BLOCK_MASK \cup {"IN_WAIT", "IS_NOTIFIED", "NOT_LOADED", "DONT_PREEMPT", "NOT_RUNNING"}
IsBlocked(f) == f \cap BLOCK_MASK # {}
IsReady(e) == ~IsBlocked(flags[e])

\* The factory has bound the address space and the scheduler; the creator
\* starts the execution contexts with a resume.
Init ==
    /\ scenario \in Scenarios
    /\ flags = [e \in ECs |-> {"IS_TRAPPED", "DONT_PREEMPT", "NOT_LOADED", "NOT_RUNNING"}]
    /\ currentPlace = [e \in ECs |-> Null]
    /\ eventQueue = [e \in ECs |-> 0]
    /\ as = [e \in ECs |-> TRUE]
    /\ sched = [e \in ECs |-> Home]
    /\ refs = [e \in ECs |-> {"as", "sched"}]
    /\ busy = [e \in ECs |-> FALSE]
    /\ readyQueue = [p \in Places |-> EmptyList]
    /\ current_handle = [p \in Places |-> Null]
    /\ current_ec = [p \in Places |-> Null]
    /\ mode = [p \in Places |-> "sleep"]
    /\ sel = [p \in Places |-> Null]
    /\ prog = [p \in Places |-> <<>>]
    /\ tasks = [p \in Places |-> {}]
    /\ syncs = [p \in Places |-> {}]
    /\ done = [p \in Places |-> FALSE]
    /\ irq = [p \in Places |-> FALSE]
    /\ calls = 0
    /\ life = [e \in ECs |-> "alive"]
    /\ stale = {}
    /\ panic = FALSE

-----------------------------------------------------------------------------
(* Instructions: what to do, to which execution context, with which flags or *)
(* program, at which place.                                                 *)

I(do, e, f, at, then) == <<[do |-> do, ec |-> e, f |-> f, at |-> at, then |-> then]>>
Do(do, e) == I(do, e, {}, Null, <<>>)

SetFlags(e, f) == IF f = {} THEN <<>> ELSE I("set", e, f, Null, <<>>)
ClearFlags(e, f) == IF f = {} THEN <<>> ELSE I("unset", e, f, Null, <<>>)
SetFlagsSuspend(e, f) == I("suspend", e, f, Null, <<>>)
ClearFlagsResume(e, f) == I("clear", e, f, Null, <<>>)
SynchronousAt(e, fun) == I("sync", e, {}, Null, fun)
RunAtHome(e, response) == I("atHome", e, {}, Null, response)
UnsetAS(e) == Do("unbindAS", e)
UnsetSched(e) == Do("unbindSched", e)
SetAS(e) == Do("setAS", e) \o ClearFlagsResume(e, {"NO_AS"})
RequestDone(e) == Do("reply", e)

\* Mutant: the semaphore is set after the waiting flag was cleared.
SignalSwapped(e) == {ClearFlagsResume(e, {"IS_WAITING"}) \o SetFlags(e, {"IS_NOTIFIED"})}

Signal(e) == {SetFlags(e, {"IS_NOTIFIED"}) \o ClearFlagsResume(e, {"IS_WAITING"})}

AttachKEvent(e) == {Do("pushEvent", e) \o ClearFlagsResume(e, {"IS_WAITING"})}

InvokeResume(e) == {ClearFlagsResume(e, {"IS_TRAPPED"}) \o RequestDone(e)}

\* Mutant: the reply does not wait for the preempted place.
InvokeSuspendEarly(e) == {SetFlags(e, {"IS_TRAPPED", "DONT_PREEMPT"}) \o RunAtHome(e, <<>>) \o RequestDone(e)}

InvokeSuspend(e) == {SetFlags(e, {"IS_TRAPPED", "DONT_PREEMPT"}) \o RunAtHome(e, RequestDone(e))}

\* Mutant: the registers are read while the place is being preempted.
InvokeReadEarly(e) ==
    {SetFlags(e, {"REGISTER_ACCESS", "DONT_PREEMPT"}) \o Do("registers", e) \o
     RunAtHome(e, ClearFlagsResume(e, {"REGISTER_ACCESS"}) \o RequestDone(e))}

InvokeReadRegisters(e) ==
    {SetFlags(e, {"REGISTER_ACCESS", "DONT_PREEMPT"} \cup suspend) \o
     RunAtHome(e, Do("registers", e) \o ClearFlagsResume(e, {"REGISTER_ACCESS"}) \o RequestDone(e)) :
         suspend \in {{}, {"IS_TRAPPED"}}}

WriteRegisters(e, resume, failed) ==
    SetFlags(e, {"REGISTER_ACCESS"}) \o ClearFlags(e, resume) \o
    RunAtHome(e, Do("registers", e) \o SetFlags(e, failed) \o
                 ClearFlagsResume(e, {"REGISTER_ACCESS"}) \o RequestDone(e))

InvokeWriteRegisters(e) ==
    {WriteRegisters(e, resume, failed) : resume \in {{}, {"IS_TRAPPED"}}, failed \in {{}, {"IS_TRAPPED"}}}

\* Mutant: the execution context is not rescheduled.
InvokeSetFSGSAlone(e) == {RequestDone(e), Do("setBase", e) \o RequestDone(e)}

\* A base that is not canonical is refused.
InvokeSetFSGS(e) ==
    {RequestDone(e),
     Do("setBase", e) \o SetFlagsSuspend(e, {"IS_TRAPPED"}) \o ClearFlagsResume(e, {"IS_TRAPPED"}) \o RequestDone(e)}

\* The address space is removed, or replaced.
InvokeConfigure(e) == {UnsetAS(e) \o RequestDone(e), UnsetAS(e) \o SetAS(e) \o RequestDone(e)}

DeleteCap(e) ==
    {SetFlags(e, {"NO_AS", "NO_SCHED"}) \o
     SynchronousAt(e, Do("saveState", e) \o UnsetSched(e)) \o
     UnsetAS(e) \o UnsetSched(e) \o Do("deleteObject", e)}

Handlers(op, e) ==
    CASE op = "signal" -> Signal(e)
      [] op = "attachKEvent" -> AttachKEvent(e)
      [] op = "resume" -> InvokeResume(e)
      [] op = "suspend" -> InvokeSuspend(e)
      [] op = "read" -> InvokeReadRegisters(e)
      [] op = "write" -> InvokeWriteRegisters(e)
      [] op = "setFSGS" -> InvokeSetFSGS(e)
      [] op = "configure" -> InvokeConfigure(e)
      [] op = "revokeAS" -> {UnsetAS(e)}
      [] op = "revokeSched" -> {UnsetSched(e)}
      [] op = "delete" -> DeleteCap(e)

-----------------------------------------------------------------------------
(* Places in kernel mode *)

\* p has released its task queues: what is sent to it now interrupts it.
Released(p) == mode[p] # "kernel"
Interrupt(S) == irq' = [p \in Places |-> irq[p] \/ (p \in S /\ Released(p))]

\* The next instruction of p, and how p continues after it: with the program q
\* before the rest of its own.
Fetch(p, do) == ~panic /\ mode[p] = "kernel" /\ prog[p] # <<>> /\ Head(prog[p]).do = do
Cur(p) == Head(prog[p])
Cont(p, q) == prog' = [prog EXCEPT ![p] = q \o Tail(@)]
Then(c, do) == <<[c EXCEPT !.do = do]>>
When(b, q) == IF b THEN q ELSE <<>>

butFlags == <<currentPlace, eventQueue, as, sched, refs, busy>>
local == <<current_ec, mode, sel>>
queues == <<tasks, syncs, done, irq>>
ghost == <<scenario, calls, life, stale, panic>>

\* setFlags(), clearFlags()
UpdateFlags(p) ==
    \/ /\ Fetch(p, "set")
       /\ flags' = [flags EXCEPT ![Cur(p).ec] = @ \cup Cur(p).f]
       /\ Cont(p, <<>>)
       /\ UNCHANGED <<butFlags, scVars, local, queues, ghost>>
    \/ /\ Fetch(p, "unset")
       /\ flags' = [flags EXCEPT ![Cur(p).ec] = @ \ Cur(p).f]
       /\ Cont(p, <<>>)
       /\ UNCHANGED <<butFlags, scVars, local, queues, ghost>>

\* setFlagsSuspend(): the first to block a running execution context preempts it.
Suspend(p) ==
    /\ Fetch(p, "suspend")
    /\ flags' = [flags EXCEPT ![Cur(p).ec] = @ \cup Cur(p).f \cup {"DONT_PREEMPT"}]
    /\ Cont(p, When("DONT_PREEMPT" \notin flags[Cur(p).ec], Then(Cur(p), "suspendCheck")))
    /\ UNCHANGED <<butFlags, scVars, local, queues, ghost>>

SuspendCheck(p) ==
    /\ Fetch(p, "suspendCheck")
    /\ Cont(p, When(~IsReady(Cur(p).ec), SynchronousAt(Cur(p).ec, <<>>)))
    /\ UNCHANGED <<ecVars, scVars, local, queues, ghost>>

\* synchronousAt(currentPlace): run the function here, or there and wait for it.
Synchronous(p) ==
    LET d == currentPlace[Cur(p).ec] IN
    /\ Fetch(p, "sync")
    /\ IF d \in {Null, p}
       THEN Cont(p, When(d = p, Cur(p).then)) /\ UNCHANGED <<syncs, irq>>
       ELSE /\ syncs' = [syncs EXCEPT ![d] = @ \cup {Cur(p).then \o I("done", Cur(p).ec, {}, p, <<>>)}]
            /\ Interrupt({d})
            /\ Cont(p, Then(Cur(p), "waitSync"))
    /\ UNCHANGED <<ecVars, scVars, local, tasks, done, ghost>>

SynchronousDone(p) ==
    /\ Fetch(p, "done")
    /\ done' = [done EXCEPT ![Cur(p).at] = TRUE]
    /\ Cont(p, <<>>)
    /\ UNCHANGED <<ecVars, scVars, local, tasks, syncs, irq, ghost>>

WaitSync(p) ==
    /\ Fetch(p, "waitSync")
    /\ done[p]
    /\ done' = [done EXCEPT ![p] = FALSE]
    /\ Cont(p, <<>>)
    /\ UNCHANGED <<ecVars, scVars, local, tasks, syncs, irq, ghost>>

\* clearFlagsResume(): whoever clears the last blocking flag informs the scheduler.
Clear(p) ==
    /\ Fetch(p, "clear")
    /\ flags' = [flags EXCEPT ![Cur(p).ec] = @ \ Cur(p).f]
    /\ Cont(p, When(IsBlocked(flags[Cur(p).ec]), Then(Cur(p), "clearCheck")))
    /\ UNCHANGED <<butFlags, scVars, local, queues, ghost>>

ClearCheck(p) ==
    /\ Fetch(p, "clearCheck")
    /\ Cont(p, When(IsReady(Cur(p).ec), Then(Cur(p), "getSched")))
    /\ UNCHANGED <<ecVars, scVars, local, queues, ghost>>

GetSched(p) ==
    LET s == sched[Cur(p).ec] IN
    /\ Fetch(p, "getSched")
    /\ Cont(p, When(s # Null, I("ready", Cur(p).ec, {}, s, <<>>)))
    /\ UNCHANGED <<ecVars, scVars, local, queues, ghost>>

\* Mutant: nothing to do if it is the selected execution context.
ReadyCurrent(p) ==
    LET c == Cur(p)
        current == current_handle[c.at] IN
    /\ Fetch(p, "ready")
    /\ Cont(p, Then(c, "readyRemove") \o Then(c, "readyPush") \o When(current = Null, Then(c, "preempt")))
    /\ UNCHANGED <<ecVars, scVars, local, queues, ghost>>

\* SchedulingContext::ready(): enqueue the handle, and preempt the place if it
\* had no other execution context selected.
Ready(p) ==
    LET c == Cur(p)
        current == current_handle[c.at] IN
    /\ Fetch(p, "ready")
    /\ Cont(p, Then(c, "readyRemove") \o Then(c, "readyPush") \o When(current \in {Null, c.ec}, Then(c, "preempt")))
    /\ UNCHANGED <<ecVars, scVars, local, queues, ghost>>

\* Also the first step of SchedulingContext::unbind().
ReadyRemove(p) ==
    /\ Fetch(p, "readyRemove")
    /\ readyQueue' = [readyQueue EXCEPT ![Cur(p).at] = ListRemove(@, Cur(p).ec)]
    /\ Cont(p, <<>>)
    /\ UNCHANGED <<ecVars, current_handle, local, queues, ghost>>

ReadyPush(p) ==
    /\ Fetch(p, "readyPush")
    /\ readyQueue' = [readyQueue EXCEPT ![Cur(p).at] = ListPush(@, Cur(p).ec)]
    /\ Cont(p, <<>>)
    /\ UNCHANGED <<ecVars, current_handle, local, queues, ghost>>

Preempt(p) ==
    /\ Fetch(p, "preempt")
    /\ Interrupt({Cur(p).at})
    /\ Cont(p, <<>>)
    /\ UNCHANGED <<ecVars, scVars, local, tasks, syncs, done, ghost>>

\* CapRef::reset() of _as and _sched: whoever kills the entry unbinds the
\* object.  unbind(IScheduler) also removes the handle from the scheduler.
UnbindAS(p) ==
    LET e == Cur(p).ec IN
    /\ Fetch(p, "unbindAS")
    /\ Cont(p, When("as" \in refs[e], SetFlagsSuspend(e, {"NO_AS"}) \o Do("resetAS", e)))
    /\ refs' = [refs EXCEPT ![e] = @ \ {"as"}]
    /\ UNCHANGED <<flags, currentPlace, eventQueue, as, sched, busy, scVars, local, queues, ghost>>

UnbindSched(p) ==
    LET e == Cur(p).ec
        s == sched[e] IN
    /\ Fetch(p, "unbindSched")
    /\ Cont(p, When("sched" \in refs[e],
                    SetFlagsSuspend(e, {"NO_SCHED"}) \o I("readyRemove", e, {}, s, <<>>) \o
                    I("deselect", e, {}, s, <<>>) \o Do("resetSched", e)))
    /\ refs' = [refs EXCEPT ![e] = @ \ {"sched"}]
    /\ UNCHANGED <<flags, currentPlace, eventQueue, as, sched, busy, scVars, local, queues, ghost>>

Deselect(p) ==
    /\ Fetch(p, "deselect")
    /\ current_handle' = [current_handle EXCEPT ![Cur(p).at] = Null]
    /\ Cont(p, <<>>)
    /\ UNCHANGED <<ecVars, readyQueue, local, queues, ghost>>

ResetRef(p) ==
    \/ /\ Fetch(p, "resetAS")
       /\ as' = [as EXCEPT ![Cur(p).ec] = FALSE]
       /\ Cont(p, <<>>)
       /\ UNCHANGED <<flags, currentPlace, eventQueue, sched, refs, busy, scVars, local, queues, ghost>>
    \/ /\ Fetch(p, "resetSched")
       /\ sched' = [sched EXCEPT ![Cur(p).ec] = Null]
       /\ Cont(p, <<>>)
       /\ UNCHANGED <<flags, currentPlace, eventQueue, as, refs, busy, scVars, local, queues, ghost>>

\* CapRef::set() of _as.
BindAS(p) ==
    /\ Fetch(p, "setAS")
    /\ as' = [as EXCEPT ![Cur(p).ec] = TRUE]
    /\ refs' = [refs EXCEPT ![Cur(p).ec] = @ \cup {"as"}]
    /\ Cont(p, <<>>)
    /\ UNCHANGED <<flags, currentPlace, eventQueue, sched, busy, scVars, local, queues, ghost>>

\* invokeSuspend(), invokeReadRegisters() and invokeWriteRegisters() send a
\* tasklet to the place where the state is loaded, to preempt it there; the
\* tasklet sends the response back to the place that holds the monitor.
AtHome(p) ==
    LET d == currentPlace[Cur(p).ec] IN
    /\ Fetch(p, "atHome")
    /\ IF d = Null
       THEN Cont(p, Cur(p).then) /\ UNCHANGED <<tasks, irq>>
       ELSE /\ tasks' = [tasks EXCEPT ![d] = @ \cup {I("respond", Cur(p).ec, {}, p, Cur(p).then)}]
            /\ Interrupt({d})
            /\ Cont(p, <<>>)
    /\ UNCHANGED <<ecVars, scVars, local, syncs, done, ghost>>

Respond(p) ==
    LET c == Cur(p).at IN
    /\ Fetch(p, "respond")
    /\ IF c = p
       THEN Cont(p, Cur(p).then) /\ UNCHANGED <<tasks, irq>>
       ELSE /\ tasks' = [tasks EXCEPT ![c] = @ \cup {Cur(p).then}]
            /\ Interrupt({c})
            /\ Cont(p, <<>>)
    /\ UNCHANGED <<ecVars, scVars, local, syncs, done, ghost>>

\* The places that are in user mode with e, or on the way there with its registers.
Using(e) == {h \in Places : mode[h] \in {"return", "event", "loadAS", "user"} /\ current_ec[h] = e}

\* setBaseRegisters() of invokeSetFSGS(): the bases are written while the context may run.  They are
\* loaded on the way to user mode and not saved on the way back.
SetBase(p) ==
    /\ Fetch(p, "setBase")
    /\ stale' = stale \cup Using(Cur(p).ec)
    /\ Cont(p, <<>>)
    /\ UNCHANGED <<ecVars, scVars, local, queues, scenario, calls, life, panic>>

\* The body of readThreadRegisters() and writeThreadRegisters(): see RegistersExclusive.
Registers(p) ==
    /\ Fetch(p, "registers")
    /\ Cont(p, <<>>)
    /\ UNCHANGED <<ecVars, scVars, local, queues, ghost>>

Reply(p) ==
    /\ Fetch(p, "reply")
    /\ busy' = [busy EXCEPT ![Cur(p).ec] = FALSE]
    /\ Cont(p, <<>>)
    /\ UNCHANGED <<flags, currentPlace, eventQueue, as, sched, refs, scVars, local, queues, ghost>>

PushEvent(p) ==
    /\ Fetch(p, "pushEvent")
    /\ eventQueue' = [eventQueue EXCEPT ![Cur(p).ec] = @ + 1]
    /\ Cont(p, <<>>)
    /\ UNCHANGED <<flags, currentPlace, as, sched, refs, busy, scVars, local, queues, ghost>>

\* SYSCALL_WAIT after it set IN_WAIT and IS_WAITING: do not wait if there is something already.
CheckEvents(p) ==
    /\ Fetch(p, "checkEvents")
    /\ Cont(p, When(eventQueue[Cur(p).ec] > 0 \/ Cur(p).f # {}, ClearFlags(Cur(p).ec, {"IS_WAITING"})))
    /\ UNCHANGED <<ecVars, scVars, local, queues, ghost>>

Wait(p) ==
    LET e == Cur(p).ec IN
    /\ Fetch(p, "wait")
    /\ flags' = [flags EXCEPT ![e] = @ \cup {"IN_WAIT", "IS_WAITING"}]
    /\ Cont(p, I("checkEvents", e, flags[e] \cap {"IS_NOTIFIED"}, Null, <<>>))
    /\ UNCHANGED <<butFlags, scVars, local, queues, ghost>>

\* saveState() and its assertions
SaveState(p, e) ==
    /\ panic' = (panic \/ "NOT_LOADED" \in flags[e] \/ currentPlace[e] # p \/ current_ec[p] # e)
    /\ flags' = [flags EXCEPT ![e] = @ \cup {"NOT_LOADED"}]
    /\ currentPlace' = [currentPlace EXCEPT ![e] = Null]
    /\ current_ec' = [current_ec EXCEPT ![p] = Null]

Unload(p) ==
    /\ Fetch(p, "saveState")
    /\ SaveState(p, Cur(p).ec)
    /\ Cont(p, <<>>)
    /\ UNCHANGED <<eventQueue, as, sched, refs, busy, scVars, mode, sel, queues, scenario, calls, life, stale>>

DeleteObject(p) ==
    /\ Fetch(p, "deleteObject")
    /\ life' = [life EXCEPT ![Cur(p).ec] = "deleted"]
    /\ Cont(p, <<>>)
    /\ UNCHANGED <<ecVars, scVars, local, queues, scenario, calls, stale, panic>>

\* processTasks(): synchronous tasks first, also while waiting for one, then
\* the tasklets, until both queues are empty.
Idle(p) == ~panic /\ mode[p] = "kernel" /\ prog[p] = <<>>

RunSync(p) ==
    /\ Idle(p) \/ (Fetch(p, "waitSync") /\ ~done[p])
    /\ \E q \in syncs[p] :
        /\ syncs' = [syncs EXCEPT ![p] = @ \ {q}]
        /\ prog' = [prog EXCEPT ![p] = q \o @]
    /\ UNCHANGED <<ecVars, scVars, local, tasks, done, irq, ghost>>

RunTask(p) ==
    /\ Idle(p)
    /\ syncs[p] = {}
    /\ \E q \in tasks[p] :
        /\ tasks' = [tasks EXCEPT ![p] = @ \ {q}]
        /\ prog' = [prog EXCEPT ![p] = q]
    /\ UNCHANGED <<ecVars, scVars, local, syncs, done, irq, ghost>>

Release(p) ==
    /\ Idle(p)
    /\ syncs[p] = {} /\ tasks[p] = {}
    /\ mode' = [mode EXCEPT ![p] = "try"]
    /\ UNCHANGED <<ecVars, scVars, current_ec, sel, prog, queues, ghost>>

\* A handler on p starts an operation on e.
Invoke(p, op, e) ==
    /\ Idle(p)
    /\ calls < scenario.max
    /\ life[e] = "alive"
    /\ op \in Monitored => ~busy[e]
    /\ calls' = calls + 1
    /\ busy' = [busy EXCEPT ![e] = @ \/ op \in Monitored]
    /\ life' = [life EXCEPT ![e] = IF op = "delete" THEN "dying" ELSE @]
    /\ \E q \in Handlers(op, e) : prog' = [prog EXCEPT ![p] = q]
    /\ UNCHANGED <<flags, currentPlace, eventQueue, as, sched, refs, scVars, local, queues, scenario, stale, panic>>

-----------------------------------------------------------------------------
(* SchedulingContext::tryRunUser() and ExecutionContext::resume() *)

At(p, m) == ~panic /\ mode[p] = m
Goto(p, m) == mode' = [mode EXCEPT ![p] = m]

TryCurrent(p) ==
    LET current == current_handle[p] IN
    /\ At(p, "try")
    /\ sel' = [sel EXCEPT ![p] = current]
    /\ Goto(p, IF current = Null THEN "next"
               ELSE IF current_ec[p] = current THEN "resume"
               ELSE IF current_ec[p] = Null THEN "load" ELSE "save")
    /\ UNCHANGED <<ecVars, scVars, current_ec, prog, queues, ghost>>

SaveLoaded(p) ==
    /\ At(p, "save")
    /\ SaveState(p, current_ec[p])
    /\ Goto(p, "load")
    /\ UNCHANGED <<eventQueue, as, sched, refs, busy, scVars, sel, prog, queues, scenario, calls, life, stale>>

LoadState(p) ==
    LET e == sel[p] IN
    /\ At(p, "load")
    /\ panic' = (currentPlace[e] # Null \/ "NOT_LOADED" \notin flags[e] \/ current_ec[p] # Null)
    /\ currentPlace' = [currentPlace EXCEPT ![e] = p]
    /\ flags' = [flags EXCEPT ![e] = @ \ {"NOT_LOADED"}]
    /\ current_ec' = [current_ec EXCEPT ![p] = e]
    /\ Goto(p, "resume")
    /\ UNCHANGED <<eventQueue, as, sched, refs, busy, scVars, sel, prog, queues, scenario, calls, life, stale>>

\* Mutant: the exchange compares with a value that the flags never have.
ResumeStale(p) ==
    /\ At(p, "resume")
    /\ IF IsBlocked(flags[sel[p]]) THEN Goto(p, "drop") ELSE UNCHANGED mode
    /\ UNCHANGED <<ecVars, scVars, current_ec, sel, prog, queues, ghost>>

\* Whoever blocks the execution context after this step finds DONT_PREEMPT
\* cleared and interrupts the place.
Resume(p) ==
    LET e == sel[p] IN
    /\ At(p, "resume")
    /\ IF IsBlocked(flags[e])
       THEN Goto(p, "drop") /\ UNCHANGED <<flags, stale, panic>>
       ELSE /\ flags' = [flags EXCEPT ![e] = @ \ {"NOT_RUNNING", "DONT_PREEMPT"}]
            /\ stale' = stale \ {p}
            /\ panic' = ("NOT_LOADED" \in flags[e] \/ currentPlace[e] # p)
            /\ Goto(p, "return")
    /\ UNCHANGED <<butFlags, scVars, current_ec, sel, prog, queues, scenario, calls, life>>

\* An execution context that was in wait() gets one event and consumes the notification.
ReturnWait(p) ==
    LET e == sel[p] IN
    /\ At(p, "return")
    /\ IF "IN_WAIT" \in flags[e]
       THEN /\ flags' = [flags EXCEPT ![e] = @ \ {"IN_WAIT", "IS_NOTIFIED"}]
            /\ Goto(p, "event")
       ELSE Goto(p, "loadAS") /\ UNCHANGED flags
    /\ UNCHANGED <<butFlags, scVars, current_ec, sel, prog, queues, ghost>>

ReturnEvent(p) ==
    LET e == sel[p] IN
    /\ At(p, "event")
    /\ eventQueue' = [eventQueue EXCEPT ![e] = IF @ = 0 THEN 0 ELSE @ - 1]
    /\ Goto(p, "loadAS")
    /\ UNCHANGED <<flags, currentPlace, as, sched, refs, busy, scVars, current_ec, sel, prog, queues, ghost>>

LoadAS(p) ==
    /\ At(p, "loadAS")
    /\ Goto(p, IF as[sel[p]] THEN "user" ELSE "drop")
    /\ UNCHANGED <<ecVars, scVars, current_ec, sel, prog, queues, ghost>>

DropCurrent(p) ==
    /\ At(p, "drop")
    /\ current_handle' = [current_handle EXCEPT ![p] = Null]
    /\ Goto(p, "next")
    /\ UNCHANGED <<ecVars, readyQueue, current_ec, sel, prog, queues, ghost>>

PullNext(p) ==
    /\ At(p, "next")
    /\ sel' = [sel EXCEPT ![p] = readyQueue[p].head]
    /\ readyQueue' = [readyQueue EXCEPT ![p] = ListPull(@)]
    /\ Goto(p, IF IsEmpty(readyQueue[p]) THEN "sleep" ELSE "check")
    /\ UNCHANGED <<ecVars, current_handle, current_ec, prog, queues, ghost>>

CheckNext(p) ==
    /\ At(p, "check")
    /\ Goto(p, IF IsReady(sel[p]) THEN "select" ELSE "next")
    /\ UNCHANGED <<ecVars, scVars, current_ec, sel, prog, queues, ghost>>

SelectNext(p) ==
    /\ At(p, "select")
    /\ current_handle' = [current_handle EXCEPT ![p] = sel[p]]
    /\ Goto(p, "try")
    /\ UNCHANGED <<ecVars, readyQueue, current_ec, sel, prog, queues, ghost>>

-----------------------------------------------------------------------------
(* Kernel entries *)

Enter(p, f, q) ==
    /\ Goto(p, "kernel")
    /\ flags' = [flags EXCEPT ![current_ec[p]] = @ \cup {"NOT_RUNNING"} \cup f]
    /\ prog' = [prog EXCEPT ![p] = q]
    /\ UNCHANGED <<butFlags, scVars, current_ec, sel, tasks, syncs, done, ghost>>

\* handleSyscall(): wait, poll, and the calls that only invoke other objects.
Syscall(p) ==
    /\ At(p, "user")
    /\ \/ Enter(p, {}, Do("wait", current_ec[p]))
       \/ Enter(p, {"IN_WAIT"}, <<>>)
       \/ Enter(p, {}, <<>>)
    /\ UNCHANGED irq

\* handleTrap() and the exit system call
Trap(p) ==
    /\ At(p, "user")
    /\ Enter(p, {"IS_TRAPPED"}, <<>>)
    /\ UNCHANGED irq

InterruptUser(p) ==
    /\ At(p, "user")
    /\ irq[p]
    /\ irq' = [irq EXCEPT ![p] = FALSE]
    /\ Enter(p, {}, <<>>)

InterruptSleep(p) ==
    /\ At(p, "sleep")
    /\ irq[p]
    /\ irq' = [irq EXCEPT ![p] = FALSE]
    /\ Goto(p, "kernel")
    /\ UNCHANGED <<ecVars, scVars, current_ec, sel, prog, tasks, syncs, done, ghost>>

\* A caller's own user program or a device lets it enter the kernel.
Call(p) ==
    /\ At(p, "sleep")
    /\ p \in scenario.callers
    /\ calls < scenario.max
    /\ Goto(p, "kernel")
    /\ UNCHANGED <<ecVars, scVars, current_ec, sel, prog, queues, ghost>>

-----------------------------------------------------------------------------

Instruction(p) ==
    \/ UpdateFlags(p) \/ Suspend(p) \/ SuspendCheck(p) \/ Synchronous(p) \/ SynchronousDone(p) \/ WaitSync(p)
    \/ Clear(p) \/ ClearCheck(p) \/ GetSched(p) \/ Ready(p) \/ ReadyRemove(p) \/ ReadyPush(p) \/ Preempt(p)
    \/ UnbindAS(p) \/ UnbindSched(p) \/ Deselect(p) \/ ResetRef(p) \/ BindAS(p)
    \/ AtHome(p) \/ Respond(p) \/ SetBase(p) \/ Registers(p) \/ Reply(p)
    \/ PushEvent(p) \/ CheckEvents(p) \/ Wait(p) \/ Unload(p) \/ DeleteObject(p)

TryRunUser(p) ==
    \/ TryCurrent(p) \/ SaveLoaded(p) \/ LoadState(p) \/ Resume(p) \/ ReturnWait(p) \/ ReturnEvent(p) \/ LoadAS(p)
    \/ DropCurrent(p) \/ PullNext(p) \/ CheckNext(p) \/ SelectNext(p)

KernelStep(p) ==
    \/ Instruction(p) \/ RunSync(p) \/ RunTask(p) \/ Release(p)
    \/ TryRunUser(p) \/ InterruptUser(p) \/ InterruptSleep(p)

Next ==
    \E p \in Places :
        \/ KernelStep(p) \/ Syscall(p) \/ Trap(p) \/ Call(p)
        \/ \E op \in scenario.ops, e \in scenario.ecs : p \in scenario.callers /\ Invoke(p, op, e)

Spec == Init /\ [][Next]_vars

\* The kernel runs without preemption, and pending interrupts are delivered.
FairSpec == Spec /\ \A p \in Places : WF_vars(KernelStep(p))

-----------------------------------------------------------------------------

TypeOK ==
    /\ flags \in [ECs -> SUBSET Flags]
    /\ currentPlace \in [ECs -> Places \cup {Null}]
    /\ eventQueue \in [ECs -> Nat]
    /\ as \in [ECs -> BOOLEAN]
    /\ sched \in [ECs -> Places \cup {Null}]
    /\ refs \in [ECs -> SUBSET {"as", "sched"}]
    /\ busy \in [ECs -> BOOLEAN]
    /\ current_handle \in [Places -> ECs \cup {Null}]
    /\ current_ec \in [Places -> ECs \cup {Null}]
    /\ sel \in [Places -> ECs \cup {Null}]
    /\ mode \in [Places -> {"user", "sleep", "kernel", "try", "save", "load", "resume", "return", "event", "loadAS",
                            "drop", "next", "check", "select"}]
    /\ \A p \in Places : mode[p] = "user" => current_ec[p] # Null

\* Some place is going to execute one of these instructions for e.
Ahead(e, S) ==
    \E p \in Places :
        \/ \E i \in DOMAIN prog[p] : prog[p][i].ec = e /\ prog[p][i].do \in S
        \/ \E q \in tasks[p] \cup syncs[p] : \E i \in DOMAIN q : q[i].ec = e /\ q[i].do \in S

Running(e) == \E p \in Places : mode[p] = "user" /\ current_ec[p] = e

\* An execution context has stopped when a suspend invocation has replied, and
\* when it is deleted; and one that was blocked while it runs in user mode is
\* going to be interrupted, although only the first of several suspenders sends
\* the preemption.
StopsWhenAnswered ==
    /\ \A e \in ECs : ("IS_TRAPPED" \in flags[e] /\ ~busy[e]) \/ life[e] = "deleted" => ~Running(e)
    /\ \A p \in Places :
          mode[p] = "user" /\ ~IsReady(current_ec[p]) =>
              irq[p] \/ Ahead(current_ec[p], {"suspendCheck", "sync", "atHome"})

\* Under REGISTER_ACCESS the registers are read and written only while neither the user program nor
\* resume() uses them, and the assertions of loadState(), saveState() and resume() hold.  (setFSGS
\* writes the bases without that flag while the context may run: see BasesReloaded.)
RegistersExclusive ==
    /\ TypeOK /\ ~panic
    /\ \A p \in Places : prog[p] # <<>> /\ Cur(p).do = "registers" => Using(Cur(p).ec) = {}

\* Once setFSGS is answered, no ready execution context runs on with the bases it had loaded before:
\* whoever writes them has it rescheduled, although only the first of several suspenders preempts.
BasesReloaded ==
    \A p \in stale :
        mode[p] = "user" /\ ~busy[current_ec[p]] => ~IsReady(current_ec[p])

\* No lost event: an execution context waits with a pending notification or
\* event only until the notifier, or wait() itself, clears IS_WAITING.
NoLostEvent ==
    \A e \in ECs :
        "IS_WAITING" \in flags[e] /\ ("IS_NOTIFIED" \in flags[e] \/ eventQueue[e] > 0) =>
            Ahead(e, {"clear", "checkEvents", "unset"})

\* The ready queue is a list that ends: no handle was linked twice.
ReadyQueueIntact == \A p \in Places : IsProper(readyQueue[p])

\* A place does not sleep while its execution context is ready, unless
\* somebody is on the way to tell it (IScheduler::ready), and its ready queue
\* stays a list.
NoSleepWhileReady ==
    /\ ReadyQueueIntact
    /\ Cardinality(scenario.ecs) = 1 =>
        \A e \in ECs :
            IsReady(e) /\ sched[e] # Null /\ mode[sched[e]] = "sleep" /\ ~irq[sched[e]] =>
                Ahead(e, {"clearCheck", "getSched", "ready", "readyRemove", "readyPush", "preempt"})

\* An execution context that became ready runs, if nothing blocks it again, and
\* every invocation is answered: the preempted place relays the response
\* whatever its user program does.
RunsEventually ==
    /\ Cardinality(scenario.ecs) = 1 => \A e \in ECs : IsReady(e) ~> (Running(e) \/ ~IsReady(e))
    /\ \A e \in ECs : busy[e] ~> ~busy[e]

=============================================================================
