---------------------------- MODULE MCScheduling ----------------------------
(* Scenarios for model checking Scheduling. *)
EXTENDS Scheduling

CONSTANTS p1, p2, e1, e2

\* One execution context: all operations come from another place, or from its own.
Remote == [ecs |-> {e1}, callers |-> {p2}, ops |-> Operations, max |-> 3]
Local == [Remote EXCEPT !.callers = {p1}]
\* Two execution contexts share a place.
Shared == [ecs |-> {e1, e2}, callers |-> {p2}, ops |-> {"signal", "resume", "suspend"}, max |-> 3]
\* One execution context is used from both places.
TwoCallers == [Remote EXCEPT !.callers = {p1, p2}, !.ops = {"signal", "resume"}, !.max = 2]

MCScenarios == {Remote, Local, Shared}
MCTwoCallers == {TwoCallers}

=============================================================================
