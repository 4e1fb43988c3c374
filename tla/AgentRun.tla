-------------------------------- MODULE AgentRun --------------------------------
(***************************************************************************)
(* AgentRun (domain/execution/models.py): the operations on the aggregate, *)
(* and what a reader of its row in agent_runs may rely on whatever the     *)
(* tool loop does: counters that only grow while it runs, one end, and     *)
(* nothing after it.                                                       *)
(***************************************************************************)
EXTENDS Naturals

VARIABLE row   \* the agent_runs row; status "none" before it is inserted

Reasons == { "completed", "waiting_for_input", "inconclusive",
             "max_rounds_reached", "tool_budget_exhausted",
             "time_budget_exhausted", "cancelled", "model_error", "internal_error" }

NoRun == [status |-> "none", reason |-> "none", rounds |-> 0, calls |-> 0]

\* AgentRun.start
Started == [NoRun EXCEPT !.status = "running"]

\* The status that finish() derives from the reason.
StatusOf(reason) ==
  IF reason \in {"model_error", "internal_error"} THEN "failed"
  ELSE IF reason = "cancelled" THEN "cancelled" ELSE "completed"

\* record_model_response, record_tool_calls and finish; each requires
\* status "running" and raises otherwise.
WithResponse(run) == [run EXCEPT !.rounds = @ + 1]
WithCalls(run, count) == [run EXCEPT !.calls = @ + count]
Finished(run, reason) == [run EXCEPT !.status = StatusOf(reason), !.reason = reason]

Init == row = NoRun

Start == row = NoRun /\ row' = Started

Grow(status, reason) ==
  /\ row.status = "running"
  /\ row' = [status |-> status, reason |-> reason,
             rounds |-> row'.rounds, calls |-> row'.calls]
  /\ row'.rounds \in {row.rounds, row.rounds + 1}
  /\ row'.calls >= row.calls

Work == Grow("running", "none")
Finish == \E reason \in Reasons : Grow(StatusOf(reason), reason)

Next == Start \/ Work \/ Finish
Spec == Init /\ [][Next]_row
=============================================================================
