--------------------------------- MODULE ToolLoop ---------------------------------
(***************************************************************************)
(* ToolLoopRunner.run (agent/runtime/tool_loop.py): one investigation.     *)
(* The model proposes tool calls or a conclusion; the loop checks, runs    *)
(* and records what it proposes, within budgets of rounds, tool calls and  *)
(* time, and ends with one AgentTerminationReason.                         *)
(*                                                                         *)
(* A step is the code between two awaits with the statement it waits for.  *)
(* The model may answer anything at any time: repeat a call, reuse a call  *)
(* id, call a tool when told not to, cite evidence that does not exist.    *)
(* A statement may fail, and the task may be cancelled, at every await.    *)
(* Evidence is never deleted, but a second process that runs the same      *)
(* diagnosis, and a supplement, may add to it during the run.              *)
(***************************************************************************)
EXTENDS CitationPolicy, Sequences, Integers

CONSTANTS
  MaxRounds, MaxToolCalls,   \* AgentBudget
  Signatures,                \* tool name and arguments of a call
  Resolvable,                \* those that pass the registry and the schema
  CodeReads,                 \* those of the tool code__read
  Yields,                    \* the evidence a successful call drafts
  CallIds,                   \* tool_call_id
  Batches,                   \* the tool_calls of a response
  Conclusions,               \* what parses as a DiagnosisConclusion
  Unparsed, NoConclusion,
  Known,                     \* the evidence stored before the run
  Foreign,                   \* what others may add to it during the run
  MaxFaults                  \* bound: failing statements and cancellations

Call == [id : CallIds, signature : Signatures]

ASSUME BudgetAssumption == MaxRounds \in Nat \ {0} /\ MaxToolCalls \in Nat \ {0}
ASSUME CallsAssumption ==
  /\ Resolvable \subseteq Signatures /\ CodeReads \subseteq Signatures
  /\ Yields \in [Signatures -> SUBSET Items]
  /\ Batches \subseteq Seq(Call) /\ <<>> \notin Batches
ASSUME DataAssumption ==
  /\ Conclusions \subseteq Conclusion
  /\ Unparsed \notin Conclusions /\ NoConclusion \notin Conclusions
  /\ Known \subseteq Items /\ Foreign \subseteq Items /\ MaxFaults \in Nat

VARIABLES
  \* the database
  row,           \* agent_runs
  plan,          \* diagnosis_plans: the row of this run is there
  evidence,      \* evidences of the diagnosis
  elsewhere,     \* those of them that others have added
  toolRuns,      \* tool_runs, by tool_call_id
  \* the locals of run()
  pc,            \* the await at which it is suspended
  run,           \* the AgentRun
  response,      \* what the model answered
  batch,         \* the calls of the response still to be executed
  result,        \* of the call being executed
  failed,        \* failed_tool_signatures
  successes,     \* successful_tools
  readCode,      \* should_finalize
  finalization,  \* finalization_mode
  corrections,   \* structure_correction_attempted, citation_correction_attempts
  answer,        \* the conclusion that run() will return
  outcome,       \* how run() ended
  \* the environment
  expired,       \* total_timeout_seconds have passed
  faults,
  adapter        \* history: the calls that reached a tool's execute()

database == <<row, plan, evidence, elsewhere, toolRuns>>
progress == <<response, batch, result, failed, successes, readCode, adapter>>
policy   == <<finalization, corrections>>
vars     == <<database, pc, run, progress, policy, answer, outcome, expired, faults>>

Run == INSTANCE AgentRun

NoToolRun == [status |-> "none", evidence |-> {}]
NoResult  == NoToolRun
NoResponse == [calls |-> <<>>, finish |-> "none", conclusion |-> NoConclusion]

Init ==
  /\ row = Run!NoRun
  /\ plan = FALSE
  /\ evidence = Known
  /\ elsewhere = {}
  /\ toolRuns = [id \in CallIds |-> NoToolRun]
  /\ pc = "add"
  /\ run = Run!Started
  /\ response = NoResponse
  /\ batch = <<>>
  /\ result = NoResult
  /\ failed = {}
  /\ successes = 0
  /\ readCode = FALSE
  /\ finalization = FALSE
  /\ corrections = [structure |-> 0, citation |-> 0]
  /\ answer = NoConclusion
  /\ outcome = "none"
  /\ expired = FALSE
  /\ faults = 0
  /\ adapter = <<>>

-----------------------------------------------------------------------------
(* The statements, by the await they belong to. *)

SaveRun == row' = run /\ UNCHANGED <<plan, evidence, elsewhere, toolRuns>>

\* Variant: the call is recorded without the ids of its evidence.
AddToolRunAlone(id) ==
  /\ toolRuns[id] = NoToolRun
  /\ toolRuns' = [toolRuns EXCEPT ![id] = [result EXCEPT !.evidence = {}]]
  /\ UNCHANGED <<row, plan, evidence, elsewhere>>

AddToolRun(id) ==
  /\ toolRuns[id] = NoToolRun      \* uq_tool_runs_call
  /\ toolRuns' = [toolRuns EXCEPT ![id] = result]
  /\ UNCHANGED <<row, plan, evidence, elsewhere>>

Saving == { "add", "record", "count", "finish", "finish_error", "finish_cancelled" }

Statement ==
  \/ pc \in Saving /\ SaveRun
  \/ pc = "plan" /\ plan' = TRUE /\ UNCHANGED <<row, evidence, elsewhere, toolRuns>>
  \/ /\ pc = "evidence"
     /\ evidence' = evidence \union result.evidence
     /\ UNCHANGED <<row, plan, elsewhere, toolRuns>>
  \/ pc = "tool_run" /\ AddToolRun(Head(batch).id)
  \/ pc \notin Saving \union {"plan", "evidence", "tool_run"} /\ UNCHANGED database

\* What a statement that fails leaves: nothing, except that add_candidates
\* commits draft by draft.
Partly ==
  \/ /\ pc = "evidence"
     /\ \E kept \in SUBSET result.evidence : evidence' = evidence \union kept
     /\ UNCHANGED <<row, plan, elsewhere, toolRuns>>
  \/ UNCHANGED database

\* The awaits outside the try block, and those inside it.
Unguarded == { "add", "plan", "catalog" }
Guarded   == { "model", "record", "instruct", "cite", "count", "adapter",
               "evidence", "tool_run" }
Finishing == { "finish", "finish_error", "finish_cancelled" }
Awaits    == Unguarded \union Guarded \union Finishing

Await(here, next) == pc = here /\ Statement /\ pc' = next

\* _finish, up to its await.
End(reason, conclusion, next) ==
  /\ run' = Run!Finished(run, reason)
  /\ answer' = conclusion
  /\ pc' = next

\* Variant: whatever the model answered is returned.
StopWithAnswer(reason) == End(reason, response.conclusion, "finish")

Stop(reason) == End(reason, NoConclusion, "finish")

-----------------------------------------------------------------------------
(* Before the loop *)

AddAgentRun ==
  Await("add", "plan")
  /\ UNCHANGED <<run, progress, policy, answer, outcome, expired, faults>>

CreatePlan ==
  Await("plan", "catalog")
  /\ UNCHANGED <<run, progress, policy, answer, outcome, expired, faults>>

\* _existing_evidence_catalog
ReadCatalog ==
  Await("catalog", "head")
  /\ UNCHANGED <<run, progress, policy, answer, outcome, expired, faults>>

-----------------------------------------------------------------------------
(* A round *)

\* Variant: the rounds are counted from zero to max_rounds.
OneRoundTooMany ==
  /\ pc = "head"
  /\ \/ run.rounds > MaxRounds /\ Stop("max_rounds_reached")
     \/ run.rounds <= MaxRounds /\ expired /\ Stop("time_budget_exhausted")
     \/ run.rounds <= MaxRounds /\ ~expired /\ pc' = "model" /\ UNCHANGED <<run, answer>>
  /\ UNCHANGED <<database, progress, policy, outcome, expired, faults>>

StartRound ==
  /\ pc = "head"
  /\ \/ run.rounds >= MaxRounds /\ Stop("max_rounds_reached")
     \/ run.rounds < MaxRounds /\ expired /\ Stop("time_budget_exhausted")
     \/ run.rounds < MaxRounds /\ ~expired /\ pc' = "model" /\ UNCHANGED <<run, answer>>
  /\ UNCHANGED <<database, progress, policy, outcome, expired, faults>>

\* A finish reason other than these counts as "stop"; with calls none counts.
ModelAnswers ==
  /\ pc = "model"
  /\ response' \in
       [calls : Batches, finish : {"tool_calls"}, conclusion : {NoConclusion}]
         \union [calls : {<<>>}, finish : {"stop", "length", "content_filter"},
                 conclusion : Conclusions \union {Unparsed}]
  /\ run' = Run!WithResponse(run)
  /\ pc' = "record"
  /\ UNCHANGED <<database, batch, result, failed, successes, readCode, adapter, policy,
                 answer, outcome, expired, faults>>

\* Variant: complete() is awaited without wait_for.
NeverTimesOut == FALSE /\ UNCHANGED vars

ModelTimesOut ==
  /\ pc = "model"
  /\ expired
  /\ Stop("time_budget_exhausted")
  /\ UNCHANGED <<database, progress, policy, outcome, expired, faults>>

\* LLMError
ModelFails ==
  /\ pc = "model"
  /\ Stop("model_error")
  /\ UNCHANGED <<database, progress, policy, outcome, expired, faults>>

RecordResponse ==
  Await("record", "decide")
  /\ UNCHANGED <<run, progress, policy, answer, outcome, expired, faults>>

-----------------------------------------------------------------------------
(* The model concludes *)

\* One more try, without tools.
Correct(kind) ==
  /\ corrections' = [corrections EXCEPT ![kind] = @ + 1]
  /\ finalization' = TRUE
  /\ pc' = "instruct"
  /\ UNCHANGED <<run, answer>>

\* A conclusion that parses goes on to the check of its citations.
ParseConclusion ==
  /\ pc = "decide"
  /\ response.calls = <<>>
  /\ LET cut == response.finish = "length"
         rejected == response.finish \in {"length", "content_filter"}
         malformed == response.conclusion = Unparsed
         mayCorrect == corrections.structure = 0 /\ (cut \/ ~rejected)
     IN  \/ (rejected \/ malformed) /\ mayCorrect /\ Correct("structure")
         \/ /\ (rejected \/ malformed) /\ ~mayCorrect
            /\ Stop("inconclusive") /\ UNCHANGED policy
         \/ /\ ~rejected /\ ~malformed
            /\ pc' = "cite" /\ UNCHANGED <<run, answer, policy>>
  /\ UNCHANGED <<database, progress, outcome, expired, faults>>

\* Variant: the third conclusion with bad citations is accepted.
ConcludeWhenTired ==
  /\ pc = "cite"
  /\ \/ /\ Violations(response.conclusion, evidence) # {} /\ corrections.citation < 2
        /\ Correct("citation")
     \/ /\ corrections.citation >= 2 \/ Violations(response.conclusion, evidence) = {}
        /\ End("completed", response.conclusion, "finish") /\ UNCHANGED policy
  /\ UNCHANGED <<database, progress, outcome, expired, faults>>

CheckCitations ==
  /\ pc = "cite"
  /\ LET invalid == Violations(response.conclusion, evidence) # {}
         allFailed == run.calls > 0 /\ successes = 0
     IN  \/ invalid /\ corrections.citation < 2 /\ Correct("citation")
         \/ /\ invalid /\ corrections.citation >= 2
            /\ Stop("inconclusive") /\ UNCHANGED policy
         \/ /\ ~invalid /\ allFailed
            /\ End("inconclusive", response.conclusion, "finish") /\ UNCHANGED policy
         \/ /\ ~invalid /\ ~allFailed
            /\ End("completed", response.conclusion, "finish") /\ UNCHANGED policy
  /\ UNCHANGED <<database, progress, outcome, expired, faults>>

\* _conclusion_instruction reads the evidence catalog.
Instruct ==
  Await("instruct", "head")
  /\ UNCHANGED <<run, progress, policy, answer, outcome, expired, faults>>

-----------------------------------------------------------------------------
(* The model calls tools *)

Accept ==
  /\ run' = Run!WithCalls(run, Len(response.calls))
  /\ batch' = response.calls
  /\ readCode' = FALSE
  /\ pc' = "count"
  /\ UNCHANGED answer

AcceptCalls ==
  /\ pc = "decide"
  /\ response.calls # <<>>
  /\ LET over == run.calls + Len(response.calls) > MaxToolCalls
     IN  \/ finalization /\ Stop("inconclusive") /\ UNCHANGED <<batch, readCode>>
         \/ /\ ~finalization /\ over
            /\ Stop("tool_budget_exhausted") /\ UNCHANGED <<batch, readCode>>
         \/ ~finalization /\ ~over /\ Accept
  /\ UNCHANGED <<database, response, result, failed, successes, adapter, policy,
                 outcome, expired, faults>>

RecordCalls ==
  Await("count", "tool")
  /\ UNCHANGED <<run, progress, policy, answer, outcome, expired, faults>>

\* What follows a result: successes and failures are remembered, and the
\* evidence it drafted is stored before the call is recorded.
Took(signature, status, drafts) ==
  /\ result' = [status |-> status, evidence |-> drafts]
  /\ successes' = successes + (IF status = "success" THEN 1 ELSE 0)
  /\ failed' = IF status = "success" THEN failed ELSE failed \union {signature}
  /\ readCode' = (readCode \/ (status = "success" /\ signature \in CodeReads))
  /\ pc' = IF drafts = {} THEN "tool_run" ELSE "evidence"
  /\ UNCHANGED <<response, batch>>

\* _execute_tool answers by itself: the same call failed before, the registry
\* or the schema refuses it, or no time is left.
RefuseCall ==
  /\ pc = "tool"
  /\ batch # <<>>
  /\ LET signature == Head(batch).signature
     IN  \/ /\ signature \in failed \/ signature \notin Resolvable
            /\ Took(signature, "failed", {})
         \/ /\ signature \in Resolvable \ failed /\ expired
            /\ Took(signature, "timeout", {})
  /\ UNCHANGED <<database, run, adapter, policy, answer, outcome, expired, faults>>

\* Variant: failed_tool_signatures is not consulted.
ExecuteAgain ==
  /\ pc = "tool"
  /\ batch # <<>>
  /\ ~expired
  /\ Head(batch).signature \in Resolvable
  /\ adapter' = Append(adapter, [signature |-> Head(batch).signature, status |-> "running"])
  /\ pc' = "adapter"
  /\ UNCHANGED <<database, run, response, batch, result, failed, successes, readCode,
                 policy, answer, outcome, expired, faults>>

ExecuteTool ==
  /\ pc = "tool"
  /\ batch # <<>>
  /\ ~expired
  /\ Head(batch).signature \in Resolvable \ failed
  /\ adapter' = Append(adapter, [signature |-> Head(batch).signature, status |-> "running"])
  /\ pc' = "adapter"
  /\ UNCHANGED <<database, run, response, batch, result, failed, successes, readCode,
                 policy, answer, outcome, expired, faults>>

\* The tool answers, or wait_for gives up after the timeout of the tool, which
\* may come before the end of the whole budget.
ToolAnswers(status) ==
  /\ pc = "adapter"
  /\ LET signature == Head(batch).signature
     IN  Took(signature, status, IF status = "success" THEN Yields[signature] ELSE {})
  /\ adapter' = [adapter EXCEPT ![Len(adapter)].status = status]
  /\ UNCHANGED <<database, run, policy, answer, outcome, expired, faults>>

StoreEvidence ==
  Await("evidence", "tool_run")
  /\ UNCHANGED <<run, progress, policy, answer, outcome, expired, faults>>

RecordToolRun ==
  /\ Await("tool_run", "tool")
  /\ batch' = Tail(batch)
  /\ UNCHANGED <<run, response, result, failed, successes, readCode, adapter, policy,
                 answer, outcome, expired, faults>>

EndBatch ==
  /\ pc = "tool"
  /\ batch = <<>>
  /\ finalization' = (finalization \/ readCode)
  /\ pc' = IF readCode THEN "instruct" ELSE "head"
  /\ UNCHANGED <<database, run, progress, corrections, answer, outcome, expired, faults>>

-----------------------------------------------------------------------------
(* The end, and what may go wrong on the way *)

FinishRun ==
  /\ pc \in Finishing
  /\ Statement
  /\ pc' = "done"
  /\ outcome' = IF pc = "finish_cancelled" THEN "cancelled" ELSE "returned"
  /\ UNCHANGED <<run, progress, policy, answer, expired, faults>>

Leave(how) == pc' = "done" /\ outcome' = how /\ UNCHANGED <<run, answer>>

\* Variant: the handler finishes a run that is finished already.
FinishTwice(reason, next) ==
  IF pc \in Guarded \union {"finish"}
  THEN End(reason, NoConclusion, next) /\ UNCHANGED outcome
  ELSE Leave("raised")

\* The except clauses: they finish the run.  finish() raises ValueError when
\* it is finished already, and nothing catches what happens outside the try.
Handle(reason, next) ==
  IF pc \in Guarded
  THEN End(reason, NoConclusion, next) /\ UNCHANGED outcome
  ELSE Leave("raised")

\* A statement fails, or the client of the model or a tool raises what it is not
\* expected to.
AwaitFails ==
  /\ pc \in Awaits
  /\ faults < MaxFaults
  /\ faults' = faults + 1
  /\ Partly
  /\ Handle("internal_error", "finish_error")
  /\ UNCHANGED <<progress, policy, expired>>

\* The id of the call was used before: uq_tool_runs_call.
CallIdRepeats ==
  /\ pc = "tool_run"
  /\ toolRuns[Head(batch).id] # NoToolRun
  /\ Handle("internal_error", "finish_error")
  /\ UNCHANGED <<database, progress, policy, expired, faults>>

\* CancelledError is raised, and the statement under way took effect or not, or
\* in part.
Cancel ==
  /\ pc \in Awaits
  /\ faults < MaxFaults
  /\ faults' = faults + 1
  /\ Statement \/ Partly
  /\ IF pc \in Guarded \union {"finish"}
     THEN Handle("cancelled", "finish_cancelled")
     ELSE Leave("cancelled")
  /\ UNCHANGED <<progress, policy, expired>>

TimePasses ==
  /\ ~expired
  /\ pc \notin Unguarded \union {"done"}
  /\ expired' = TRUE
  /\ UNCHANGED <<database, pc, run, progress, policy, answer, outcome, faults>>

\* A tool of a second run, or a supplement, adds evidence to the diagnosis.
OthersAdd ==
  /\ pc # "done"
  /\ \E e \in Foreign \ evidence :
       evidence' = evidence \union {e} /\ elsewhere' = elsewhere \union {e}
  /\ UNCHANGED <<row, plan, toolRuns, pc, run, progress, policy, answer, outcome, expired, faults>>

Code ==
  \/ AddAgentRun \/ CreatePlan \/ ReadCatalog
  \/ StartRound \/ RecordResponse
  \/ ParseConclusion \/ CheckCitations \/ Instruct
  \/ AcceptCalls \/ RecordCalls \/ RefuseCall \/ ExecuteTool
  \/ StoreEvidence \/ RecordToolRun \/ CallIdRepeats \/ EndBatch
  \/ FinishRun

Timeouts == TimePasses \/ ModelTimesOut \/ ToolAnswers("timeout")

Environment ==
  \/ ModelAnswers \/ ModelFails
  \/ ToolAnswers("success") \/ ToolAnswers("failed")
  \/ AwaitFails \/ Cancel \/ OthersAdd

Terminated == pc = "done" /\ UNCHANGED vars

Next == Code \/ Timeouts \/ Environment \/ Terminated

Spec == Init /\ [][Next]_vars

\* The event loop resumes the task, statements end, and clocks advance: what
\* the model and the tools do is not promised.
FairSpec == Spec /\ WF_vars(Code) /\ WF_vars(Timeouts)

-----------------------------------------------------------------------------
(* Properties *)

RunRecord ==
  [status : {"none", "running", "completed", "failed", "cancelled"},
   reason : Run!Reasons \union {"none"}, rounds : Nat, calls : Nat]

ToolRun == [status : {"none", "success", "failed", "timeout"}, evidence : SUBSET Items]

TypeOK ==
  /\ row \in RunRecord
  /\ plan \in BOOLEAN
  /\ evidence \in SUBSET Items
  /\ elsewhere \in SUBSET Foreign
  /\ toolRuns \in [CallIds -> ToolRun]
  /\ pc \in Awaits \union {"head", "decide", "tool", "done"}
  /\ run \in RunRecord
  /\ response.calls \in Seq(Call)
  /\ response.finish \in {"none", "tool_calls", "stop", "length", "content_filter"}
  /\ response.conclusion \in Conclusions \union {Unparsed, NoConclusion}
  /\ batch \in Seq(Call)
  /\ result \in ToolRun
  /\ failed \in SUBSET Signatures
  /\ successes \in Nat
  /\ readCode \in BOOLEAN
  /\ finalization \in BOOLEAN
  /\ corrections \in [{"structure", "citation"} -> Nat]
  /\ answer \in Conclusions \union {NoConclusion}
  /\ outcome \in {"none", "returned", "raised", "cancelled"}
  /\ expired \in BOOLEAN
  /\ faults \in Nat
  /\ adapter \in
       Seq([signature : Signatures, status : {"running", "success", "failed", "timeout"}])

\* The budgets bound what is recorded and what really happens: rounds, calls,
\* corrections, and executions of tools, which never exceed the calls counted.
BudgetsRespected ==
  /\ run.rounds <= MaxRounds
  /\ Len(adapter) <= run.calls /\ run.calls <= MaxToolCalls
  /\ corrections.structure <= 1 /\ corrections.citation <= 2

\* A call that failed is never executed again in the same run, whatever way it
\* failed and however often the model repeats it.
FailedCallNotRepeated ==
  \A i, j \in DOMAIN adapter :
    i < j /\ adapter[i].signature = adapter[j].signature => adapter[i].status = "success"

\* A run that ends "completed" returns a conclusion that rests on the evidence
\* now stored for this diagnosis, and some tool has succeeded if any was called.
ConclusionIsSupported ==
  outcome = "returned" /\ run.reason = "completed" =>
    /\ answer \in Conclusions
    /\ \A f \in answer.facts \union answer.root_causes :
         /\ f.evidence_ids \subseteq evidence
         /\ f.status # "confirmed"
         /\ f.status = "probable" => f.evidence_ids \intersect Direct # {}
    /\ \A f \in answer.facts : f.evidence_ids = {} => f.status = "insufficient_evidence"
    /\ (\E id \in CallIds : toolRuns[id] # NoToolRun) =>
         \E id \in CallIds : toolRuns[id].status = "success"

\* What run() returns is what its row says; and unless it was interrupted, the
\* run leaves one tool_runs row for each call that was counted, and all evidence
\* that was not there before, and that nobody else added, is accounted for by one
\* of them (tool_loop.py:302-310, _finish).
RunIsTraced ==
  outcome = "returned" =>
    /\ row = run /\ row.status # "running"
    /\ run.reason # "internal_error" =>
         /\ Cardinality({ id \in CallIds : toolRuns[id] # NoToolRun }) = row.calls
         /\ evidence = Known \union elsewhere \union UNION { toolRuns[id].evidence : id \in CallIds }

\* The row of the run implements AgentRun: it grows, ends once and then stays.
ImplementsAgentRun == Run!Spec

\* Every run ends, even if the model and the tools never answer.
RunEnds == <>(pc = "done")
=============================================================================
