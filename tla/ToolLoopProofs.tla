---------------------------- MODULE ToolLoopProofs ----------------------------
(***************************************************************************)
(* One investigation, for any budgets, tools, model answers, faults and    *)
(* cancellations, and whatever others store: the budgets hold, no call     *)
(* that failed is executed again, a completed run has a supported          *)
(* conclusion, and its row is an AgentRun.                                 *)
(***************************************************************************)
EXTENDS EvaluatedRun, SequenceTheorems, FiniteSetTheorems, TLAPS

Going == Unguarded \union Guarded \union {"head", "decide", "tool"}
Executing == {"adapter", "evidence", "tool_run"}

\* What remains of the budgets while a batch is executed.
BudgetsLeft ==
  /\ pc = "model" => run.rounds < MaxRounds
  /\ pc \in {"count", "tool"} => Len(adapter) + Len(batch) <= run.calls
  /\ pc \in Executing => batch # <<>> /\ Len(adapter) + Len(batch) <= run.calls + 1
  /\ pc \in Executing \union {"count", "tool"} => run.calls > 0

\* What did not succeed is remembered, or it is the execution under way.
FailuresRemembered ==
  pc \in Going =>
    \A i \in DOMAIN adapter :
      \/ adapter[i].status = "success"
      \/ adapter[i].signature \in failed
      \/ pc = "adapter" /\ i = Len(adapter)

ExecutionIsLast ==
  pc = "adapter" =>
    /\ adapter # <<>> /\ adapter[Len(adapter)].signature = Head(batch).signature

\* A conclusion that is checked has been parsed.
Parsed ==
  /\ pc \in {"record", "decide"} /\ response.calls = <<>> =>
       response.conclusion \in Conclusions \union {Unparsed}
  /\ pc = "cite" => response.conclusion \in Conclusions

Inv == TypeOK /\ Parsed /\ BudgetsRespected /\ BudgetsLeft /\ FailedCallNotRepeated
         /\ FailuresRemembered /\ ExecutionIsLast

-----------------------------------------------------------------------------
(* Types *)

LEMMA Constants ==
  /\ MaxRounds \in Nat \ {0} /\ MaxToolCalls \in Nat \ {0}
  /\ Resolvable \subseteq Signatures /\ CodeReads \subseteq Signatures
  /\ Yields \in [Signatures -> SUBSET Items]
  /\ Batches \subseteq Seq(Call) /\ <<>> \notin Batches
  /\ Unparsed \notin Conclusions /\ NoConclusion \notin Conclusions
  /\ Known \subseteq Items /\ Foreign \subseteq Items /\ MaxFaults \in Nat
  /\ Conclusions \subseteq Conclusion
BY BudgetAssumption, CallsAssumption, DataAssumption

LEMMA InitTyped == Init => TypeOK
<1> SUFFICES ASSUME Init PROVE TypeOK
  OBVIOUS
<1>1. Run!NoRun \in RunRecord /\ Run!Started \in RunRecord
  BY DEF Run!NoRun, Run!Started, RunRecord
<1>2. NoToolRun \in ToolRun
  BY DEF NoToolRun, ToolRun
<1>3. response.calls \in Seq(Call) /\ batch \in Seq(Call)
  BY DEF Init, NoResponse
<1>4. adapter \in Seq([signature : Signatures, status : {"running", "success", "failed", "timeout"}])
  BY DEF Init
<1>5. /\ plan \in BOOLEAN /\ readCode \in BOOLEAN /\ finalization \in BOOLEAN /\ expired \in BOOLEAN
  BY Zenon DEF Init
<1>6. corrections \in [{"structure", "citation"} -> Nat] /\ successes \in Nat /\ faults \in Nat
  BY DEF Init
<1>7. /\ response.finish = "none" /\ response.conclusion = NoConclusion
  BY DEF Init, NoResponse
<1>8. /\ row \in RunRecord /\ run \in RunRecord /\ result \in ToolRun /\ toolRuns \in [CallIds -> ToolRun]
  BY <1>1, <1>2 DEF Init, NoResult
<1>9. /\ evidence \in SUBSET Items /\ elsewhere \in SUBSET Foreign /\ failed \in SUBSET Signatures
      /\ pc \in Awaits \union {"head", "decide", "tool", "done"}
      /\ answer \in Conclusions \union {NoConclusion}
      /\ outcome \in {"none", "returned", "raised", "cancelled"}
  BY Constants DEF Init, Awaits, Unguarded
<1> QED
  BY <1>3, <1>4, <1>5, <1>6, <1>7, <1>8, <1>9 DEF TypeOK

\* The last element of a list can be read and replaced.
LEMMA LastOfSeq ==
  ASSUME NEW S, NEW list \in Seq(S), list # << >>
  PROVE  /\ list[Len(list)] \in S
         /\ \A e \in S : [list EXCEPT ![Len(list)] = e] \in Seq(S)
<1>1. Len(list) \in 1..Len(list)
  BY EmptySeq
<1>2. list[Len(list)] \in S
  BY <1>1, ElementOfSeq
<1>3. ASSUME NEW e \in S PROVE [list EXCEPT ![Len(list)] = e] \in Seq(S)
  BY <1>1, ExceptSeq
<1> QED
  BY <1>2, <1>3

\* The operations on the run.
LEMMA RunOperations ==
  ASSUME run \in RunRecord
  PROVE  /\ Run!WithResponse(run) \in RunRecord
         /\ \A n \in Nat : Run!WithCalls(run, n) \in RunRecord
         /\ \A reason \in Run!Reasons : Run!Finished(run, reason) \in RunRecord
<1> USE DEF RunRecord
<1>1. Run!WithResponse(run) \in RunRecord
  BY DEF Run!WithResponse
<1>2. ASSUME NEW n \in Nat PROVE Run!WithCalls(run, n) \in RunRecord
  BY DEF Run!WithCalls
<1>3. ASSUME NEW reason \in Run!Reasons PROVE Run!Finished(run, reason) \in RunRecord
  <2>1. Run!StatusOf(reason) \in {"completed", "failed", "cancelled"}
    BY DEF Run!StatusOf
  <2> QED
    BY <2>1 DEF Run!Finished
<1> QED
  BY <1>1, <1>2, <1>3

Stored ==
  /\ row \in RunRecord /\ plan \in BOOLEAN /\ evidence \in SUBSET Items
  /\ elsewhere \in SUBSET Foreign
  /\ toolRuns \in [CallIds -> ToolRun]

LEMMA StatementTyped ==
  ASSUME TypeOK, pc = "tool_run" => batch # <<>>, Statement
  PROVE  Stored'
<1> USE DEF TypeOK, Stored
<1>1. CASE pc = "tool_run"
  <2>1. AddToolRun(Head(batch).id)
    BY <1>1 DEF Statement, Saving
  <2>2. Head(batch) \in Call
    BY <1>1
  <2> QED
    BY <2>1, <2>2 DEF AddToolRun, Call
<1>2. CASE pc = "evidence"
  BY <1>2 DEF Statement, Saving, ToolRun
<1>3. CASE pc \notin {"tool_run", "evidence"}
  BY <1>3 DEF Statement, SaveRun, database
<1> QED
  BY <1>1, <1>2, <1>3

\* What is left of a statement that fails is less evidence than it would store.
LEMMA PartlyKeeps ==
  ASSUME Partly
  PROVE  /\ UNCHANGED <<row, plan, elsewhere, toolRuns>>
         /\ evidence' = evidence \/ pc = "evidence"
         /\ \E kept \in SUBSET result.evidence : evidence' = evidence \union kept
<1>1. CASE UNCHANGED database
  <2>1. {} \in SUBSET result.evidence /\ evidence' = evidence \union {}
    BY <1>1 DEF database
  <2> QED
    BY <1>1, <2>1 DEF database
<1> QED
  BY <1>1 DEF Partly

LEMMA PartlyTyped == ASSUME TypeOK, Partly PROVE Stored'
<1>1. PICK kept \in SUBSET result.evidence : evidence' = evidence \union kept
  BY PartlyKeeps
<1>2. result.evidence \in SUBSET Items
  BY DEF TypeOK, ToolRun
<1>3. evidence' \in SUBSET Items
  BY <1>1, <1>2 DEF TypeOK
<1> QED
  BY <1>3, PartlyKeeps DEF TypeOK, Stored

LEMMA StaysTyped == ASSUME TypeOK, Parsed, BudgetsLeft, ExecutionIsLast, Next PROVE TypeOK'
<1> USE DEF TypeOK, progress, policy, Awaits, Unguarded, Guarded, Finishing
<1>a. \A reason \in Run!Reasons : Run!Finished(run, reason) \in RunRecord
  BY RunOperations
<1>b. /\ "max_rounds_reached" \in Run!Reasons /\ "time_budget_exhausted" \in Run!Reasons
      /\ "tool_budget_exhausted" \in Run!Reasons /\ "inconclusive" \in Run!Reasons
      /\ "completed" \in Run!Reasons /\ "model_error" \in Run!Reasons
      /\ "internal_error" \in Run!Reasons /\ "cancelled" \in Run!Reasons
  BY DEF Run!Reasons
<1>0. (pc = "tool_run" => batch # <<>>) /\ (pc \in Executing => Head(batch) \in Call)
  BY DEF BudgetsLeft, Executing
\* Steps that only perform a statement.
<1>1. ASSUME AddAgentRun \/ CreatePlan \/ ReadCatalog \/ RecordResponse \/ Instruct
             \/ RecordCalls \/ StoreEvidence
      PROVE  TypeOK'
  <2>1. Stored'
    BY <1>0, <1>1, StatementTyped
       DEF Await, AddAgentRun, CreatePlan, ReadCatalog, RecordResponse, Instruct, RecordCalls, StoreEvidence
  <2> QED
    BY <1>1, <2>1
       DEF Await, AddAgentRun, CreatePlan, ReadCatalog, RecordResponse, Instruct, RecordCalls,
           StoreEvidence, Stored
<1>2. ASSUME RecordToolRun PROVE TypeOK'
  <2>1. Stored'
    BY <1>0, <1>2, StatementTyped DEF Await, RecordToolRun
  <2>2. Tail(batch) \in Seq(Call)
    BY <1>0, <1>2 DEF RecordToolRun, Await
  <2> QED
    BY <1>2, <2>1, <2>2 DEF RecordToolRun, Await, Stored
<1>3. ASSUME FinishRun PROVE TypeOK'
  <2>1. Stored'
    BY <1>0, <1>3, StatementTyped DEF FinishRun
  <2> QED
    BY <1>3, <2>1 DEF FinishRun, Stored
<1>4. ASSUME StartRound PROVE TypeOK'
  BY <1>4, <1>a, <1>b DEF StartRound, Stop, End, database
<1>c. ASSUME NEW kind \in {"structure", "citation"}, Correct(kind)
      PROVE  /\ corrections' \in [{"structure", "citation"} -> Nat]
             /\ finalization' = TRUE /\ pc' = "instruct" /\ UNCHANGED <<run, answer>>
  BY <1>c DEF Correct
<1>5. ASSUME ParseConclusion PROVE TypeOK'
  <2>0. UNCHANGED <<database, progress, outcome, expired, faults>>
    BY <1>5 DEF ParseConclusion
  <2>1. CASE Correct("structure")
    BY <1>c, <2>0, <2>1 DEF database
  <2>2. CASE Stop("inconclusive") /\ UNCHANGED policy
    BY <1>a, <1>b, <2>0, <2>2 DEF Stop, End, database
  <2>3. CASE pc' = "cite" /\ UNCHANGED <<run, answer, policy>>
    BY <2>0, <2>3 DEF database
  <2> QED
    BY <1>5, <2>1, <2>2, <2>3 DEF ParseConclusion
<1>6. ASSUME CheckCitations PROVE TypeOK'
  <2>1. response.conclusion \in Conclusions
    BY <1>6 DEF CheckCitations, Parsed
  <2>2. CASE Correct("citation")
    BY <1>6, <1>c, <2>2 DEF CheckCitations, database
  <2>3. CASE /\ UNCHANGED policy
             /\ \/ Stop("inconclusive")
                \/ End("inconclusive", response.conclusion, "finish")
                \/ End("completed", response.conclusion, "finish")
    BY <1>6, <1>a, <1>b, <2>1, <2>3 DEF CheckCitations, Stop, End, database
  <2> QED
    BY <1>6, <2>2, <2>3 DEF CheckCitations
<1>7. ASSUME AcceptCalls PROVE TypeOK'
  <2>1. Run!WithCalls(run, Len(response.calls)) \in RunRecord
    BY RunOperations
  <2>2. UNCHANGED <<database, response, result, failed, successes, adapter, policy,
                    outcome, expired, faults>>
    BY <1>7 DEF AcceptCalls
  <2>3. CASE Accept
    <3>1. /\ run' \in RunRecord /\ batch' \in Seq(Call) /\ readCode' \in BOOLEAN
          /\ pc' = "count" /\ answer' = answer
      BY <2>1, <2>3 DEF Accept
    <3> QED
      BY <2>2, <3>1 DEF database
  <2>4. CASE /\ Stop("inconclusive") \/ Stop("tool_budget_exhausted")
             /\ UNCHANGED <<batch, readCode>>
    BY <1>a, <1>b, <2>2, <2>4 DEF Stop, End, database
  <2> QED
    BY <1>7, <2>3, <2>4 DEF AcceptCalls
<1>8. ASSUME RefuseCall PROVE TypeOK'
  <2>0. Head(batch) \in Call
    BY <1>8 DEF RefuseCall
  <2>1. Head(batch).signature \in Signatures
    BY <2>0 DEF Call
  <2> QED
    BY <1>8, <2>1 DEF RefuseCall, Took, database, ToolRun
<1>9. ASSUME ExecuteTool PROVE TypeOK'
  <2>0. Head(batch) \in Call
    BY <1>9 DEF ExecuteTool
  <2>1. Head(batch).signature \in Signatures
    BY <2>0 DEF Call
  <2> QED
    BY <1>9, <2>1 DEF ExecuteTool, database
<1>10. ASSUME NEW status \in {"success", "failed", "timeout"}, ToolAnswers(status) PROVE TypeOK'
  <2>1. Head(batch).signature \in Signatures
    BY <1>0, <1>10 DEF ToolAnswers, Call, Executing
  <2>2. Yields[Head(batch).signature] \in SUBSET Items
    BY <2>1, Constants
  <2>3. adapter' \in Seq([signature : Signatures, status : {"running", "success", "failed", "timeout"}])
    <3> DEFINE Execution == [signature : Signatures, status : {"running", "success", "failed", "timeout"}]
    <3>1. adapter \in Seq(Execution) /\ adapter' = [adapter EXCEPT ![Len(adapter)].status = status]
      BY <1>10 DEF ToolAnswers
    <3>2. adapter # << >>
      BY <1>10 DEF ToolAnswers, ExecutionIsLast
    <3>3. adapter' \in Seq(Execution)
      <4> DEFINE last == adapter[Len(adapter)]
      <4>2. last \in Execution
        BY <3>1, <3>2, LastOfSeq
      <4>3. [last EXCEPT !.status = status] \in Execution
        BY <4>2
      <4>4. adapter' = [adapter EXCEPT ![Len(adapter)] = [last EXCEPT !.status = status]]
        BY <3>1
      <4>5. \A e \in Execution : [adapter EXCEPT ![Len(adapter)] = e] \in Seq(Execution)
        BY <3>1, <3>2, LastOfSeq
      <4> HIDE DEF Execution
      <4> QED
        BY <4>3, <4>4, <4>5, Zenon
    <3> QED
      BY <3>3
  <2> QED
    BY <1>10, <2>1, <2>2, <2>3 DEF ToolAnswers, Took, database, ToolRun
<1>11. ASSUME EndBatch PROVE TypeOK'
  BY <1>11 DEF EndBatch, database
<1>12. ASSUME CallIdRepeats \/ AwaitFails PROVE TypeOK'
  <2>1. Stored'
    BY <1>12, PartlyTyped DEF CallIdRepeats, AwaitFails, Stored, database
  <2> QED
    BY <1>12, <2>1, <1>a, <1>b DEF CallIdRepeats, AwaitFails, Handle, Leave, End, Stored
<1>13. ASSUME Cancel PROVE TypeOK'
  <2>1. Stored'
    BY <1>0, <1>13, StatementTyped, PartlyTyped DEF Cancel
  <2> QED
    BY <1>13, <2>1, <1>a, <1>b DEF Cancel, Handle, Leave, End, Stored
<1>14. ASSUME TimePasses \/ ModelTimesOut \/ ModelFails PROVE TypeOK'
  <2>1. CASE TimePasses
    BY <2>1 DEF TimePasses, database
  <2>2. CASE ModelTimesOut
    BY <2>2, <1>a, <1>b DEF ModelTimesOut, Stop, End, database
  <2>3. CASE ModelFails
    BY <2>3, <1>a, <1>b DEF ModelFails, Stop, End, database
  <2> QED
    BY <1>14, <2>1, <2>2, <2>3
<1>15. ASSUME ModelAnswers PROVE TypeOK'
  <2>1. /\ response'.calls \in Seq(Call)
        /\ response'.finish \in {"none", "tool_calls", "stop", "length", "content_filter"}
        /\ response'.conclusion \in Conclusions \union {Unparsed, NoConclusion}
    <3>1. CASE response' \in [calls : Batches, finish : {"tool_calls"}, conclusion : {NoConclusion}]
      BY <3>1, Constants
    <3>2. CASE response' \in [calls : {<<>>}, finish : {"stop", "length", "content_filter"},
                              conclusion : Conclusions \union {Unparsed}]
      <4>1. response'.calls = << >> /\ << >> \in Seq(Call)
        BY <3>2
      <4>2. /\ response'.finish \in {"stop", "length", "content_filter"}
            /\ response'.conclusion \in Conclusions \union {Unparsed}
        BY <3>2
      <4> QED
        BY <4>1, <4>2
    <3> QED
      BY <1>15, <3>1, <3>2 DEF ModelAnswers
  <2>2. Run!WithResponse(run) \in RunRecord
    BY RunOperations
  <2> QED
    BY <1>15, <2>1, <2>2 DEF ModelAnswers, database
<1>16. ASSUME Terminated PROVE TypeOK'
  BY <1>16 DEF Terminated, vars, database
<1>17. ASSUME OthersAdd PROVE TypeOK'
  <2>1. PICK e \in Foreign : evidence' = evidence \union {e} /\ elsewhere' = elsewhere \union {e}
    BY <1>17 DEF OthersAdd
  <2>2. evidence' \in SUBSET Items /\ elsewhere' \in SUBSET Foreign
    BY <2>1, Constants
  <2> QED
    BY <1>17, <2>2 DEF OthersAdd
<1> QED
  BY <1>1, <1>2, <1>3, <1>4, <1>5, <1>6, <1>7, <1>8, <1>9, <1>10, <1>11, <1>12, <1>13, <1>14,
     <1>15, <1>16, <1>17 DEF Next, Code, Timeouts, Environment

-----------------------------------------------------------------------------
(* How a step moves *)

\* The steps after which the loop goes on with the run, the calls and the tools as
\* they are: those that only save, read, decide or end.
Quiet ==
  /\ UNCHANGED <<response, adapter>>
  /\ run'.rounds = run.rounds /\ run'.calls = run.calls

\* Ending a run leaves its counters alone.
LEMMA EndIsQuiet ==
  ASSUME TypeOK, NEW reason, run' = Run!Finished(run, reason)
  PROVE  /\ run'.rounds = run.rounds /\ run'.calls = run.calls
         /\ run'.reason = reason /\ run'.status = Run!StatusOf(reason)
BY DEF TypeOK, RunRecord, Run!Finished

\* Every step but the five that deal with the model and the tools is quiet.
Talks == ModelAnswers \/ AcceptCalls \/ ExecuteTool \/ \E status \in {"success", "failed", "timeout"} : ToolAnswers(status)

Quits == pc' \in Finishing \union {"done"}

LEMMA QuietSteps ==
  ASSUME TypeOK, Next, ~Talks
  PROVE  Quiet
<1> USE DEF Quiet, progress, Talks
<1>1. ASSUME AddAgentRun \/ CreatePlan \/ ReadCatalog \/ RecordResponse \/ Instruct
             \/ RecordCalls \/ StoreEvidence \/ RecordToolRun \/ FinishRun \/ RefuseCall
             \/ EndBatch \/ TimePasses \/ OthersAdd \/ Terminated
      PROVE  Quiet
  BY <1>1 DEF AddAgentRun, CreatePlan, ReadCatalog, RecordResponse, Instruct, RecordCalls,
              StoreEvidence, RecordToolRun, FinishRun, RefuseCall, Took, EndBatch, TimePasses,
              OthersAdd, Terminated, vars
<1>2. ASSUME StartRound \/ ModelTimesOut \/ ModelFails PROVE Quiet
  BY <1>2, EndIsQuiet DEF StartRound, ModelTimesOut, ModelFails, Stop, End
<1>3. ASSUME ParseConclusion \/ CheckCitations PROVE Quiet
  BY <1>3, EndIsQuiet DEF ParseConclusion, CheckCitations, Correct, Stop, End
<1>4. ASSUME CallIdRepeats \/ AwaitFails \/ Cancel PROVE Quiet
  BY <1>4, EndIsQuiet DEF CallIdRepeats, AwaitFails, Cancel, Handle, Leave, End
<1> QED
  BY <1>1, <1>2, <1>3, <1>4 DEF Next, Code, Timeouts, Environment

\* Where the run can be after a step.
LEMMA Moves ==
  ASSUME TypeOK, Next
  PROVE  \/ pc' = pc
         \/ Quits
         \/ pc' = "model" /\ pc = "head" /\ run.rounds < MaxRounds
         \/ pc' = "record" /\ ModelAnswers
         \/ pc' = "decide" /\ pc = "record"
         \/ pc' = "cite" /\ ParseConclusion
         \/ pc' = "count" /\ AcceptCalls
         \/ pc' = "tool" /\ pc = "count" /\ UNCHANGED <<batch, failed>>
         \/ pc' = "tool" /\ RecordToolRun
         \/ pc' = "adapter" /\ ExecuteTool
         \/ pc' \in {"evidence", "tool_run"} /\ RefuseCall
         \/ pc' \in {"evidence", "tool_run"} /\ \E status \in {"success", "failed", "timeout"} : ToolAnswers(status)
         \/ pc' = "tool_run" /\ StoreEvidence
         \/ /\ pc' \in {"plan", "catalog", "head", "instruct"}
            /\ pc \in {"add", "plan", "catalog", "instruct", "decide", "cite", "tool"}
<1> USE DEF Quits, Finishing, progress
<1>1. ASSUME AddAgentRun \/ CreatePlan \/ ReadCatalog \/ RecordResponse \/ Instruct
             \/ RecordCalls \/ StoreEvidence \/ RecordToolRun
      PROVE  \/ /\ pc' \in {"plan", "catalog", "head"}
                /\ pc \in {"add", "plan", "catalog", "instruct"}
             \/ pc' = "decide" /\ pc = "record"
             \/ pc' = "tool" /\ pc = "count" /\ UNCHANGED <<batch, failed>>
             \/ pc' = "tool_run" /\ StoreEvidence
             \/ pc' = "tool" /\ RecordToolRun
  BY <1>1 DEF Await, AddAgentRun, CreatePlan, ReadCatalog, RecordResponse, Instruct, RecordCalls,
              StoreEvidence, RecordToolRun
<1>2. ASSUME FinishRun PROVE Quits
  BY <1>2 DEF FinishRun
<1>3. ASSUME StartRound PROVE Quits \/ (pc' = "model" /\ pc = "head" /\ run.rounds < MaxRounds)
  BY <1>3 DEF StartRound, Stop, End
<1>4. ASSUME ParseConclusion PROVE Quits \/ (pc' \in {"instruct", "cite"} /\ pc = "decide")
  BY <1>4 DEF ParseConclusion, Correct, Stop, End
<1>5. ASSUME CheckCitations PROVE Quits \/ (pc' = "instruct" /\ pc = "cite")
  BY <1>5 DEF CheckCitations, Correct, Stop, End
<1>6. ASSUME AcceptCalls PROVE Quits \/ pc' = "count"
  BY <1>6 DEF AcceptCalls, Accept, Stop, End
<1>7. ASSUME RefuseCall PROVE pc' \in {"evidence", "tool_run"}
  BY <1>7 DEF RefuseCall, Took
<1>8. ASSUME ExecuteTool PROVE pc' = "adapter"
  BY <1>8 DEF ExecuteTool
<1>9. ASSUME NEW status \in {"success", "failed", "timeout"}, ToolAnswers(status)
      PROVE  pc' \in {"evidence", "tool_run"}
  BY <1>9 DEF ToolAnswers, Took
<1>10. ASSUME EndBatch PROVE pc' \in {"instruct", "head"} /\ pc = "tool"
  BY <1>10 DEF EndBatch
<1>11. ASSUME CallIdRepeats \/ AwaitFails \/ Cancel PROVE Quits
  BY <1>11 DEF CallIdRepeats, AwaitFails, Cancel, Handle, Leave, End
<1>12. ASSUME ModelTimesOut \/ ModelFails PROVE Quits
  BY <1>12 DEF ModelTimesOut, ModelFails, Stop, End
<1>13. ASSUME ModelAnswers PROVE pc' = "record"
  BY <1>13 DEF ModelAnswers
<1>14. ASSUME TimePasses \/ OthersAdd \/ Terminated PROVE pc' = pc
  BY <1>14 DEF TimePasses, OthersAdd, Terminated, vars
<1> QED
  BY <1>1, <1>2, <1>3, <1>4, <1>5, <1>6, <1>7, <1>8, <1>9, <1>10, <1>11, <1>12, <1>13, <1>14
     DEF Next, Code, Timeouts, Environment

\* What stays where it is keeps its batch and what failed.
LEMMA StaysPut ==
  ASSUME TypeOK, Next, pc' = pc
  PROVE  UNCHANGED <<run, response, batch, adapter, failed, row, result, successes, toolRuns, answer>>
<1>1. TimePasses \/ OthersAdd \/ Terminated
  <2>1. ASSUME AddAgentRun \/ CreatePlan \/ ReadCatalog \/ RecordResponse \/ Instruct
             \/ RecordCalls \/ StoreEvidence \/ RecordToolRun
        PROVE FALSE
    BY <2>1 DEF Await, AddAgentRun, CreatePlan, ReadCatalog, RecordResponse, Instruct, RecordCalls,
              StoreEvidence, RecordToolRun
  <2>2. ASSUME StartRound \/ ParseConclusion \/ CheckCitations \/ AcceptCalls \/ ModelTimesOut \/ ModelFails
        PROVE FALSE
    BY <2>2 DEF StartRound, ParseConclusion, CheckCitations, AcceptCalls, Accept, Correct, Stop, End,
                ModelTimesOut, ModelFails
  <2>3. ASSUME RefuseCall \/ ExecuteTool \/ EndBatch \/ FinishRun \/ ModelAnswers PROVE FALSE
    BY <2>3 DEF RefuseCall, Took, ExecuteTool, EndBatch, FinishRun, Finishing, ModelAnswers
  <2>4. ASSUME NEW status \in {"success", "failed", "timeout"}, ToolAnswers(status) PROVE FALSE
    BY <2>4 DEF ToolAnswers, Took
  <2>5. ASSUME CallIdRepeats \/ AwaitFails \/ Cancel PROVE FALSE
    BY <2>5 DEF CallIdRepeats, AwaitFails, Cancel, Handle, Leave, End, Awaits, Unguarded, Guarded, Finishing
  <2> QED
    BY <2>1, <2>2, <2>3, <2>4, <2>5 DEF Next, Code, Timeouts, Environment
<1> QED
  BY <1>1 DEF TimePasses, OthersAdd, Terminated, vars, progress, database

-----------------------------------------------------------------------------
(* Budgets *)

LEMMA StaysParsed == ASSUME TypeOK, Parsed, Next PROVE Parsed'
<1> USE DEF Parsed
<1>1. CASE pc' = pc
  BY <1>1, StaysPut
<1>2. CASE pc' = "record" /\ ModelAnswers
  <2>1. \/ response' \in [calls : Batches, finish : {"tool_calls"}, conclusion : {NoConclusion}]
        \/ response' \in [calls : {<<>>}, finish : {"stop", "length", "content_filter"},
                          conclusion : Conclusions \union {Unparsed}]
    BY <1>2 DEF ModelAnswers
  <2>2. response'.calls = <<>> => response'.conclusion \in Conclusions \union {Unparsed}
    BY <2>1, Constants
  <2> QED
    BY <1>2, <2>2
<1>3. CASE pc' = "decide" /\ pc = "record"
  <2>1. ~Talks
    BY <1>3 DEF Talks, ModelAnswers, AcceptCalls, ExecuteTool, ToolAnswers
  <2> QED
    BY <1>3, <2>1, QuietSteps DEF Quiet
<1>4. CASE pc' = "cite" /\ ParseConclusion
  BY <1>4 DEF ParseConclusion, Correct, Stop, End, progress
<1> QED
  BY <1>1, <1>2, <1>3, <1>4, Moves DEF Quits, Finishing

LEMMA Counters ==
  ASSUME TypeOK
  PROVE  /\ run.rounds \in Nat /\ run.calls \in Nat
         /\ Len(adapter) \in Nat /\ Len(batch) \in Nat /\ Len(response.calls) \in Nat
BY DEF TypeOK, RunRecord

LEMMA BudgetsStayLeft ==
  ASSUME TypeOK, BudgetsLeft, BudgetsRespected, Next
  PROVE  BudgetsLeft'
<1> USE Counters, Constants DEF BudgetsLeft, Executing
<1>1. CASE pc' = pc
  BY <1>1, StaysPut
<1>2. CASE pc' = "model" /\ pc = "head" /\ run.rounds < MaxRounds
  <2>1. run'.rounds = run.rounds
    BY <1>2, QuietSteps DEF Quiet, Talks, ModelAnswers, AcceptCalls, ExecuteTool, ToolAnswers
  <2> QED
    BY <1>2, <2>1
<1>3. CASE pc' = "count" /\ AcceptCalls
  <2>1. run'.calls = run.calls + Len(response.calls) /\ batch' = response.calls /\ adapter' = adapter
    BY <1>3 DEF AcceptCalls, Accept, Stop, End, Run!WithCalls, TypeOK, RunRecord
  <2>2. Len(response.calls) > 0
    BY <1>3, EmptySeq DEF AcceptCalls, TypeOK
  <2> QED
    BY <1>3, <2>1, <2>2 DEF BudgetsRespected
<1>4. CASE pc' = "tool" /\ pc = "count" /\ UNCHANGED <<batch, failed>>
  <2>1. run'.calls = run.calls /\ adapter' = adapter
    BY <1>4, QuietSteps DEF Quiet, Talks, ModelAnswers, AcceptCalls, ExecuteTool, ToolAnswers
  <2> QED
    BY <1>4, <2>1
<1>5. CASE pc' = "tool" /\ RecordToolRun
  <2>1. run'.calls = run.calls /\ adapter' = adapter /\ pc = "tool_run" /\ batch' = Tail(batch)
    BY <1>5 DEF RecordToolRun, Await
  <2>2. Len(Tail(batch)) = Len(batch) - 1
    BY <2>1, HeadTailProperties DEF TypeOK
  <2> QED
    BY <1>5, <2>1, <2>2
<1>6. CASE pc' = "adapter" /\ ExecuteTool
  <2>1. run'.calls = run.calls /\ batch' = batch /\ batch # << >> /\ pc = "tool" /\ Len(adapter') = Len(adapter) + 1
    BY <1>6 DEF ExecuteTool, TypeOK
  <2> QED
    BY <1>6, <2>1
<1>7. CASE pc' \in {"evidence", "tool_run"} /\ RefuseCall
  <2>1. run'.calls = run.calls /\ batch' = batch /\ batch # << >> /\ pc = "tool" /\ adapter' = adapter
    BY <1>7 DEF RefuseCall, Took
  <2> QED
    BY <1>7, <2>1
<1>8. CASE pc' \in {"evidence", "tool_run"} /\ \E status \in {"success", "failed", "timeout"} : ToolAnswers(status)
  <2>1. run'.calls = run.calls /\ batch' = batch /\ pc = "adapter" /\ Len(adapter') = Len(adapter)
    BY <1>8 DEF ToolAnswers, Took, TypeOK
  <2> QED
    BY <1>8, <2>1
<1>9. CASE pc' = "tool_run" /\ StoreEvidence
  <2>1. run'.calls = run.calls /\ batch' = batch /\ pc = "evidence" /\ adapter' = adapter
    BY <1>9 DEF StoreEvidence, Await, progress
  <2> QED
    BY <1>9, <2>1
<1>10. CASE pc' \notin {"model", "count", "tool", "adapter", "evidence", "tool_run"}
  BY <1>10
<1> QED
  BY <1>1, <1>2, <1>3, <1>4, <1>5, <1>6, <1>7, <1>8, <1>9, <1>10, Moves DEF Quits, Finishing

LEMMA CorrectionsBounded ==
  ASSUME TypeOK, BudgetsRespected, Next
  PROVE  corrections'.structure <= 1 /\ corrections'.citation <= 2
<1> USE DEF BudgetsRespected
<1>1. ASSUME UNCHANGED corrections PROVE corrections'.structure <= 1 /\ corrections'.citation <= 2
  BY <1>1
<1>2. CASE ParseConclusion
  BY <1>1, <1>2 DEF ParseConclusion, Correct, policy, TypeOK
<1>3. CASE CheckCitations
  BY <1>1, <1>3 DEF CheckCitations, Correct, policy, TypeOK
<1>4. CASE ~ParseConclusion /\ ~CheckCitations
  <2>1. UNCHANGED corrections
    BY <1>4 DEF Next, Code, Timeouts, Environment, Terminated, vars, policy,
                AddAgentRun, CreatePlan, ReadCatalog, StartRound, RecordResponse, Instruct,
                AcceptCalls, RecordCalls, RefuseCall, ExecuteTool, StoreEvidence, RecordToolRun,
                CallIdRepeats, EndBatch, FinishRun, TimePasses, ModelTimesOut, ToolAnswers,
                ModelAnswers, ModelFails, AwaitFails, Cancel, OthersAdd
  <2> QED
    BY <1>1, <2>1
<1> QED
  BY <1>2, <1>3, <1>4

LEMMA BudgetsHold ==
  ASSUME TypeOK, BudgetsLeft, BudgetsRespected, Next
  PROVE  BudgetsRespected'
<1> USE Counters, Constants
<1> DEFINE Goal == run'.rounds <= MaxRounds /\ Len(adapter') <= run'.calls /\ run'.calls <= MaxToolCalls
<1>1. CASE ~Talks
  BY <1>1, QuietSteps, CorrectionsBounded DEF Quiet, BudgetsRespected
<1>2. CASE ModelAnswers
  <2>1. run'.rounds = run.rounds + 1 /\ run'.calls = run.calls /\ adapter' = adapter /\ run.rounds < MaxRounds
    BY <1>2 DEF ModelAnswers, Run!WithResponse, BudgetsLeft, TypeOK, RunRecord
  <2>2. Goal
    BY <2>1 DEF BudgetsRespected
  <2> QED
    BY <2>2, CorrectionsBounded DEF BudgetsRespected
<1>3. CASE AcceptCalls
  <2>1. CASE Accept
    <3>1. run'.calls = run.calls + Len(response.calls) /\ run'.rounds = run.rounds /\ adapter' = adapter
      BY <1>3, <2>1 DEF AcceptCalls, Accept, Run!WithCalls, TypeOK, RunRecord
    <3>2. pc' = "count"
      BY <2>1 DEF Accept
    <3>3. run.calls + Len(response.calls) <= MaxToolCalls
      BY <1>3, <3>2 DEF AcceptCalls, Stop, End
    <3>4. Goal
      BY <3>1, <3>3 DEF BudgetsRespected
    <3> QED
      BY <3>4, CorrectionsBounded DEF BudgetsRespected
  <2>2. CASE \E reason \in Run!Reasons : Stop(reason)
    <3>1. run'.rounds = run.rounds /\ run'.calls = run.calls /\ adapter' = adapter
      BY <1>3, <2>2, EndIsQuiet DEF AcceptCalls, Stop, End
    <3> QED
      BY <3>1, CorrectionsBounded DEF BudgetsRespected
  <2> QED
    BY <1>3, <2>1, <2>2 DEF AcceptCalls, Run!Reasons
<1>4. CASE ExecuteTool
  <2>1. run' = run /\ Len(adapter') = Len(adapter) + 1 /\ pc = "tool" /\ batch # << >>
    BY <1>4 DEF ExecuteTool, TypeOK
  <2>2. Len(batch) > 0
    BY <2>1, EmptySeq DEF TypeOK
  <2>3. Goal
    BY <2>1, <2>2 DEF BudgetsLeft, BudgetsRespected
  <2> QED
    BY <2>3, CorrectionsBounded DEF BudgetsRespected
<1>5. CASE \E status \in {"success", "failed", "timeout"} : ToolAnswers(status)
  <2>1. run' = run /\ Len(adapter') = Len(adapter)
    BY <1>5 DEF ToolAnswers, TypeOK
  <2> QED
    BY <2>1, CorrectionsBounded DEF BudgetsRespected
<1> QED
  BY <1>1, <1>2, <1>3, <1>4, <1>5 DEF Talks

-----------------------------------------------------------------------------
(* Repeated calls *)

LEMMA LastExecution == ASSUME TypeOK, ExecutionIsLast, Next PROVE ExecutionIsLast'
<1> USE DEF ExecutionIsLast
<1>1. CASE pc' = pc
  BY <1>1, StaysPut
<1>2. CASE pc' = "adapter" /\ ExecuteTool
  <2>1. adapter' = Append(adapter, [signature |-> Head(batch).signature, status |-> "running"])
        /\ batch' = batch
    BY <1>2 DEF ExecuteTool
  <2>2. /\ Len(adapter') = Len(adapter) + 1 /\ Len(adapter) \in Nat
        /\ adapter'[Len(adapter) + 1] = [signature |-> Head(batch).signature, status |-> "running"]
    BY <2>1 DEF TypeOK
  <2>3. adapter'[Len(adapter')].signature = Head(batch').signature
    BY <2>1, <2>2
  <2>4. adapter' # << >>
    BY <2>2
  <2> QED
    BY <2>3, <2>4
<1> QED
  BY <1>1, <1>2, Moves DEF Quits, Finishing

\* An execution that gets its answer: nothing else in the history changes.
LEMMA Answered ==
  ASSUME TypeOK, ExecutionIsLast, NEW status \in {"success", "failed", "timeout"}, ToolAnswers(status)
  PROVE  /\ Len(adapter') = Len(adapter) /\ DOMAIN adapter' = DOMAIN adapter
         /\ DOMAIN adapter = 1..Len(adapter) /\ Len(adapter) \in Nat \ {0}
         /\ \A i \in DOMAIN adapter : i # Len(adapter) => adapter'[i] = adapter[i]
         /\ adapter'[Len(adapter)].status = status
         /\ adapter'[Len(adapter)].signature = Head(batch).signature
         /\ failed \subseteq failed'
         /\ status # "success" => Head(batch).signature \in failed'
         /\ pc = "adapter"
<1>1. /\ pc = "adapter" /\ adapter' = [adapter EXCEPT ![Len(adapter)].status = status]
      /\ adapter # << >> /\ adapter[Len(adapter)].signature = Head(batch).signature
      /\ failed' = IF status = "success" THEN failed ELSE failed \union {Head(batch).signature}
  BY DEF ToolAnswers, Took, ExecutionIsLast
<1>2. Len(adapter) \in 1..Len(adapter) /\ DOMAIN adapter = 1..Len(adapter) /\ Len(adapter) \in Nat \ {0}
  BY <1>1, EmptySeq DEF TypeOK
<1>3. adapter[Len(adapter)] \in [signature : Signatures, status : {"running", "success", "failed", "timeout"}]
  BY <1>2, ElementOfSeq DEF TypeOK
<1>4. DOMAIN adapter' = DOMAIN adapter /\ Len(adapter') = Len(adapter)
  BY <1>1, <1>2 DEF TypeOK
<1>5. adapter'[Len(adapter)] = [adapter[Len(adapter)] EXCEPT !.status = status]
  BY <1>1, <1>2
<1> QED
  BY <1>1, <1>2, <1>3, <1>4, <1>5

LEMMA FailuresStayRemembered ==
  ASSUME TypeOK, ExecutionIsLast, FailuresRemembered, Next
  PROVE  FailuresRemembered'
<1> USE DEF FailuresRemembered
<1>1. CASE Quits
  BY <1>1 DEF Quits, Going, Finishing, Unguarded, Guarded
<1>2. CASE ExecuteTool
  <2>1. /\ adapter' = Append(adapter, [signature |-> Head(batch).signature, status |-> "running"])
        /\ failed' = failed /\ pc' = "adapter" /\ pc = "tool"
    BY <1>2 DEF ExecuteTool
  <2>2. /\ Len(adapter) \in Nat /\ DOMAIN adapter = 1..Len(adapter) /\ Len(adapter') = Len(adapter) + 1
        /\ DOMAIN adapter' = 1..(Len(adapter) + 1) /\ \A i \in 1..Len(adapter) : adapter'[i] = adapter[i]
    BY <2>1 DEF TypeOK
  <2>3. \A i \in DOMAIN adapter : adapter[i].status = "success" \/ adapter[i].signature \in failed
    BY <2>1 DEF Going
  <2> QED
    BY <2>1, <2>2, <2>3
<1>3. CASE \E status \in {"success", "failed", "timeout"} : ToolAnswers(status)
  <2>1. PICK status \in {"success", "failed", "timeout"} : ToolAnswers(status)
    BY <1>3
  <2>2. \A i \in DOMAIN adapter : i # Len(adapter) =>
          adapter[i].status = "success" \/ adapter[i].signature \in failed
    BY <2>1, Answered DEF Going, Guarded
  <2> QED
    BY <2>1, <2>2, Answered
<1>4. CASE ~Quits /\ ~ExecuteTool /\ ~\E status \in {"success", "failed", "timeout"} : ToolAnswers(status)
  <2>1. adapter' = adapter
    BY <1>4, QuietSteps DEF Quiet, Talks, ModelAnswers, AcceptCalls
  <2>2. failed \subseteq failed'
    <3>1. CASE RefuseCall
      BY <3>1 DEF RefuseCall, Took
    <3>2. CASE ~RefuseCall
      BY <1>4, <3>2 DEF Next, Code, Timeouts, Environment, Terminated, vars, progress,
                AddAgentRun, CreatePlan, ReadCatalog, StartRound, RecordResponse, ParseConclusion,
                CheckCitations, Instruct,
                AcceptCalls, RecordCalls, ExecuteTool, StoreEvidence, RecordToolRun,
                CallIdRepeats, EndBatch, FinishRun, TimePasses, ModelTimesOut,
                ModelAnswers, ModelFails, AwaitFails, Cancel, OthersAdd
    <3> QED
      BY <3>1, <3>2
  <2>3. pc' = pc \/ pc # "adapter"
    BY <1>4, Moves DEF ParseConclusion, AcceptCalls, ModelAnswers, RefuseCall, RecordToolRun, Await, StoreEvidence
  <2>4. pc' \in Going => pc \in Going
    BY <1>4, Moves DEF Going, Unguarded, Guarded, ParseConclusion, AcceptCalls, ModelAnswers,
                       RefuseCall, RecordToolRun, Await, StoreEvidence
  <2> QED
    BY <2>1, <2>2, <2>3, <2>4
<1> QED
  BY <1>1, <1>2, <1>3, <1>4

LEMMA NeverRepeated ==
  ASSUME TypeOK, ExecutionIsLast, FailuresRemembered, FailedCallNotRepeated, Next
  PROVE  FailedCallNotRepeated'
<1> USE DEF FailedCallNotRepeated
<1>1. CASE ExecuteTool
  <2>1. /\ adapter' = Append(adapter, [signature |-> Head(batch).signature, status |-> "running"])
        /\ pc = "tool" /\ Head(batch).signature \notin failed
    BY <1>1 DEF ExecuteTool
  <2>2. /\ Len(adapter) \in Nat /\ DOMAIN adapter = 1..Len(adapter)
        /\ DOMAIN adapter' = 1..(Len(adapter) + 1) /\ \A i \in 1..Len(adapter) : adapter'[i] = adapter[i]
        /\ adapter'[Len(adapter) + 1].signature = Head(batch).signature
    BY <2>1 DEF TypeOK
  <2>3. \A i \in DOMAIN adapter :
          adapter[i].signature = Head(batch).signature => adapter[i].status = "success"
    BY <2>1 DEF FailuresRemembered, Going
  <2> QED
    BY <2>2, <2>3
<1>2. CASE \E status \in {"success", "failed", "timeout"} : ToolAnswers(status)
  <2>1. PICK status \in {"success", "failed", "timeout"} : ToolAnswers(status)
    BY <1>2
  <2>2. \A i \in DOMAIN adapter : adapter'[i].signature = adapter[i].signature
    BY <2>1, Answered DEF ExecutionIsLast
  <2> QED
    BY <2>1, <2>2, Answered
<1>3. CASE ~ExecuteTool /\ ~\E status \in {"success", "failed", "timeout"} : ToolAnswers(status)
  <2>1. adapter' = adapter
    BY <1>3, QuietSteps DEF Quiet, Talks, ModelAnswers, AcceptCalls
  <2> QED
    BY <2>1
<1> QED
  BY <1>1, <1>2, <1>3

LEMMA LoopStarts == Init => Inv
<1> SUFFICES ASSUME Init PROVE Inv
  OBVIOUS
<1>1. pc = "add" /\ adapter = << >>
  BY DEF Init
<1>2. BudgetsRespected
  BY Constants DEF BudgetsRespected, Init, Run!Started, Run!NoRun
<1> QED
  BY <1>1, <1>2, InitTyped
     DEF Inv, Parsed, BudgetsLeft, Executing, FailedCallNotRepeated, FailuresRemembered, ExecutionIsLast

LEMMA LoopInvariant == Spec => []Inv
<1>1. ASSUME Inv, Next PROVE Inv'
  BY <1>1, StaysTyped, StaysParsed, BudgetsHold, BudgetsStayLeft, NeverRepeated,
     FailuresStayRemembered, LastExecution DEF Inv
<1>2. ASSUME Inv, UNCHANGED vars PROVE Inv'
  <2>1. TypeOK'
    BY <1>2 DEF Inv, TypeOK, vars, database, progress, policy
  <2>2. Parsed' /\ BudgetsRespected' /\ BudgetsLeft'
    BY <1>2 DEF Inv, Parsed, BudgetsRespected, BudgetsLeft, vars, progress, policy
  <2>3. FailedCallNotRepeated' /\ FailuresRemembered' /\ ExecutionIsLast'
    BY <1>2 DEF Inv, FailedCallNotRepeated, FailuresRemembered, ExecutionIsLast, vars, progress
  <2> QED
    BY <2>1, <2>2, <2>3 DEF Inv
<1> QED
  BY LoopStarts, <1>1, <1>2, PTL DEF Spec

-----------------------------------------------------------------------------
(* The row of the run *)

\* The row is the run, or what the run was before what it is about to save.
RowFollows ==
  /\ pc = "add" => row = Run!NoRun /\ run = Run!Started
  /\ pc \in Going \ {"add", "record", "count"} => row = run
  /\ pc \in Going => run.status = "running" /\ run.reason = "none"
  /\ pc \in {"record", "count"} \union Finishing =>
       /\ row.status = "running" /\ row.reason = "none"
       /\ run.rounds \in {row.rounds, row.rounds + 1} /\ row.calls <= run.calls
  /\ pc \in Finishing => run.reason \in Run!Reasons /\ run.status = Run!StatusOf(run.reason)

\* A run that ends keeps what its row has to learn.
LEMMA EndFollows ==
  ASSUME TypeOK, RowFollows, pc \in Going \ {"add"}, NEW reason \in Run!Reasons,
         run' = Run!Finished(run, reason), row' = row, pc' \in Finishing
  PROVE  RowFollows'
<1>1. /\ row.status = "running" /\ row.reason = "none"
      /\ run.rounds \in {row.rounds, row.rounds + 1} /\ row.calls <= run.calls
  BY DEF RowFollows, TypeOK, RunRecord
<1>2. run'.rounds = run.rounds /\ run'.calls = run.calls
      /\ run'.reason = reason /\ run'.status = Run!StatusOf(reason)
  BY EndIsQuiet
<1> QED
  BY <1>1, <1>2 DEF RowFollows, Going, Finishing, Unguarded, Guarded

LEMMA RowKeepsUp ==
  ASSUME TypeOK, RowFollows, Next
  PROVE  RowFollows' /\ [Run!Next]_row
<1> DEFINE Goal == RowFollows' /\ [Run!Next]_row
<1>r. /\ "max_rounds_reached" \in Run!Reasons /\ "time_budget_exhausted" \in Run!Reasons
      /\ "tool_budget_exhausted" \in Run!Reasons /\ "inconclusive" \in Run!Reasons
      /\ "completed" \in Run!Reasons /\ "model_error" \in Run!Reasons
      /\ "internal_error" \in Run!Reasons /\ "cancelled" \in Run!Reasons
  BY DEF Run!Reasons
<1>s. ASSUME pc = "add", row' = run, run' = run, pc' \in {"plan", "done"} PROVE Goal
  BY <1>s DEF RowFollows, Run!Next, Run!Start, Going, Finishing, Unguarded, Guarded, Run!Started, Run!NoRun
<1>w. ASSUME pc \in Going \ {"add"}, row' = run, run' = run, pc' \in (Going \ {"add", "record", "count"}) \union {"done"}
      PROVE  Goal
  <2>1. Run!Grow("running", "none")
    BY <1>w DEF Run!Grow, RowFollows, TypeOK, RunRecord, Going, Finishing, Unguarded, Guarded
  <2>2. RowFollows'
    BY <1>w DEF RowFollows, Going, Finishing, Unguarded, Guarded
  <2> QED
    BY <2>1, <2>2 DEF Run!Next, Run!Work
<1>f. ASSUME pc \in Finishing, row' = run, run' = run, pc' = "done" PROVE Goal
  <2>1. Run!Grow(Run!StatusOf(run.reason), run.reason) /\ run.reason \in Run!Reasons
    BY <1>f DEF Run!Grow, RowFollows, TypeOK, RunRecord
  <2>2. RowFollows'
    BY <1>f DEF RowFollows, Going, Finishing, Unguarded, Guarded
  <2> QED
    BY <2>1, <2>2 DEF Run!Next, Run!Finish
<1>k. ASSUME row' = row, run' = run, pc \in Going \ {"add", "record", "count"},
             pc' \in (Going \ {"add", "record", "count"}) \union {"done"}
      PROVE  Goal
  BY <1>k DEF RowFollows, Going, Finishing, Unguarded, Guarded
<1>d. ASSUME row' = row, pc' = "done" PROVE Goal
  BY <1>d DEF RowFollows, Going, Finishing, Unguarded, Guarded
<1>1. CASE AddAgentRun
  BY <1>1, <1>s DEF AddAgentRun, Await, Statement, Saving, SaveRun
<1>2. CASE CreatePlan \/ ReadCatalog \/ Instruct \/ StoreEvidence \/ RecordToolRun
  <2>1. row' = row /\ run' = run
    BY <1>2 DEF CreatePlan, ReadCatalog, Instruct, StoreEvidence, RecordToolRun, Await, Statement, Saving,
                AddToolRun, database
  <2> QED
    BY <1>2, <1>k, <2>1 DEF CreatePlan, ReadCatalog, Instruct, StoreEvidence, RecordToolRun, Await,
                            Going, Unguarded, Guarded
<1>3. CASE RecordResponse \/ RecordCalls
  <2>1. row' = run /\ run' = run
    BY <1>3 DEF RecordResponse, RecordCalls, Await, Statement, Saving, SaveRun
  <2> QED
    BY <1>3, <1>w, <2>1 DEF RecordResponse, RecordCalls, Await, Going, Unguarded, Guarded
<1>4. CASE FinishRun
  BY <1>4, <1>f DEF FinishRun, Statement, Saving, SaveRun, Finishing
<1>5. CASE StartRound \/ ParseConclusion \/ CheckCitations \/ AcceptCalls \/ ModelTimesOut \/ ModelFails
  <2>1. row' = row /\ pc \in {"head", "decide", "cite", "model"}
    BY <1>5 DEF StartRound, ParseConclusion, CheckCitations, AcceptCalls, ModelTimesOut, ModelFails, database
  <2>2. CASE AcceptCalls /\ Accept
    <3>1. run' = Run!WithCalls(run, Len(response.calls)) /\ pc' = "count" /\ row = run
      BY <2>1, <2>2 DEF Accept, RowFollows, Going, Guarded
    <3>2. Len(response.calls) \in Nat
      BY Counters
    <3> QED
      BY <2>1, <3>1, <3>2 DEF RowFollows, Run!WithCalls, TypeOK, RunRecord, Going, Finishing, Unguarded, Guarded
  <2>3. CASE run' = run /\ pc' \in {"model", "instruct", "cite"}
    BY <1>k, <2>1, <2>3 DEF Going, Guarded, Unguarded
  <2>4. CASE \E reason \in Run!Reasons : run' = Run!Finished(run, reason) /\ pc' = "finish"
    BY <2>1, <2>4, EndFollows DEF Going, Guarded, Unguarded, Finishing
  <2> QED
    BY <1>5, <1>r, <2>2, <2>3, <2>4 DEF StartRound, ParseConclusion, CheckCitations, AcceptCalls,
       ModelTimesOut, ModelFails, Correct, Stop, End
<1>6. CASE ModelAnswers
  <2>1. row' = row /\ row = run /\ run' = Run!WithResponse(run) /\ pc' = "record"
    BY <1>6 DEF ModelAnswers, database, RowFollows, Going, Guarded
  <2> QED
    BY <1>6, <2>1 DEF ModelAnswers, RowFollows, Run!WithResponse, TypeOK, RunRecord, Going, Finishing, Unguarded, Guarded
<1>7. CASE RefuseCall \/ ExecuteTool \/ EndBatch \/ \E status \in {"success", "failed", "timeout"} : ToolAnswers(status)
  <2>1. row' = row /\ run' = run /\ pc \in {"tool", "adapter"}
        /\ pc' \in {"tool_run", "evidence", "adapter", "instruct", "head"}
    BY <1>7 DEF RefuseCall, ExecuteTool, EndBatch, ToolAnswers, Took, database
  <2> QED
    BY <1>k, <2>1 DEF Going, Guarded, Unguarded
<1>8. CASE CallIdRepeats \/ AwaitFails
  <2>1. row' = row
    BY <1>8, PartlyKeeps DEF CallIdRepeats, AwaitFails, database
  <2>2. CASE pc' = "done"
    BY <1>d, <2>1, <2>2
  <2>3. CASE pc \in Guarded
    <3>1. run' = Run!Finished(run, "internal_error") /\ pc' = "finish_error"
      BY <1>8, <2>3 DEF CallIdRepeats, AwaitFails, Handle, End
    <3> QED
      BY <1>r, <2>1, <2>3, <3>1, EndFollows DEF Going, Finishing, Guarded
  <2> QED
    BY <1>8, <2>2, <2>3 DEF CallIdRepeats, AwaitFails, Handle, Leave
<1>9. CASE Cancel
  <2>1. row' = row \/ (row' = run /\ pc \in Saving)
    BY <1>9, PartlyKeeps DEF Cancel, Statement, SaveRun, AddToolRun, database
  <2>2. CASE pc \in Guarded
    <3>1. run' = Run!Finished(run, "cancelled") /\ pc' = "finish_cancelled"
      BY <1>9, <2>2 DEF Cancel, Handle, End
    <3>2. CASE row' = row
      BY <1>r, <2>2, <3>1, <3>2, EndFollows DEF Going, Finishing, Guarded
    <3>3. CASE row' = run /\ pc \in {"record", "count"}
      <4>1. Run!Grow("running", "none")
        BY <3>3 DEF Run!Grow, RowFollows, TypeOK, RunRecord, Going, Guarded
      <4>2. run'.rounds = run.rounds /\ run'.calls = run.calls
            /\ run'.reason = "cancelled" /\ run'.status = Run!StatusOf("cancelled")
        BY <3>1, EndIsQuiet
      <4>3. run.status = "running" /\ run.reason = "none" /\ run.rounds \in Nat /\ run.calls \in Nat
        BY <3>3 DEF RowFollows, Going, Guarded, TypeOK, RunRecord
      <4>4. RowFollows'
        BY <1>r, <3>1, <3>3, <4>2, <4>3 DEF RowFollows, Going, Finishing, Guarded, Unguarded
      <4> QED
        BY <4>1, <4>4 DEF Run!Next, Run!Work
    <3> QED
      BY <2>1, <2>2, <3>2, <3>3 DEF Saving, Guarded
  <2>3. CASE pc \notin Guarded
    <3>1. pc' = "done" /\ run' = run
      BY <1>9, <2>3 DEF Cancel, Handle, Leave
    <3>2. CASE row' = row
      BY <1>d, <3>1, <3>2
    <3>3. CASE row' = run /\ pc = "add"
      BY <1>s, <3>1, <3>3
    <3>4. CASE row' = run /\ pc \in Finishing
      BY <1>f, <3>1, <3>4
    <3> QED
      BY <2>1, <2>3, <3>2, <3>3, <3>4 DEF Saving, Guarded, Finishing
  <2> QED
    BY <2>2, <2>3
<1>10. CASE TimePasses \/ OthersAdd \/ Terminated
  BY <1>10 DEF TimePasses, OthersAdd, Terminated, vars, database, RowFollows
<1> QED
  BY <1>1, <1>2, <1>3, <1>4, <1>5, <1>6, <1>7, <1>8, <1>9, <1>10
     DEF Next, Code, Timeouts, Environment

-----------------------------------------------------------------------------
(* What supports a conclusion *)

SomeCall == \E id \in CallIds : toolRuns[id] # NoToolRun
SomeSuccess == \E id \in CallIds : toolRuns[id].status = "success"

\* Recorded calls were counted, and successes are recorded or about to be.
CallsCounted == SomeCall => run.calls > 0

SuccessesRecorded ==
  pc \in Going /\ successes > 0 =>
    SomeSuccess \/ (pc \in {"evidence", "tool_run"} /\ result.status = "success")

Accepted ==
  run.reason = "completed" =>
    /\ answer \in Conclusions /\ Violations(answer, evidence) = {}
    /\ SomeCall => SomeSuccess

\* Of the run only two statements touch the calls and the evidence, and nobody
\* removes any.
LEMMA StoresGrow ==
  ASSUME TypeOK, BudgetsLeft, Next
  PROVE  /\ evidence' = evidence \/ pc = "evidence" \/ OthersAdd
         /\ elsewhere' = elsewhere \/ OthersAdd
         /\ \/ toolRuns' = toolRuns
            \/ /\ pc = "tool_run" /\ batch # << >> /\ Head(batch).id \in CallIds
               /\ toolRuns[Head(batch).id] = NoToolRun
               /\ toolRuns' = [toolRuns EXCEPT ![Head(batch).id] = result]
         /\ RecordToolRun => /\ Head(batch).id \in CallIds
                             /\ toolRuns' = [toolRuns EXCEPT ![Head(batch).id] = result]
<1>1. pc = "tool_run" => batch # << >> /\ Head(batch).id \in CallIds
  <2>1. pc = "tool_run" => batch # << >> /\ Head(batch) \in Call
    BY HeadTailProperties DEF BudgetsLeft, Executing, TypeOK
  <2> QED
    BY <2>1 DEF Call
<1>2. Statement => /\ evidence' = evidence \/ pc = "evidence"
                   /\ elsewhere' = elsewhere
                   /\ \/ toolRuns' = toolRuns
                      \/ /\ pc = "tool_run"
                         /\ toolRuns[Head(batch).id] = NoToolRun
                         /\ toolRuns' = [toolRuns EXCEPT ![Head(batch).id] = result]
  BY DEF Statement, SaveRun, AddToolRun, database
<1>3. ASSUME AddAgentRun \/ CreatePlan \/ ReadCatalog \/ RecordResponse \/ Instruct
             \/ RecordCalls \/ StoreEvidence \/ FinishRun
      PROVE  Statement /\ toolRuns' = toolRuns
  BY <1>3 DEF Await, AddAgentRun, CreatePlan, ReadCatalog, RecordResponse, Instruct, RecordCalls,
              StoreEvidence, FinishRun, Finishing, Statement, Saving, SaveRun, database
<1>4. RecordToolRun => /\ Statement /\ pc = "tool_run"
                       /\ toolRuns' = [toolRuns EXCEPT ![Head(batch).id] = result]
  BY DEF RecordToolRun, Await, Statement, Saving, AddToolRun
<1>5. AwaitFails \/ Cancel => (Statement \/ Partly) /\ Quits
  BY DEF AwaitFails, Cancel, Handle, Leave, End, Quits, Finishing
<1>6. ASSUME StartRound \/ ParseConclusion \/ CheckCitations \/ AcceptCalls \/ RefuseCall \/ ExecuteTool
             \/ CallIdRepeats \/ EndBatch \/ TimePasses \/ ModelTimesOut \/ ModelAnswers \/ ModelFails
             \/ Terminated \/ \E status \in {"success", "failed", "timeout"} : ToolAnswers(status)
      PROVE  UNCHANGED database
  BY <1>6 DEF StartRound, ParseConclusion, CheckCitations, AcceptCalls, RefuseCall, ExecuteTool,
     CallIdRepeats, EndBatch, TimePasses, ModelTimesOut, ModelAnswers, ModelFails,
     Terminated, vars, ToolAnswers
<1>7. UNCHANGED database => UNCHANGED <<evidence, elsewhere, toolRuns>>
  BY DEF database
<1>8. Partly => /\ evidence' = evidence \/ pc = "evidence"
                /\ UNCHANGED <<elsewhere, toolRuns>>
  BY PartlyKeeps
<1>9. OthersAdd => toolRuns' = toolRuns
  BY DEF OthersAdd
<1>10. RecordToolRun => pc' = "tool"
  BY DEF RecordToolRun, Await
<1>11. ~(RecordToolRun /\ Quits)
  BY <1>10 DEF Quits, Finishing
<1> QED
  BY <1>1, <1>2, <1>3, <1>4, <1>5, <1>6, <1>7, <1>8, <1>9, <1>11 DEF Next, Code, Timeouts, Environment

\* A row of a call is never overwritten.
LEMMA CallsStay ==
  ASSUME TypeOK, BudgetsLeft, Next
  PROVE  /\ SomeSuccess => SomeSuccess'
         /\ SomeCall' => SomeCall \/ pc = "tool_run"
         /\ RecordToolRun /\ result.status = "success" => SomeSuccess'
<1>1. toolRuns \in [CallIds -> ToolRun] /\ NoToolRun.status # "success"
  BY DEF TypeOK, NoToolRun
<1>2. SomeSuccess => SomeSuccess'
  BY <1>1, StoresGrow DEF SomeSuccess
<1>3. SomeCall' => SomeCall \/ pc = "tool_run"
  BY StoresGrow DEF SomeCall
<1>4. RecordToolRun /\ result.status = "success" => SomeSuccess'
  BY <1>1, StoresGrow DEF SomeSuccess
<1> QED
  BY <1>2, <1>3, <1>4

\* Evidence that is added takes no support away.
LEMMA MoreEvidence ==
  ASSUME NEW c \in Conclusion, NEW stored \in SUBSET Items, NEW more \in SUBSET Items,
         stored \subseteq more, Violations(c, stored) = {}
  PROVE  Violations(c, more) = {}
<1>1. ASSUME NEW f \in Finding, NEW required \in BOOLEAN,
             FindingViolations(f, stored, required) = {}
      PROVE  FindingViolations(f, more, required) = {}
  <2>1. f.evidence_ids # f.evidence_ids \intersect stored
          => "foreign_or_unknown_evidence" \in FindingViolations(f, stored, required)
    BY DEF FindingViolations
  <2>2. f.evidence_ids \intersect more = f.evidence_ids \intersect stored
    BY <1>1, <2>1
  <2>3. FindingViolations(f, more, required) = FindingViolations(f, stored, required)
    BY <2>2, Zenon DEF FindingViolations
  <2> QED
    BY <1>1, <2>3
<1>2. c.facts \subseteq Finding /\ c.root_causes \subseteq Finding
  BY DEF Conclusion
<1>3. /\ \A f \in c.facts : FindingViolations(f, stored, TRUE) = {}
      /\ \A f \in c.root_causes : FindingViolations(f, stored, FALSE) = {}
  BY DEF Violations
<1>4. /\ \A f \in c.facts : FindingViolations(f, more, TRUE) = {}
      /\ \A f \in c.root_causes : FindingViolations(f, more, FALSE) = {}
  BY <1>1, <1>2, <1>3
<1> DEFINE unverified == { code \in {"possible_requires_verification"} :
                            /\ \E f \in c.facts \union c.root_causes : f.status = "possible"
                            /\ ~c.recommendations }
<1>5. unverified \subseteq Violations(c, stored)
  BY DEF Violations
<1>6. unverified = {}
  BY <1>5
<1>7. (UNION { FindingViolations(f, more, TRUE) : f \in c.facts }) = {}
  BY <1>4
<1>8. (UNION { FindingViolations(f, more, FALSE) : f \in c.root_causes }) = {}
  BY <1>4
<1> QED
  BY <1>6, <1>7, <1>8, Zenon DEF Violations

LEMMA SupportStays ==
  ASSUME TypeOK, Parsed, BudgetsLeft, BudgetsRespected, RowFollows, CallsCounted, SuccessesRecorded,
         Accepted, Next
  PROVE  CallsCounted' /\ SuccessesRecorded' /\ Accepted'
<1>1. CallsCounted'
  <2>1. run'.calls \in Nat /\ run'.calls >= run.calls
    <3>1. CASE ~Talks
      BY <3>1, QuietSteps, Counters DEF Quiet
    <3>2. CASE ModelAnswers
      BY <3>2, Counters DEF ModelAnswers, Run!WithResponse, TypeOK, RunRecord
    <3>3. CASE AcceptCalls
      <4>1. CASE run' = Run!WithCalls(run, Len(response.calls))
        <5>1. run \in RunRecord
          BY DEF TypeOK
        <5>2. run'.calls = run.calls + Len(response.calls)
          BY <4>1, <5>1 DEF Run!WithCalls, RunRecord
        <5> QED
          BY <5>2, Counters
      <4>2. CASE \E reason \in Run!Reasons : run' = Run!Finished(run, reason)
        BY <4>2, Counters, EndIsQuiet
      <4> QED
        BY <3>3, <4>1, <4>2 DEF AcceptCalls, Accept, Stop, End, Run!Reasons
    <3>4. CASE ExecuteTool \/ \E status \in {"success", "failed", "timeout"} : ToolAnswers(status)
      BY <3>4, Counters DEF ExecuteTool, ToolAnswers
    <3> QED
      BY <3>1, <3>2, <3>3, <3>4 DEF Talks
  <2>2. SomeCall' => run.calls > 0
    BY CallsStay DEF CallsCounted, BudgetsLeft, Executing
  <2> QED
    BY <2>1, <2>2, Counters DEF CallsCounted
<1>2. SuccessesRecorded'
  <2> USE DEF SuccessesRecorded
  <2>1. CASE Quits
    BY <2>1 DEF Quits, Going, Finishing, Unguarded, Guarded
  <2>2. CASE RefuseCall \/ \E status \in {"success", "failed", "timeout"} : ToolAnswers(status)
    <3>1. PICK signature, status, drafts : Took(signature, status, drafts)
      BY <2>2 DEF RefuseCall, ToolAnswers
    <3>2. /\ result'.status = status /\ pc' \in {"evidence", "tool_run"}
          /\ successes' = successes + (IF status = "success" THEN 1 ELSE 0)
      BY <3>1 DEF Took
    <3>3. pc \in {"tool", "adapter"}
      BY <2>2 DEF RefuseCall, ToolAnswers
    <3>4. CASE status = "success"
      BY <3>2, <3>4
    <3>5. CASE status # "success"
      <4>1. successes' = successes
        BY <3>2, <3>5 DEF TypeOK
      <4> QED
        BY <3>3, <4>1, CallsStay DEF Going, Guarded
    <3> QED
      BY <3>4, <3>5
  <2>3. CASE ~Quits /\ ~RefuseCall /\ ~\E status \in {"success", "failed", "timeout"} : ToolAnswers(status)
    <3>1. successes' = successes /\ result' = result
      BY <2>3 DEF Next, Code, Timeouts, Environment, Terminated, vars, progress,
                AddAgentRun, CreatePlan, ReadCatalog, StartRound, RecordResponse, ParseConclusion,
                CheckCitations, Instruct,
                AcceptCalls, RecordCalls, ExecuteTool, StoreEvidence, RecordToolRun,
                CallIdRepeats, EndBatch, FinishRun, TimePasses, ModelTimesOut,
                ModelAnswers, ModelFails, AwaitFails, Cancel, OthersAdd
    <3>2. pc \in Going
      BY <2>3, Moves DEF Quits, Going, Unguarded, Guarded, Finishing, ParseConclusion, AcceptCalls,
                         ModelAnswers, RecordToolRun, Await, StoreEvidence, ExecuteTool, TypeOK, Awaits
    <3>3. CASE pc \notin {"evidence", "tool_run"}
      BY <3>1, <3>2, <3>3, CallsStay
    <3>4. CASE pc \in {"evidence", "tool_run"}
      <4>1. pc' = pc \/ (pc' = "tool_run" /\ pc = "evidence") \/ RecordToolRun
        BY <2>3, <3>4, Moves DEF ParseConclusion, AcceptCalls, ModelAnswers, StoreEvidence, Await, ExecuteTool
      <4> QED
        BY <3>1, <3>2, <3>4, <4>1, CallsStay
    <3> QED
      BY <3>3, <3>4
  <2> QED
    BY <2>1, <2>2, <2>3
<1>3. Accepted'
  <2>1. CASE pc \in Going /\ ~CheckCitations
    <3>1. run'.reason # "completed"
      <4>1. run.reason = "none"
        BY <2>1 DEF RowFollows
      <4>2. \/ run'.reason = run.reason
            \/ \E reason \in Run!Reasons \ {"completed"} : run' = Run!Finished(run, reason)
        <5>1. CASE StartRound \/ ParseConclusion \/ AcceptCalls \/ ModelTimesOut \/ ModelFails
                     \/ CallIdRepeats \/ AwaitFails \/ Cancel
          BY <5>1 DEF StartRound, ParseConclusion, AcceptCalls, Accept, ModelTimesOut, ModelFails,
             CallIdRepeats, AwaitFails, Cancel, Handle, Leave, Correct, Stop, End, Run!Reasons,
             Run!WithCalls, TypeOK, RunRecord
        <5>2. CASE ModelAnswers
          BY <5>2 DEF ModelAnswers, Run!WithResponse, TypeOK, RunRecord
        <5>3. CASE ~(StartRound \/ ParseConclusion \/ AcceptCalls \/ ModelTimesOut \/ ModelFails
                     \/ CallIdRepeats \/ AwaitFails \/ Cancel \/ ModelAnswers)
          BY <2>1, <5>3 DEF Next, Code, Timeouts, Environment, Terminated, vars,
                AddAgentRun, CreatePlan, ReadCatalog, RecordResponse, Instruct,
                RecordCalls, RefuseCall, ExecuteTool, ToolAnswers, StoreEvidence, RecordToolRun,
                EndBatch, FinishRun, TimePasses, OthersAdd
        <5> QED
          BY <5>1, <5>2, <5>3
      <4> QED
        BY <4>1, <4>2, EndIsQuiet
    <3> QED
      BY <3>1 DEF Accepted
  <2>2. CASE CheckCitations
    <3>1. pc = "cite" /\ UNCHANGED <<evidence, toolRuns>>
      BY <2>2 DEF CheckCitations, database
    <3>2. response.conclusion \in Conclusions
      BY <3>1 DEF Parsed
    <3>3. run.reason = "none"
      BY <3>1 DEF RowFollows, Going, Guarded
    <3>4. CASE run'.reason # "completed"
      BY <3>4 DEF Accepted
    <3>5. CASE run'.reason = "completed"
      <4>1. /\ answer' = response.conclusion /\ Violations(response.conclusion, evidence) = {}
            /\ ~(run.calls > 0 /\ successes = 0)
        BY <2>2, <3>3, <3>5, EndIsQuiet DEF CheckCitations, Correct, Stop, End
      <4>2. SomeCall => SomeSuccess
        BY <3>1, <4>1, Counters DEF CallsCounted, SuccessesRecorded, Going, Guarded, TypeOK
      <4>3. SomeCall' = SomeCall /\ SomeSuccess' = SomeSuccess
        BY <3>1 DEF SomeCall, SomeSuccess
      <4>5. answer' \in Conclusions /\ Violations(answer', evidence') = {}
        BY <3>1, <3>2, <4>1
      <4> QED
        BY <4>2, <4>3, <4>5 DEF Accepted
    <3> QED
      BY <3>4, <3>5
  <2>3. CASE pc \notin Going
    <3>1. UNCHANGED <<run, answer>>
      BY <2>3 DEF Next, Code, Timeouts, Environment, Terminated, vars, progress,
                AddAgentRun, CreatePlan, ReadCatalog, StartRound, RecordResponse, ParseConclusion,
                CheckCitations, Instruct, RefuseCall, ToolAnswers,
                AcceptCalls, RecordCalls, ExecuteTool, StoreEvidence, RecordToolRun,
                CallIdRepeats, EndBatch, FinishRun, TimePasses, ModelTimesOut, Await,
                ModelAnswers, ModelFails, AwaitFails, Cancel, OthersAdd, Handle, Leave, Going, Unguarded, Guarded
    <3>2. UNCHANGED toolRuns /\ (evidence' = evidence \/ OthersAdd)
      BY <2>3, StoresGrow DEF Going, Guarded
    <3>3. CASE evidence' = evidence
      BY <3>1, <3>2, <3>3 DEF Accepted, SomeCall, SomeSuccess
    <3>4. CASE OthersAdd
      <4>1. PICK e \in Foreign : evidence' = evidence \union {e}
        BY <3>4 DEF OthersAdd
      <4>2. evidence \in SUBSET Items /\ evidence' \in SUBSET Items /\ evidence \subseteq evidence'
        BY <4>1, Constants DEF TypeOK
      <4>3. run.reason = "completed" => Violations(answer, evidence') = {}
        BY <4>2, Constants, MoreEvidence DEF Accepted
      <4> QED
        BY <3>1, <3>2, <4>3 DEF Accepted, SomeCall, SomeSuccess
    <3> QED
      BY <3>2, <3>3, <3>4
  <2> QED
    BY <2>1, <2>2, <2>3
<1> QED
  BY <1>1, <1>2, <1>3

LEMMA SupportInvariant ==
  Spec => [](TypeOK /\ RowFollows /\ CallsCounted /\ SuccessesRecorded /\ Accepted)
<1> DEFINE Support == RowFollows /\ CallsCounted /\ SuccessesRecorded /\ Accepted
<1>1. Init => Support
  <2> SUFFICES ASSUME Init PROVE Support
    OBVIOUS
  <2>1. RowFollows
    BY DEF Init, RowFollows, Going, Finishing, Unguarded, Guarded, Run!Started, Run!NoRun
  <2>2. CallsCounted /\ SuccessesRecorded
    BY DEF Init, CallsCounted, SomeCall, SuccessesRecorded
  <2>3. Accepted
    BY DEF Init, Accepted, Run!Started, Run!NoRun
  <2> QED
    BY <2>1, <2>2, <2>3
<1>2. Inv /\ Support /\ [Next]_vars => Support'
  <2>1. ASSUME Inv, Support, Next PROVE Support'
    BY <2>1, RowKeepsUp, SupportStays DEF Inv
  <2>2. ASSUME Support, UNCHANGED vars PROVE Support'
    BY <2>2 DEF RowFollows, CallsCounted, SuccessesRecorded, Accepted, SomeCall, SomeSuccess,
                vars, database, progress, policy
  <2> QED
    BY <2>1, <2>2
<1>3. Inv => TypeOK
  BY DEF Inv
<1> HIDE DEF Support
<1>4. Spec => [](TypeOK /\ Support)
  BY LoopInvariant, <1>1, <1>2, <1>3, PTL DEF Spec
<1> QED
  BY <1>4 DEF Support

-----------------------------------------------------------------------------
(* The trace of a run *)

RecordedCalls == { id \in CallIds : toolRuns[id] # NoToolRun }
Found == Known \union elsewhere \union (UNION { toolRuns[id].evidence : id \in CallIds })

\* The calls that were counted and have still to be recorded.
Pending == IF pc \in Executing \union {"count", "tool"} THEN Len(batch) ELSE 0

\* Calls are counted before they are executed, and what a call found is stored
\* before the call is recorded.
WorkTraced ==
  /\ IsFiniteSet(RecordedCalls)
  /\ pc \in Going =>
       /\ Cardinality(RecordedCalls) + Pending = run.calls
       /\ evidence = Found \union (IF pc = "tool_run" THEN result.evidence ELSE {})
  /\ pc \in {"evidence", "tool_run"} => result.status # "none"

EndTraced ==
  /\ pc \in Finishing \union {"done"} /\ run.reason \in Run!Reasons \ {"internal_error", "cancelled"} =>
       Cardinality(RecordedCalls) = run.calls /\ evidence = Found
  /\ pc \in {"finish", "finish_error"} => run.reason # "cancelled"
  /\ outcome # "none" => pc = "done"
  /\ outcome = "returned" =>
       /\ row = run /\ run.status # "running"
       /\ run.reason \in Run!Reasons \ {"cancelled"}

LEMMA StoresKept ==
  ASSUME toolRuns' = toolRuns, elsewhere' = elsewhere
  PROVE  RecordedCalls' = RecordedCalls /\ Found' = Found
BY DEF RecordedCalls, Found

\* What others add counts as theirs.
LEMMA OthersTraced ==
  ASSUME TypeOK, OthersAdd
  PROVE  /\ RecordedCalls' = RecordedCalls
         /\ \E e \in Foreign : evidence' = evidence \union {e} /\ Found' = Found \union {e}
         /\ UNCHANGED <<row, pc, run, batch, result, outcome>>
<1>1. PICK e \in Foreign : evidence' = evidence \union {e} /\ elsewhere' = elsewhere \union {e}
  BY DEF OthersAdd
<1>2. toolRuns' = toolRuns
  BY DEF OthersAdd
<1>3. Found' = Found \union {e}
  BY <1>1, <1>2 DEF Found
<1>4. RecordedCalls' = RecordedCalls
  BY <1>2 DEF RecordedCalls
<1> QED
  BY <1>1, <1>3, <1>4 DEF OthersAdd, progress

LEMMA WorkIsTraced ==
  ASSUME TypeOK, BudgetsLeft, WorkTraced, Next, ~Quits
  PROVE  WorkTraced'
<1> USE Counters DEF WorkTraced
<1> DEFINE card == Cardinality(RecordedCalls)
<1>0. IsFiniteSet(RecordedCalls) /\ card \in Nat
  BY FS_CardinalityType
\* Nothing is pending before and after.
<1>a. ASSUME pc \in Going \ (Executing \union {"count", "tool"}), UNCHANGED <<toolRuns, evidence, elsewhere>>,
             run'.calls = run.calls, pc' \in Going \ (Executing \union {"count", "tool"})
      PROVE  WorkTraced'
  BY <1>a, StoresKept DEF Pending, Executing
<1>1. CASE AddAgentRun \/ CreatePlan \/ ReadCatalog \/ RecordResponse \/ Instruct
  <2>1. UNCHANGED <<toolRuns, evidence, elsewhere>> /\ run' = run
    BY <1>1 DEF AddAgentRun, CreatePlan, ReadCatalog, RecordResponse, Instruct, Await, Statement, Saving,
                SaveRun, database
  <2> QED
    BY <1>1, <1>a, <2>1 DEF AddAgentRun, CreatePlan, ReadCatalog, RecordResponse, Instruct, Await, Going,
                            Unguarded, Guarded, Executing
<1>2. CASE StartRound \/ ParseConclusion \/ CheckCitations
  <2>1. UNCHANGED <<toolRuns, evidence, elsewhere>> /\ run' = run
    BY <1>2 DEF StartRound, ParseConclusion, CheckCitations, Correct, Stop, End, Quits, Finishing, database
  <2>2. pc \in {"head", "decide", "cite"} /\ pc' \in {"model", "instruct", "cite"}
    BY <1>2 DEF StartRound, ParseConclusion, CheckCitations, Correct, Stop, End, Quits, Finishing
  <2> QED
    BY <1>a, <2>1, <2>2 DEF Going, Guarded, Executing
<1>3. CASE ModelAnswers
  <2>1. /\ UNCHANGED <<toolRuns, evidence, elsewhere>> /\ run'.calls = run.calls /\ pc = "model" /\ pc' = "record"
    BY <1>3 DEF ModelAnswers, database, Run!WithResponse, TypeOK, RunRecord
  <2> QED
    BY <1>a, <2>1 DEF Going, Guarded, Executing
<1>4. CASE AcceptCalls
  <2>1. /\ UNCHANGED <<toolRuns, evidence, elsewhere>> /\ pc = "decide" /\ pc' = "count"
        /\ batch' = response.calls /\ run'.calls = run.calls + Len(response.calls)
    BY <1>4 DEF AcceptCalls, Accept, Stop, End, Quits, Finishing, database, Run!WithCalls, TypeOK, RunRecord
  <2>2. Pending = 0 /\ Pending' = Len(response.calls)
    BY <2>1 DEF Pending, Executing
  <2> QED
    BY <1>0, <2>1, <2>2, StoresKept DEF Going, Guarded
<1>5. CASE RecordCalls
  <2>1. UNCHANGED <<toolRuns, evidence, elsewhere, run, batch>> /\ pc = "count" /\ pc' = "tool"
    BY <1>5 DEF RecordCalls, Await, Statement, Saving, SaveRun, progress
  <2> QED
    BY <2>1, StoresKept DEF Pending, Executing, Going, Guarded
<1>6. CASE RefuseCall \/ ExecuteTool \/ \E status \in {"success", "failed", "timeout"} : ToolAnswers(status)
  <2>1. /\ UNCHANGED <<toolRuns, evidence, elsewhere, run, batch>> /\ pc \in {"tool", "adapter"}
        /\ pc' \in {"adapter", "evidence", "tool_run"}
    BY <1>6 DEF RefuseCall, ExecuteTool, ToolAnswers, Took, database
  <2>2. pc' = "tool_run" => result'.evidence = {}
    BY <1>6 DEF RefuseCall, ExecuteTool, ToolAnswers, Took
  <2>3. pc' \in {"evidence", "tool_run"} => result'.status # "none"
    BY <1>6 DEF RefuseCall, ExecuteTool, ToolAnswers, Took
  <2> QED
    BY <2>1, <2>2, <2>3, StoresKept DEF Pending, Executing, Going, Guarded
<1>7. CASE StoreEvidence
  <2>1. /\ evidence' = evidence \union result.evidence /\ pc = "evidence" /\ pc' = "tool_run"
        /\ UNCHANGED <<toolRuns, elsewhere, run, batch, result>>
    BY <1>7 DEF StoreEvidence, Await, Statement, Saving, progress
  <2>2. RecordedCalls' = RecordedCalls /\ Found' = Found
    BY <2>1 DEF RecordedCalls, Found
  <2> QED
    BY <2>1, <2>2 DEF Pending, Executing, Going, Guarded
<1>8. CASE RecordToolRun
  <2> DEFINE id == Head(batch).id
  <2>1. /\ pc = "tool_run" /\ pc' = "tool" /\ batch' = Tail(batch) /\ UNCHANGED <<evidence, elsewhere, run, result>>
        /\ toolRuns[id] = NoToolRun /\ toolRuns' = [toolRuns EXCEPT ![id] = result]
    BY <1>8 DEF RecordToolRun, Await, Statement, Saving, AddToolRun
  <2>2. id \in CallIds /\ toolRuns \in [CallIds -> ToolRun]
    BY <1>8, StoresGrow DEF TypeOK
  <2>3. result # NoToolRun
    BY <2>1 DEF NoToolRun
  <2>4. RecordedCalls' = RecordedCalls \union {id} /\ id \notin RecordedCalls
    BY <2>1, <2>2, <2>3 DEF RecordedCalls
  <2>5. IsFiniteSet(RecordedCalls') /\ Cardinality(RecordedCalls') = card + 1
    BY <1>0, <2>4, FS_AddElement
  <2>6. Found' = Found \union result.evidence
    BY <2>1, <2>2 DEF Found, NoToolRun
  <2>7. Len(Tail(batch)) = Len(batch) - 1 /\ batch # << >>
    BY <2>1, HeadTailProperties DEF TypeOK, BudgetsLeft, Executing
  <2>8. Pending = Len(batch) /\ Pending' = Len(batch) - 1
    BY <2>1, <2>7 DEF Pending, Executing
  <2>9. Cardinality(RecordedCalls') + Pending' = run.calls
    BY <1>0, <2>1, <2>5, <2>8 DEF Going, Guarded
  <2>10. evidence' = Found'
    BY <2>1, <2>6 DEF Going, Guarded
  <2> HIDE DEF id, card
  <2> QED
    BY <2>1, <2>5, <2>9, <2>10 DEF Going
<1>9. CASE EndBatch
  <2>1. UNCHANGED <<toolRuns, evidence, elsewhere, run>> /\ pc = "tool" /\ pc' \in {"instruct", "head"} /\ Len(batch) = 0
    BY <1>9, EmptySeq DEF EndBatch, database
  <2> QED
    BY <2>1, StoresKept DEF Pending, Executing, Going, Guarded
<1>10. CASE TimePasses \/ Terminated
  <2>1. UNCHANGED <<pc, batch, toolRuns, evidence, elsewhere, run, result>>
    BY <1>10 DEF TimePasses, Terminated, vars, progress, database
  <2> QED
    BY <2>1, StoresKept DEF Pending
<1>11. CASE OthersAdd
  <2>1. PICK e \in Foreign : evidence' = evidence \union {e} /\ Found' = Found \union {e}
    BY <1>11, OthersTraced
  <2>2. RecordedCalls' = RecordedCalls /\ Pending' = Pending /\ UNCHANGED <<pc, run, result>>
    BY <1>11, OthersTraced DEF Pending
  <2>3. pc \in Going => evidence' = Found' \union (IF pc = "tool_run" THEN result.evidence ELSE {})
    BY <2>1
  <2> QED
    BY <2>2, <2>3
<1> QED
  BY <1>1, <1>2, <1>3, <1>4, <1>5, <1>6, <1>7, <1>8, <1>9, <1>10, <1>11
     DEF Next, Code, Timeouts, Environment, Quits, Finishing, FinishRun, CallIdRepeats, AwaitFails, Cancel,
         Handle, Leave, End, ModelTimesOut, ModelFails, Stop

LEMMA RecordedStaysFinite ==
  ASSUME TypeOK, BudgetsLeft, IsFiniteSet(RecordedCalls), Next
  PROVE  IsFiniteSet(RecordedCalls')
<1>1. CASE toolRuns' = toolRuns
  BY <1>1 DEF RecordedCalls
<1>2. CASE toolRuns' # toolRuns
  <2> DEFINE id == Head(batch).id
  <2>1. RecordedCalls' \subseteq RecordedCalls \union {id}
    BY <1>2, StoresGrow DEF RecordedCalls, TypeOK
  <2>2. IsFiniteSet(RecordedCalls \union {id})
    BY FS_AddElement
  <2> QED
    BY <2>1, <2>2, FS_Subset
<1> QED
  BY <1>1, <1>2

LEMMA EndIsTraced ==
  ASSUME TypeOK, BudgetsLeft, RowFollows, WorkTraced, EndTraced, Next
  PROVE  WorkTraced' /\ EndTraced'
<1>1. CASE ~Quits
  <2>1. WorkTraced'
    BY <1>1, WorkIsTraced
  <2>2. pc # "done" /\ outcome' = outcome /\ pc' \notin Finishing \union {"done"}
    BY <1>1 DEF Quits, Finishing, Next, Code, Timeouts, Environment, Terminated, vars, progress,
                AddAgentRun, CreatePlan, ReadCatalog, StartRound, RecordResponse, ParseConclusion,
                CheckCitations, Instruct, RefuseCall, ToolAnswers,
                AcceptCalls, RecordCalls, ExecuteTool, StoreEvidence, RecordToolRun,
                CallIdRepeats, EndBatch, FinishRun, TimePasses, ModelTimesOut, Await,
                ModelAnswers, ModelFails, AwaitFails, Cancel, OthersAdd, Handle, Leave, End
  <2> QED
    BY <2>1, <2>2 DEF EndTraced, Finishing
<1>2. CASE Quits
  <2>1. WorkTraced'
    BY <1>2, RecordedStaysFinite DEF WorkTraced, Quits, Going, Finishing, Unguarded, Guarded
  <2>2. EndTraced'
    <3> USE DEF EndTraced
    <3>1. CASE StartRound \/ ParseConclusion \/ CheckCitations \/ AcceptCalls \/ ModelTimesOut \/ ModelFails
      <4>1. /\ UNCHANGED <<toolRuns, evidence, elsewhere, outcome>> /\ pc \in {"head", "decide", "cite", "model"}
            /\ pc' = "finish"
            /\ \E reason \in Run!Reasons \ {"cancelled"} : run' = Run!Finished(run, reason)
        BY <1>2, <3>1 DEF StartRound, ParseConclusion, CheckCitations, AcceptCalls, ModelTimesOut, ModelFails,
           Accept, Correct, Stop, End, Quits, Finishing, database, Run!Reasons
      <4>2. run'.calls = run.calls /\ run'.reason # "cancelled"
        BY <4>1, EndIsQuiet
      <4>3. Cardinality(RecordedCalls) + 0 = run.calls /\ evidence = Found
        BY <4>1 DEF WorkTraced, Pending, Executing, Going, Guarded
      <4>4. Cardinality(RecordedCalls) \in Nat
        BY FS_CardinalityType DEF WorkTraced
      <4> QED
        BY <4>1, <4>2, <4>3, <4>4, StoresKept
    <3>2. CASE CallIdRepeats \/ AwaitFails \/ Cancel
      <4>1. CASE pc \in Guarded
        <5>1. /\ outcome' = outcome
              /\ \/ run' = Run!Finished(run, "internal_error") /\ pc' = "finish_error"
                 \/ run' = Run!Finished(run, "cancelled") /\ pc' = "finish_cancelled"
          BY <3>2, <4>1 DEF CallIdRepeats, AwaitFails, Cancel, Handle, End
        <5>2. pc # "done"
          BY <4>1 DEF Guarded
        <5> QED
          BY <5>1, <5>2, EndIsQuiet
      <4>2. CASE pc \notin Guarded
        <5>1. /\ run' = run /\ pc' = "done" /\ outcome' \in {"raised", "cancelled"}
              /\ pc \in Unguarded \union Finishing
          BY <3>2, <4>2 DEF CallIdRepeats, AwaitFails, Cancel, Handle, Leave, Awaits, Guarded
        <5>2. UNCHANGED <<toolRuns, evidence, elsewhere>>
          <6>1. ~OthersAdd
            BY <5>1 DEF OthersAdd, Unguarded, Finishing
          <6> QED
            BY <5>1, <6>1, StoresGrow DEF Unguarded, Finishing, RecordToolRun, Await
        <5>3. pc \in Unguarded => run.reason = "none"
          BY DEF RowFollows, Going
        <5>4. "none" \notin Run!Reasons
          BY DEF Run!Reasons
        <5> QED
          BY <5>1, <5>2, <5>3, <5>4, StoresKept
      <4> QED
        BY <4>1, <4>2
    <3>3. CASE FinishRun
      <4>1. /\ row' = run /\ run' = run /\ UNCHANGED <<toolRuns, evidence, elsewhere>> /\ pc' = "done"
            /\ outcome' = (IF pc = "finish_cancelled" THEN "cancelled" ELSE "returned")
            /\ pc \in Finishing
        BY <3>3 DEF FinishRun, Statement, Saving, SaveRun, Finishing
      <4>2. run.reason \in Run!Reasons /\ run.status # "running"
        BY <4>1 DEF RowFollows, Run!StatusOf
      <4> QED
        BY <4>1, <4>2, StoresKept DEF Finishing
    <3>4. CASE TimePasses \/ Terminated
      <4>1. UNCHANGED <<pc, toolRuns, evidence, elsewhere, run, row, outcome>>
        BY <3>4 DEF TimePasses, Terminated, vars, database
      <4> QED
        BY <4>1, StoresKept
    <3>5. CASE OthersAdd
      <4>1. PICK e \in Foreign : evidence' = evidence \union {e} /\ Found' = Found \union {e}
        BY <3>5, OthersTraced
      <4>2. RecordedCalls' = RecordedCalls /\ UNCHANGED <<row, pc, run, outcome>>
        BY <3>5, OthersTraced
      <4> QED
        BY <4>1, <4>2
    <3> QED
      BY <1>2, <3>1, <3>2, <3>3, <3>4, <3>5
         DEF Quits, Finishing, Next, Code, Timeouts, Environment,
             AddAgentRun, CreatePlan, ReadCatalog, RecordResponse, Instruct, RefuseCall, ToolAnswers, Took,
             RecordCalls, ExecuteTool, StoreEvidence, RecordToolRun, EndBatch, Await, ModelAnswers
  <2> QED
    BY <2>1, <2>2
<1> QED
  BY <1>1, <1>2

LEMMA TraceInvariant == Spec => [](WorkTraced /\ EndTraced)
<1>1. Init => WorkTraced /\ EndTraced
  <2> SUFFICES ASSUME Init PROVE WorkTraced /\ EndTraced
    OBVIOUS
  <2>1. RecordedCalls = {} /\ Found = Known
    BY DEF Init, RecordedCalls, Found, NoToolRun
  <2>2. IsFiniteSet(RecordedCalls) /\ Cardinality(RecordedCalls) = 0
    BY <2>1, FS_EmptySet
  <2>3. pc = "add" /\ run.calls = 0 /\ evidence = Known /\ outcome = "none"
    BY DEF Init, Run!Started, Run!NoRun
  <2> QED
    BY <2>1, <2>2, <2>3 DEF WorkTraced, EndTraced, Pending, Executing, Finishing
<1>2. Inv /\ RowFollows /\ WorkTraced /\ EndTraced /\ [Next]_vars => WorkTraced' /\ EndTraced'
  <2>1. ASSUME UNCHANGED vars, WorkTraced, EndTraced PROVE WorkTraced' /\ EndTraced'
    BY <2>1, StoresKept DEF vars, database, progress, WorkTraced, EndTraced, Pending
  <2> QED
    BY <2>1, EndIsTraced DEF Inv
<1> QED
  BY LoopInvariant, SupportInvariant, <1>1, <1>2, PTL DEF Spec

-----------------------------------------------------------------------------
(* The evaluation agrees with the citation policy, for all evidence and all *)
(* conclusions, whatever their number of findings.                          *)

(* What the citation policy promises of a finding that breaks no rule: its *)
(* citations are stored, and only a finding that may go without evidence   *)
(* does.                                                                   *)

LEMMA SoundFinding ==
  ASSUME NEW f \in Finding, NEW stored \in SUBSET Items, NEW required \in BOOLEAN,
         FindingViolations(f, stored, required) = {}
  PROVE  /\ f.evidence_ids \subseteq stored
         /\ f.status \in {"possible", "probable", "insufficient_evidence"}
         /\ f.evidence_ids = {} =>
              f.status = "insufficient_evidence" \/ (f.status = "possible" /\ ~required)
<1> DEFINE cited == f.evidence_ids
           valid == cited \intersect stored
           violations == FindingViolations(f, stored, required)
<1>1. cited \in SUBSET Items /\ f.status \in FindingStatus
  BY DEF Finding
<1>2. cited # valid => "foreign_or_unknown_evidence" \in violations
  BY DEF FindingViolations
<1>3. f.status = "confirmed" => "model_cannot_confirm" \in violations
  BY DEF FindingViolations
<1>4. f.status = "probable" /\ valid \intersect Direct = {}
        => "probable_requires_direct_evidence" \in violations
  BY DEF FindingViolations
<1>5. required /\ f.status # "insufficient_evidence" /\ cited = {}
        => "finding_requires_evidence" \in violations
  BY DEF FindingViolations
<1>6. cited = valid
  BY <1>2
<1>7. f.status = "probable" => cited # {}
  BY <1>4
<1> QED
  BY <1>1, <1>3, <1>5, <1>6, <1>7 DEF FindingStatus

\* An accepted conclusion has accepted findings.
LEMMA AcceptedFindings ==
  ASSUME NEW c \in Conclusion, NEW stored \in SUBSET Items, Violations(c, stored) = {}
  PROVE  /\ \A f \in c.facts : FindingViolations(f, stored, TRUE) = {}
         /\ \A f \in c.root_causes : FindingViolations(f, stored, FALSE) = {}
<1>1. /\ \A f \in c.facts : FindingViolations(f, stored, TRUE) \subseteq Violations(c, stored)
      /\ \A f \in c.root_causes :
           FindingViolations(f, stored, FALSE) \subseteq Violations(c, stored)
  BY DEF Violations
<1> QED
  BY <1>1

Codes == {
  "invalid_structured_output", "invalid_evidence_record", "invalid_evidence_citations",
  "missing_required_evidence", "missing_required_evidence_citations",
  "unsupported_claims", "unexpected_termination_reason", "category_mismatch",
  "root_cause_mismatch", "forbidden_root_cause", "information_sufficiency_mismatch",
  "tool_selection_mismatch" }

\* Of an accepted conclusion nothing is recorded as wrong but claims without
\* evidence.
LEMMA CodesOfAccepted ==
  ASSUME NEW c \in Conclusion, NEW stored \in SUBSET Items,
         \A f \in Findings(c) : f.evidence_ids \subseteq stored
  PROVE  /\ Failures(Recorded(c, stored)) \subseteq {"unsupported_claims"}
         /\ "unsupported_claims" \in Failures(Recorded(c, stored)) => Unsupported(c) # {}
<1> DEFINE case == Recorded(c, stored)
<1>1. c # Invalid /\ c # Missing
  BY MarkersAssumption
<1>2. Cited(c) \ stored = {}
  BY DEF Cited
<1>3. /\ case.conclusion = c /\ case.evidence = stored /\ case.broken = FALSE
      /\ case.required_types = {} /\ case.required_ids = {} /\ case.termination = TRUE
      /\ case.expected_category = Missing /\ case.named_at = Unset
      /\ case.forbidden = FALSE /\ case.sufficient = Unset /\ case.tools = Unset
  BY DEF Recorded
<1> HIDE DEF case
<1>4. "invalid_structured_output" \notin Failures(case)
  BY <1>1, <1>3 DEF Failures
<1>5. "invalid_evidence_record" \notin Failures(case)
  BY <1>3 DEF Failures
<1>6. "invalid_evidence_citations" \notin Failures(case)
  BY <1>1, <1>2, <1>3 DEF Failures
<1>7. "missing_required_evidence" \notin Failures(case)
  BY <1>3 DEF Failures
<1>8. "missing_required_evidence_citations" \notin Failures(case)
  BY <1>3 DEF Failures
<1>9. "unexpected_termination_reason" \notin Failures(case)
  BY <1>3 DEF Failures
<1>10. "category_mismatch" \notin Failures(case)
  BY <1>3 DEF Failures
<1>11. "root_cause_mismatch" \notin Failures(case)
  BY <1>3 DEF Failures
<1>12. "forbidden_root_cause" \notin Failures(case)
  BY <1>3 DEF Failures
<1>13. "information_sufficiency_mismatch" \notin Failures(case)
  BY <1>3 DEF Failures
<1>14. "tool_selection_mismatch" \notin Failures(case)
  BY <1>3, MarkersAssumption DEF Failures
<1>15. Failures(case) \subseteq Codes
  BY DEF Failures, Codes
<1>16. "unsupported_claims" \in Failures(case) => Unsupported(c) # {}
  BY <1>1, <1>3 DEF Failures
<1> QED
  BY <1>4, <1>5, <1>6, <1>7, <1>8, <1>9, <1>10, <1>11, <1>12, <1>13, <1>14, <1>15,
     <1>16 DEF case, Codes

-----------------------------------------------------------------------------
(* The theorems *)

\* The state of an investigation is always of its types.
THEOREM LoopIsTyped == Spec => []TypeOK
<1>1. Inv => TypeOK
  BY DEF Inv
<1> QED
  BY LoopInvariant, <1>1, PTL

\* No investigation exceeds its budgets: rounds, calls, corrections, and the
\* executions that really happen (tool_loop.py, run and AgentBudget).
THEOREM BudgetsAreRespected == Spec => []BudgetsRespected
<1>1. Inv => BudgetsRespected
  BY DEF Inv
<1> QED
  BY LoopInvariant, <1>1, PTL

\* Whatever the model repeats, a call that failed or timed out is not executed
\* again in its run (tool_loop.py, failed_tool_signatures).
THEOREM FailuresAreFinal == Spec => []FailedCallNotRepeated
<1>1. Inv => FailedCallNotRepeated
  BY DEF Inv
<1> QED
  BY LoopInvariant, <1>1, PTL

\* The row of an investigation behaves as an AgentRun: it is inserted once, its
\* counters grow while it runs, and nothing follows its end
\* (domain/execution/models.py, AgentRun).
THEOREM LoopImplementsAgentRun == Spec => ImplementsAgentRun
<1>1. Init => Run!Init
  BY DEF Init, Run!Init
<1>2. TypeOK /\ RowFollows /\ [Next]_vars => [Run!Next]_row
  <2>1. ASSUME UNCHANGED vars PROVE UNCHANGED row
    BY <2>1 DEF vars, database
  <2> QED
    BY <2>1, RowKeepsUp
<1> QED
  BY SupportInvariant, <1>1, <1>2, PTL DEF Spec, ImplementsAgentRun, Run!Spec

\* A run that ends completed has the support that the citation policy asks for,
\* for any conclusions, evidence and corrections (tool_loop.py, run).
THEOREM CompletedIsSupported == Spec => []ConclusionIsSupported
<1>1. ASSUME TypeOK, Accepted PROVE ConclusionIsSupported
  <2> SUFFICES ASSUME run.reason = "completed" PROVE ConclusionIsSupported
    BY DEF ConclusionIsSupported
  <2>1. /\ answer \in Conclusion /\ answer \in Conclusions /\ Violations(answer, evidence) = {}
        /\ evidence \in SUBSET Items
    BY <1>1, Constants DEF Accepted, TypeOK
  <2>2. answer.facts \subseteq Finding /\ answer.root_causes \subseteq Finding
    BY <2>1 DEF Conclusion
  <2>3. ASSUME NEW f \in Finding, NEW required \in BOOLEAN, FindingViolations(f, evidence, required) = {}
        PROVE  /\ f.evidence_ids \subseteq evidence
               /\ f.status # "confirmed"
               /\ f.status = "probable" => f.evidence_ids \intersect Direct # {}
               /\ required /\ f.evidence_ids = {} => f.status = "insufficient_evidence"
    <3>1. /\ f.evidence_ids \subseteq evidence
          /\ f.status \in {"possible", "probable", "insufficient_evidence"}
          /\ f.evidence_ids = {} => f.status = "insufficient_evidence" \/ (f.status = "possible" /\ ~required)
      BY <2>1, <2>3, SoundFinding
    <3>2. f.status = "probable" /\ (f.evidence_ids \intersect evidence) \intersect Direct = {}
            => "probable_requires_direct_evidence" \in FindingViolations(f, evidence, required)
      BY DEF FindingViolations
    <3> QED
      BY <2>3, <3>1, <3>2
  <2>4. /\ \A f \in answer.facts : FindingViolations(f, evidence, TRUE) = {}
        /\ \A f \in answer.root_causes : FindingViolations(f, evidence, FALSE) = {}
    BY <2>1, AcceptedFindings
  <2>5. TRUE \in BOOLEAN /\ FALSE \in BOOLEAN
    OBVIOUS
  <2>6. \A f \in answer.facts :
          /\ f.evidence_ids \subseteq evidence /\ f.status # "confirmed"
          /\ f.status = "probable" => f.evidence_ids \intersect Direct # {}
          /\ f.evidence_ids = {} => f.status = "insufficient_evidence"
    BY <2>2, <2>3, <2>4, <2>5
  <2>7. \A f \in answer.root_causes :
          /\ f.evidence_ids \subseteq evidence /\ f.status # "confirmed"
          /\ f.status = "probable" => f.evidence_ids \intersect Direct # {}
    BY <2>2, <2>3, <2>4, <2>5
  <2> QED
    BY <1>1, <2>1, <2>6, <2>7 DEF ConclusionIsSupported, Accepted, SomeCall, SomeSuccess
<1> QED
  BY SupportInvariant, <1>1, PTL

\* Whatever the citation policy accepts, the evaluation of the same run has
\* nothing against, except for possible root causes without evidence.
THEOREM AcceptedScoresClean ==
  ASSUME NEW c \in Conclusion, NEW stored \in SUBSET Items, Violations(c, stored) = {}
  PROVE  ScoresClean(c, stored)
<1>1. c.facts \subseteq Finding /\ c.root_causes \subseteq Finding
  BY DEF Conclusion
<1>2. \A f \in c.facts :
        /\ f.evidence_ids \subseteq stored
        /\ f.evidence_ids = {} => f.status = "insufficient_evidence"
  <2> TAKE f \in c.facts
  <2>1. f \in Finding /\ FindingViolations(f, stored, TRUE) = {}
    BY <1>1, AcceptedFindings
  <2>2. TRUE \in BOOLEAN
    OBVIOUS
  <2> QED
    BY <2>1, <2>2, SoundFinding
<1>3. \A f \in c.root_causes :
        /\ f.evidence_ids \subseteq stored
        /\ f.evidence_ids = {} => f.status \in {"insufficient_evidence", "possible"}
  <2> TAKE f \in c.root_causes
  <2>1. f \in Finding /\ FindingViolations(f, stored, FALSE) = {}
    BY <1>1, AcceptedFindings
  <2>2. FALSE \in BOOLEAN
    OBVIOUS
  <2> QED
    BY <2>1, <2>2, SoundFinding
<1>4. \A f \in Findings(c) : f.evidence_ids \subseteq stored
  BY <1>2, <1>3 DEF Findings
<1>5. Unsupported(c) # {} =>
        \E f \in c.root_causes : f.status = "possible" /\ f.evidence_ids = {}
  <2> SUFFICES ASSUME NEW f \in Unsupported(c)
               PROVE  f \in c.root_causes /\ f.status = "possible" /\ f.evidence_ids = {}
    OBVIOUS
  <2>1. f \in Findings(c) /\ f.status # "insufficient_evidence" /\ f.evidence_ids = {}
    BY DEF Unsupported
  <2>2. f \notin c.facts
    BY <1>2, <2>1
  <2> QED
    BY <1>3, <2>1, <2>2 DEF Findings
<1>6. /\ Failures(Recorded(c, stored)) \subseteq {"unsupported_claims"}
      /\ "unsupported_claims" \in Failures(Recorded(c, stored)) => Unsupported(c) # {}
  BY <1>4, CodesOfAccepted
<1>7. Failures(Recorded(c, stored)) # {} => Unsupported(c) # {}
  BY <1>6
<1> QED
  BY <1>5, <1>6, <1>7 DEF ScoresClean

\* What a run returned as completed, the offline evaluation does not count
\* against it (evaluation/runner.py).
THEOREM CompletedScoresClean == Spec => []CompletedRunScoresClean
<1>1. ASSUME TypeOK, Accepted PROVE CompletedRunScoresClean
  <2>1. run.reason = "completed" => /\ answer \in Conclusion /\ Violations(answer, evidence) = {}
                                    /\ evidence \in SUBSET Items
    BY <1>1, Constants DEF Accepted, TypeOK
  <2> QED
    BY <2>1, AcceptedScoresClean DEF CompletedRunScoresClean
<1> QED
  BY SupportInvariant, <1>1, PTL

\* What a run returns is what its row says, and unless it was interrupted its
\* trace has one row for each counted call and accounts for all evidence that
\* nobody else added (tool_loop.py:302-310, _finish).
THEOREM ReturnedRunIsTraced == Spec => []RunIsTraced
<1>1. ASSUME TypeOK, WorkTraced, EndTraced PROVE RunIsTraced
  <2> SUFFICES ASSUME outcome = "returned" PROVE RunIsTraced
    BY DEF RunIsTraced
  <2>1. /\ pc = "done" /\ row = run /\ run.status # "running"
        /\ run.reason \in Run!Reasons \ {"cancelled"}
    BY <1>1 DEF EndTraced
  <2> QED
    BY <1>1, <2>1 DEF EndTraced, RunIsTraced, RecordedCalls, Found
<1> QED
  BY SupportInvariant, TraceInvariant, <1>1, PTL
=============================================================================
