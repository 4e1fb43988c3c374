-------------------------- MODULE DiagnosisLifecycle --------------------------
(***************************************************************************)
(* One diagnosis and everything that races to change it: the requests      *)
(* run, cancel, supplement and confirm of DiagnosisApplicationService      *)
(* (application/diagnoses.py, application/evidence_diagnoses.py).          *)
(*                                                                         *)
(* A request is an asyncio task of one process.  Between two awaits it     *)
(* runs alone in its process, and the database commits one write at a      *)
(* time, so the atomic steps are: the code between two awaits, a read of   *)
(* the row, and a commit.  Every service method is thus a read, a decision *)
(* taken on the copy it read, and a commit guarded by the version of that  *)
(* copy.  task.cancel() only marks a task: CancelledError is raised in it  *)
(* when it next resumes, whatever the database did with the statement that *)
(* was under way.                                                          *)
(*                                                                         *)
(* The agent loop is the single step FinishLoop here: it ends with some    *)
(* result.  ToolLoopRunner.run appears with its effects on the AgentRun    *)
(* row and with the way it handles cancellation.                           *)
(***************************************************************************)
EXTENDS DiagnosisDomain, FiniteSets

CONSTANTS
  Requests,    \* the requests that clients will make
  Processes,   \* the API and worker processes that share the database
  Contents,    \* the contents of supplements
  Faults,      \* the faults that may occur, see FaultKinds
  NoRequest,   \* NULL for _active_tasks and for the conclusion
  NoContent

\* A process may die, a task may be cancelled from outside (server or worker
\* shutdown), and a statement may fail (database locked, disk full).
FaultKinds == { "crash", "interrupt", "database" }

ASSUME NoRequestAssumption == NoRequest \notin Requests
ASSUME FaultsAssumption == Faults \subseteq FaultKinds

VARIABLES
  \* the database
  row,            \* the diagnoses row: status, version, conclusion
  evidence,       \* contents of its evidences rows
  confirmations,  \* its confirmations rows
  candidates,     \* its evaluation_candidates row, by the request that made it
  agentRun,       \* status of the agent_runs row each run request inserted
  \* the memory of the processes
  active,         \* _active_tasks, for this diagnosis
  pending,        \* task.cancel() was called and CancelledError not yet raised
  req,            \* what each request asks, and of which process
  pc,             \* the await at which each request is suspended
  snap,           \* the copy of the row a request read
  result,         \* how the agent loop of a run request ended
  \* history
  interrupted,    \* CancelledError was raised in the request
  outcome         \* how the request ended

database == <<row, evidence, confirmations, candidates, agentRun>>
memory   == <<active, pending, req, snap, result>>
vars     == <<database, memory, pc, interrupted, outcome>>

Ops == { "run", "cancel", "supplement" } \union Decisions

Calls == [op : Ops, host : Processes, content : Contents \union {NoContent}]
NoCall == [op |-> "none"]

Rows == [status : Status, version : Nat, conclusion : Requests \union {NoRequest}]

\* How the loop ends: COMPLETED with or without missing information, another
\* reason that leaves the run completed, or an error that leaves it failed.
Results == { "needs_input", "needs_confirmation", "inconclusive", "failed" }

RunStatus(res) == IF res = "failed" THEN "failed" ELSE "completed"

ResultStatus(res) ==
  CASE res = "needs_input"        -> "waiting_for_input"
    [] res = "needs_confirmation" -> "waiting_for_confirmation"
    [] OTHER                      -> "inconclusive"

\* The awaits of run(), in the order of the code: those inside the runner's
\* try block, and those where only run() itself handles CancelledError.
InRunner  == { "loop", "finish", "finish_done", "finish_cancelled" }
InService == { "start_read", "start_commit", "add_run", "prepare",
               "apply_read", "apply_commit", "apply_done" }
InMark    == { "mark_read", "mark_commit" }
\* A shielded _mark_cancelled whose run was cancelled a second time.
Orphaned  == { "orphan_read", "orphan_commit" }
InHuman   == { "supp_read", "supp_find", "supp_evidence", "supp_commit",
               "conf_read", "conf_commit" }

InFlight == InRunner \union InService \union InMark \union Orphaned \union InHuman

Init ==
  /\ row = [status |-> "created", version |-> 0, conclusion |-> NoRequest]
  /\ evidence = {}
  /\ confirmations = {}
  /\ candidates = {}
  /\ agentRun = [r \in Requests |-> "none"]
  /\ active = [p \in Processes |-> NoRequest]
  /\ pending = [r \in Requests |-> FALSE]
  /\ req = [r \in Requests |-> NoCall]
  /\ pc = [r \in Requests |-> "new"]
  /\ snap = [r \in Requests |-> row]
  /\ result = [r \in Requests |-> "none"]
  /\ interrupted = [r \in Requests |-> FALSE]
  /\ outcome = [r \in Requests |-> "none"]

-----------------------------------------------------------------------------
(* Steps that several methods share. *)

Goto(r, label) == pc' = [pc EXCEPT ![r] = label]

\* Variant: run() without its finally block.
EndRegistered(r, how) ==
  /\ Goto(r, "done")
  /\ outcome' = [outcome EXCEPT ![r] = how]
  /\ UNCHANGED active

\* The request ends; for a run, the finally block drops the entry of the
\* diagnosis from _active_tasks.
End(r, how) ==
  /\ Goto(r, "done")
  /\ outcome' = [outcome EXCEPT ![r] = how]
  /\ active' = IF req[r].op = "run"
               THEN [active EXCEPT ![req[r].host] = NoRequest]
               ELSE active

\* Variant: an UPDATE that does not compare the version.
BlindUpdate(r) == TRUE

\* The UPDATE ... WHERE version = expected_version of the repository.
Unchanged(r) == row.version = snap[r].version

\* repository.get: the request works on a copy of the row from here on.
ReadRow(r) == snap' = [snap EXCEPT ![r] = row]

Submit(r, op, p, c) ==
  /\ pc[r] = "new"
  /\ req' = [req EXCEPT ![r] = [op |-> op, host |-> p, content |-> c]]

-----------------------------------------------------------------------------
(* run *)

\* The check and the registration run under _active_lock without an await.
SubmitRun(r, p) ==
  /\ Submit(r, "run", p, NoContent)
  /\ IF active[p] # NoRequest
     THEN /\ Goto(r, "done")
          /\ outcome' = [outcome EXCEPT ![r] = "conflict"]
          /\ UNCHANGED active
     ELSE /\ Goto(r, "start_read")
          /\ active' = [active EXCEPT ![p] = r]
          /\ UNCHANGED outcome
  /\ UNCHANGED <<database, pending, snap, result, interrupted>>

\* Variant: a run that waits for a case it may start.
StartReadWaits(r) ==
  /\ pc[r] = "start_read"
  /\ row.status \in { "created", "investigating" }
  /\ ReadRow(r)
  /\ Goto(r, "start_commit")
  /\ UNCHANGED <<database, active, pending, req, result, interrupted, outcome>>

StartRead(r) ==
  /\ pc[r] = "start_read"
  /\ ~pending[r]
  /\ IF row.status \in { "created", "investigating" }
     THEN /\ ReadRow(r)
          /\ Goto(r, "start_commit")
          /\ UNCHANGED <<active, outcome>>
     ELSE /\ End(r, "conflict")
          /\ UNCHANGED snap
  /\ UNCHANGED <<database, pending, req, result, interrupted>>

\* A case already under investigation is not saved: the commit then holds
\* the audit event only, and no version is compared.
StartCommit(r) ==
  /\ pc[r] = "start_commit"
  /\ \/ /\ snap[r].status = "investigating"
        /\ Goto(r, "add_run")
        /\ UNCHANGED <<row, active, outcome>>
     \/ /\ snap[r].status = "created"
        /\ Unchanged(r)
        /\ row' = Moved(snap[r], "investigating")
        /\ Goto(r, "add_run")
        /\ UNCHANGED <<active, outcome>>
     \/ /\ snap[r].status = "created"
        /\ ~Unchanged(r)
        /\ ~pending[r]
        /\ End(r, "error")
        /\ UNCHANGED row
  /\ UNCHANGED <<evidence, confirmations, candidates, agentRun,
                 pending, req, snap, result, interrupted>>

AddAgentRun(r) ==
  /\ pc[r] = "add_run"
  /\ agentRun' = [agentRun EXCEPT ![r] = "running"]
  /\ Goto(r, "prepare")
  /\ UNCHANGED <<row, evidence, confirmations, candidates, memory, interrupted, outcome>>

\* The plan and the evidence catalogue, before the runner's try block.
Prepare(r) ==
  /\ pc[r] = "prepare"
  /\ ~pending[r]
  /\ Goto(r, "loop")
  /\ UNCHANGED <<database, memory, interrupted, outcome>>

\* _finish, up to its await: the AgentRun in memory has left RUNNING.
FinishLoop(r) ==
  /\ pc[r] = "loop"
  /\ ~pending[r]
  /\ \E res \in Results : result' = [result EXCEPT ![r] = res]
  /\ Goto(r, "finish")
  /\ UNCHANGED <<database, active, pending, req, snap, interrupted, outcome>>

\* Variant: _finish that does not store the AgentRun.
FinishUnstored(r) ==
  /\ pc[r] = "finish"
  /\ Goto(r, "finish_done")
  /\ UNCHANGED <<database, memory, interrupted, outcome>>

FinishCommit(r) ==
  /\ pc[r] = "finish"
  /\ agentRun' = [agentRun EXCEPT ![r] = RunStatus(result[r])]
  /\ Goto(r, "finish_done")
  /\ UNCHANGED <<row, evidence, confirmations, candidates, memory, interrupted, outcome>>

\* Variant: run() answers with the result it has not applied.
ReturnUnapplied(r) ==
  /\ pc[r] = "finish_done"
  /\ End(r, "ok")
  /\ UNCHANGED <<database, pending, req, snap, result, interrupted>>

ReturnResult(r) ==
  /\ pc[r] = "finish_done"
  /\ ~pending[r]
  /\ Goto(r, "apply_read")
  /\ UNCHANGED <<database, memory, interrupted, outcome>>

\* A run cancelled meanwhile keeps its result to itself.
ApplyRead(r) ==
  /\ pc[r] = "apply_read"
  /\ ~pending[r]
  /\ \/ /\ row.status = "cancelled"
        /\ End(r, "ok")
        /\ UNCHANGED snap
     \/ /\ row.status # "cancelled"
        /\ ~CanMove(row, ResultStatus(result[r]))
        /\ End(r, "error")
        /\ UNCHANGED snap
     \/ /\ CanMove(row, ResultStatus(result[r]))
        /\ ReadRow(r)
        /\ Goto(r, "apply_commit")
        /\ UNCHANGED <<active, outcome>>
  /\ UNCHANGED <<database, pending, req, result, interrupted>>

\* Variant: the conclusion column receives the kind of the result.
AppliedKind(c, r) == Concluded(c, ResultStatus(result[r]), result[r])

Applied(c, r) ==
  IF ResultStatus(result[r]) = "inconclusive"
  THEN Moved(c, "inconclusive")
  ELSE Concluded(c, ResultStatus(result[r]), r)

ApplyCommit(r) ==
  /\ pc[r] = "apply_commit"
  /\ \/ /\ Unchanged(r)
        /\ row' = Applied(snap[r], r)
        /\ Goto(r, "apply_done")
        /\ UNCHANGED <<active, outcome>>
     \/ /\ ~Unchanged(r)
        /\ ~pending[r]
        /\ End(r, "error")
        /\ UNCHANGED row
  /\ UNCHANGED <<evidence, confirmations, candidates, agentRun,
                 pending, req, snap, result, interrupted>>

Return(r) ==
  /\ pc[r] = "apply_done"
  /\ ~pending[r]
  /\ End(r, "ok")
  /\ UNCHANGED <<database, pending, req, snap, result, interrupted>>

-----------------------------------------------------------------------------
(* CancelledError, raised in a run at the await where it is suspended. *)

Raise(r) ==
  /\ pending[r]
  /\ pending' = [pending EXCEPT ![r] = FALSE]
  /\ interrupted' = [interrupted EXCEPT ![r] = TRUE]

\* Variant: run() that leaves marking the case to cancel().
CancelUnmarked(r) ==
  /\ pc[r] \in InService
  /\ Raise(r)
  /\ End(r, "cancelled")
  /\ UNCHANGED <<database, req, snap, result>>

\* run() catches it and waits for _mark_cancelled under a shield.
CancelInService(r) ==
  /\ pc[r] \in InService
  /\ Raise(r)
  /\ Goto(r, "mark_read")
  /\ UNCHANGED <<database, active, req, snap, result, outcome>>

\* The runner catches it first and finishes the AgentRun as cancelled.
CancelInLoop(r) ==
  /\ pc[r] = "loop"
  /\ Raise(r)
  /\ Goto(r, "finish_cancelled")
  /\ UNCHANGED <<database, active, req, snap, result, outcome>>

FinishCancelledCommit(r) ==
  /\ pc[r] = "finish_cancelled"
  /\ agentRun' = [agentRun EXCEPT ![r] = "cancelled"]
  /\ Goto(r, "mark_read")
  /\ UNCHANGED <<row, evidence, confirmations, candidates, memory, interrupted, outcome>>

\* While the _finish of the try block waits, the handler calls _finish again:
\* AgentRun.finish refuses an AgentRun that is no longer running, and its
\* ValueError replaces the CancelledError: run() does not reach _mark_cancelled.
CancelInFinish(r) ==
  /\ pc[r] \in { "finish", "finish_done" }
  /\ Raise(r)
  /\ End(r, "error")
  /\ UNCHANGED <<database, req, snap, result>>

\* No handler guards the _finish of a handler, be it of the CancelledError or of
\* an error of the loop: the CancelledError goes on to run().
CancelInHandler(r) ==
  /\ \/ pc[r] = "finish_cancelled"
     \/ pc[r] \in { "finish", "finish_done" } /\ result[r] = "failed"
  /\ Raise(r)
  /\ Goto(r, "mark_read")
  /\ UNCHANGED <<database, active, req, snap, result, outcome>>

\* The shield lets go of the run, and _mark_cancelled goes on without it.
CancelInMark(r) ==
  /\ pc[r] \in InMark
  /\ Raise(r)
  /\ Goto(r, IF pc[r] = "mark_read" THEN "orphan_read" ELSE "orphan_commit")
  /\ outcome' = [outcome EXCEPT ![r] = "cancelled"]
  /\ active' = [active EXCEPT ![req[r].host] = NoRequest]
  /\ UNCHANGED <<database, req, snap, result>>

-----------------------------------------------------------------------------
(* cancel, and _mark_cancelled, which run() shares with it *)

SubmitCancel(r, p) ==
  /\ Submit(r, "cancel", p, NoContent)
  /\ pending' = IF active[p] = NoRequest THEN pending
                ELSE [pending EXCEPT ![active[p]] = TRUE]
  /\ Goto(r, "mark_read")
  /\ UNCHANGED <<database, active, snap, result, interrupted, outcome>>

\* cancel() answers what _mark_cancelled answers; run() re-raises the
\* CancelledError unless _mark_cancelled raised something else; nobody waits
\* for an orphan.
EndMark(r, how) ==
  IF pc[r] \in Orphaned
  THEN Goto(r, "done") /\ UNCHANGED <<active, outcome>>
  ELSE End(r, IF req[r].op = "run" /\ how = "ok" THEN "cancelled" ELSE how)

MarkRead(r) ==
  /\ pc[r] \in { "mark_read", "orphan_read" }
  /\ ~pending[r]
  /\ \/ /\ row.status \in { "created", "investigating" }
        /\ ReadRow(r)
        /\ Goto(r, IF pc[r] = "mark_read" THEN "mark_commit" ELSE "orphan_commit")
        /\ UNCHANGED <<active, outcome>>
     \/ /\ row.status = "cancelled"
        /\ EndMark(r, "ok")
        /\ UNCHANGED snap
     \/ /\ row.status \notin { "created", "investigating", "cancelled" }
        /\ EndMark(r, "conflict")
        /\ UNCHANGED snap
  /\ UNCHANGED <<database, pending, req, result, interrupted>>

MarkCommit(r) ==
  /\ pc[r] \in { "mark_commit", "orphan_commit" }
  /\ ~pending[r]
  /\ \/ /\ Unchanged(r)
        /\ row' = Moved(snap[r], "cancelled")
        /\ EndMark(r, "ok")
     \/ /\ ~Unchanged(r)
        /\ EndMark(r, "error")
        /\ UNCHANGED row
  /\ UNCHANGED <<evidence, confirmations, candidates, agentRun,
                 pending, req, snap, result, interrupted>>

-----------------------------------------------------------------------------
(* supplement *)

SubmitSupplement(r, p) ==
  /\ \E c \in Contents : Submit(r, "supplement", p, c)
  /\ Goto(r, "supp_read")
  /\ UNCHANGED <<database, active, pending, snap, result, interrupted, outcome>>

\* Variant: a supplement accepted while a human decision is due.
SupplementAnyWait(r) ==
  /\ pc[r] = "supp_read"
  /\ row.status \in { "waiting_for_input", "waiting_for_confirmation" }
  /\ ReadRow(r)
  /\ Goto(r, "supp_find")
  /\ UNCHANGED <<database, active, pending, req, result, interrupted, outcome>>

SupplementRead(r) ==
  /\ pc[r] = "supp_read"
  /\ IF row.status = "waiting_for_input"
     THEN /\ ReadRow(r)
          /\ Goto(r, "supp_find")
          /\ UNCHANGED <<active, outcome>>
     ELSE /\ End(r, "conflict")
          /\ UNCHANGED snap
  /\ UNCHANGED <<database, pending, req, result, interrupted>>

SupplementFind(r) ==
  /\ pc[r] = "supp_find"
  /\ Goto(r, IF req[r].content \in evidence THEN "supp_commit" ELSE "supp_evidence")
  /\ UNCHANGED <<database, memory, interrupted, outcome>>

\* The insert runs in a SAVEPOINT that no BEGIN precedes, so releasing it
\* commits the evidence whatever becomes of the transition.
SupplementEvidence(r) ==
  /\ pc[r] = "supp_evidence"
  /\ IF req[r].content \in evidence
     THEN /\ End(r, "error")
          /\ UNCHANGED evidence
     ELSE /\ evidence' = evidence \union { req[r].content }
          /\ Goto(r, "supp_commit")
          /\ UNCHANGED <<active, outcome>>
  /\ UNCHANGED <<row, confirmations, candidates, agentRun,
                 pending, req, snap, result, interrupted>>

SupplementCommit(r) ==
  /\ pc[r] = "supp_commit"
  /\ IF Unchanged(r)
     THEN row' = Moved(snap[r], "investigating") /\ End(r, "ok")
     ELSE UNCHANGED row /\ End(r, "error")
  /\ UNCHANGED <<evidence, confirmations, candidates, agentRun,
                 pending, req, snap, result, interrupted>>

-----------------------------------------------------------------------------
(* confirm, reject and continue_investigation *)

SubmitDecision(r, p) ==
  /\ \E d \in Decisions : Submit(r, d, p, NoContent)
  /\ Goto(r, "conf_read")
  /\ UNCHANGED <<database, active, pending, snap, result, interrupted, outcome>>

ConfirmRead(r) ==
  /\ pc[r] = "conf_read"
  /\ IF row.status = "waiting_for_confirmation"
     THEN /\ ReadRow(r)
          /\ Goto(r, "conf_commit")
          /\ UNCHANGED <<active, outcome>>
     ELSE /\ End(r, "conflict")
          /\ UNCHANGED snap
  /\ UNCHANGED <<database, pending, req, result, interrupted>>

\* One transaction: the row, the Confirmation, and for the first rejection
\* the evaluation candidate.
ConfirmCommit(r) ==
  /\ pc[r] = "conf_commit"
  /\ \/ /\ Unchanged(r)
        /\ row' = Moved(snap[r], DecidedStatus(req[r].op))
        /\ confirmations' = confirmations \union { [by |-> r, action |-> req[r].op] }
        /\ candidates' = IF req[r].op = "reject" /\ candidates = {}
                         THEN {r} ELSE candidates
        /\ End(r, "ok")
     \/ /\ ~Unchanged(r)
        /\ End(r, "error")
        /\ UNCHANGED <<row, confirmations, candidates>>
  /\ UNCHANGED <<evidence, agentRun, pending, req, snap, result, interrupted>>

-----------------------------------------------------------------------------
(* Faults *)

\* A cancellation from outside of the run a process has registered.
Interrupt(p) ==
  /\ "interrupt" \in Faults
  /\ active[p] # NoRequest
  /\ pending' = [pending EXCEPT ![active[p]] = TRUE]
  /\ UNCHANGED <<database, active, req, snap, result, pc, interrupted, outcome>>

\* A statement fails, or the clock is behind updated_at and the transition is
\* refused, and the exception leaves the method.  Inside the loop
\* it becomes an INTERNAL_ERROR result; from _finish it does not, since
\* _finish is then called again on an AgentRun that is no longer running.
StatementFails(r) ==
  /\ "database" \in Faults
  /\ pc[r] \in InFlight \ { "loop", "finish_done", "apply_done" }
  /\ ~pending[r]
  /\ EndMark(r, "error")
  /\ UNCHANGED <<database, pending, req, snap, result, interrupted>>

\* A process dies and is started again: its tasks are gone, the database stays.
Crash(p) ==
  LET lost == { r \in Requests : pc[r] \in InFlight /\ req[r].host = p }
  IN  /\ "crash" \in Faults
      /\ lost # {}
      /\ pc' = [r \in Requests |-> IF r \in lost THEN "done" ELSE pc[r]]
      /\ outcome' = [r \in Requests |->
                       IF r \in lost /\ pc[r] \notin Orphaned THEN "lost" ELSE outcome[r]]
      /\ pending' = [r \in Requests |-> IF r \in lost THEN FALSE ELSE pending[r]]
      /\ active' = [active EXCEPT ![p] = NoRequest]
      /\ UNCHANGED <<database, req, snap, result, interrupted>>

-----------------------------------------------------------------------------

RunStep(r) ==
  \/ StartRead(r) \/ StartCommit(r) \/ AddAgentRun(r) \/ Prepare(r)
  \/ FinishLoop(r) \/ FinishCommit(r) \/ ReturnResult(r)
  \/ ApplyRead(r) \/ ApplyCommit(r) \/ Return(r)
  \/ CancelInService(r) \/ CancelInLoop(r) \/ FinishCancelledCommit(r)
  \/ CancelInFinish(r) \/ CancelInHandler(r) \/ CancelInMark(r)

MarkStep(r) == MarkRead(r) \/ MarkCommit(r)

HumanStep(r) ==
  \/ SupplementRead(r) \/ SupplementFind(r) \/ SupplementEvidence(r)
  \/ SupplementCommit(r) \/ ConfirmRead(r) \/ ConfirmCommit(r)

Step(r) == RunStep(r) \/ MarkStep(r) \/ HumanStep(r)

SubmitStep(r, p) ==
  SubmitRun(r, p) \/ SubmitCancel(r, p) \/ SubmitSupplement(r, p) \/ SubmitDecision(r, p)

\* Every request has been answered and none is left to make.
Quiescent == (\A r \in Requests : pc[r] = "done") /\ UNCHANGED vars

Next ==
  \/ \E r \in Requests : Step(r) \/ StatementFails(r)
  \/ \E r \in Requests, p \in Processes : SubmitStep(r, p)
  \/ \E p \in Processes : Interrupt(p) \/ Crash(p)
  \/ Quiescent

Spec == Init /\ [][Next]_vars

\* The event loop resumes every ready task, every statement ends, and the
\* loop is bounded by its rounds and its wall clock: each request advances.
FairSpec == Spec /\ \A r \in Requests : WF_vars(Step(r))

-----------------------------------------------------------------------------
(* Properties *)

\* The type of every variable.
TypeOK ==
  /\ row \in Rows
  /\ evidence \subseteq Contents
  /\ confirmations \subseteq [by : Requests, action : Decisions]
  /\ candidates \subseteq Requests
  /\ agentRun \in [Requests -> {"none", "running", "completed", "failed", "cancelled"}]
  /\ active \in [Processes -> Requests \union {NoRequest}]
  /\ pending \in [Requests -> BOOLEAN]
  /\ req \in [Requests -> Calls \union {NoCall}]
  /\ pc \in [Requests -> InFlight \union {"new", "done"}]
  /\ snap \in [Requests -> Rows]
  /\ result \in [Requests -> Results \union {"none"}]
  /\ interrupted \in [Requests -> BOOLEAN]
  /\ outcome \in [Requests -> {"none", "ok", "conflict", "error", "cancelled", "lost"}]

\* The registry holds a run exactly while that run is under way in its
\* process: it never refuses a diagnosis nobody runs, and never lets a second
\* run start beside one that is registered.  (A shielded cancellation that
\* outlives its run is not a run any more.)
RegistryExact ==
  \A r \in Requests, p \in Processes :
    active[p] = r <=>
      /\ req[r] # NoCall
      /\ req[r].op = "run"
      /\ req[r].host = p
      /\ pc[r] \in InRunner \union InService \union InMark

\* No copy a request works on is newer than the row, and one of the row's
\* version is the row: a version is never given to two different contents, so
\* the version alone tells whether a copy is stale.
VersionsIdentifyRows ==
  \A r \in Requests :
    /\ snap[r].version <= row.version
    /\ snap[r].version = row.version => snap[r] = row

FinalDecisions == { c \in confirmations : c.action # "continue_investigation" }

\* The case is confirmed (rejected) exactly if a Confirmation that says so is
\* stored, humans decide finally at most once, and exactly a rejected case has
\* its evaluation candidate: two reviewers who race leave one verdict.
DecisionMatchesStatus ==
  /\ row.status = "confirmed" <=> \E c \in FinalDecisions : c.action = "confirm"
  /\ row.status = "rejected" <=> \E c \in FinalDecisions : c.action = "reject"
  /\ \A c, d \in FinalDecisions : c = d
  /\ candidates = { c.by : c \in { d \in FinalDecisions : d.action = "reject" } }

\* What a reviewer or a user is asked about is the conclusion of a run whose
\* AgentRun row was stored as completed before.
ReviewedConclusionIsRecorded ==
  row.status \in Reviewable =>
    /\ row.conclusion \in Requests
    /\ agentRun[row.conclusion] = "completed"

\* A cancel answered with success stays true, whatever run or human decision
\* was under way when it was answered.
CancelIsFinal ==
  \A r \in Requests :
    req[r] # NoCall /\ req[r].op = "cancel" /\ outcome[r] = "ok" => row.status = "cancelled"

\* A run that answers normally has left a finished AgentRun row, and its
\* result was applied: the case has moved on from the copy the run last read.
AnsweredRunIsApplied ==
  \A r \in Requests :
    req[r] # NoCall /\ req[r].op = "run" /\ outcome[r] = "ok" =>
      /\ agentRun[r] \in {"completed", "failed"}
      /\ snap[r].version < row.version

\* The service implements the aggregate: every commit is one domain method
\* applied to the current case, together with its Confirmation and candidate.
Case == INSTANCE DiagnosisCase
          WITH case <- row, Conclusions <- Requests, NoConclusion <- NoRequest,
               Reviewers <- Requests

ImplementsCase == Case!CaseSpec

\* Every request that was accepted is answered: no task waits for ever, and a
\* run cannot keep its diagnosis registered for ever.
EveryRequestEnds == \A r \in Requests : pc[r] # "new" ~> pc[r] = "done"

\* Where nothing else fails, cancelling a diagnosis whose run is registered in
\* the same process ends the investigation, even though cancel() and the run
\* it interrupts race for the version and cancel() may lose.
CancelStopsInvestigation ==
  \A r \in Requests :
    pending[r] ~> row.status \notin { "created", "investigating" }

\* A run in which CancelledError was raised ends by raising it again
\* ("after cancellation is persisted, the signal propagates").
CancellationPropagates ==
  \A r \in Requests : interrupted[r] /\ pc[r] = "done" => outcome[r] \in {"cancelled", "lost"}

=============================================================================
