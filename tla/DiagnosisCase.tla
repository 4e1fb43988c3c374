---------------------------- MODULE DiagnosisCase ----------------------------
(***************************************************************************)
(* What the diagnosis aggregate promises, one atomic action per domain     *)
(* method (domain/diagnosis/case.py) together with the facts that a human  *)
(* decision leaves beside it: a Confirmation row, and for a rejection the  *)
(* evaluation candidate.  DiagnosisLifecycle, where every method is a      *)
(* read, a wait and a conditional write racing with others, implements it. *)
(***************************************************************************)
EXTENDS DiagnosisDomain

CONSTANTS
  Conclusions,    \* the conclusions a run may record
  NoConclusion,   \* the NULL of the conclusion column
  Reviewers       \* the requests by which humans decide

VARIABLES
  case,           \* the aggregate: status, version, conclusion
  confirmations,  \* Confirmation rows: who decided what
  candidates      \* EvaluationCandidate rows, by the rejection that made them

caseVars == <<case, confirmations, candidates>>

CaseInit ==
  /\ case = [status |-> "created", version |-> 0, conclusion |-> NoConclusion]
  /\ confirmations = {}
  /\ candidates = {}

TransitionTo(target) ==
  /\ CanMove(case, target)
  /\ case' = Moved(case, target)
  /\ UNCHANGED <<confirmations, candidates>>

StartInvestigation == case.status = "created" /\ TransitionTo("investigating")

MarkInconclusive == TransitionTo("inconclusive")

Cancel == TransitionTo("cancelled")

\* reopen_investigation after a supplement: no human decision is recorded.
ReopenForSupplement ==
  case.status = "waiting_for_input" /\ TransitionTo("investigating")

RecordInitialConclusion(c, target) ==
  /\ target \in { "waiting_for_input", "waiting_for_confirmation" }
  /\ CanMove(case, target)
  /\ case' = Concluded(case, target, c)
  /\ UNCHANGED <<confirmations, candidates>>

\* confirm, reject or reopen_investigation on a human's order: the decision
\* is recorded with the transition, and leaves the conclusion as it was.
Decide(by, d) ==
  /\ case.status = "waiting_for_confirmation"
  /\ case' = Moved(case, DecidedStatus(d))
  /\ confirmations' = confirmations \union { [by |-> by, action |-> d] }
  /\ candidates' = IF d = "reject" /\ candidates = {} THEN {by} ELSE candidates

CaseNext ==
  \/ StartInvestigation
  \/ MarkInconclusive
  \/ Cancel
  \/ ReopenForSupplement
  \/ \E c \in Conclusions, t \in Status : RecordInitialConclusion(c, t)
  \/ \E by \in Reviewers, d \in Decisions : Decide(by, d)

CaseSpec == CaseInit /\ [][CaseNext]_caseVars
=============================================================================
