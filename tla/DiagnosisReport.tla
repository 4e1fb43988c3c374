--------------------------- MODULE DiagnosisReport ---------------------------
(***************************************************************************)
(* What a reader sees of a diagnosis that others are changing:             *)
(* DiagnosisReportService.generate (application/reports.py) and            *)
(* DiagnosisTraceService.get (application/traces.py).  They read one table *)
(* after the other, and as no BEGIN precedes a SELECT, each read sees what *)
(* is committed by then: the parts of a report come from different times.  *)
(* The tables that no property relates to another are left out.            *)
(***************************************************************************)
EXTENDS DiagnosisLifecycle

VARIABLES
  reading,   \* the table read last
  report     \* what has been read so far

reader  == <<reading, report>>
allVars == <<vars, reader>>

Blank == [case |-> "unread", confirmations |-> "unread", runs |-> "unread"]

InitReport == Init /\ reading = "nothing" /\ report = Blank

ReadDiagnosis ==
  /\ reading \in { "nothing", "report", "trace" }
  /\ reading' = "diagnosis"
  /\ report' = [Blank EXCEPT !.case = row]
  /\ UNCHANGED vars

ReadConfirmations ==
  /\ reading = "diagnosis"
  /\ reading' = "confirmations"
  /\ report' = [report EXCEPT !.confirmations = confirmations]
  /\ UNCHANGED vars

\* Variant: a report that takes the status of the diagnosis when it is rendered.
ReadRunsAndStatus(kind, last) ==
  /\ reading = last
  /\ reading' = kind
  /\ report' = [report EXCEPT !.runs = agentRun, !.case = row]
  /\ UNCHANGED vars

\* list_agent_runs
ReadRuns(kind, last) ==
  /\ reading = last
  /\ reading' = kind
  /\ report' = [report EXCEPT !.runs = agentRun]
  /\ UNCHANGED vars

FinishReport == ReadRuns("report", "confirmations")

\* A trace shows no confirmations.
FinishTrace == ReadRuns("trace", "diagnosis")

Read == ReadDiagnosis \/ ReadConfirmations \/ FinishReport \/ FinishTrace

\* Readers delay no request and are delayed by none.
ReportNext == (Next /\ UNCHANGED reader) \/ Read

ReportSpec == InitReport /\ [][ReportNext]_allVars

-----------------------------------------------------------------------------
(* Properties *)

\* A report that says a diagnosis was confirmed or rejected also shows the
\* decision that did it, whatever was committed while it was put together.
VerdictIsShown ==
  reading = "report" /\ report.case.status \in { "confirmed", "rejected" } =>
    \E c \in report.confirmations : DecidedStatus(c.action) = report.case.status

\* A report or trace of a diagnosis that waits for people, or was decided by
\* them, shows as completed the run its conclusion comes from.
ConclusionHasItsRun ==
  reading \in { "report", "trace" } /\ report.case.status \in Reviewable =>
    report.runs[report.case.conclusion] = "completed"
=============================================================================
