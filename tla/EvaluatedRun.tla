------------------------------ MODULE EvaluatedRun ------------------------------
(***************************************************************************)
(* A run of the agent loop, recorded at its end and scored by the offline  *)
(* evaluation.                                                             *)
(***************************************************************************)
EXTENDS ToolLoop, Evaluation

\* What the running system returned as completed, after whatever corrections and
\* tool calls, the evaluation does not count against it: no citation of the
\* answer is invalid by the evidence that was recorded, and the only claim
\* without evidence is a root cause that is called no more than possible.
CompletedRunScoresClean == run.reason = "completed" => ScoresClean(answer, evidence)
=============================================================================
