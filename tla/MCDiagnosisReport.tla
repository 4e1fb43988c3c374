-------------------------- MODULE MCDiagnosisReport --------------------------
(* Instances of DiagnosisReport for TLC. *)
EXTENDS DiagnosisReport, TLC

Symmetry == Permutations(Requests) \union Permutations(Processes)
=============================================================================
