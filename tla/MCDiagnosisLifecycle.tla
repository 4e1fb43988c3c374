------------------------- MODULE MCDiagnosisLifecycle -------------------------
(* Instances of DiagnosisLifecycle for TLC. *)
EXTENDS DiagnosisLifecycle, TLC

Symmetry == Permutations(Requests) \union Permutations(Processes)
=============================================================================
