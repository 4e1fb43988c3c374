------------------------- MODULE MCIncidentDiscovery -------------------------
(* Instances of IncidentDiscovery for TLC. *)
EXTENDS IncidentDiscovery

\* Consumers run in processes of their own; calls reach the first process.
CONSTANTS c1, c2, r1, i1, i2, p1, p2

OneProcess == [t \in Tasks |-> p1]
TwoProcesses == [t \in Tasks |-> IF t = c2 THEN p2 ELSE p1]
=============================================================================
