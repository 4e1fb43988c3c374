------------------------------- MODULE MCToolLoop -------------------------------
EXTENDS EvaluatedRun, TLC

CONSTANTS user, log, code                 \* evidence
CONSTANTS searchLog, readFile, unknown    \* signatures
CONSTANTS k1, k2                          \* call ids

Types == (user :> "user_statement") @@ (log :> "log_excerpt") @@ (code :> "code_excerpt")

Drafts == (searchLog :> {log}) @@ (readFile :> {code}) @@ (unknown :> {})

\* Single calls with any id, and pairs: with two ids or with the same one.
Calls ==
  { <<c>> : c \in Call }
    \union { <<c, d>> \in Call \X Call :
              /\ c.id = k1 /\ d.id \in {k1, k2}
              /\ c.signature # unknown /\ d.signature # unknown }

Finds(status, ids) == [status |-> status, evidence_ids |-> ids]

Concludes(facts, causes, recommends) ==
  [facts |-> facts, root_causes |-> causes, recommendations |-> recommends]

\* Acceptable at once; once the log is stored; never; without any evidence.
Answers == {
  Concludes({Finds("possible", {user})}, {}, TRUE),
  Concludes({}, {Finds("probable", {log, code})}, FALSE),
  Concludes({Finds("confirmed", {user})}, {}, FALSE),
  Concludes({Finds("insufficient_evidence", {})}, {Finds("possible", {})}, TRUE) }
=============================================================================
