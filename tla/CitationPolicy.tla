----------------------------- MODULE CitationPolicy -----------------------------
(***************************************************************************)
(* EvidenceCitationPolicy (agent/policies/evidence_citations.py): which    *)
(* conclusions of the model the system accepts, given the evidence that is *)
(* stored for the diagnosis.                                               *)
(*                                                                         *)
(* A finding is a record [status, evidence_ids], a conclusion a record     *)
(* [facts, root_causes, recommendations] of two sets of findings and       *)
(* whether it recommends anything.  Evidence is a set of items; an id that *)
(* is not among them is unknown, or belongs to another diagnosis.          *)
(***************************************************************************)
EXTENDS FiniteSets

CONSTANTS
  Items,   \* what can be stored as evidence; an item stands for its id
  TypeOf   \* the EvidenceType of each item

EvidenceTypes == { "user_statement", "log_excerpt", "knowledge_entry",
                   "code_excerpt", "config_excerpt", "health_check" }
FindingStatus == { "confirmed", "probable", "possible", "insufficient_evidence" }

ASSUME TypeOfAssumption == TypeOf \in [Items -> EvidenceTypes]

Finding == [status : FindingStatus, evidence_ids : SUBSET Items]

Conclusion ==
  [facts : SUBSET Finding, root_causes : SUBSET Finding, recommendations : BOOLEAN]

Direct == { i \in Items : TypeOf[i] \in {"user_statement", "log_excerpt"} }

\* Variant: a citation counts as support although the evidence is not stored.
CitesAnything(finding, evidence, require_evidence) ==
  LET cited == finding.evidence_ids
      valid == cited \intersect evidence
      broken == [
        model_cannot_confirm             |-> finding.status = "confirmed",
        probable_requires_direct_evidence |->
          finding.status = "probable" /\ valid \intersect Direct = {},
        insufficient_must_not_cite       |->
          finding.status = "insufficient_evidence" /\ cited # {},
        finding_requires_evidence        |->
          require_evidence /\ finding.status # "insufficient_evidence" /\ cited = {} ]
  IN  { code \in DOMAIN broken : broken[code] }

\* _validate_finding: the codes of the rules a finding breaks.
FindingViolations(finding, evidence, require_evidence) ==
  LET cited == finding.evidence_ids
      valid == cited \intersect evidence
      broken == [
        foreign_or_unknown_evidence      |-> cited # valid,
        model_cannot_confirm             |-> finding.status = "confirmed",
        probable_requires_direct_evidence |->
          finding.status = "probable" /\ valid \intersect Direct = {},
        insufficient_must_not_cite       |->
          finding.status = "insufficient_evidence" /\ cited # {},
        finding_requires_evidence        |->
          require_evidence /\ finding.status # "insufficient_evidence" /\ cited = {} ]
  IN  { code \in DOMAIN broken : broken[code] }

\* validate
Violations(conclusion, evidence) ==
  (UNION { FindingViolations(f, evidence, TRUE) : f \in conclusion.facts })
    \union (UNION { FindingViolations(f, evidence, FALSE) : f \in conclusion.root_causes })
    \union { code \in {"possible_requires_verification"} :
               /\ \E f \in conclusion.facts \union conclusion.root_causes :
                    f.status = "possible"
               /\ ~conclusion.recommendations }

=============================================================================
