------------------------------- MODULE Evaluation -------------------------------
(***************************************************************************)
(* The offline evaluation (evaluation/runner.py): how one recorded run is  *)
(* scored against what was expected of it.  Its rules about citations were *)
(* written apart from those of CitationPolicy, which decide in the running *)
(* system.                                                                 *)
(*                                                                         *)
(* A case is a record of what was observed and expected:                   *)
(*   conclusion         a Conclusion, or Invalid, or Missing (None)        *)
(*   evidence, broken   the evidence that was recorded; a record of it     *)
(*                      does not parse                                     *)
(*   required_types, required_ids     the evidence that is required        *)
(*   termination        the reason is the expected one                     *)
(*   expected_category, observed_category   a category or Missing          *)
(*   named_at           the first root cause with an allowed keyword, 0 if *)
(*                      there is none, Unset if no keywords are given      *)
(*   forbidden          a root cause contains a forbidden keyword          *)
(*   sufficient, tools  "yes" or "no", as expected; Unset if nothing is    *)
(***************************************************************************)
EXTENDS CitationPolicy

CONSTANTS Invalid, Missing, Unset

ASSUME MarkersAssumption ==
  Invalid \notin Conclusion /\ Missing \notin Conclusion /\ Unset # "no"

Findings(c) == c.facts \union c.root_causes

Cited(c) == UNION { f.evidence_ids : f \in Findings(c) }

Unsupported(c) ==
  { f \in Findings(c) : f.status # "insufficient_evidence" /\ f.evidence_ids = {} }

ObservedSufficient(c) ==
  /\ c.root_causes # {}
  /\ \A f \in Findings(c) : f.status # "insufficient_evidence"

NoFindings == [facts |-> {}, root_causes |-> {}, recommendations |-> FALSE]

\* evaluate_case: the codes of what is wrong.
Failures(case) ==
  LET structured == case.conclusion \notin {Invalid, Missing}
      conclusion == IF structured THEN case.conclusion ELSE NoFindings
      sufficient == IF ObservedSufficient(conclusion) THEN "yes" ELSE "no"
      broken == [
        invalid_structured_output  |-> case.conclusion = Invalid,
        invalid_evidence_record    |-> case.broken,
        invalid_evidence_citations |->
          ~structured \/ Cited(conclusion) \ case.evidence # {},
        missing_required_evidence  |->
          \/ case.required_types \ { TypeOf[i] : i \in case.evidence } # {}
          \/ case.required_ids \ case.evidence # {},
        missing_required_evidence_citations |->
          case.required_ids \ Cited(conclusion) # {},
        unsupported_claims         |-> Unsupported(conclusion) # {},
        unexpected_termination_reason |-> ~case.termination,
        category_mismatch          |->
          case.expected_category \notin {Missing, case.observed_category},
        root_cause_mismatch        |-> case.named_at \notin {Unset, 1, 2, 3},
        forbidden_root_cause       |-> case.forbidden,
        information_sufficiency_mismatch |->
          case.sufficient # Unset /\ case.sufficient # sufficient,
        tool_selection_mismatch    |-> case.tools = "no" ]
  IN  { code \in DOMAIN broken : broken[code] }

\* A run as it is recorded, with nothing expected of it.
Recorded(conclusion, stored) ==
  [conclusion |-> conclusion, evidence |-> stored, broken |-> FALSE,
   required_types |-> {}, required_ids |-> {}, termination |-> TRUE,
   expected_category |-> Missing, observed_category |-> Missing, named_at |-> Unset,
   forbidden |-> FALSE, sufficient |-> Unset, tools |-> Unset]

\* The evaluation has nothing against a conclusion, but that it names possible
\* root causes without evidence.
ScoresClean(c, stored) ==
  LET codes == Failures(Recorded(c, stored))
  IN  /\ codes \subseteq {"unsupported_claims"}
      /\ codes # {} =>
           \E f \in c.root_causes : f.status = "possible" /\ f.evidence_ids = {}
=============================================================================
