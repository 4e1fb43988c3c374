--------------------------- MODULE DiagnosisDomain ---------------------------
(***************************************************************************)
(* The vocabulary of the diagnosis aggregate (domain/diagnosis): the       *)
(* statuses, the legal transitions between them, and what one transition   *)
(* does to a case.  A case is the record                                   *)
(*   [status, version, conclusion]                                         *)
(* and the other columns of the row never influence control flow.          *)
(***************************************************************************)
EXTENDS Integers

Status == { "created", "investigating", "waiting_for_input",
            "waiting_for_confirmation", "confirmed", "rejected",
            "inconclusive", "cancelled" }

Terminal == { "confirmed", "rejected", "inconclusive", "cancelled" }

\* The statuses in which a reviewer or a user is shown a conclusion.
Reviewable == { "waiting_for_input", "waiting_for_confirmation",
                "confirmed", "rejected" }

Allowed ==
  [s \in Status |->
     CASE s = "created"       -> { "investigating", "cancelled" }
       [] s = "investigating" -> { "waiting_for_input", "waiting_for_confirmation",
                                   "inconclusive", "cancelled" }
       [] s = "waiting_for_input" -> { "investigating" }
       [] s = "waiting_for_confirmation" -> { "confirmed", "rejected", "investigating" }
       [] OTHER -> {} ]

\* Whether _transition_to accepts the target, the case it leaves behind, and
\* the case that record_initial_conclusion leaves behind.
CanMove(c, target) == target \in Allowed[c.status]

Concluded(c, target, conclusion) ==
  [status |-> target, version |-> c.version + 1, conclusion |-> conclusion]

Moved(c, target) == Concluded(c, target, c.conclusion)

\* ConfirmationAction, and the status each human action leads to.
Decisions == { "confirm", "reject", "continue_investigation" }

DecidedStatus(d) ==
  CASE d = "confirm" -> "confirmed"
    [] d = "reject"  -> "rejected"
    [] OTHER         -> "investigating"
=============================================================================
