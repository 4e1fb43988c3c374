------------------------------- MODULE MCCuration -------------------------------
(* What surrounds a run: the stores and tools that it is given, its dialogue *)
(* with the model, and the curation of what is learnt from it.  The three    *)
(* share no state, so that it is enough to let one of them take steps in a   *)
(* behavior.                                                                 *)
EXTENDS Curation, MCServiceTools, ModelDialogue, TLC

CONSTANTS r1, r2, r3, r4, null, k1, k2, noCall, early, newly

\* Two labels, one without evidence, and one that cites another diagnosis.
Tags == { [category |-> 1, evidence |-> {1}], [category |-> 2, evidence |-> {}],
          [category |-> 1, evidence |-> {2}] }

\* No call, one, two, and one without an id among others.
SomeBatches == { << >>, <<k1>>, <<k2, k1>>, <<k1, blank>> }

Symmetry == Permutations(Requests)

NoCurator == Init
NoAccess ==
  /\ \A c \in Cases : step[c] = "new"
  /\ catalogue = [s \in Services |-> NoProfile]
  /\ settings = Has(none, none, none, none)
NoDialogue == DialogueInit

SurroundingsInit == Init /\ AccessInit /\ DialogueInit
SurroundingsNext ==
  \/ /\ NoAccess /\ NoDialogue
     /\ Next /\ UNCHANGED <<accessVars, dialogueVars>>
  \/ /\ NoCurator /\ NoDialogue
     /\ AccessNext /\ UNCHANGED <<vars, dialogueVars>>
  \/ /\ NoCurator /\ NoAccess
     /\ DialogueNext /\ UNCHANGED <<vars, accessVars>>
  \/ /\ \/ \A c \in Cases : step[c] = "stranded" \/ calls[c] = MaxCalls
        \/ turn = "ended"                            \* nothing more is asked
     /\ UNCHANGED <<vars, accessVars, dialogueVars>>
SurroundingsSpec ==
  SurroundingsInit /\ [][SurroundingsNext]_<<vars, accessVars, dialogueVars>>
=============================================================================
