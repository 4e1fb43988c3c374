-------------------------------- MODULE Curation --------------------------------
(***************************************************************************)
(* What people make of reviewed diagnoses: the knowledge entry derived     *)
(* from a confirmed one (application/knowledge.py) and the evaluation      *)
(* candidate that a rejected one left (application/evaluation_candidates   *)
(* .py).  Both services read a row, decide on the copy, and write without  *)
(* comparing versions, so requests that overlap act on stale copies.       *)
(*                                                                         *)
(* A step is one statement, or the statements of a transaction from its    *)
(* first write to its commit: SQLite begins a transaction at the first     *)
(* write, and reads before it see what others commit.  The SAVEPOINT of an *)
(* insert that comes first is itself the transaction, and its RELEASE the  *)
(* commit.                                                                 *)
(***************************************************************************)
EXTENDS FiniteSets, Sequences, Integers

CONSTANTS
  Requests,     \* the requests that clients will make
  Labels,       \* what reviewers label the candidate with
  OwnEvidence,  \* the evidence of the rejected diagnosis
  Unlabelled,   \* expected_category NULL
  MaxFaults     \* bound: how many statements fail

VARIABLES
  entry,      \* the knowledge_entries row with the id "diagnosis-<id>"
  trail,      \* the audit events of the entry
  confirmed,  \* the diagnosis of the entry is confirmed
  candidate,  \* the evaluation_candidates row
  req,        \* what each request asks
  pc,         \* the await at which it is suspended
  item,       \* the copy on which it decided
  record,     \* the ORM object it writes to
  outcome,
  faults

knowledge == <<entry, trail, confirmed>>
local     == <<req, item, record>>
vars      == <<knowledge, candidate, local, pc, outcome, faults>>

KnowledgeStatus == { "candidate", "confirmed", "retired" }
Sources == { "manual", "diagnosis" }

\* A label carries the category with the root cause and the prompt version,
\* which the API requires, and evidence ids, which may be none.
Label == [category : Nat, evidence : SUBSET Nat]

ASSUME LabelsAssumption == Labels \subseteq Label /\ Unlabelled \notin Nat
ASSUME EvidenceAssumption == OwnEvidence \subseteq Nat /\ MaxFaults \in Nat

NoEntry   == [status |-> "none", source |-> "none"]
Unlabeled == [status |-> "candidate", category |-> Unlabelled, evidence |-> {}]
NoCall    == [op |-> "none"]

Call ==
  [op : {"create"}, source : Sources] \union [op : {"derive", "promote"}]
    \union [op : {"change_status"}, status : KnowledgeStatus]
    \union [op : {"label"}, label : Labels]

Init ==
  /\ entry = NoEntry
  /\ trail = <<>>
  /\ confirmed = FALSE
  /\ candidate = Unlabeled
  /\ req = [r \in Requests |-> NoCall]
  /\ pc = [r \in Requests |-> "new"]
  /\ item = [r \in Requests |-> NoEntry]
  /\ record = [r \in Requests |-> Unlabeled]
  /\ outcome = [r \in Requests |-> "none"]
  /\ faults = 0

-----------------------------------------------------------------------------
Goto(r, label) == pc' = [pc EXCEPT ![r] = label] /\ UNCHANGED outcome

Answer(r, what) ==
  /\ pc' = [pc EXCEPT ![r] = "done"]
  /\ outcome' = [outcome EXCEPT ![r] = what]

\* The first await of each method.
Start == [create |-> "insert", derive |-> "diagnosis", change_status |-> "entry",
          label |-> "candidate", promote |-> "candidate"]

Submit(r) ==
  /\ pc[r] = "new"
  /\ \E call \in Call :
       req' = [req EXCEPT ![r] = call] /\ Goto(r, Start[call.op])
  /\ UNCHANGED <<knowledge, candidate, item, record, faults>>

\* A person confirms the diagnosis, which is final.
ConfirmDiagnosis ==
  /\ ~confirmed
  /\ confirmed' = TRUE
  /\ UNCHANGED <<entry, trail, candidate, local, pc, outcome, faults>>

-----------------------------------------------------------------------------
(* Knowledge: create, create_from_confirmed_diagnosis *)

ReadDiagnosis(r) ==
  /\ pc[r] = "diagnosis"
  /\ IF confirmed THEN Goto(r, "existing") ELSE Answer(r, "not_allowed")
  /\ UNCHANGED <<knowledge, candidate, local, faults>>

Found(r) == Answer(r, IF entry.source = "diagnosis" THEN "existing" ELSE "conflict")

ReadExisting(r) ==
  /\ pc[r] = "existing"
  /\ IF entry = NoEntry THEN Goto(r, "insert") ELSE Found(r)
  /\ UNCHANGED <<knowledge, candidate, local, faults>>

NewEntry(r) ==
  [status |-> "candidate",
   source |-> IF req[r].op = "create" THEN req[r].source ELSE "diagnosis"]

\* Variant: the insert replaces the row that is there.
Upsert(r) ==
  /\ pc[r] = "insert"
  /\ entry' = NewEntry(r)
  /\ Goto(r, "audit")
  /\ UNCHANGED <<trail, confirmed, candidate, local, faults>>

\* The primary key refuses a second entry; a derivation then looks again at
\* what is there.
Insert(r) ==
  /\ pc[r] = "insert"
  /\ IF entry = NoEntry
     THEN entry' = NewEntry(r) /\ Goto(r, "audit")
     ELSE /\ UNCHANGED entry
          /\ IF req[r].op = "create" THEN Answer(r, "conflict") ELSE Goto(r, "again")
  /\ UNCHANGED <<trail, confirmed, candidate, local, faults>>

ReadAgain(r) ==
  /\ pc[r] = "again"
  /\ Found(r)
  /\ UNCHANGED <<knowledge, candidate, local, faults>>

AuditCreation(r) ==
  /\ pc[r] = "audit"
  /\ trail' = Append(trail, "created")
  /\ Answer(r, "created")
  /\ UNCHANGED <<entry, confirmed, candidate, local, faults>>

-----------------------------------------------------------------------------
(* Knowledge: change_status *)

\* KnowledgeEntry.with_status
MayBecome(from, to) ==
  \/ from = "candidate" /\ to \in {"confirmed", "retired"}
  \/ from = "confirmed" /\ to = "retired"

ReadEntry(r) ==
  /\ pc[r] = "entry"
  /\ item' = [item EXCEPT ![r] = entry]
  /\ LET target == req[r].status
     IN  \/ entry = NoEntry /\ Answer(r, "missing")
         \/ entry.status = target /\ Answer(r, "unchanged")
         \/ MayBecome(entry.status, target) /\ Goto(r, "save")
         \/ /\ entry # NoEntry /\ entry.status # target
            /\ ~MayBecome(entry.status, target) /\ Answer(r, "conflict")
  /\ UNCHANGED <<knowledge, candidate, req, record, faults>>

\* Variant: the change is committed without its audit event.
SaveUnaudited(r) ==
  /\ pc[r] = "save"
  /\ entry' = [item[r] EXCEPT !.status = req[r].status]
  /\ Answer(r, "updated")
  /\ UNCHANGED <<trail, confirmed, candidate, local, faults>>

\* UPDATE by id alone, with the audit event in the same transaction.
SaveEntry(r) ==
  /\ pc[r] = "save"
  /\ entry' = [item[r] EXCEPT !.status = req[r].status]
  /\ trail' = Append(trail, req[r].status)
  /\ Answer(r, "updated")
  /\ UNCHANGED <<confirmed, candidate, local, faults>>

-----------------------------------------------------------------------------
(* Evaluation candidates: label, promote *)

Promoted(c) == [c EXCEPT !.status = "promoted"]
Labelled(c, l) == [status |-> "labeled", category |-> l.category, evidence |-> l.evidence]

\* Variant: label() does not look at the evidence of the diagnosis.
CiteAnything(r) ==
  /\ pc[r] = "candidate"
  /\ \/ /\ req[r].op = "promote" /\ candidate.status = "labeled"
        /\ item' = [item EXCEPT ![r] = Promoted(candidate)]
        /\ Goto(r, "record")
     \/ /\ req[r].op = "label"
        /\ item' = [item EXCEPT ![r] = Labelled(candidate, req[r].label)]
        /\ Goto(r, "record")
  /\ UNCHANGED <<knowledge, candidate, req, record, faults>>

ReadCandidate(r) ==
  /\ pc[r] = "candidate"
  /\ LET allowed ==
           IF req[r].op = "promote" THEN candidate.status = "labeled"
           ELSE candidate.status # "promoted" /\ req[r].label.evidence \subseteq OwnEvidence
     IN  \/ /\ allowed
            /\ item' = [item EXCEPT ![r] =
                          IF req[r].op = "promote" THEN Promoted(candidate)
                          ELSE Labelled(candidate, req[r].label)]
            /\ Goto(r, "record")
         \/ ~allowed /\ Answer(r, "conflict") /\ UNCHANGED item
  /\ UNCHANGED <<knowledge, candidate, req, record, faults>>

\* save() loads the row once more: the object of the first read is gone, as
\* the session only refers to it weakly.
LoadRecord(r) ==
  /\ pc[r] = "record"
  /\ record' = [record EXCEPT ![r] = candidate]
  /\ Goto(r, "flush")
  /\ UNCHANGED <<knowledge, candidate, req, item, faults>>

\* The UPDATE sets the columns in which the copy differs from that object.
Flush(r) ==
  /\ pc[r] = "flush"
  /\ candidate' = [column \in DOMAIN candidate |->
       IF item[r][column] # record[r][column] THEN item[r][column] ELSE candidate[column]]
  /\ Answer(r, "saved")
  /\ UNCHANGED <<knowledge, local, faults>>

-----------------------------------------------------------------------------
\* A statement fails or the process dies: what was committed before stays.
Fail(r) ==
  /\ pc[r] \notin {"new", "done"}
  /\ faults < MaxFaults
  /\ faults' = faults + 1
  /\ Answer(r, "error")
  /\ UNCHANGED <<knowledge, candidate, local>>

Terminated == (\A r \in Requests : pc[r] = "done") /\ UNCHANGED vars

Next ==
  \/ ConfirmDiagnosis
  \/ \E r \in Requests :
       \/ Submit(r)
       \/ ReadDiagnosis(r) \/ ReadExisting(r) \/ Insert(r) \/ ReadAgain(r)
       \/ AuditCreation(r)
       \/ ReadEntry(r) \/ SaveEntry(r)
       \/ ReadCandidate(r) \/ LoadRecord(r) \/ Flush(r)
       \/ Fail(r)
  \/ Terminated

Spec == Init /\ [][Next]_vars

-----------------------------------------------------------------------------
(* Properties *)

Entry == { NoEntry } \union [status : KnowledgeStatus, source : Sources]

Candidate ==
  [status : {"candidate", "labeled", "promoted"}, category : Nat \union {Unlabelled},
   evidence : SUBSET Nat]

TypeOK ==
  /\ entry \in Entry
  /\ trail \in Seq({"created"} \union KnowledgeStatus)
  /\ confirmed \in BOOLEAN
  /\ candidate \in Candidate
  /\ req \in [Requests -> Call \union {NoCall}]
  /\ pc \in [Requests -> {"new", "diagnosis", "existing", "insert", "again", "audit",
                          "entry", "save", "candidate", "record", "flush", "done"}]
  /\ item \in [Requests -> Entry \union Candidate]
  /\ record \in [Requests -> Candidate]
  /\ outcome \in [Requests -> {"none", "not_allowed", "existing", "conflict", "created",
                               "missing", "unchanged", "updated", "saved", "error"}]
  /\ faults \in 0..MaxFaults

\* Although writers overwrite each other, the status of the entry is always the
\* one that the last audit event about it names.
StatusIsAudited ==
  LET changes == { i \in DOMAIN trail : trail[i] # "created" }
  IN  /\ changes = {} => entry.status \in {"none", "candidate"}
      /\ \A i \in changes : (\A j \in changes : j <= i) => entry.status = trail[i]

\* However often a diagnosis is derived or its id is taken by hand, one request
\* creates the entry; a derivation that succeeds has a confirmed diagnosis and
\* answers with an entry made from it, which nobody replaces.
DerivedOnce ==
  /\ Cardinality({ r \in Requests : outcome[r] = "created" }) <= 1
  /\ \A r \in Requests :
       req[r].op = "derive" /\ outcome[r] \in {"created", "existing"} =>
         confirmed /\ entry.source = "diagnosis"

\* What is promoted has been labelled, and stays so while labels race with it;
\* its label cites evidence of its own diagnosis, even when two labels mix
\* (evaluation_candidate_repository.py, save; evaluation_candidates.py, label).
LabelsAreSound ==
  /\ candidate.status = "promoted" => candidate.category # Unlabelled
  /\ candidate.evidence \subseteq OwnEvidence

\* "retired is terminal": a retired entry never comes back.
RetiredIsFinal == [][entry.status = "retired" => entry'.status = "retired"]_vars
=============================================================================
