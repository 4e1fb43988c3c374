--------------------------- MODULE KnowledgeProofs ---------------------------
(***************************************************************************)
(* What is learnt from diagnoses, for any number of requests, searches,    *)
(* labels, processes, files and failing statements: the entry of a request *)
(* has the status that its trail names and is created once, and labels are *)
(* sound; seeding completes, and revives nothing.                          *)
(***************************************************************************)
EXTENDS Curation, KnowledgeSeeds, DataLemmas

(***************************************************************************)
(*                                 CURATION                                *)
(***************************************************************************)

\* What a request has established by the await at which it is suspended.
Derives(r) ==
  /\ pc[r] \in {"diagnosis", "existing", "again"} => req[r].op = "derive"
  /\ pc[r] \in {"existing", "again"} => confirmed
  /\ pc[r] \in {"insert", "audit"} => req[r].op = "create" \/ (req[r].op = "derive" /\ confirmed)
  /\ pc[r] = "audit" /\ req[r].op = "derive" => entry.source = "diagnosis"
  /\ outcome[r] # "none" => pc[r] = "done"
  /\ req[r].op = "derive" /\ outcome[r] \in {"created", "existing"} =>
       confirmed /\ entry.source = "diagnosis"

Changes(r) ==
  /\ pc[r] \in {"entry", "save"} => req[r] \in [op : {"change_status"}, status : KnowledgeStatus]
  /\ pc[r] = "save" => /\ item[r] \in [status : KnowledgeStatus, source : Sources]
                       /\ entry # NoEntry /\ item[r].source = entry.source

Relabels(r) ==
  /\ pc[r] = "candidate" => req[r] \in [op : {"promote"}] \union [op : {"label"}, label : Labels]
  /\ pc[r] \in {"record", "flush"} =>
       item[r] \in [status : {"labeled", "promoted"}, category : Nat, evidence : SUBSET OwnEvidence]
  /\ pc[r] = "flush" /\ record[r].category # Unlabelled => candidate.category # Unlabelled

\* Whoever creates the entry does so alone.
Creates(r) == pc[r] = "audit" \/ outcome[r] = "created"

OneCreator ==
  /\ entry = NoEntry => \A r \in Requests : ~Creates(r)
  /\ \A r, q \in Requests : Creates(r) /\ Creates(q) => r = q

\* A change that is audited has been made to an entry.
Changed == \A i \in DOMAIN trail : trail[i] # "created" => entry # NoEntry

CandidateIsSound ==
  /\ candidate.status # "candidate" => candidate.category # Unlabelled
  /\ candidate.evidence \subseteq OwnEvidence

Inv ==
  /\ TypeOK
  /\ \A r \in Requests : Derives(r) /\ Changes(r) /\ Relabels(r)
  /\ OneCreator
  /\ Changed /\ StatusIsAudited
  /\ CandidateIsSound

LEMMA Starts == Init => Inv
<1> SUFFICES ASSUME Init PROVE Inv
  OBVIOUS
<1> USE DEF Init
<1>1. TypeOK
  <2>1. entry \in Entry /\ item \in [Requests -> Entry \union Candidate]
    BY DEF Entry
  <2>2. Unlabeled \in Candidate
    BY DEF Unlabeled, Candidate
  <2>3. candidate \in Candidate /\ record \in [Requests -> Candidate]
    BY <2>2
  <2>4. trail \in Seq({"created"} \union KnowledgeStatus)
    OBVIOUS
  <2>5. req \in [Requests -> Call \union {NoCall}]
    OBVIOUS
  <2>6. faults \in 0..MaxFaults
    BY EvidenceAssumption
  <2>7. confirmed \in BOOLEAN
    BY Zenon
  <2> QED
    BY <2>1, <2>3, <2>4, <2>5, <2>6, <2>7 DEF TypeOK
<1>2. \A r \in Requests : Derives(r) /\ Changes(r) /\ Relabels(r)
  BY DEF Derives, Changes, Relabels
<1>3. OneCreator
  BY DEF OneCreator, Creates
<1>4. Changed /\ StatusIsAudited
  BY DEF Changed, StatusIsAudited, NoEntry
<1>5. CandidateIsSound
  BY DEF CandidateIsSound, Unlabeled
<1> QED
  BY <1>1, <1>2, <1>3, <1>4, <1>5 DEF Inv

-----------------------------------------------------------------------------
(* Types *)

LEMMA Typed == ASSUME Inv, Next PROVE TypeOK'
<1> USE LabelsAssumption, EvidenceAssumption DEF Inv, TypeOK, Goto, Answer, knowledge, local
<1>1. ASSUME ConfirmDiagnosis PROVE TypeOK'
  BY <1>1 DEF ConfirmDiagnosis
<1>2. ASSUME NEW r \in Requests, Submit(r) PROVE TypeOK'
  <2>1. PICK call \in Call : req' = [req EXCEPT ![r] = call] /\ Goto(r, Start[call.op])
    BY <1>2 DEF Submit
  <2>2. Start[call.op] \in {"diagnosis", "insert", "entry", "candidate"}
    BY DEF Call, Start
  <2> QED
    BY <1>2, <2>1, <2>2 DEF Submit
<1>3. ASSUME NEW r \in Requests, ReadDiagnosis(r) \/ ReadExisting(r) \/ ReadAgain(r) PROVE TypeOK'
  BY <1>3 DEF ReadDiagnosis, ReadExisting, ReadAgain, Found
<1>4. ASSUME NEW r \in Requests, Insert(r) PROVE TypeOK'
  <2>1. NewEntry(r) \in Entry
    BY <1>4 DEF Insert, Derives, NewEntry, Entry, Sources, KnowledgeStatus, Call, NoCall
  <2>2. entry' \in Entry
    BY <1>4, <2>1 DEF Insert
  <2> QED
    BY <1>4, <2>2 DEF Insert
<1>5. ASSUME NEW r \in Requests, AuditCreation(r) PROVE TypeOK'
  BY <1>5 DEF AuditCreation
<1>6. ASSUME NEW r \in Requests, ReadEntry(r) PROVE TypeOK'
  BY <1>6 DEF ReadEntry
<1>7. ASSUME NEW r \in Requests, SaveEntry(r) PROVE TypeOK'
  <2>1. req[r].status \in KnowledgeStatus
    BY <1>7 DEF SaveEntry, Changes
  <2>2. entry' \in [status : KnowledgeStatus, source : Sources]
    BY <1>7, <2>1 DEF SaveEntry, Changes
  <2> QED
    BY <1>7, <2>1, <2>2 DEF SaveEntry, Entry
<1>8. ASSUME NEW r \in Requests, ReadCandidate(r) PROVE TypeOK'
  <2>1. Promoted(candidate) \in Candidate
    BY DEF Promoted, Candidate
  <2>2. req[r].op = "label" => Labelled(candidate, req[r].label) \in Candidate
    BY <1>8 DEF ReadCandidate, Relabels, Labelled, Candidate, Label
  <2>3. req[r].op \in {"label", "promote"}
    BY <1>8 DEF ReadCandidate, Relabels
  <2>4. item' \in [Requests -> Entry \union Candidate]
    BY <1>8, <2>1, <2>2, <2>3 DEF ReadCandidate
  <2> QED
    BY <1>8, <2>4 DEF ReadCandidate
<1>9. ASSUME NEW r \in Requests, LoadRecord(r) PROVE TypeOK'
  BY <1>9 DEF LoadRecord
<1>10. ASSUME NEW r \in Requests, Flush(r) PROVE TypeOK'
  <2>1. candidate' \in Candidate
    BY <1>10 DEF Flush, Relabels, Candidate
  <2> QED
    BY <1>10, <2>1 DEF Flush
<1>11. ASSUME NEW r \in Requests, Fail(r) PROVE TypeOK'
  BY <1>11 DEF Fail
<1>12. ASSUME Terminated PROVE TypeOK'
  BY <1>12 DEF Terminated, vars
<1> QED
  BY <1>1, <1>2, <1>3, <1>4, <1>5, <1>6, <1>7, <1>8, <1>9, <1>10, <1>11, <1>12 DEF Next

-----------------------------------------------------------------------------
(* What requests have established *)

LEMMA Derived == ASSUME Inv, Next, NEW q \in Requests PROVE Derives(q)'
<1> USE DEF Inv, TypeOK, Goto, Answer, knowledge, local, Derives
<1>1. ASSUME ConfirmDiagnosis PROVE Derives(q)'
  BY <1>1 DEF ConfirmDiagnosis
<1>2. ASSUME NEW r \in Requests, Submit(r) PROVE Derives(q)'
  <2>1. PICK call \in Call : req' = [req EXCEPT ![r] = call] /\ Goto(r, Start[call.op])
    BY <1>2 DEF Submit
  <2>2. /\ call.op = "derive" <=> Start[call.op] = "diagnosis"
        /\ call.op = "create" <=> Start[call.op] = "insert"
        /\ Start[call.op] \notin {"existing", "again", "audit"}
    BY DEF Call, Start
  <2> QED
    BY <1>2, <2>1, <2>2 DEF Submit
<1>3. ASSUME NEW r \in Requests, ReadDiagnosis(r) \/ ReadExisting(r) \/ ReadAgain(r) PROVE Derives(q)'
  BY <1>3 DEF ReadDiagnosis, ReadExisting, ReadAgain, Found
<1>4. ASSUME NEW r \in Requests, Insert(r) PROVE Derives(q)'
  BY <1>4 DEF Insert, NewEntry, NoEntry
<1>5. ASSUME NEW r \in Requests, AuditCreation(r) PROVE Derives(q)'
  BY <1>5 DEF AuditCreation
<1>6. ASSUME NEW r \in Requests, ReadEntry(r) PROVE Derives(q)'
  BY <1>6 DEF ReadEntry
<1>7. ASSUME NEW r \in Requests, SaveEntry(r) PROVE Derives(q)'
  <2>1. entry'.source = entry.source
    BY <1>7 DEF SaveEntry, Changes
  <2> QED
    BY <1>7, <2>1 DEF SaveEntry, Changes
<1>8. ASSUME NEW r \in Requests, ReadCandidate(r) PROVE Derives(q)'
  BY <1>8 DEF ReadCandidate
<1>9. ASSUME NEW r \in Requests, LoadRecord(r) \/ Flush(r) \/ Fail(r) PROVE Derives(q)'
  BY <1>9 DEF LoadRecord, Flush, Fail
<1>10. ASSUME Terminated PROVE Derives(q)'
  BY <1>10 DEF Terminated, vars
<1> QED
  BY <1>1, <1>2, <1>3, <1>4, <1>5, <1>6, <1>7, <1>8, <1>9, <1>10 DEF Next

LEMMA StatusChanges == ASSUME Inv, Next, NEW q \in Requests PROVE Changes(q)'
<1> USE DEF Inv, TypeOK, Goto, Answer, knowledge, local, Changes
<1>1. ASSUME ConfirmDiagnosis PROVE Changes(q)'
  BY <1>1 DEF ConfirmDiagnosis
<1>2. ASSUME NEW r \in Requests, Submit(r) PROVE Changes(q)'
  <2>1. PICK call \in Call : req' = [req EXCEPT ![r] = call] /\ Goto(r, Start[call.op])
    BY <1>2 DEF Submit
  <2>2. /\ Start[call.op] = "entry" => call \in [op : {"change_status"}, status : KnowledgeStatus]
        /\ Start[call.op] # "save"
    BY DEF Call, Start
  <2> QED
    BY <1>2, <2>1, <2>2 DEF Submit
<1>3. ASSUME NEW r \in Requests, ReadDiagnosis(r) \/ ReadExisting(r) \/ ReadAgain(r) PROVE Changes(q)'
  BY <1>3 DEF ReadDiagnosis, ReadExisting, ReadAgain, Found
<1>4. ASSUME NEW r \in Requests, Insert(r) PROVE Changes(q)'
  BY <1>4 DEF Insert, NewEntry, NoEntry
<1>5. ASSUME NEW r \in Requests, AuditCreation(r) PROVE Changes(q)'
  BY <1>5 DEF AuditCreation
<1>6. ASSUME NEW r \in Requests, ReadEntry(r) PROVE Changes(q)'
  <2>1. CASE pc'[r] = "save"
    <3>1. MayBecome(entry.status, req[r].status)
      BY <1>6, <2>1 DEF ReadEntry
    <3>2. entry \in [status : KnowledgeStatus, source : Sources] /\ entry # NoEntry
      BY <3>1 DEF MayBecome, Entry, NoEntry
    <3> QED
      BY <1>6, <3>2 DEF ReadEntry
  <2>2. CASE pc'[r] # "save"
    BY <1>6, <2>2 DEF ReadEntry
  <2> QED
    BY <2>1, <2>2
<1>7. ASSUME NEW r \in Requests, SaveEntry(r) PROVE Changes(q)'
  <2>1. entry'.source = entry.source /\ entry'.status \in KnowledgeStatus
    BY <1>7 DEF SaveEntry
  <2>2. entry' # NoEntry
    BY <2>1 DEF NoEntry, KnowledgeStatus
  <2> QED
    BY <1>7, <2>1, <2>2 DEF SaveEntry
<1>8. ASSUME NEW r \in Requests, ReadCandidate(r) PROVE Changes(q)'
  BY <1>8 DEF ReadCandidate
<1>9. ASSUME NEW r \in Requests, LoadRecord(r) \/ Flush(r) \/ Fail(r) PROVE Changes(q)'
  BY <1>9 DEF LoadRecord, Flush, Fail
<1>10. ASSUME Terminated PROVE Changes(q)'
  BY <1>10 DEF Terminated, vars
<1> QED
  BY <1>1, <1>2, <1>3, <1>4, <1>5, <1>6, <1>7, <1>8, <1>9, <1>10 DEF Next

LEMMA LabelRequests == ASSUME Inv, Next, NEW q \in Requests PROVE Relabels(q)'
<1> USE DEF Inv, TypeOK, Goto, Answer, knowledge, local, Relabels
<1>1. ASSUME ConfirmDiagnosis PROVE Relabels(q)'
  BY <1>1 DEF ConfirmDiagnosis
<1>2. ASSUME NEW r \in Requests, Submit(r) PROVE Relabels(q)'
  <2>1. PICK call \in Call : req' = [req EXCEPT ![r] = call] /\ Goto(r, Start[call.op])
    BY <1>2 DEF Submit
  <2>2. /\ Start[call.op] = "candidate" =>
             call \in [op : {"promote"}] \union [op : {"label"}, label : Labels]
        /\ Start[call.op] \notin {"record", "flush"}
    BY DEF Call, Start
  <2> QED
    BY <1>2, <2>1, <2>2 DEF Submit
<1>3. ASSUME NEW r \in Requests, ReadDiagnosis(r) \/ ReadExisting(r) \/ ReadAgain(r) PROVE Relabels(q)'
  BY <1>3 DEF ReadDiagnosis, ReadExisting, ReadAgain, Found
<1>4. ASSUME NEW r \in Requests, Insert(r) \/ AuditCreation(r) \/ ReadEntry(r) \/ SaveEntry(r)
      PROVE  Relabels(q)'
  BY <1>4 DEF Insert, AuditCreation, ReadEntry, SaveEntry
<1>5. ASSUME NEW r \in Requests, ReadCandidate(r) PROVE Relabels(q)'
  <2> DEFINE Sound == [status : {"labeled", "promoted"}, category : Nat, evidence : SUBSET OwnEvidence]
  <2>1. candidate.status = "labeled" => Promoted(candidate) \in Sound
    BY DEF Promoted, Candidate, CandidateIsSound
  <2>2. req[r].op = "label" /\ req[r].label.evidence \subseteq OwnEvidence =>
          Labelled(candidate, req[r].label) \in Sound
    BY <1>5, LabelsAssumption DEF ReadCandidate, Labelled, Label
  <2>3. req[r].op \in {"label", "promote"}
    BY <1>5 DEF ReadCandidate
  <2>4. pc'[r] = "record" => item'[r] \in Sound
    BY <1>5, <2>1, <2>2, <2>3 DEF ReadCandidate
  <2> QED
    BY <1>5, <2>4 DEF ReadCandidate
<1>6. ASSUME NEW r \in Requests, LoadRecord(r) PROVE Relabels(q)'
  BY <1>6 DEF LoadRecord
<1>7. ASSUME NEW r \in Requests, Flush(r) PROVE Relabels(q)'
  <2>1. candidate'.category # Unlabelled
    BY <1>7, LabelsAssumption DEF Flush, Candidate
  <2> QED
    BY <1>7, <2>1 DEF Flush
<1>8. ASSUME NEW r \in Requests, Fail(r) PROVE Relabels(q)'
  BY <1>8 DEF Fail
<1>9. ASSUME Terminated PROVE Relabels(q)'
  BY <1>9 DEF Terminated, vars
<1> QED
  BY <1>1, <1>2, <1>3, <1>4, <1>5, <1>6, <1>7, <1>8, <1>9 DEF Next

-----------------------------------------------------------------------------
(* What is true of the rows *)

LEMMA CreatedOnce == ASSUME Inv, Next PROVE OneCreator'
<1> USE DEF Inv, TypeOK, Goto, Answer, knowledge, local, OneCreator, Creates, Derives
<1>1. ASSUME NEW r \in Requests, Submit(r) PROVE OneCreator'
  <2>1. PICK call \in Call : req' = [req EXCEPT ![r] = call] /\ Goto(r, Start[call.op])
    BY <1>1 DEF Submit
  <2>2. Start[call.op] # "audit"
    BY DEF Call, Start
  <2> QED
    BY <1>1, <2>1, <2>2 DEF Submit
<1>2. ASSUME NEW r \in Requests, ReadDiagnosis(r) \/ ReadExisting(r) \/ ReadAgain(r) PROVE OneCreator'
  BY <1>2 DEF ReadDiagnosis, ReadExisting, ReadAgain, Found
<1>3. ASSUME NEW r \in Requests, Insert(r) PROVE OneCreator'
  <2>1. NewEntry(r) # NoEntry
    BY DEF NewEntry, NoEntry
  <2> QED
    BY <1>3, <2>1 DEF Insert
<1>4. ASSUME NEW r \in Requests, AuditCreation(r) PROVE OneCreator'
  BY <1>4 DEF AuditCreation
<1>5. ASSUME NEW r \in Requests, ReadEntry(r) PROVE OneCreator'
  BY <1>5 DEF ReadEntry
<1>6. ASSUME NEW r \in Requests, SaveEntry(r) PROVE OneCreator'
  <2>1. entry # NoEntry
    BY <1>6 DEF SaveEntry, Changes
  <2>2. entry'.status \in KnowledgeStatus
    BY <1>6 DEF SaveEntry, Changes
  <2>3. entry' # NoEntry
    BY <2>2 DEF NoEntry, KnowledgeStatus
  <2>4. \A q \in Requests : Creates(q)' => Creates(q)
    BY <1>6 DEF SaveEntry
  <2> QED
    BY <2>1, <2>3, <2>4
<1>7. ASSUME NEW r \in Requests, ReadCandidate(r) PROVE OneCreator'
  <2>1. UNCHANGED entry /\ \A q \in Requests : Creates(q)' => Creates(q)
    BY <1>7 DEF ReadCandidate
  <2> QED
    BY <2>1
<1>8. ASSUME NEW r \in Requests, LoadRecord(r) \/ Flush(r) \/ Fail(r) PROVE OneCreator'
  <2>1. CASE LoadRecord(r)
    BY <2>1 DEF LoadRecord
  <2>2. CASE Flush(r)
    BY <2>2 DEF Flush
  <2>3. CASE Fail(r)
    BY <2>3 DEF Fail
  <2> QED
    BY <1>8, <2>1, <2>2, <2>3
<1>9. ASSUME ConfirmDiagnosis \/ Terminated PROVE OneCreator'
  BY <1>9 DEF ConfirmDiagnosis, Terminated, vars
<1> QED
  BY <1>1, <1>2, <1>3, <1>4, <1>5, <1>6, <1>7, <1>8, <1>9 DEF Next

LEMMA TrailFollows == ASSUME Inv, Next PROVE (Changed /\ StatusIsAudited)'
<1> USE DEF Inv, TypeOK, Goto, Answer, knowledge, local
<1>1. ASSUME UNCHANGED <<entry, trail>> PROVE (Changed /\ StatusIsAudited)'
  BY <1>1 DEF Changed, StatusIsAudited
<1>2. ASSUME NEW r \in Requests, Insert(r) PROVE (Changed /\ StatusIsAudited)'
  <2>1. CASE entry = NoEntry
    <3>1. trail' = trail /\ entry' = NewEntry(r)
      BY <1>2, <2>1 DEF Insert
    <3>2. entry'.status = "candidate" /\ \A i \in DOMAIN trail : trail[i] = "created"
      BY <2>1, <3>1 DEF NewEntry, Changed
    <3> QED
      BY <3>1, <3>2 DEF Changed, StatusIsAudited
  <2>2. CASE entry # NoEntry
    BY <1>1, <1>2, <2>2 DEF Insert
  <2> QED
    BY <2>1, <2>2
<1>3. ASSUME NEW r \in Requests, AuditCreation(r) PROVE (Changed /\ StatusIsAudited)'
  <2>1. /\ entry' = entry /\ Len(trail') = Len(trail) + 1
        /\ trail'[Len(trail) + 1] = "created" /\ \A i \in 1..Len(trail) : trail'[i] = trail[i]
        /\ DOMAIN trail = 1..Len(trail) /\ DOMAIN trail' = 1..(Len(trail) + 1) /\ Len(trail) \in Nat
    BY <1>3 DEF AuditCreation
  <2>2. { i \in DOMAIN trail' : trail'[i] # "created" } = { i \in DOMAIN trail : trail[i] # "created" }
    BY <2>1
  <2>3. Changed'
    BY <2>1 DEF Changed
  <2>4. StatusIsAudited'
    BY <2>1, <2>2 DEF StatusIsAudited
  <2> QED
    BY <2>3, <2>4
<1>4. ASSUME NEW r \in Requests, SaveEntry(r) PROVE (Changed /\ StatusIsAudited)'
  <2>1. req[r].status \in KnowledgeStatus /\ entry'.status = req[r].status
    BY <1>4 DEF SaveEntry, Changes
  <2>2. /\ trail'[Len(trail) + 1] = req[r].status
        /\ DOMAIN trail' = 1..(Len(trail) + 1) /\ Len(trail) \in Nat
    BY <1>4, <2>1 DEF SaveEntry
  <2>3. req[r].status # "created" /\ entry' # NoEntry
    BY <2>1 DEF KnowledgeStatus, NoEntry
  <2>4. Changed'
    BY <2>3 DEF Changed
  <2>5. \A i \in DOMAIN trail' :
          (\A j \in { j \in DOMAIN trail' : trail'[j] # "created" } : j <= i) => i = Len(trail) + 1
    BY <2>2, <2>3
  <2>6. StatusIsAudited'
    BY <2>1, <2>2, <2>3, <2>5 DEF StatusIsAudited
  <2> QED
    BY <2>4, <2>6
<1>5. ASSUME NEW r \in Requests,
             \/ Submit(r) \/ ReadDiagnosis(r) \/ ReadExisting(r) \/ ReadAgain(r) \/ ReadEntry(r)
             \/ ReadCandidate(r) \/ LoadRecord(r) \/ Flush(r) \/ Fail(r)
      PROVE  (Changed /\ StatusIsAudited)'
  BY <1>1, <1>5 DEF Submit, ReadDiagnosis, ReadExisting, ReadAgain, ReadEntry, ReadCandidate,
                    LoadRecord, Flush, Fail
<1>6. ASSUME ConfirmDiagnosis \/ Terminated PROVE (Changed /\ StatusIsAudited)'
  BY <1>1, <1>6 DEF ConfirmDiagnosis, Terminated, vars
<1> QED
  BY <1>2, <1>3, <1>4, <1>5, <1>6 DEF Next

LEMMA CandidateStaysSound == ASSUME Inv, Next PROVE CandidateIsSound'
<1> USE DEF Inv, TypeOK, knowledge, local
<1>1. ASSUME NEW r \in Requests, Flush(r) PROVE CandidateIsSound'
  <2>1. candidate'.category # Unlabelled
    BY <1>1, LabelsAssumption DEF Flush, Candidate, Relabels
  <2>2. candidate'.evidence \subseteq OwnEvidence
    BY <1>1 DEF Flush, Candidate, Relabels, CandidateIsSound
  <2> QED
    BY <2>1, <2>2 DEF CandidateIsSound
<1>2. ASSUME UNCHANGED candidate PROVE CandidateIsSound'
  BY <1>2 DEF CandidateIsSound
<1>3. ASSUME NEW r \in Requests,
             \/ Submit(r) \/ ReadDiagnosis(r) \/ ReadExisting(r) \/ Insert(r) \/ ReadAgain(r)
             \/ AuditCreation(r) \/ ReadEntry(r) \/ SaveEntry(r) \/ ReadCandidate(r)
             \/ LoadRecord(r) \/ Fail(r)
      PROVE  CandidateIsSound'
  BY <1>2, <1>3 DEF Submit, ReadDiagnosis, ReadExisting, Insert, ReadAgain, AuditCreation,
                    ReadEntry, SaveEntry, ReadCandidate, LoadRecord, Fail
<1>4. ASSUME ConfirmDiagnosis \/ Terminated PROVE CandidateIsSound'
  BY <1>2, <1>4 DEF ConfirmDiagnosis, Terminated, vars
<1> QED
  BY <1>1, <1>3, <1>4 DEF Next

LEMMA Invariant == Spec => []Inv
<1>1. Inv /\ [Next]_vars => Inv'
  <2>1. ASSUME Inv, Next PROVE Inv'
    BY <2>1, Typed, Derived, StatusChanges, LabelRequests, CreatedOnce, TrailFollows,
       CandidateStaysSound DEF Inv
  <2>2. ASSUME Inv, UNCHANGED vars PROVE Inv'
    <3>1. (\A r \in Requests : Derives(r) /\ Changes(r) /\ Relabels(r))'
      BY <2>2 DEF Inv, vars, knowledge, local, Derives, Changes, Relabels
    <3>2. TypeOK'
      BY <2>2 DEF Inv, vars, knowledge, local, TypeOK
    <3> QED
      BY <2>2, <3>1, <3>2 DEF Inv, vars, knowledge, local, OneCreator, Creates, Changed,
                              StatusIsAudited, CandidateIsSound
  <2> QED
    BY <2>1, <2>2
<1> QED
  BY Starts, <1>1, PTL DEF Spec

-----------------------------------------------------------------------------
(* The theorems *)

\* The state of the curation is always of its types.
THEOREM CurationIsTyped == Spec => []TypeOK
<1>1. Inv => TypeOK
  BY DEF Inv
<1> QED
  BY Invariant, <1>1, PTL

\* The last audit event about the status of an entry names its status, however
\* many requests overwrite each other (application/knowledge.py, change_status).
THEOREM TrailNamesStatus == Spec => []StatusIsAudited
<1>1. Inv => StatusIsAudited
  BY DEF Inv
<1> QED
  BY Invariant, <1>1, PTL

\* One request at most creates the entry, and a derivation answers only with an
\* entry made from its confirmed diagnosis (application/knowledge.py,
\* create_from_confirmed_diagnosis).
THEOREM EntryIsDerivedOnce == Spec => []DerivedOnce
<1>1. ASSUME Inv PROVE DerivedOnce
  <2> DEFINE Creators == { r \in Requests : outcome[r] = "created" }
  <2>1. Cardinality(Creators) <= 1
    <3>1. CASE Creators = {}
      BY <3>1, FS_EmptySet
    <3>2. CASE Creators # {}
      <4>1. PICK r : r \in Creators
        BY <3>2
      <4>2. Creators = {r}
        BY <1>1, <4>1 DEF Inv, OneCreator, Creates
      <4>3. Cardinality(Creators) = 1
        BY <4>2, FS_Singleton, Zenon
      <4> HIDE DEF Creators
      <4> QED
        BY <4>3
    <3> QED
      BY <3>1, <3>2
  <2>2. \A r \in Requests : req[r].op = "derive" /\ outcome[r] \in {"created", "existing"} =>
          confirmed /\ entry.source = "diagnosis"
    BY <1>1 DEF Inv, Derives
  <2> QED
    BY <2>1, <2>2 DEF DerivedOnce
<1> QED
  BY Invariant, <1>1, PTL

\* A candidate is promoted with a label, and cites evidence of its own diagnosis,
\* even when labels that race mix their columns (evaluation_candidates.py, label).
THEOREM CandidateLabelsAreSound == Spec => []LabelsAreSound
<1>1. Inv => LabelsAreSound
  BY DEF Inv, CandidateIsSound, LabelsAreSound
<1> QED
  BY Invariant, <1>1, PTL

(***************************************************************************)
(*                                  SEEDS                                  *)
(***************************************************************************)

Loading == INSTANCE FoldLemmas WITH Op <- LAMBDA none, all, file : all \o file.entries

\* All entries of a directory are entries.
LEMMA EntriesAreSeeds == \A directory \in Directories : Entries(directory) \in Seq(Seed)
<1>1. \A directory : Entries(directory) = Loading!Fold(0, << >>, directory)
  BY DEF Entries, FoldLeft, MapThenFoldSet, Max,
         Loading!Fold, Loading!FoldLeft, Loading!MapThenFoldSet, Loading!Max
<1>2. \A all \in Seq(Seed), file \in SeedFile : all \o file.entries \in Seq(Seed)
  BY ConcatProperties DEF SeedFile
<1>3. << >> \in Seq(Seed)
  OBVIOUS
<1>4. \A directory \in Seq(SeedFile) : Loading!Fold(0, << >>, directory) \in Seq(Seed)
  BY <1>2, <1>3, Loading!FoldIn
<1>. QED  BY <1>1, <1>4, SeedsAssumption

\* The seed has a row, or the search has still to look for it.
Handled(s, seed) ==
  base[seed.id] # "none" \/ \E j \in DOMAIN seeds[s] : seeds[s][j].id = seed.id

\* A search that seeds has forgotten none of the entries of the directory.
NoneForgotten ==
  \A s \in Searches :
    /\ at[s] \in {"get", "insert"} =>
         \A i \in DOMAIN Entries(files) : Handled(s, Entries(files)[i])
    /\ at[s] = "insert" => seeds[s] # << >>

SeedsInv == SeedsTypeOK /\ NoneForgotten /\ SearchesSeeSeeds

Complete == \A i \in DOMAIN Entries(files) : base[Entries(files)[i].id] # "none"

LEMMA SeedsStart == SeedsInit => SeedsInv
<1> SUFFICES ASSUME SeedsInit PROVE SeedsInv
  OBVIOUS
<1>1. SeedsTypeOK
  <2>1. \A s \in Searches : seeds[s] \in Seq(Seed)
    BY DEF SeedsInit
  <2> QED
    BY <2>1 DEF SeedsInit, SeedsTypeOK
<1> QED
  BY <1>1, SeedsAssumption DEF SeedsInit, SeedsInv, NoneForgotten, SearchesSeeSeeds

\* Rows are never deleted: what a search knows of the table stays true.
LEMMA RowsStay ==
  ASSUME SeedsInv, SeedsNext
  PROVE  /\ files' = files
         /\ \A id \in Ids : base[id] # "none" => base'[id] # "none"
         /\ \A id \in Ids : base[id] = "retired" => base'[id] = "retired"
<1> USE DEF SeedsInv, SeedsTypeOK
<1> DEFINE Goal == /\ files' = files
                   /\ \A id \in Ids : base[id] # "none" => base'[id] # "none"
                   /\ \A id \in Ids : base[id] = "retired" => base'[id] = "retired"
<1>1. ASSUME NEW s \in Searches, InsertSeed(s) PROVE Goal
  <2>1. Head(seeds[s]) \in Seed
    BY <1>1 DEF InsertSeed, NoneForgotten
  <2> QED
    BY <1>1, <2>1 DEF InsertSeed, Seed, Status
<1>2. ASSUME NEW id \in Ids, CreateEntry(id) PROVE Goal
  BY <1>2 DEF CreateEntry
<1>3. ASSUME NEW id \in Ids, NEW status \in Status, ChangeEntry(id, status) PROVE Goal
  BY <1>3 DEF ChangeEntry, Status, MayChange
<1>4. ASSUME NEW s \in Searches,
             \/ StartSearch(s) \/ AcquireLock(s) \/ Load(s) \/ GetSeed(s) \/ EndSeeding(s) \/ List(s) \/ SearchFails(s)
      PROVE  Goal
  BY <1>4 DEF StartSearch, AcquireLock, Load, GetSeed, EndSeeding, List, SearchFails
<1>5. ASSUME NEW p \in Servers, ServerCrash(p) PROVE Goal
  BY <1>5 DEF ServerCrash
<1> QED
  BY <1>1, <1>2, <1>3, <1>4, <1>5 DEF SeedsNext

\* What is complete stays so, and a search that stays where it is forgets nothing.
LEMMA CompleteStays ==
  ASSUME SeedsInv, SeedsNext
  PROVE  /\ Complete => Complete'
         /\ \A s \in Searches : \A i \in DOMAIN Entries(files) :
              Handled(s, Entries(files)[i]) /\ seeds'[s] = seeds[s] => Handled(s, Entries(files)[i])'
<1>1. /\ files' = files
      /\ \A id \in Ids : base[id] # "none" => base'[id] # "none"
  BY RowsStay
<1>2. \A i \in DOMAIN Entries(files) : Entries(files)[i].id \in Ids
  <2>1. Entries(files) \in Seq(Seed)
    BY EntriesAreSeeds DEF SeedsInv, SeedsTypeOK
  <2>2. ASSUME NEW list \in Seq(Seed), NEW i \in DOMAIN list PROVE list[i].id \in Ids
    <3>1. list[i] \in Seed
      OBVIOUS
    <3> QED
      BY <3>1 DEF Seed
  <2> QED
    BY <2>1, <2>2
<1>3. Entries(files)' = Entries(files)
  BY <1>1
<1>4. ASSUME Complete PROVE Complete'
  BY <1>1, <1>2, <1>3, <1>4 DEF Complete
<1>5. ASSUME NEW s \in Searches, NEW i \in DOMAIN Entries(files),
             Handled(s, Entries(files)[i]), seeds'[s] = seeds[s]
      PROVE  Handled(s, Entries(files)[i])'
  <2>1. Handled(s, Entries(files)[i])' =
          (base'[Entries(files)[i].id] # "none"
             \/ \E j \in DOMAIN seeds'[s] : seeds'[s][j].id = Entries(files)[i].id)
    BY <1>3 DEF Handled
  <2> QED
    BY <1>1, <1>2, <1>5, <2>1 DEF Handled
<1> QED
  BY <1>4, <1>5

-----------------------------------------------------------------------------
(* The steps *)

LEMMA SeedsTyped ==
  ASSUME SeedsInv, SeedsNext
  PROVE  SeedsTypeOK'
<1> USE SeedsAssumption DEF SeedsInv, SeedsTypeOK, MoveTo, LeaveLock
<1>1. ASSUME NEW s \in Searches, Load(s) PROVE SeedsTypeOK'
  <2>1. Entries(files) \in Seq(Seed)
    BY EntriesAreSeeds
  <2>2. seeds' \in [Searches -> Seq(Seed)]
    BY <1>1, <2>1 DEF Load
  <2>3. seeder' \in [Servers -> Searches \union {NoSearch}]
    BY <1>1 DEF Load
  <2>4. at' \in [Searches -> {"new", "lock", "load", "get", "insert", "list", "done", "failed"}]
    <3>1. PICK label \in {"get", "failed"} : at' = [at EXCEPT ![s] = label]
      BY <1>1 DEF Load
    <3> QED
      BY <3>1
  <2> QED
    BY <1>1, <2>2, <2>3, <2>4 DEF Load
<1>2. ASSUME NEW s \in Searches, GetSeed(s) PROVE SeedsTypeOK'
  <2>1. Tail(seeds[s]) \in Seq(Seed)
    BY <1>2 DEF GetSeed
  <2> QED
    BY <1>2, <2>1 DEF GetSeed
<1>3. ASSUME NEW s \in Searches, InsertSeed(s) PROVE SeedsTypeOK'
  <2>1. Tail(seeds[s]) \in Seq(Seed) /\ Head(seeds[s]) \in Seed
    BY <1>3 DEF InsertSeed, NoneForgotten
  <2>2. seeds' \in [Searches -> Seq(Seed)]
    BY <1>3, <2>1 DEF InsertSeed
  <2>3. base' \in [Ids -> Status \union {"none"}]
    <3>1. Head(seeds[s]).id \in Ids /\ Head(seeds[s]).status \in Status
      BY <2>1 DEF Seed
    <3>2. base \in [Ids -> Status \union {"none"}]
      OBVIOUS
    <3>3. base' = base \/ base' = [base EXCEPT ![Head(seeds[s]).id] = Head(seeds[s]).status]
      BY <1>3 DEF InsertSeed
    <3> HIDE DEF SeedsInv, SeedsTypeOK
    <3> QED
      BY <3>1, <3>2, <3>3
  <2> QED
    BY <1>3, <2>2, <2>3 DEF InsertSeed
<1>4. ASSUME NEW s \in Searches,
             StartSearch(s) \/ AcquireLock(s) \/ EndSeeding(s) \/ List(s) \/ SearchFails(s)
      PROVE  SeedsTypeOK'
  <2>1. CASE StartSearch(s)
    BY <2>1 DEF StartSearch
  <2>2. CASE AcquireLock(s)
    <3>1. CASE seeded[ServerOf[s]]
      BY <2>2, <3>1 DEF AcquireLock
    <3>2. CASE ~seeded[ServerOf[s]]
      <4>1. seeder' = [seeder EXCEPT ![ServerOf[s]] = s] /\ at' = [at EXCEPT ![s] = "load"]
            /\ UNCHANGED <<files, base, seeded, seeds>>
        BY <2>2, <3>2 DEF AcquireLock
      <4>2. seeder' \in [Servers -> Searches \union {NoSearch}]
        BY <4>1
      <4> QED
        BY <4>1, <4>2
    <3> QED
      BY <3>1, <3>2
  <2>3. CASE EndSeeding(s)
    BY <2>3 DEF EndSeeding
  <2>4. CASE List(s)
    BY <2>4 DEF List
  <2>5. CASE SearchFails(s)
    BY <2>5 DEF SearchFails
  <2> QED
    BY <1>4, <2>1, <2>2, <2>3, <2>4, <2>5
<1>5. ASSUME NEW p \in Servers, ServerCrash(p) PROVE SeedsTypeOK'
  BY <1>5 DEF ServerCrash
<1>6. ASSUME NEW id \in Ids, CreateEntry(id) PROVE SeedsTypeOK'
  BY <1>6 DEF CreateEntry, Status
<1>7. ASSUME NEW id \in Ids, NEW status \in Status, ChangeEntry(id, status) PROVE SeedsTypeOK'
  BY <1>7 DEF ChangeEntry
<1> QED
  BY <1>1, <1>2, <1>3, <1>4, <1>5, <1>6, <1>7 DEF SeedsNext

\* What one looks for in a list is its head or in its tail.
LEMMA HeadOrTail ==
  ASSUME NEW list \in Seq(Seed), list # << >>, NEW id, NEW j \in DOMAIN list, list[j].id = id
  PROVE  Head(list).id = id \/ \E k \in DOMAIN Tail(list) : Tail(list)[k].id = id
<1>1. CASE j = 1
  BY <1>1
<1>2. CASE j # 1
  <2>1. j - 1 \in DOMAIN Tail(list) /\ Tail(list)[j - 1] = list[j]
    BY <1>2
  <2> QED
    BY <2>1
<1> QED
  BY <1>1, <1>2

\* An entry leaves the list of a search only when it has a row.
LEMMA TailForgetsNothing ==
  ASSUME SeedsInv, SeedsNext, NEW s \in Searches, seeds[s] # << >>,
         seeds'[s] = Tail(seeds[s]), base'[Head(seeds[s]).id] # "none",
         NEW i \in DOMAIN Entries(files), Handled(s, Entries(files)[i])
  PROVE  Handled(s, Entries(files)[i])'
<1> DEFINE id == Entries(files)[i].id
<1>1. files' = files /\ \A k \in Ids : base[k] # "none" => base'[k] # "none"
  BY RowsStay
<1>2. Entries(files) \in Seq(Seed) /\ seeds[s] \in Seq(Seed)
  BY EntriesAreSeeds DEF SeedsInv, SeedsTypeOK
<1>3. id \in Ids
  <2>1. Entries(files)[i] \in Seed
    BY <1>2
  <2> QED
    BY <2>1 DEF Seed
<1>4. Handled(s, Entries(files)[i])' =
        (base'[id] # "none" \/ \E j \in DOMAIN seeds'[s] : seeds'[s][j].id = id)
  BY <1>1 DEF Handled
<1>5. CASE base[id] # "none"
  BY <1>1, <1>3, <1>4, <1>5
<1>6. CASE \E j \in DOMAIN seeds[s] : seeds[s][j].id = id
  <2>1. PICK j \in DOMAIN seeds[s] : seeds[s][j].id = id
    BY <1>6
  <2>2. Head(seeds[s]).id = id \/ \E k \in DOMAIN Tail(seeds[s]) : Tail(seeds[s])[k].id = id
    BY <1>2, <2>1, HeadOrTail
  <2> QED
    BY <1>4, <2>2
<1> QED
  BY <1>5, <1>6 DEF Handled

\* A search that is between two reads of its list keeps track of every entry.
LEMMA NoneIsForgotten ==
  ASSUME SeedsInv, SeedsNext
  PROVE  NoneForgotten'
<1> DEFINE Keeps(t) == \A i \in DOMAIN Entries(files) : Handled(t, Entries(files)[i])
           Good(t) == /\ at'[t] \in {"get", "insert"} =>
                           \A i \in DOMAIN Entries(files) : Handled(t, Entries(files)[i])'
                      /\ at'[t] = "insert" => seeds'[t] # << >>
<1> USE DEF MoveTo, LeaveLock
<1>1. files' = files
  BY RowsStay
<1>2. at \in [Searches -> {"new", "lock", "load", "get", "insert", "list", "done", "failed"}]
      /\ seeds \in [Searches -> Seq(Seed)] /\ NoneForgotten
  BY DEF SeedsInv, SeedsTypeOK
\* A search that does not move.
<1>3. ASSUME NEW t \in Searches, seeds'[t] = seeds[t],
             at'[t] = at[t] \/ at'[t] \notin {"get", "insert"}
      PROVE  Good(t)
  BY <1>2, <1>3, CompleteStays DEF NoneForgotten
<1>4. ASSUME NEW s \in Searches, Load(s), NEW t \in Searches PROVE Good(t)
  <2>1. CASE t # s \/ ~Loads(files)
    <3>1. seeds'[t] = seeds[t] /\ (at'[t] = at[t] \/ at'[t] = "failed")
      BY <1>2, <1>4, <2>1 DEF Load
    <3> QED
      BY <1>3, <3>1
  <2>2. CASE t = s /\ Loads(files)
    <3>1. seeds'[t] = Entries(files) /\ at'[t] = "get"
      BY <1>2, <1>4, <2>2 DEF Load
    <3> QED
      BY <1>1, <3>1 DEF Handled
  <2> QED
    BY <2>1, <2>2
<1>5. ASSUME NEW s \in Searches, GetSeed(s), NEW t \in Searches PROVE Good(t)
  <2>1. CASE t # s
    <3>1. seeds'[t] = seeds[t] /\ at'[t] = at[t]
      BY <1>2, <1>5, <2>1 DEF GetSeed
    <3> QED
      BY <1>3, <3>1
  <2>2. CASE t = s /\ base[Head(seeds[s]).id] = "none"
    <3>1. seeds'[t] = seeds[t] /\ at[t] = "get" /\ seeds[t] # << >>
      BY <1>2, <1>5, <2>2 DEF GetSeed
    <3> QED
      BY <1>2, <3>1, CompleteStays DEF NoneForgotten
  <2>3. CASE t = s /\ base[Head(seeds[s]).id] # "none"
    <3>1. /\ at[s] = "get" /\ at'[s] = "get" /\ seeds[s] # << >>
          /\ seeds'[s] = Tail(seeds[s]) /\ base'[Head(seeds[s]).id] # "none"
      BY <1>2, <1>5, <2>3 DEF GetSeed
    <3>2. Keeps(s)
      BY <1>2, <3>1 DEF NoneForgotten
    <3>3. \A i \in DOMAIN Entries(files) : Handled(s, Entries(files)[i])'
      BY <3>1, <3>2, TailForgetsNothing
    <3> QED
      BY <2>3, <3>1, <3>3
  <2> QED
    BY <2>1, <2>2, <2>3
<1>6. ASSUME NEW s \in Searches, InsertSeed(s), NEW t \in Searches PROVE Good(t)
  <2>1. CASE t # s \/ base[Head(seeds[s]).id] # "none"
    <3>1. seeds'[t] = seeds[t] /\ (at'[t] = at[t] \/ at'[t] = "failed")
      BY <1>2, <1>6, <2>1 DEF InsertSeed
    <3> QED
      BY <1>3, <3>1
  <2>2. CASE t = s /\ base[Head(seeds[s]).id] = "none"
    <3>1. at[s] = "insert" /\ seeds[s] # << >>
      BY <1>2, <1>6 DEF InsertSeed, NoneForgotten
    <3>2. Head(seeds[s]) \in Seed
      BY <1>2, <3>1
    <3>3. /\ at'[s] = "get" /\ seeds'[s] = Tail(seeds[s])
          /\ base'[Head(seeds[s]).id] # "none"
      BY <1>2, <1>6, <2>2, <3>2 DEF InsertSeed, Seed, Status, SeedsInv, SeedsTypeOK
    <3>4. Keeps(s)
      BY <1>2, <3>1 DEF NoneForgotten
    <3>5. \A i \in DOMAIN Entries(files) : Handled(s, Entries(files)[i])'
      BY <3>1, <3>3, <3>4, TailForgetsNothing
    <3> QED
      BY <2>2, <3>3, <3>5
  <2> QED
    BY <2>1, <2>2
<1>7. ASSUME NEW s \in Searches, NEW t \in Searches,
             StartSearch(s) \/ AcquireLock(s) \/ EndSeeding(s) \/ List(s) \/ SearchFails(s)
      PROVE  Good(t)
  <2>1. seeds'[t] = seeds[t] /\ (at'[t] = at[t] \/ at'[t] \notin {"get", "insert"})
    BY <1>2, <1>7 DEF StartSearch, AcquireLock, EndSeeding, List, SearchFails
  <2> QED
    BY <1>3, <2>1
<1>8. ASSUME NEW p \in Servers, ServerCrash(p), NEW t \in Searches PROVE Good(t)
  <2>1. seeds'[t] = seeds[t] /\ (at'[t] = at[t] \/ at'[t] = "failed")
    BY <1>2, <1>8 DEF ServerCrash
  <2> QED
    BY <1>3, <2>1
<1>9. ASSUME NEW id \in Ids, NEW t \in Searches,
             CreateEntry(id) \/ \E status \in Status : ChangeEntry(id, status)
      PROVE  Good(t)
  <2>1. seeds'[t] = seeds[t] /\ at'[t] = at[t]
    BY <1>9 DEF CreateEntry, ChangeEntry
  <2> QED
    BY <1>3, <2>1
<1>10. \A t \in Searches : Good(t)
  BY <1>4, <1>5, <1>6, <1>7, <1>8, <1>9 DEF SeedsNext
<1>11. Entries(files)' = Entries(files)
  BY <1>1
<1> QED
  BY <1>10, <1>11 DEF NoneForgotten

LEMMA SeenByAll ==
  ASSUME SeedsInv, SeedsNext
  PROVE  SearchesSeeSeeds'
<1> DEFINE Through(t) == at[t] \in {"list", "done"} \/ seeded[ServerOf[t]]
<1> USE DEF MoveTo, LeaveLock
<1>1. /\ at \in [Searches -> {"new", "lock", "load", "get", "insert", "list", "done", "failed"}]
      /\ seeded \in [Servers -> BOOLEAN] /\ ServerOf \in [Searches -> Servers]
  BY SeedsAssumption DEF SeedsInv, SeedsTypeOK
<1>2. \A t \in Searches : Through(t) => Complete
  BY DEF SeedsInv, SearchesSeeSeeds, Complete
<1>3. SUFFICES ASSUME NEW t \in Searches, Through(t)' PROVE Complete'
  BY DEF SearchesSeeSeeds, Complete
<1>4. SUFFICES ASSUME ~Through(t) PROVE Complete'
  BY <1>2, CompleteStays
\* Who is not through gets there when the last entry has a row, in its process or here.
<1>5. PICK s \in Searches : EndSeeding(s) \/ (s = t /\ (StartSearch(s) \/ AcquireLock(s) \/ List(s)))
  <2>1. ASSUME NEW s \in Searches, s # t, StartSearch(s) \/ AcquireLock(s) \/ List(s) PROVE FALSE
    BY <1>1, <1>3, <1>4, <2>1 DEF StartSearch, AcquireLock, List
  <2>2. ASSUME NEW s \in Searches, Load(s) \/ GetSeed(s) \/ InsertSeed(s) \/ SearchFails(s) PROVE FALSE
    BY <1>1, <1>3, <1>4, <2>2 DEF Load, GetSeed, InsertSeed, SearchFails
  <2>3. ASSUME NEW p \in Servers, ServerCrash(p) PROVE FALSE
    BY <1>1, <1>3, <1>4, <2>3 DEF ServerCrash
  <2>4. ASSUME NEW id \in Ids, CreateEntry(id) \/ \E status \in Status : ChangeEntry(id, status) PROVE FALSE
    BY <1>1, <1>3, <1>4, <2>4 DEF CreateEntry, ChangeEntry
  <2> QED
    BY <2>1, <2>2, <2>3, <2>4 DEF SeedsNext
<1>6. CASE EndSeeding(s)
  <2>1. at[s] = "get" /\ seeds[s] = << >>
    BY <1>6 DEF EndSeeding
  <2>2. \A i \in DOMAIN Entries(files) : Handled(s, Entries(files)[i])
    BY <2>1 DEF SeedsInv, NoneForgotten
  <2>3. Complete
    BY <2>1, <2>2 DEF Handled, Complete
  <2> QED
    BY <2>3, CompleteStays
<1>7. CASE s = t /\ (StartSearch(s) \/ AcquireLock(s) \/ List(s))
  BY <1>1, <1>3, <1>4, <1>7 DEF StartSearch, AcquireLock, List
<1> QED
  BY <1>5, <1>6, <1>7

LEMMA SeedsStep == SeedsInv /\ [SeedsNext]_seedVars => SeedsInv'
<1>1. ASSUME SeedsInv, SeedsNext PROVE SeedsInv'
  BY <1>1, SeedsTyped, NoneIsForgotten, SeenByAll DEF SeedsInv
<1>2. ASSUME SeedsInv, UNCHANGED seedVars PROVE SeedsInv'
  BY <1>2 DEF SeedsInv, SeedsTypeOK, NoneForgotten, Handled, SearchesSeeSeeds, seedVars
<1> QED
  BY <1>1, <1>2

LEMMA SeedsInvariant == SeedsSpec => []SeedsInv
<1> QED
  BY SeedsStart, SeedsStep, PTL DEF SeedsSpec

-----------------------------------------------------------------------------
(* The theorems *)

\* The state of the seeding is always of its types: the lock of a process is free
\* or held by a search, and what a search has still to look for is a list of seeds.
THEOREM SeedsAreTyped == SeedsSpec => []SeedsTypeOK
<1>1. SeedsInv => SeedsTypeOK
  BY DEF SeedsInv
<1> QED
  BY SeedsInvariant, <1>1, PTL

\* Whoever answers a search, and every process that will seed no more, finds each
\* entry of the directory in the table, after any crashes, failures and races
\* (sqlite_search.py, _ensure_seeded).
THEOREM SearchesSeeAllSeeds == SeedsSpec => []SearchesSeeSeeds
<1>1. SeedsInv => SearchesSeeSeeds
  BY DEF SeedsInv
<1> QED
  BY SeedsInvariant, <1>1, PTL

\* What a curator retired stays retired, whoever seeds the table again from files
\* that still confirm it (sqlite_search.py:74-76).
THEOREM RetiredStaysRetired == SeedsSpec => SeedsReviveNothing
<1>1. SeedsInv /\ [SeedsNext]_seedVars
        => [\A id \in Ids : base[id] = "retired" => base'[id] = "retired"]_base
  BY RowsStay DEF seedVars
<1> QED
  BY SeedsInvariant, <1>1, PTL DEF SeedsSpec, SeedsReviveNothing

=============================================================================
