-------------------------- MODULE IncidentDiscovery --------------------------
(***************************************************************************)
(* Active discovery: log events of one fault are folded into one Incident, *)
(* and the first that finds it without a diagnosis creates one, links it   *)
(* and runs it (application/incidents.py, application/discovery.py).       *)
(*                                                                         *)
(* Events arrive from three sides: the broker, through the loop of         *)
(* application/enterprise_consumer.py; POST /discovery/replay, which calls *)
(* process() as well; and POST /incidents/events, which calls ingest()     *)
(* alone and outside the lock of process().  All the events of the model   *)
(* have the same fingerprint and window, so there is one incident.         *)
(*                                                                         *)
(* A step is one statement that the database commits, or the code between  *)
(* two awaits.  The run of the diagnosis is the module DiagnosisLifecycle; *)
(* here it is one step, which answers normally whatever happened in it.    *)
(***************************************************************************)
EXTENDS Integers, FiniteSets

CONSTANTS
  Events,      \* the log events
  Anonymous,   \* those without a source_event_id
  Malformed,   \* those that do not decode
  Unknown,     \* those of a service or environment that is not registered
  Consumers,   \* the loops of EnterpriseDiscoveryConsumer
  Replays,     \* the calls of POST /discovery/replay
  Ingests,     \* the calls of POST /incidents/events
  Processes,
  Host,        \* the process of each consumer and call
  Faults,      \* the faults that may occur, see FaultKinds
  MaxFaults,   \* bound: how many faults occur
  NoTask,
  NoEvent

Tasks == Consumers \union Replays \union Ingests

\* A process dies; a consumer is cancelled for shutdown; a statement fails;
\* the deduplication key of an event expires.
FaultKinds == { "crash", "cancel", "database", "expiry" }

ASSUME TasksAssumption ==
  /\ Consumers \intersect (Replays \union Ingests) = {}
  /\ Replays \intersect Ingests = {}
  /\ NoTask \notin Tasks
ASSUME HostAssumption == Host \in [Tasks -> Processes]
ASSUME EventsAssumption ==
  Anonymous \subseteq Events /\ Malformed \subseteq Events /\ NoEvent \notin Events
ASSUME BoundAssumption == MaxFaults \in Nat /\ Faults \subseteq FaultKinds

VARIABLES
  claims,     \* deduplication_keys rows
  incident,   \* the incidents row: occurrence_count (0: no row), diagnosis_id
  diagnoses,  \* how many diagnoses discovery has created; they are numbered
  noted,      \* the diagnoses with their trigger evidence and audit event
  ran,        \* the diagnoses that were run
  queue,      \* the broker: the state of each event's message
  lock,       \* who holds the lock of process(), per process
  pc,         \* the await at which each task is suspended
  event,      \* the event each task works on
  seen,       \* what the task knows of the incident: duplicate, diagnosis_id
  diagnosis,  \* the diagnosis the task has created
  counted,    \* history: how often each event was counted
  faults,     \* history: how many faults occurred
  orphaned    \* history: the events that a fault left claimed and not counted

store == <<claims, incident, diagnoses, noted, ran, counted>>
task  == <<event, seen, diagnosis>>
faultVars == <<faults, orphaned>>
vars  == <<store, queue, lock, pc, task, faultVars>>

NoDiagnosis == 0

\* The awaits of process() under its lock, from the first statement to the last.
InIngest  == { "service", "claim", "lookup", "aggregate" }
InTrigger == { "reload", "create", "evidence", "link_read", "link_commit", "note" }
InProcess == {"lock"} \union InIngest \union InTrigger \union {"run"}
Locked    == InIngest \union InTrigger

Init ==
  /\ claims = {}
  /\ incident = [count |-> 0, link |-> NoDiagnosis]
  /\ diagnoses = 0
  /\ noted = {}
  /\ ran = {}
  /\ queue = [e \in Events |-> "queued"]
  /\ lock = [p \in Processes |-> NoTask]
  /\ pc = [t \in Tasks |-> "idle"]
  /\ event = [t \in Tasks |-> NoEvent]
  /\ seen = [t \in Tasks |-> [duplicate |-> FALSE, link |-> NoDiagnosis]]
  /\ diagnosis = [t \in Tasks |-> NoDiagnosis]
  /\ counted = [e \in Events |-> 0]
  /\ faults = 0
  /\ orphaned = {}

-----------------------------------------------------------------------------
(* Steps that several methods share. *)

Goto(t, label) == pc' = [pc EXCEPT ![t] = label]

Release(t) ==
  lock' = IF lock[Host[t]] = t THEN [lock EXCEPT ![Host[t]] = NoTask] ELSE lock

\* process() returns: the consumer acknowledges, a call is answered.
Return(t) == Goto(t, IF t \in Consumers THEN "ack" ELSE "done") /\ Release(t)

\* process() or ingest() raises: the consumer hands the message back.
Raise(t) == Goto(t, IF t \in Consumers THEN "nack" ELSE "done") /\ Release(t)

Know(t, duplicate) ==
  seen' = [seen EXCEPT ![t] = [duplicate |-> duplicate, link |-> incident.link]]

-----------------------------------------------------------------------------
(* Arrival *)

\* A message that does not decode goes to the dead letters.
Receive(t) ==
  /\ t \in Consumers
  /\ pc[t] = "idle"
  /\ \E e \in { x \in Events : queue[x] = "queued" } :
       \/ /\ e \in Malformed
          /\ queue' = [queue EXCEPT ![e] = "dead"]
          /\ UNCHANGED <<pc, event>>
       \/ /\ e \notin Malformed
          /\ queue' = [queue EXCEPT ![e] = "delivered"]
          /\ event' = [event EXCEPT ![t] = e]
          /\ Goto(t, "lock")
  /\ UNCHANGED <<store, lock, seen, diagnosis, faultVars>>

Call(t) ==
  /\ t \in Replays \union Ingests
  /\ pc[t] = "idle"
  /\ \E e \in Events \ Malformed : event' = [event EXCEPT ![t] = e]
  /\ Goto(t, IF t \in Replays THEN "lock" ELSE "service")
  /\ UNCHANGED <<store, queue, lock, seen, diagnosis, faultVars>>

\* Variant: process() without its lock.
AcquireNothing(t) ==
  /\ pc[t] = "lock"
  /\ Goto(t, "service")
  /\ UNCHANGED <<store, queue, lock, task, faultVars>>

\* asyncio.Lock: one process() at a time in each process.
Acquire(t) ==
  /\ pc[t] = "lock"
  /\ lock[Host[t]] = NoTask
  /\ lock' = [lock EXCEPT ![Host[t]] = t]
  /\ Goto(t, "service")
  /\ UNCHANGED <<store, queue, task, faultVars>>

-----------------------------------------------------------------------------
(* ingest *)

Service(t) ==
  /\ pc[t] = "service"
  /\ IF event[t] \in Unknown
     THEN Raise(t)
     ELSE /\ Goto(t, IF event[t] \in Anonymous THEN "aggregate" ELSE "claim")
          /\ UNCHANGED lock
  /\ UNCHANGED <<store, queue, task, faultVars>>

\* Variant: a claim that is not exclusive.
ClaimAnyway(t) ==
  /\ pc[t] = "claim"
  /\ claims' = claims \union { event[t] }
  /\ Goto(t, "aggregate")
  /\ UNCHANGED <<incident, diagnoses, noted, ran, counted, queue, lock, task, faultVars>>

Claim(t) ==
  /\ pc[t] = "claim"
  /\ claims' = claims \union { event[t] }
  /\ Goto(t, IF event[t] \in claims THEN "lookup" ELSE "aggregate")
  /\ UNCHANGED <<incident, diagnoses, noted, ran, counted, queue, lock, task, faultVars>>

\* A duplicate of an incident that is not there is aggregated after all.
Lookup(t) ==
  /\ pc[t] = "lookup"
  /\ IF incident.count = 0
     THEN Goto(t, "aggregate") /\ UNCHANGED <<lock, seen>>
     ELSE /\ Know(t, TRUE)
          /\ IF t \in Ingests THEN Return(t) ELSE Goto(t, "reload") /\ UNCHANGED lock
  /\ UNCHANGED <<store, queue, event, diagnosis, faultVars>>

\* INSERT, or UPDATE ... SET occurrence_count = occurrence_count + 1.
Aggregate(t) ==
  /\ pc[t] = "aggregate"
  /\ incident' = [count |-> incident.count + 1, link |-> incident.link]
  /\ counted' = [counted EXCEPT ![event[t]] = @ + 1]
  /\ Know(t, FALSE)
  /\ IF t \in Ingests THEN Return(t) ELSE Goto(t, "reload") /\ UNCHANGED lock
  /\ UNCHANGED <<claims, diagnoses, noted, ran, queue, event, diagnosis, faultVars>>

-----------------------------------------------------------------------------
(* process, after ingest *)

\* Variant: the trigger policy looks at the occurrence only.
ReloadIgnoresLink(t) ==
  /\ pc[t] = "reload"
  /\ Know(t, seen[t].duplicate)
  /\ IF seen[t].duplicate THEN Return(t) ELSE Goto(t, "create") /\ UNCHANGED lock
  /\ UNCHANGED <<store, queue, event, diagnosis, faultVars>>

\* The incident is read again and DiagnosisTriggerPolicy decides.
Reload(t) ==
  /\ pc[t] = "reload"
  /\ Know(t, seen[t].duplicate)
  /\ IF seen[t].duplicate \/ incident.link # NoDiagnosis
     THEN Return(t)
     ELSE Goto(t, "create") /\ UNCHANGED lock
  /\ UNCHANGED <<store, queue, event, diagnosis, faultVars>>

\* The row and its evidence are separate commits: they are inserted in
\* SAVEPOINTs that no BEGIN precedes.
Create(t) ==
  /\ pc[t] = "create"
  /\ diagnoses' = diagnoses + 1
  /\ diagnosis' = [diagnosis EXCEPT ![t] = diagnoses + 1]
  /\ Goto(t, "evidence")
  /\ UNCHANGED <<claims, incident, noted, ran, counted, queue, lock, event, seen, faultVars>>

CreateEvidence(t) ==
  /\ pc[t] = "evidence"
  /\ Goto(t, "link_read")
  /\ UNCHANGED <<store, queue, lock, task, faultVars>>

\* link_diagnosis checks the row it has read, and then updates it.
LinkRead(t) ==
  /\ pc[t] = "link_read"
  /\ IF incident.link # NoDiagnosis
     THEN Raise(t)
     ELSE Goto(t, "link_commit") /\ UNCHANGED lock
  /\ UNCHANGED <<store, queue, task, faultVars>>

LinkCommit(t) ==
  /\ pc[t] = "link_commit"
  /\ incident' = [count |-> incident.count, link |-> diagnosis[t]]
  /\ Goto(t, "note")
  /\ UNCHANGED <<claims, diagnoses, noted, ran, counted, queue, lock, task, faultVars>>

\* The evidence of the trigger and its audit event; the lock is released.
Note(t) ==
  /\ pc[t] = "note"
  /\ noted' = noted \union { diagnosis[t] }
  /\ Goto(t, "run")
  /\ Release(t)
  /\ UNCHANGED <<claims, incident, diagnoses, ran, counted, queue, task, faultVars>>

\* Whatever exception leaves the run becomes an error code of the answer.
Run(t) ==
  /\ pc[t] = "run"
  /\ ran' = ran \union { diagnosis[t] }
  /\ Return(t)
  /\ UNCHANGED <<claims, incident, diagnoses, noted, counted, queue, task, faultVars>>

-----------------------------------------------------------------------------
(* consume_once, after process *)

\* Variant: a message is acknowledged though process() raised.
NackAcknowledges(t) ==
  /\ pc[t] = "nack"
  /\ queue' = [queue EXCEPT ![event[t]] = "acked"]
  /\ Goto(t, "idle")
  /\ UNCHANGED <<store, lock, task, faultVars>>

\* Variant: a message that failed is neither acknowledged nor handed back.
NackForgets(t) ==
  /\ pc[t] = "nack"
  /\ Goto(t, "idle")
  /\ UNCHANGED <<store, queue, lock, task, faultVars>>

\* message.retry(): the broker will deliver the message again.
Nack(t) ==
  /\ pc[t] = "nack"
  /\ queue' = [queue EXCEPT ![event[t]] = "queued"]
  /\ Goto(t, "idle")
  /\ UNCHANGED <<store, lock, task, faultVars>>

Ack(t) ==
  /\ pc[t] = "ack"
  /\ queue' = [queue EXCEPT ![event[t]] = "acked"]
  /\ Goto(t, "idle")
  /\ UNCHANGED <<store, lock, task, faultVars>>

-----------------------------------------------------------------------------
(* Faults *)

\* What some tasks have claimed and were about to count.
Claimed(tasks) == { event[t] : t \in { u \in tasks : pc[u] = "aggregate" } } \ Anonymous

\* A fault, and the tasks that it ends.
Fault(kind, ended) ==
  /\ kind \in Faults
  /\ faults < MaxFaults
  /\ faults' = faults + 1
  /\ orphaned' = orphaned \union Claimed(ended)

\* An exception of a statement leaves process() or ingest().
StatementFails(t) ==
  /\ Fault("database", {t})
  /\ pc[t] \in Locked
  /\ Raise(t)
  /\ UNCHANGED <<store, queue, task>>

\* CancelledError is not an Exception: even from the run it reaches the
\* consumer, which hands the message back under a shield.
Cancel(t) ==
  /\ Fault("cancel", {t})
  /\ t \in Consumers
  /\ pc[t] \in InProcess
  /\ Raise(t)
  /\ UNCHANGED <<store, queue, task>>

\* The broker requeues what the process had not acknowledged.
Crash(p) ==
  LET lost == { t \in Tasks : Host[t] = p /\ pc[t] \notin { "idle", "done" } }
  IN  /\ Fault("crash", lost)
      /\ lost # {}
      /\ pc' = [t \in Tasks |-> IF t \notin lost THEN pc[t]
                                ELSE IF t \in Consumers THEN "idle" ELSE "done"]
      /\ queue' = [e \in Events |-> IF \E t \in lost \intersect Consumers : event[t] = e
                                    THEN "queued" ELSE queue[e]]
      /\ lock' = [lock EXCEPT ![p] = NoTask]
      /\ UNCHANGED <<store, task>>

Expire(e) ==
  /\ Fault("expiry", {})
  /\ e \in claims
  /\ claims' = claims \ {e}
  /\ UNCHANGED <<incident, diagnoses, noted, ran, counted, queue, lock, pc, task>>

-----------------------------------------------------------------------------

Step(t) ==
  \/ Receive(t) \/ Acquire(t) \/ Service(t) \/ Claim(t) \/ Lookup(t) \/ Aggregate(t)
  \/ Reload(t) \/ Create(t) \/ CreateEvidence(t) \/ LinkRead(t) \/ LinkCommit(t)
  \/ Note(t) \/ Run(t) \/ Nack(t) \/ Ack(t)

\* Every message is settled and every call answered or never made.
Quiescent ==
  /\ \A e \in Events : queue[e] \in { "acked", "dead" }
  /\ \A t \in Tasks : pc[t] \in { "idle", "done" }
  /\ UNCHANGED vars

Next ==
  \/ \E t \in Tasks : Step(t) \/ Call(t) \/ StatementFails(t) \/ Cancel(t)
  \/ \E p \in Processes : Crash(p)
  \/ \E e \in Events : Expire(e)
  \/ Quiescent

Spec == Init /\ [][Next]_vars

\* The event loop resumes every ready task, asyncio.Lock is first come first
\* served, and faults come to an end (MaxFaults).
FairSpec == Spec /\ \A t \in Tasks : WF_vars(Step(t)) /\ SF_vars(Acquire(t))

-----------------------------------------------------------------------------
(* Properties *)

\* The type of every variable.
TypeOK ==
  /\ claims \subseteq Events \ Anonymous
  /\ incident \in [count : Nat, link : 0..diagnoses]
  /\ diagnoses \in Nat
  /\ noted \subseteq 1..diagnoses
  /\ ran \subseteq 1..diagnoses
  /\ queue \in [Events -> { "queued", "delivered", "acked", "dead" }]
  /\ lock \in [Processes -> Tasks \union {NoTask}]
  /\ pc \in [Tasks -> InProcess \union { "idle", "done", "ack", "nack" }]
  /\ event \in [Tasks -> Events \union {NoEvent}]
  /\ seen \in [Tasks -> [duplicate : BOOLEAN, link : 0..diagnoses]]
  /\ diagnosis \in [Tasks -> 0..diagnoses]
  /\ counted \in [Events -> Nat]
  /\ faults \in 0..MaxFaults
  /\ orphaned \subseteq Events \ Anonymous

\* Without expiry of its key an event is counted at most once, however often
\* it is delivered ("replaying an event does not count it twice").
CountedOnce == \A e \in Events \ Anonymous : counted[e] <= 1

\* The diagnosis an incident links is never replaced by another.
LinkIsFinal == [][incident.link # NoDiagnosis => incident'.link = incident.link]_incident

\* Discovery creates one diagnosis for the incident, and one more at most for
\* every further process that shares the database and for every fault: the
\* lock of process() orders only the tasks of one process.
DiagnosesBounded == diagnoses <= Cardinality(Processes) + faults

\* Only the diagnosis that the incident links was ever run: however many events
\* arrive, the incident costs one run of the agent.
RanIsLinked == ran \subseteq { incident.link }

\* What the consumer confirms to the broker is counted by the incident: the event
\* itself, and not just some event of its incident.  There is one exception: a fault
\* between the claim of the event and its count, after which the redelivered event
\* passes for a duplicate as soon as another has created the incident.  (A refused
\* claim is also answered while a call of another side is still about to count.)
\* An event without an id claims nothing, so that nothing excepts it.
AckedIsStored ==
  \A e \in Events : queue[e] = "acked" =>
    \/ counted[e] > 0
    \/ e \in orphaned
    \/ e \notin Anonymous /\ \E t \in Tasks : event[t] = e /\ pc[t] = "aggregate"

\* Every message is acknowledged or dead-lettered in the end.
EveryMessageSettles == \A e \in Events : <>[](queue[e] \in { "acked", "dead" })

\* When every message is acknowledged and nothing is under way, the incident
\* has a diagnosis ("a message can be recovered after its consumer died").
AckedIsDiagnosed ==
  (\A e \in Events : queue[e] = "acked") /\ (\A t \in Tasks : pc[t] \in { "idle", "done" })
    => incident.link # NoDiagnosis
=============================================================================
