----------------------- MODULE IncidentDiscoveryProofs -----------------------
(***************************************************************************)
(* Active discovery, for any number of events, consumers, calls, processes *)
(* and faults: what an acknowledgement promises and how many diagnoses one *)
(* incident may cost; what the lock of process() adds to it when there is  *)
(* one process; and, for any arrivals, what becomes of every event that is *)
(* stored: the windows into which the incidents divide them, and the       *)
(* summary of a day.                                                       *)
(***************************************************************************)
EXTENDS IncidentDiscovery, IncidentWindows, DataLemmas

(***************************************************************************)
(*                  DISCOVERY: TASKS, FAULTS AND DIAGNOSES                 *)
(***************************************************************************)

Label == InProcess \union { "idle", "done", "ack", "nack" }

\* The awaits at which a task has a diagnosis of its own.
Creating == { "evidence", "link_read", "link_commit", "note", "run" }

\* What the await at which a task is suspended says of its other variables.
Suspended(t) ==
  /\ pc[t] \notin { "idle", "done" } => event[t] \in Events
  /\ pc[t] = "claim" => event[t] \notin Anonymous
  /\ pc[t] \in Creating => diagnosis[t] # NoDiagnosis
  /\ pc[t] \in InTrigger \union { "lock", "run" } => t \notin Ingests
  /\ pc[t] \in { "ack", "nack" } => t \in Consumers
  /\ pc[t] \in InTrigger \union { "run", "ack" } => incident.count > 0

TypeInv == TypeOK /\ \A t \in Tasks : Suspended(t)

\* An ingest holds no lock.
LockIsHeld ==
  \A t \in Tasks : t \notin Ingests /\ pc[t] \in Locked => lock[Host[t]] = t

-----------------------------------------------------------------------------
(* Types *)

LEMMA Labels ==
  /\ Label = { "lock", "service", "claim", "lookup", "aggregate", "reload", "create",
               "evidence", "link_read", "link_commit", "note", "run",
               "idle", "done", "ack", "nack" }
  /\ Locked = Label \ { "lock", "run", "idle", "done", "ack", "nack" }
  /\ InTrigger = { "reload", "create", "evidence", "link_read", "link_commit", "note" }
  /\ InIngest = { "service", "claim", "lookup", "aggregate" }
  /\ InProcess = Label \ { "idle", "done", "ack", "nack" }
<1>1. InIngest = { "service", "claim", "lookup", "aggregate" }
  BY DEF InIngest
<1>2. InTrigger = { "reload", "create", "evidence", "link_read", "link_commit", "note" }
  BY DEF InTrigger
<1>3. Label = { "lock", "service", "claim", "lookup", "aggregate", "reload", "create",
               "evidence", "link_read", "link_commit", "note", "run",
               "idle", "done", "ack", "nack" }
  BY <1>1, <1>2 DEF Label, InProcess
<1>4. Locked = Label \ { "lock", "run", "idle", "done", "ack", "nack" }
  BY <1>1, <1>2, <1>3 DEF Locked
<1>5. InProcess = Label \ { "idle", "done", "ack", "nack" }
  BY <1>1, <1>2, <1>3 DEF InProcess
<1> QED
  BY <1>1, <1>2, <1>3, <1>4, <1>5

LEMMA TypeStart == Init => TypeInv /\ LockIsHeld
<1> SUFFICES ASSUME Init PROVE TypeInv /\ LockIsHeld
  OBVIOUS
<1>1. TypeOK
  BY BoundAssumption DEF Init, TypeOK, NoDiagnosis
<1>2. \A t \in Tasks : pc[t] = "idle"
  BY DEF Init
<1> QED
  BY <1>1, <1>2, Labels DEF TypeInv, Suspended, LockIsHeld, Creating

\* A task that leaves process() or ingest() moves to one of three labels, and
\* gives its lock back.
LEMMA Leaves ==
  ASSUME TypeOK, NEW t \in Tasks, Return(t) \/ Raise(t)
  PROVE  \E label \in { "ack", "nack", "done" } :
           /\ pc' = [pc EXCEPT ![t] = label]
           /\ label \in { "ack", "nack" } => t \in Consumers
           /\ label = "ack" => Return(t)
           /\ lock' \in [Processes -> Tasks \union {NoTask}]
           /\ \A p \in Processes : lock'[p] = lock[p] \/ lock[p] = t
<1>1. \E label \in { "ack", "nack", "done" } :
        /\ pc' = [pc EXCEPT ![t] = label]
        /\ label \in { "ack", "nack" } => t \in Consumers
        /\ label = "ack" => Return(t)
  <2>1. CASE Return(t)
    BY <2>1 DEF Return, Goto
  <2>2. CASE Raise(t)
    BY <2>2 DEF Raise, Goto
  <2> QED
    BY <2>1, <2>2
<1>2. /\ lock' \in [Processes -> Tasks \union {NoTask}]
      /\ \A p \in Processes : lock'[p] = lock[p] \/ lock[p] = t
  BY DEF TypeOK, Return, Raise, Release
<1> QED
  BY <1>1, <1>2

\* Which steps change which variables.
Move(t) == Step(t) \/ Call(t) \/ StatementFails(t) \/ Cancel(t)

LEMMA WhoChanges ==
  ASSUME NEW t \in Tasks, Move(t)
  PROVE  /\ UNCHANGED claims \/ Claim(t)
         /\ UNCHANGED incident \/ Aggregate(t) \/ LinkCommit(t)
         /\ UNCHANGED counted \/ Aggregate(t)
         /\ UNCHANGED <<diagnoses, diagnosis>> \/ Create(t)
         /\ UNCHANGED noted \/ Note(t)
         /\ UNCHANGED ran \/ Run(t)
         /\ UNCHANGED queue \/ Receive(t) \/ Nack(t) \/ Ack(t)
         /\ UNCHANGED event \/ Receive(t) \/ Call(t)
         /\ UNCHANGED seen \/ Know(t, TRUE) \/ Know(t, FALSE) \/ Know(t, seen[t].duplicate)
         /\ UNCHANGED lock \/ Acquire(t) \/ Note(t) \/ Return(t) \/ Raise(t)
         /\ UNCHANGED faultVars \/ Fault("database", {t}) \/ Fault("cancel", {t})
<1>1. CASE Receive(t) \/ Call(t) \/ Acquire(t) \/ Nack(t) \/ Ack(t)
  BY <1>1 DEF Receive, Call, Acquire, Nack, Ack, store, task
<1>2. CASE Service(t) \/ Claim(t)
  BY <1>2 DEF Service, Claim, store, task
<1>3. CASE Lookup(t)
  BY <1>3 DEF Lookup, store
<1>4. CASE Aggregate(t)
  BY <1>4 DEF Aggregate
<1>5. CASE Reload(t)
  BY <1>5 DEF Reload, store
<1>6. CASE Create(t) \/ CreateEvidence(t) \/ LinkRead(t) \/ LinkCommit(t)
  BY <1>6 DEF Create, CreateEvidence, LinkRead, LinkCommit, store, task
<1>7. CASE Note(t) \/ Run(t)
  BY <1>7 DEF Note, Run, task
<1>8. CASE StatementFails(t) \/ Cancel(t)
  BY <1>8 DEF StatementFails, Cancel, store, task
<1> QED
  BY <1>1, <1>2, <1>3, <1>4, <1>5, <1>6, <1>7, <1>8 DEF Move, Step

LEMMA ClaimedAreEvents ==
  ASSUME TypeInv, NEW tasks \in SUBSET Tasks
  PROVE  Claimed(tasks) \subseteq Events \ Anonymous
BY DEF TypeInv, Suspended, Claimed

\* A step of one task changes the variables of that task alone.
LEMMA OneMoves ==
  ASSUME TypeInv, NEW t \in Tasks, Move(t)
  PROVE  /\ \E label \in Label : pc' = [pc EXCEPT ![t] = label]
         /\ \A u \in Tasks \ {t} :
              pc'[u] = pc[u] /\ event'[u] = event[u] /\ diagnosis'[u] = diagnosis[u]
         /\ incident'.count >= incident.count
<1> USE DEF TypeInv, TypeOK
<1>1. /\ \E label \in Label : pc' = [pc EXCEPT ![t] = label]
  <2>1. CASE Return(t) \/ Raise(t)
    BY <2>1, Leaves, Labels
  <2>2. CASE \E label \in Label : Goto(t, label)
    BY <2>2 DEF Goto
  <2>3. CASE UNCHANGED pc
    <3>1. pc' = [pc EXCEPT ![t] = pc[t]]
      BY <2>3
    <3> QED
      BY <3>1 DEF Label
  <2>4. CASE Receive(t) \/ Acquire(t) \/ Call(t)
    BY <2>2, <2>3, <2>4, Labels DEF Receive, Acquire, Call
  <2>5. CASE Service(t) \/ Claim(t) \/ Lookup(t) \/ Aggregate(t)
    BY <2>1, <2>2, <2>5, Labels DEF Service, Claim, Lookup, Aggregate
  <2>6. CASE Reload(t) \/ Create(t) \/ CreateEvidence(t) \/ LinkRead(t) \/ LinkCommit(t)
    BY <2>1, <2>2, <2>6, Labels DEF Reload, Create, CreateEvidence, LinkRead, LinkCommit
  <2>7. CASE Note(t) \/ Run(t) \/ Nack(t) \/ Ack(t) \/ StatementFails(t) \/ Cancel(t)
    BY <2>1, <2>2, <2>7, Labels DEF Note, Run, Nack, Ack, StatementFails, Cancel
  <2> QED
    BY <2>4, <2>5, <2>6, <2>7 DEF Move, Step
<1>2. \A u \in Tasks \ {t} : pc'[u] = pc[u]
  BY <1>1
<1>3. \A u \in Tasks \ {t} : event'[u] = event[u]
  BY WhoChanges DEF Receive, Call
<1>4. \A u \in Tasks \ {t} : diagnosis'[u] = diagnosis[u]
  BY WhoChanges DEF Create
<1>5. incident'.count >= incident.count
  <2>1. UNCHANGED incident \/ Aggregate(t) \/ LinkCommit(t)
    BY WhoChanges
  <2>2. CASE Aggregate(t)
    <3>1. incident'.count = incident.count + 1
      BY <2>2 DEF Aggregate
    <3> QED
      BY <3>1
  <2>3. CASE LinkCommit(t)
    BY <2>3 DEF LinkCommit
  <2> QED
    BY <2>1, <2>2, <2>3
<1> QED
  BY <1>1, <1>2, <1>3, <1>4, <1>5

LEMMA StepTyped ==
  ASSUME TypeInv, NEW t \in Tasks, Move(t)
  PROVE  TypeOK' /\ diagnoses' >= diagnoses
<1> USE DEF TypeInv, TypeOK
<1>1. pc' \in [Tasks -> InProcess \union { "idle", "done", "ack", "nack" }]
  BY OneMoves DEF Label
<1>2. lock' \in [Processes -> Tasks \union {NoTask}]
  <2>1. CASE Return(t) \/ Raise(t)
    BY <2>1, Leaves
  <2>2. CASE Acquire(t)
    BY <2>2 DEF Acquire
  <2>3. CASE Note(t)
    BY <2>3 DEF Note, Release
  <2> QED
    BY <2>1, <2>2, <2>3, WhoChanges
<1>3. event' \in [Tasks -> Events \union {NoEvent}]
  <2>1. UNCHANGED event \/ Receive(t) \/ Call(t)
    BY WhoChanges
  <2> QED
    BY <2>1 DEF Receive, Call
<1>4. queue' \in [Events -> { "queued", "delivered", "acked", "dead" }]
  <2>1. UNCHANGED queue \/ Receive(t) \/ Nack(t) \/ Ack(t)
    BY WhoChanges
  <2> QED
    BY <2>1 DEF Receive, Nack, Ack
<1>5. /\ diagnoses' \in Nat /\ diagnoses' >= diagnoses
      /\ diagnosis' \in [Tasks -> 0..diagnoses']
  <2>1. UNCHANGED <<diagnoses, diagnosis>> \/ Create(t)
    BY WhoChanges
  <2> QED
    BY <2>1 DEF Create
<1>6. claims' \subseteq Events \ Anonymous
  BY WhoChanges DEF Suspended, Claim
<1>7. counted' \in [Events -> Nat]
  <2>1. CASE Aggregate(t)
    <3>1. event[t] \in Events
      BY <2>1 DEF Aggregate, Suspended
    <3> QED
      BY <2>1, <3>1 DEF Aggregate
  <2> QED
    BY <2>1, WhoChanges
<1>8. incident' \in [count : Nat, link : 0..diagnoses']
  <2>1. UNCHANGED incident \/ Aggregate(t) \/ LinkCommit(t)
    BY WhoChanges
  <2>2. CASE Aggregate(t)
    BY <1>5, <2>2 DEF Aggregate
  <2>3. CASE LinkCommit(t)
    BY <1>5, <2>3 DEF LinkCommit
  <2> QED
    BY <1>5, <2>1, <2>2, <2>3
<1>9. noted' \subseteq 1..diagnoses' /\ ran' \subseteq 1..diagnoses'
  <2>1. CASE Note(t) \/ Run(t)
    <3>1. diagnosis[t] \in 1..diagnoses
      BY <2>1 DEF Note, Run, Suspended, Creating, NoDiagnosis
    <3> QED
      BY <1>5, <2>1, <3>1 DEF Note, Run
  <2>2. CASE UNCHANGED <<noted, ran>>
    BY <1>5, <2>2
  <2> QED
    BY <2>1, <2>2, WhoChanges
<1>10. seen' \in [Tasks -> [duplicate : BOOLEAN, link : 0..diagnoses']]
  <2>1. ASSUME NEW known \in BOOLEAN, Know(t, known)
        PROVE  seen' \in [Tasks -> [duplicate : BOOLEAN, link : 0..diagnoses]]
    BY <2>1 DEF Know
  <2>2. CASE UNCHANGED seen
    BY <1>5, <2>2
  <2>3. \E known \in BOOLEAN : UNCHANGED seen \/ Know(t, known)
    BY WhoChanges
  <2> QED
    BY <1>5, <2>1, <2>2, <2>3
<1>11. faults' \in 0..MaxFaults /\ orphaned' \subseteq Events \ Anonymous
  <2>1. UNCHANGED faultVars \/ Fault("database", {t}) \/ Fault("cancel", {t})
    BY WhoChanges
  <2>2. Claimed({t}) \subseteq Events \ Anonymous
    BY ClaimedAreEvents
  <2>3. ASSUME NEW kind, Fault(kind, {t})
        PROVE  faults' \in 0..MaxFaults /\ orphaned' \subseteq Events \ Anonymous
    <3>1. faults' \in 0..MaxFaults
      BY <2>3, BoundAssumption DEF Fault
    <3>2. orphaned' = orphaned \union Claimed({t})
      BY <2>3 DEF Fault
    <3> QED
      BY <2>2, <3>1, <3>2
  <2>4. CASE UNCHANGED faultVars
    BY <2>4 DEF faultVars
  <2> QED
    BY <2>1, <2>3, <2>4
<1> QED
  BY <1>1, <1>2, <1>3, <1>4, <1>5, <1>6, <1>7, <1>8, <1>9, <1>10, <1>11

\* A process that dies takes the steps of all its tasks back to the start.
LEMMA CrashTyped ==
  ASSUME TypeInv, NEW p \in Processes, Crash(p)
  PROVE  TypeOK'
<1> USE DEF TypeInv, TypeOK
<1>1. pc' \in [Tasks -> InProcess \union { "idle", "done", "ack", "nack" }]
  BY DEF Crash
<1>2. queue' \in [Events -> { "queued", "delivered", "acked", "dead" }]
  BY DEF Crash
<1>3. lock' \in [Processes -> Tasks \union {NoTask}]
  BY DEF Crash
<1>4. faults' \in 0..MaxFaults /\ orphaned' \subseteq Events \ Anonymous
  <2>1. PICK lost \in SUBSET Tasks : Fault("crash", lost)
    BY DEF Crash
  <2>2. Claimed(lost) \subseteq Events \ Anonymous
    BY ClaimedAreEvents
  <2> QED
    BY <2>1, <2>2, BoundAssumption DEF Fault
<1> QED
  BY <1>1, <1>2, <1>3, <1>4 DEF Crash, store, task

LEMMA ExpiryTyped ==
  ASSUME TypeInv, NEW e \in Events, Expire(e)
  PROVE  TypeOK'
<1>1. Claimed({}) = {}
  BY DEF Claimed
<1> QED
  BY <1>1, BoundAssumption DEF TypeInv, TypeOK, Expire, Fault, task

\* The task that moves knows what its new await says of it.
LEMMA MoverIsSuspended ==
  ASSUME TypeInv, NEW t \in Tasks, Move(t), TypeOK'
  PROVE  Suspended(t)'
<1> USE DEF TypeInv
<1>1. Suspended(t)
  OBVIOUS
<1>2. pc \in [Tasks -> Label] /\ event \in [Tasks -> Events \union {NoEvent}]
      /\ diagnosis \in [Tasks -> 0..diagnoses] /\ incident.count \in Nat
  BY DEF TypeOK, Label
<1>3. ASSUME Return(t) \/ Raise(t), UNCHANGED event, incident'.count > 0 \/ pc'[t] # "ack",
             pc[t] \notin { "idle", "done" } \/ event[t] \in Events
      PROVE  Suspended(t)'
  <2>1. PICK label \in { "ack", "nack", "done" } :
          pc' = [pc EXCEPT ![t] = label] /\ (label \in { "ack", "nack" } => t \in Consumers)
    BY <1>3, Leaves
  <2>2. pc'[t] = label
    BY <1>2, <2>1
  <2> QED
    BY <1>1, <1>3, <2>1, <2>2, Labels DEF Suspended, Creating
<1>4. CASE Receive(t)
  <2>1. CASE UNCHANGED <<pc, event>>
    BY <1>1, <1>4, <2>1, Labels DEF Receive, Suspended, Creating, store
  <2>2. CASE \E e \in Events : event' = [event EXCEPT ![t] = e] /\ Goto(t, "lock")
    BY <1>2, <1>4, <2>2, Labels, TasksAssumption DEF Receive, Goto, Suspended, Creating
  <2> QED
    BY <1>4, <2>1, <2>2 DEF Receive
<1>5. CASE Call(t)
  BY <1>2, <1>5, Labels, TasksAssumption DEF Call, Goto, Suspended, Creating
<1>6. CASE Acquire(t)
  BY <1>1, <1>2, <1>6, Labels DEF Acquire, Goto, Suspended, Creating, task
<1>7. CASE Service(t)
  <2>1. CASE Raise(t)
    <3>1. pc'[t] # "ack"
      BY <1>2, <2>1 DEF Raise, Goto
    <3> QED
      BY <1>1, <1>3, <1>7, <2>1, <3>1 DEF Service, task, Suspended
  <2>2. CASE event[t] \notin Unknown
    BY <1>1, <1>2, <1>7, <2>2, Labels DEF Service, Goto, Suspended, Creating, task
  <2> QED
    BY <1>7, <2>1, <2>2 DEF Service
<1>8. CASE Claim(t)
  BY <1>1, <1>2, <1>8, Labels DEF Claim, Goto, Suspended, Creating, task
<1>9. CASE Lookup(t)
  <2>1. CASE incident.count = 0
    BY <1>1, <1>2, <1>9, <2>1, Labels DEF Lookup, Goto, Suspended, Creating
  <2>2. CASE incident.count # 0 /\ Return(t)
    BY <1>1, <1>2, <1>3, <1>9, <2>2 DEF Lookup, Suspended, store
  <2>3. CASE incident.count # 0 /\ t \notin Ingests /\ Goto(t, "reload")
    BY <1>1, <1>2, <1>9, <2>3, Labels DEF Lookup, Goto, Suspended, Creating, store
  <2> QED
    BY <1>9, <2>1, <2>2, <2>3 DEF Lookup
<1>10. CASE Aggregate(t)
  <2>1. incident'.count > 0
    <3>1. incident'.count = incident.count + 1
      BY <1>10 DEF Aggregate
    <3> QED
      BY <1>2, <3>1
  <2>2. CASE Return(t)
    BY <1>1, <1>3, <1>10, <2>1, <2>2 DEF Aggregate, Suspended
  <2>3. CASE t \notin Ingests /\ Goto(t, "reload")
    BY <1>1, <1>2, <1>10, <2>1, <2>3, Labels DEF Aggregate, Goto, Suspended, Creating
  <2> QED
    BY <1>10, <2>2, <2>3 DEF Aggregate
<1>11. CASE Reload(t)
  <2>1. incident' = incident /\ incident.count > 0 /\ event' = event /\ t \notin Ingests
        /\ event[t] \in Events
    BY <1>1, <1>11, Labels DEF Reload, Suspended, store
  <2>2. CASE Return(t)
    BY <1>3, <2>1, <2>2
  <2>3. CASE Goto(t, "create")
    BY <1>2, <2>1, <2>3, Labels DEF Goto, Suspended, Creating
  <2> QED
    BY <1>11, <2>2, <2>3 DEF Reload
<1>12. CASE Create(t)
  <2>1. diagnosis'[t] # NoDiagnosis
    BY <1>2, <1>12 DEF Create, NoDiagnosis, TypeOK
  <2> QED
    BY <1>1, <1>2, <1>12, <2>1, Labels DEF Create, Goto, Suspended, Creating
<1>13. CASE CreateEvidence(t)
  BY <1>1, <1>2, <1>13, Labels DEF CreateEvidence, Goto, Suspended, Creating, store, task
<1>14. CASE LinkRead(t)
  <2>1. CASE Raise(t)
    <3>1. pc'[t] # "ack"
      BY <1>2, <2>1 DEF Raise, Goto
    <3> QED
      BY <1>1, <1>3, <1>14, <2>1, <3>1 DEF LinkRead, task, Suspended
  <2>2. CASE Goto(t, "link_commit")
    BY <1>1, <1>2, <1>14, <2>2, Labels DEF LinkRead, Goto, Suspended, Creating, store, task
  <2> QED
    BY <1>14, <2>1, <2>2 DEF LinkRead
<1>15. CASE LinkCommit(t)
  BY <1>1, <1>2, <1>15, Labels DEF LinkCommit, Goto, Suspended, Creating, task
<1>16. CASE Note(t)
  BY <1>1, <1>2, <1>16, Labels DEF Note, Goto, Suspended, Creating, task
<1>17. CASE Run(t)
  BY <1>1, <1>2, <1>3, <1>17 DEF Run, Suspended, task
<1>18. CASE Nack(t) \/ Ack(t)
  BY <1>2, <1>18, Labels DEF Nack, Ack, Goto, Suspended, Creating
<1>19. CASE StatementFails(t) \/ Cancel(t)
  <2>1. pc'[t] # "ack" /\ event[t] \in Events
    BY <1>1, <1>2, <1>19, Labels DEF StatementFails, Cancel, Raise, Goto, Suspended
  <2> QED
    BY <1>3, <1>19, <2>1 DEF StatementFails, Cancel, task
<1> QED
  BY <1>4, <1>5, <1>6, <1>7, <1>8, <1>9, <1>10, <1>11, <1>12, <1>13, <1>14, <1>15, <1>16,
     <1>17, <1>18, <1>19 DEF Move, Step

LEMMA TypesStay == TypeInv /\ [Next]_vars => TypeInv'
<1> SUFFICES ASSUME TypeInv, [Next]_vars PROVE TypeInv'
  OBVIOUS
<1>1. ASSUME NEW t \in Tasks, Move(t) PROVE TypeInv'
  <2>1. TypeOK'
    BY <1>1, StepTyped
  <2>2. ASSUME NEW u \in Tasks, u # t PROVE Suspended(u)'
    <3>1. pc'[u] = pc[u] /\ event'[u] = event[u] /\ diagnosis'[u] = diagnosis[u]
      BY <1>1, <2>2, OneMoves
    <3>2. incident'.count >= incident.count /\ incident.count \in Nat /\ incident'.count \in Nat
      BY <1>1, <2>1, OneMoves DEF TypeInv, TypeOK
    <3> QED
      BY <3>1, <3>2 DEF TypeInv, Suspended
  <2>3. Suspended(t)'
    BY <1>1, <2>1, MoverIsSuspended
  <2> QED
    BY <2>1, <2>2, <2>3 DEF TypeInv
<1>2. ASSUME NEW p \in Processes, Crash(p) PROVE TypeInv'
  <2>1. TypeOK'
    BY <1>2, CrashTyped
  <2>2. ASSUME NEW u \in Tasks PROVE Suspended(u)'
    <3>1. pc'[u] = pc[u] \/ pc'[u] \in {"idle", "done"}
      BY <1>2 DEF Crash
    <3> QED
      BY <1>2, <3>1, Labels DEF TypeInv, Suspended, Crash, store, task, Creating
  <2> QED
    BY <2>1, <2>2 DEF TypeInv
<1>3. ASSUME NEW e \in Events, Expire(e) PROVE TypeInv'
  BY <1>3, ExpiryTyped DEF TypeInv, Expire, Suspended, task
<1>4. ASSUME UNCHANGED vars PROVE TypeInv'
  BY <1>4 DEF TypeInv, TypeOK, Suspended, vars, store, task, faultVars
<1> QED
  BY <1>1, <1>2, <1>3, <1>4 DEF Next, Move, Quiescent
-----------------------------------------------------------------------------
(* The lock of process() *)

\* Who is under the lock of process() holds it, so that there is one such task
\* in each process.
LEMMA LockStays == TypeInv /\ LockIsHeld /\ [Next]_vars => LockIsHeld'
<1> SUFFICES ASSUME TypeInv, LockIsHeld, [Next]_vars PROVE LockIsHeld'
  OBVIOUS
<1> USE HostAssumption DEF TypeInv, LockIsHeld
<1>1. ASSUME NEW t \in Tasks, Move(t), NEW u \in Tasks, u \notin Ingests, (pc[u] \in Locked)'
      PROVE  lock'[Host[u]] = u
  <2>1. pc \in [Tasks -> Label] /\ lock \in [Processes -> Tasks \union {NoTask}]
    BY DEF TypeOK, Label
  <2>2. CASE u # t
    <3>1. pc'[u] = pc[u] /\ lock[Host[u]] = u
      BY <1>1, <2>2, OneMoves
    <3>2. UNCHANGED lock \/ Acquire(t) \/ Note(t) \/ Return(t) \/ Raise(t)
      BY <1>1, WhoChanges
    <3>3. CASE Acquire(t)
      BY <2>1, <2>2, <3>1, <3>3, TasksAssumption DEF Acquire
    <3>4. CASE Note(t) \/ Return(t) \/ Raise(t)
      BY <2>1, <2>2, <3>1, <3>4 DEF Note, Return, Raise, Release
    <3> QED
      BY <3>1, <3>2, <3>3, <3>4
  <2>3. CASE u = t
    <3>1. CASE Return(t) \/ Raise(t)
      BY <1>1, <2>1, <2>3, <3>1, Leaves, Labels
    <3>2. CASE Acquire(t)
      BY <1>1, <2>1, <2>3, <3>2 DEF Acquire
    <3>3. CASE Note(t) \/ Run(t) \/ Nack(t) \/ Ack(t)
      BY <1>1, <2>1, <2>3, <3>1, <3>3, Labels DEF Note, Run, Nack, Ack, Goto
    <3>4. CASE Call(t) \/ Receive(t)
      BY <1>1, <2>1, <2>3, <3>4, Labels DEF Call, Receive, Goto
    <3>5. CASE Service(t) \/ Claim(t) \/ Lookup(t) \/ Aggregate(t)
      BY <1>1, <2>1, <2>3, <3>1, <3>5, Labels DEF Service, Claim, Lookup, Aggregate
    <3>6. CASE Reload(t) \/ Create(t) \/ CreateEvidence(t) \/ LinkRead(t) \/ LinkCommit(t)
      BY <1>1, <2>1, <2>3, <3>1, <3>6, Labels
      DEF Reload, Create, CreateEvidence, LinkRead, LinkCommit
    <3>7. CASE StatementFails(t) \/ Cancel(t)
      BY <3>1, <3>7 DEF StatementFails, Cancel
    <3> QED
      BY <1>1, <3>2, <3>3, <3>4, <3>5, <3>6, <3>7 DEF Move, Step
  <2> QED
    BY <2>2, <2>3
<1>2. ASSUME NEW p \in Processes, Crash(p), NEW u \in Tasks, u \notin Ingests, (pc[u] \in Locked)'
      PROVE  lock'[Host[u]] = u
  <2>1. pc'[u] = pc[u] /\ Host[u] # p
    BY <1>2, Labels DEF Crash
  <2> QED
    BY <1>2, <2>1 DEF Crash, TypeOK
<1>3. CASE UNCHANGED <<pc, lock>>
  BY <1>3
<1> QED
  BY <1>1, <1>2, <1>3 DEF Next, Move, Expire, Quiescent, vars, LockIsHeld
LEMMA DiscoveryInvariant == Spec => [](TypeInv /\ LockIsHeld)
BY TypeStart, TypesStay, LockStays, PTL DEF Spec

LEMMA OneUnderLock ==
  ASSUME TypeInv, LockIsHeld, NEW t \in Tasks, NEW u \in Tasks,
         {pc[t], pc[u]} \subseteq Locked, {t, u} \intersect Ingests = {}, Host[t] = Host[u]
  PROVE  t = u
BY DEF LockIsHeld

\* Of the steps of all kinds, those that move the incident, its diagnoses and
\* the messages.
LEMMA StoreMoves ==
  ASSUME Next
  PROVE  /\ UNCHANGED incident \/ \E t \in Tasks : Aggregate(t) \/ LinkCommit(t)
         /\ UNCHANGED ran \/ \E t \in Tasks : Run(t)
         /\ UNCHANGED counted \/ \E t \in Tasks : Aggregate(t)
         /\ UNCHANGED <<diagnoses, diagnosis>> \/ \E t \in Tasks : Create(t)
         /\ \/ UNCHANGED queue
            \/ \E t \in Tasks : Receive(t) \/ Nack(t) \/ Ack(t)
            \/ \E p \in Processes : Crash(p)
<1>1. ASSUME NEW t \in Tasks, Move(t)
      PROVE  /\ UNCHANGED incident \/ Aggregate(t) \/ LinkCommit(t)
             /\ UNCHANGED ran \/ Run(t)
             /\ UNCHANGED counted \/ Aggregate(t)
             /\ UNCHANGED <<diagnoses, diagnosis>> \/ Create(t)
             /\ UNCHANGED queue \/ Receive(t) \/ Nack(t) \/ Ack(t)
  BY <1>1, WhoChanges
<1>2. ASSUME (\E p \in Processes : Crash(p)) \/ (\E e \in Events : Expire(e)) \/ Quiescent
      PROVE  UNCHANGED <<incident, ran, counted, diagnoses, diagnosis>>
  BY <1>2 DEF Crash, Expire, Quiescent, vars, store, task
<1>3. ASSUME (\E e \in Events : Expire(e)) \/ Quiescent PROVE UNCHANGED queue
  BY <1>3 DEF Expire, Quiescent, vars
<1> QED
  BY <1>1, <1>2, <1>3 DEF Next, Move

\* How a task gets to an await after which it may count the event, or create,
\* link or run a diagnosis.
LEMMA Arrivals ==
  ASSUME TypeInv, Next, NEW u \in Tasks, pc'[u] # pc[u]
  PROVE  /\ pc'[u] = "lookup" => Claim(u) /\ event[u] \in claims
         /\ pc'[u] = "aggregate" =>
              \/ Service(u) /\ event[u] \in Anonymous
              \/ Claim(u) /\ event[u] \notin claims
              \/ Lookup(u) /\ incident.count = 0
         /\ pc'[u] = "create" => Reload(u) /\ incident.link = NoDiagnosis
         /\ pc'[u] = "evidence" => Create(u)
         /\ pc'[u] = "link_read" => CreateEvidence(u)
         /\ pc'[u] = "link_commit" => LinkRead(u) /\ incident.link = NoDiagnosis
         /\ pc'[u] = "note" => LinkCommit(u)
         /\ pc'[u] = "run" => Note(u)
<1>1. pc \in [Tasks -> Label]
  BY DEF TypeInv, TypeOK, Label
<1>2. CASE Move(u)
  <2> DEFINE Elsewhere ==
        pc'[u] \in { "idle", "lock", "service", "reload", "done", "ack", "nack" }
  <2>1. CASE Return(u) \/ Raise(u)
    <3>1. Elsewhere
      BY <1>1, <2>1, Leaves DEF TypeInv
    <3> QED
      BY <3>1
  <2>2. CASE Receive(u) \/ Call(u) \/ Acquire(u) \/ Nack(u) \/ Ack(u)
    <3>1. Elsewhere
      BY <1>1, <2>2 DEF Receive, Call, Acquire, Nack, Ack, Goto
    <3> QED
      BY <3>1
  <2>3. CASE Service(u)
    BY <1>1, <2>1, <2>3 DEF Service, Goto, Suspended, TypeInv
  <2>4. CASE Claim(u)
    BY <1>1, <2>4 DEF Claim, Goto
  <2>5. CASE Lookup(u)
    BY <1>1, <2>1, <2>5 DEF Lookup, Goto
  <2>6. CASE Aggregate(u)
    BY <1>1, <2>1, <2>6 DEF Aggregate, Goto
  <2>7. CASE Reload(u)
    BY <1>1, <2>1, <2>7 DEF Reload, Goto
  <2>8. CASE Create(u) \/ CreateEvidence(u) \/ LinkCommit(u) \/ Note(u)
    BY <1>1, <2>8 DEF Create, CreateEvidence, LinkCommit, Note, Goto
  <2>9. CASE LinkRead(u)
    BY <1>1, <2>1, <2>9 DEF LinkRead, Goto
  <2>10. CASE Run(u) \/ StatementFails(u) \/ Cancel(u)
    BY <2>1, <2>10 DEF Run, StatementFails, Cancel
  <2> QED
    BY <1>2, <2>2, <2>3, <2>4, <2>5, <2>6, <2>7, <2>8, <2>9, <2>10 DEF Move, Step
<1>3. ASSUME NEW t \in Tasks, Move(t) PROVE t = u
  BY <1>3, OneMoves
<1>4. ASSUME NEW p \in Processes, Crash(p) PROVE pc'[u] \in { "idle", "done" }
  BY <1>4 DEF Crash
<1>5. ASSUME (\E e \in Events : Expire(e)) \/ Quiescent PROVE FALSE
  BY <1>5 DEF Expire, Quiescent, vars
<1> QED
  BY <1>2, <1>3, <1>4, <1>5 DEF Next, Move

\* An event is counted, about to be, or was claimed by a task that a fault ended.
Accounted(e) ==
  \/ counted[e] > 0
  \/ e \in orphaned
  \/ e \notin Anonymous /\ \E t \in Tasks : event[t] = e /\ pc[t] = "aggregate"

\* So it is from its claim on, and from the await after its count on.
AckInv ==
  /\ \A e \in claims : Accounted(e)
  /\ \A t \in Tasks : pc[t] \in InTrigger \union { "lookup", "run", "ack" } => Accounted(event[t])
  /\ AckedIsStored

\* Once it is accounted for it stays so: who was about to count it does, or is
\* ended by a fault.
LEMMA AccountedStays ==
  ASSUME TypeInv, Next, NEW e \in Events, Accounted(e)
  PROVE  Accounted(e)'
<1> USE DEF TypeInv, TypeOK
<1>1. counted' \in [Events -> Nat] /\ orphaned \subseteq orphaned'
  <2>1. counted' \in [Events -> Nat]
    BY TypesStay
  <2>2. ASSUME NEW t \in Tasks, Move(t) PROVE orphaned \subseteq orphaned'
    BY <2>2, WhoChanges DEF Fault, faultVars
  <2>3. ASSUME NEW p \in Processes, Crash(p) PROVE orphaned \subseteq orphaned'
    BY <2>3 DEF Crash, Fault
  <2> QED
    BY <2>1, <2>2, <2>3 DEF Next, Move, Expire, Fault, Quiescent, vars, faultVars
<1>2. CASE counted[e] > 0
  <2>1. ASSUME NEW t \in Tasks, Aggregate(t) PROVE counted'[e] >= counted[e]
    <3>1. counted' = [counted EXCEPT ![event[t]] = @ + 1]
      BY <2>1 DEF Aggregate
    <3>2. counted[e] \in Nat
      OBVIOUS
    <3> QED
      BY <3>1, <3>2
  <2>2. counted'[e] >= counted[e] /\ counted[e] \in Nat /\ counted'[e] \in Nat
    BY <1>1, <2>1, StoreMoves
  <2> QED
    BY <1>2, <2>2 DEF Accounted
<1>3. CASE e \in orphaned
  BY <1>1, <1>3 DEF Accounted
<1>4. ASSUME e \notin Anonymous, NEW u \in Tasks, event[u] = e, pc[u] = "aggregate"
      PROVE  Accounted(e)'
  <2>1. CASE pc'[u] = "aggregate" /\ event'[u] = e
    BY <1>4, <2>1 DEF Accounted
  <2>2. CASE Aggregate(u)
    <3>1. counted' = [counted EXCEPT ![e] = @ + 1] /\ counted[e] \in Nat
      BY <1>4, <2>2 DEF Aggregate
    <3>2. counted'[e] > 0
      BY <3>1
    <3> QED
      BY <3>2 DEF Accounted
  <2>3. CASE StatementFails(u) \/ Cancel(u)
    <3>1. e \in orphaned'
      BY <1>4, <2>3 DEF StatementFails, Cancel, Fault, Claimed
    <3> QED
      BY <3>1 DEF Accounted
  <2>4. ASSUME NEW p \in Processes, Crash(p) PROVE Accounted(e)'
    <3>1. CASE Host[u] = p
      <4>1. e \in orphaned'
        BY <1>4, <2>4, <3>1 DEF Crash, Fault, Claimed
      <4> QED
        BY <4>1 DEF Accounted
    <3>2. CASE Host[u] # p
      <4>1. pc'[u] = "aggregate" /\ event'[u] = e
        BY <1>4, <2>4, <3>2 DEF Crash, task
      <4> QED
        BY <1>4, <4>1 DEF Accounted
    <3> QED
      BY <3>1, <3>2
  <2>5. ASSUME NEW t \in Tasks, Move(t), t # u PROVE pc'[u] = "aggregate" /\ event'[u] = e
    BY <1>4, <2>5, OneMoves
  <2>6. ASSUME Move(u) PROVE Aggregate(u) \/ StatementFails(u) \/ Cancel(u)
    BY <1>4, <2>6 DEF Move, Step, Receive, Call, Acquire, Service, Claim, Lookup, Reload, Create,
                      CreateEvidence, LinkRead, LinkCommit, Note, Run, Nack, Ack
  <2>7. ASSUME (\E x \in Events : Expire(x)) \/ Quiescent
        PROVE  pc'[u] = "aggregate" /\ event'[u] = e
    BY <1>4, <2>7 DEF Expire, Quiescent, vars, task
  <2> QED
    BY <2>1, <2>2, <2>3, <2>4, <2>5, <2>6, <2>7 DEF Next, Move
<1> QED
  BY <1>2, <1>3, <1>4 DEF Accounted

\* Where a task stands whose event is accounted for has three ways in.
LEMMA WaysIn ==
  ASSUME TypeInv, NEW t \in Tasks, Move(t),
         pc'[t] \in InTrigger \union { "lookup", "run", "ack" }
  PROVE  /\ event'[t] = event[t] /\ event[t] \in Events
         /\ \/ pc[t] \in InTrigger \union { "lookup", "run", "ack" }
            \/ Claim(t) /\ event[t] \in claims
            \/ Aggregate(t)
<1> DEFINE Known == InTrigger \union { "lookup", "run", "ack" }
<1>1. pc \in [Tasks -> Label] /\ Suspended(t)
  BY DEF TypeInv, TypeOK, Label
<1>2. ~Receive(t) /\ ~Call(t) /\ ~Acquire(t) /\ ~Nack(t) /\ ~Ack(t)
  <2>1. CASE Receive(t)
    BY <1>1, <2>1, Labels DEF Receive, Goto
  <2>2. CASE Call(t) \/ Acquire(t) \/ Nack(t) \/ Ack(t)
    BY <1>1, <2>2, Labels DEF Call, Acquire, Nack, Ack, Goto
  <2> QED
    BY <2>1, <2>2
<1>3. ~StatementFails(t) /\ ~Cancel(t) /\ ~Service(t)
  <2>1. ASSUME Raise(t) PROVE FALSE
    <3>1. pc'[t] \in { "nack", "done" }
      BY <1>1, <2>1 DEF Raise, Goto
    <3> QED
      BY <3>1, Labels
  <2>2. ASSUME Service(t), event[t] \notin Unknown PROVE FALSE
    <3>1. pc'[t] \in { "aggregate", "claim" }
      BY <1>1, <2>2 DEF Service, Goto
    <3> QED
      BY <3>1, Labels
  <2> QED
    BY <2>1, <2>2 DEF StatementFails, Cancel, Service
<1>4. event'[t] = event[t]
  BY <1>2, WhoChanges
<1>5. event[t] \in Events
  BY <1>1, <1>2, <1>3 DEF Suspended, Move, Step, Claim, Lookup, Aggregate, Reload, Create,
                          CreateEvidence, LinkRead, LinkCommit, Note, Run
<1>6. \/ pc[t] \in Known \/ Aggregate(t)
      \/ Claim(t) /\ event[t] \in claims
  <2>1. CASE Claim(t) /\ event[t] \notin claims
    <3>1. pc'[t] = "aggregate"
      BY <1>1, <2>1 DEF Claim, Goto
    <3> QED
      BY <3>1, Labels
  <2> QED
    BY <1>2, <1>3, <2>1, Labels DEF Move, Step, Lookup, Reload, Create, CreateEvidence,
                          LinkRead, LinkCommit, Note, Run
<1> QED
  BY <1>4, <1>5, <1>6

LEMMA AckedStays == TypeInv /\ AckInv /\ [Next]_vars => AckInv'
<1>1. ASSUME UNCHANGED vars, AckInv PROVE AckInv'
  BY <1>1 DEF AckInv, AckedIsStored, Accounted, vars, store, task, faultVars
<1> SUFFICES ASSUME TypeInv, AckInv, Next PROVE AckInv'
  BY <1>1
<1>2. \A e \in Events : Accounted(e) => Accounted(e)'
  BY AccountedStays
<1>3. claims \subseteq Events /\ pc \in [Tasks -> Label] /\ event \in [Tasks -> Events \union {NoEvent}]
  BY DEF TypeInv, TypeOK, Label
<1>4. ASSUME NEW e \in claims' PROVE Accounted(e)'
  <2>1. CASE e \in claims
    BY <1>2, <1>3, <2>1 DEF AckInv
  <2>2. ASSUME NEW t \in Tasks, Claim(t), e \notin claims PROVE Accounted(e)'
    <3>1. e = event[t] /\ event[t] \notin Anonymous /\ event' = event
      BY <1>4, <2>2 DEF Claim, TypeInv, Suspended, task
    <3>2. pc'[t] = "aggregate"
      BY <1>3, <2>2, <3>1 DEF Claim, Goto
    <3> QED
      BY <3>1, <3>2 DEF Accounted
  <2>3. ASSUME NEW t \in Tasks, Move(t), ~Claim(t) PROVE claims' = claims
    BY <2>3, WhoChanges
  <2>4. ASSUME (\E p \in Processes : Crash(p)) \/ (\E x \in Events : Expire(x)) \/ Quiescent
        PROVE  claims' \subseteq claims
    BY <2>4 DEF Crash, Expire, Quiescent, vars, store
  <2> QED
    BY <1>4, <2>1, <2>2, <2>3, <2>4 DEF Next, Move
<1>5. ASSUME NEW t \in Tasks, pc'[t] \in InTrigger \union { "lookup", "run", "ack" }
      PROVE  Accounted(event[t])' /\ event'[t] = event[t] /\ event[t] \in Events
  <2>1. CASE Move(t)
    <3>1. /\ event'[t] = event[t] /\ event[t] \in Events
          /\ \/ pc[t] \in InTrigger \union { "lookup", "run", "ack" }
             \/ Claim(t) /\ event[t] \in claims
             \/ Aggregate(t)
      BY <1>5, <2>1, WaysIn
    <3>2. CASE Aggregate(t)
      <4>1. counted' = [counted EXCEPT ![event[t]] = @ + 1] /\ counted \in [Events -> Nat]
        BY <3>2 DEF Aggregate, TypeInv, TypeOK
      <4>2. counted'[event[t]] > 0
        BY <3>1, <4>1
      <4> QED
        BY <3>1, <4>2 DEF Accounted
    <3>3. CASE ~Aggregate(t)
      <4>1. Accounted(event[t])
        BY <3>1, <3>3 DEF AckInv
      <4>2. PICK e \in Events : e = event[t] /\ e = event'[t]
        BY <3>1
      <4>3. Accounted(e)'
        BY <1>2, <4>1, <4>2
      <4> QED
        BY <3>1, <4>2, <4>3 DEF Accounted
    <3> QED
      BY <3>2, <3>3
  <2>2. CASE ~Move(t)
    <3>1. pc'[t] = pc[t] /\ event'[t] = event[t]
      <4>1. ASSUME NEW u \in Tasks, Move(u) PROVE pc'[t] = pc[t] /\ event'[t] = event[t]
        BY <2>2, <4>1, OneMoves
      <4>2. ASSUME NEW p \in Processes, Crash(p) PROVE pc'[t] = pc[t] /\ event'[t] = event[t]
        BY <1>5, <4>2, Labels DEF Crash, task
      <4> QED
        BY <4>1, <4>2 DEF Next, Move, Expire, Quiescent, vars, task
    <3>2. Accounted(event[t]) /\ event[t] \in Events
      BY <1>5, <3>1, Labels DEF AckInv, TypeInv, Suspended
    <3>3. PICK e \in Events : e = event[t] /\ e = event'[t]
      BY <3>1, <3>2
    <3>4. Accounted(e)'
      BY <1>2, <3>2, <3>3
    <3> QED
      BY <3>1, <3>2, <3>3, <3>4 DEF Accounted
  <2> QED
    BY <2>1, <2>2
<1>6. ASSUME NEW e \in Events, queue'[e] = "acked" PROVE Accounted(e)'
  <2>1. CASE queue[e] = "acked"
    BY <1>2, <2>1 DEF AckInv, AckedIsStored, Accounted
  <2>2. CASE queue[e] # "acked"
    <3>1. PICK t \in Tasks : Ack(t) /\ event[t] = e
      <4>1. ASSUME NEW t \in Tasks, Receive(t) PROVE FALSE
        BY <1>6, <2>2, <4>1 DEF Receive, TypeInv, TypeOK
      <4>2. ASSUME NEW t \in Tasks, Nack(t) PROVE FALSE
        BY <1>6, <2>2, <4>2 DEF Nack, TypeInv, TypeOK
      <4>3. ASSUME NEW t \in Tasks, Ack(t) PROVE event[t] = e
        BY <1>6, <2>2, <4>3 DEF Ack, TypeInv, TypeOK
      <4>4. ASSUME NEW p \in Processes, Crash(p) PROVE FALSE
        BY <1>6, <2>2, <4>4 DEF Crash
      <4> QED
        BY <1>6, <2>2, <4>1, <4>2, <4>3, <4>4, StoreMoves
    <3>2. pc[t] = "ack"
      BY <3>1 DEF Ack
    <3>3. Accounted(e)
      BY <3>1, <3>2 DEF AckInv
    <3> QED
      BY <1>2, <3>3
  <2> QED
    BY <2>1, <2>2
<1>7. AckedIsStored'
  BY <1>6 DEF AckedIsStored, Accounted
<1>8. \A t \in Tasks : (pc[t] \in InTrigger \union { "lookup", "run", "ack" } => Accounted(event[t]))'
  BY <1>5
<1> QED
  BY <1>4, <1>7, <1>8 DEF AckInv

-----------------------------------------------------------------------------
(* One process *)

OneProcess == \A p, q \in Processes : p = q

LinkIsFollowed ==
  /\ \A t \in Tasks :
       /\ pc[t] = "link_commit" => incident.link = NoDiagnosis
       /\ pc[t] \in { "note", "run" } => incident.link = diagnosis[t]
  /\ RanIsLinked

LEMMA LinkStays ==
  ASSUME OneProcess, TypeInv, LockIsHeld, LinkIsFollowed, Next
  PROVE  /\ LinkIsFollowed'
         /\ incident.link # NoDiagnosis => incident'.link = incident.link
<1> USE DEF TypeInv, LinkIsFollowed
<1>1. TypeOK
  OBVIOUS
<1>2. ASSUME NEW t \in Tasks, LinkCommit(t), NEW u \in Tasks, pc[u] \in InTrigger
      PROVE  u = t
  <2>1. {pc[t], pc[u]} \subseteq Locked /\ {t, u} \intersect Ingests = {}
    BY <1>2, Labels DEF LinkCommit, Suspended
  <2>2. Host[t] = Host[u]
    BY HostAssumption DEF OneProcess
  <2> QED
    BY <2>1, <2>2, OneUnderLock
<1>3. incident.link # NoDiagnosis => incident'.link = incident.link
  <2>1. ASSUME NEW t \in Tasks, Aggregate(t) PROVE incident'.link = incident.link
    BY <2>1 DEF Aggregate
  <2>2. ASSUME NEW t \in Tasks, LinkCommit(t) PROVE incident.link = NoDiagnosis
    BY <2>2 DEF LinkCommit
  <2> QED
    BY <2>1, <2>2, StoreMoves
\* Whoever has linked, or ran, finds the link that it left.
<1>4. ASSUME NEW t \in Tasks, LinkCommit(t) PROVE LinkIsFollowed'
  <2>1. incident.link = NoDiagnosis
    BY <1>4 DEF LinkCommit
  <2>2. \A u \in Tasks : pc[u] \notin { "note", "run" }
    BY <2>1 DEF Suspended, Creating
  <2>3. ran = {}
    BY <1>1, <2>1 DEF RanIsLinked, TypeOK, NoDiagnosis
  <2>4. incident'.link = diagnosis[t] /\ pc' = [pc EXCEPT ![t] = "note"]
        /\ UNCHANGED <<ran, diagnosis>>
    BY <1>4 DEF LinkCommit, Goto, task
  <2>5. \A u \in Tasks : pc'[u] # "link_commit" /\ (pc'[u] \in { "note", "run" } => u = t)
    BY <1>1, <1>2, <1>4, <2>2, <2>4, Labels DEF TypeOK
  <2> QED
    BY <2>3, <2>4, <2>5 DEF RanIsLinked
<1>5. ASSUME ~\E t \in Tasks : LinkCommit(t) PROVE LinkIsFollowed'
  <2>1. incident'.link = incident.link
    <3>1. ASSUME NEW t \in Tasks, Aggregate(t) PROVE incident'.link = incident.link
      BY <3>1 DEF Aggregate
    <3> QED
      BY <1>5, <3>1, StoreMoves
  <2>2. RanIsLinked'
    <3>1. ASSUME NEW t \in Tasks, Run(t) PROVE ran' = ran \union {incident.link}
      BY <3>1 DEF Run
    <3> QED
      BY <2>1, <3>1, StoreMoves DEF RanIsLinked
  <2>3. ASSUME NEW u \in Tasks, pc'[u] \in { "link_commit", "note", "run" }
        PROVE  \/ pc[u] = pc'[u] /\ diagnosis'[u] = diagnosis[u]
               \/ pc[u] = "note" /\ pc'[u] = "run" /\ diagnosis'[u] = diagnosis[u]
               \/ pc'[u] = "link_commit" /\ incident.link = NoDiagnosis
    <3>1. CASE pc'[u] = "run" /\ pc[u] # "run"
      BY <3>1, Arrivals DEF Note, task
    <3>2. CASE pc'[u] = "link_commit" /\ pc[u] # "link_commit"
      BY <3>2, Arrivals
    <3>3. CASE pc'[u] = pc[u]
      <4>1. ASSUME NEW t \in Tasks, Create(t) PROVE diagnosis'[u] = diagnosis[u]
        <5>1. u # t
          BY <2>3, <3>3, <4>1 DEF Create
        <5> QED
          BY <4>1, <5>1, <1>1 DEF Create, TypeOK
      <4> QED
        BY <3>3, <4>1, StoreMoves
    <3> QED
      BY <1>5, <2>3, <3>1, <3>2, <3>3, Arrivals
  <2> QED
    BY <2>1, <2>2, <2>3
<1> QED
  BY <1>3, <1>4, <1>5
\* While keys do not expire: whoever is about to count an event finds it
\* claimed and not yet counted.
CountsOnce ==
  /\ \A e \in Events \ Anonymous :
       /\ counted[e] <= 1
       /\ counted[e] > 0 => e \in claims /\ incident.count > 0
  /\ \A t \in Tasks : event[t] \notin Anonymous =>
       /\ pc[t] \in { "lookup", "aggregate" } => event[t] \in claims
       /\ pc[t] = "aggregate" => counted[event[t]] = 0

LEMMA CountStays ==
  ASSUME OneProcess, Ingests = {}, "expiry" \notin Faults, TypeInv, LockIsHeld, CountsOnce, Next
  PROVE  CountsOnce'
<1> USE DEF TypeInv
<1>1. TypeOK /\ TypeOK'
  BY TypesStay
<1>2. claims \subseteq claims'
  <2>1. ASSUME NEW t \in Tasks, Move(t) PROVE claims \subseteq claims'
    BY <2>1, WhoChanges DEF Claim
  <2>2. ASSUME (\E p \in Processes : Crash(p)) \/ Quiescent PROVE claims \subseteq claims'
    BY <2>2 DEF Crash, Quiescent, vars, store
  <2> QED
    BY <2>1, <2>2 DEF Next, Move, Expire, Fault
<1>3. incident.count > 0 => incident'.count > 0
  <2>1. ASSUME NEW t \in Tasks, Aggregate(t) \/ LinkCommit(t) PROVE incident'.count >= incident.count
    BY <2>1, OneMoves DEF Move, Step
  <2> QED
    BY <1>1, <2>1, StoreMoves DEF TypeOK
<1>4. ASSUME NEW e \in Events \ Anonymous
      PROVE  /\ counted'[e] <= 1
             /\ counted'[e] > 0 => e \in claims' /\ incident'.count > 0
  <2>1. CASE counted'[e] = counted[e]
    BY <1>2, <1>3, <2>1 DEF CountsOnce
  <2>2. ASSUME NEW t \in Tasks, Aggregate(t), counted'[e] # counted[e]
        PROVE  counted'[e] <= 1 /\ e \in claims' /\ incident'.count > 0
    <3>1. event[t] = e /\ pc[t] = "aggregate" /\ counted'[e] = counted[e] + 1
      BY <1>1, <2>2 DEF Aggregate, TypeOK
    <3>2. counted[e] = 0 /\ e \in claims
      BY <3>1 DEF CountsOnce
    <3>3. incident'.count = incident.count + 1
      BY <2>2 DEF Aggregate
    <3> QED
      BY <1>1, <1>2, <3>1, <3>2, <3>3 DEF TypeOK
  <2> QED
    BY <2>1, <2>2, StoreMoves
<1>5. ASSUME NEW u \in Tasks, event'[u] \notin Anonymous, pc'[u] \in { "lookup", "aggregate" }
      PROVE  event'[u] \in claims' /\ (pc'[u] = "aggregate" => counted'[event'[u]] = 0)
  <2>1. CASE pc'[u] # pc[u]
    <3>1. \/ Claim(u) /\ (pc'[u] = "aggregate" => event[u] \notin claims)
          \/ Lookup(u) /\ incident.count = 0
          \/ Service(u) /\ event[u] \in Anonymous
      BY <1>5, <2>1, Arrivals
    <3>2. event'[u] = event[u] /\ counted' = counted /\ event[u] \in Events
      BY <3>1 DEF Claim, Lookup, Service, store, task, Suspended
    <3>3. counted[event[u]] > 0 => event[u] \in claims /\ incident.count > 0
      BY <1>5, <3>2 DEF CountsOnce
    <3>4. counted[event[u]] \in Nat
      BY <1>1, <3>2 DEF TypeOK
    <3>5. event[u] \in claims'
      BY <1>2, <1>5, <3>1, <3>2 DEF Claim, Lookup, CountsOnce
    <3> QED
      BY <1>1, <1>5, <3>1, <3>2, <3>3, <3>4, <3>5 DEF TypeOK
  <2>2. CASE pc'[u] = pc[u]
    <3>1. event'[u] = event[u]
      <4>1. ASSUME NEW t \in Tasks, Move(t) PROVE event'[u] = event[u]
        <5>1. CASE t = u
          <6>1. ~Receive(u) /\ ~Call(u)
            BY <1>5, <2>2 DEF Receive, Call
          <6> QED
            BY <4>1, <5>1, <6>1, WhoChanges
        <5> QED
          BY <4>1, <5>1, OneMoves
      <4> QED
        BY <4>1 DEF Next, Move, Crash, Expire, Quiescent, vars, task
    <3>2. ASSUME pc[u] = "aggregate", NEW t \in Tasks, Aggregate(t) PROVE FALSE
      <4>1. t = u
        BY <3>2, OneUnderLock, HostAssumption, Labels DEF OneProcess, Aggregate
      <4>2. pc'[t] # "aggregate"
        BY <1>1, <3>2, Leaves DEF Aggregate, Goto, TypeOK
      <4> QED
        BY <2>2, <3>2, <4>1, <4>2
    <3>3. pc[u] = "aggregate" => counted' = counted
      BY <3>2, StoreMoves
    <3> QED
      BY <1>2, <1>5, <2>2, <3>1, <3>3 DEF CountsOnce
  <2> QED
    BY <2>1, <2>2
<1> QED
  BY <1>4, <1>5 DEF CountsOnce
-----------------------------------------------------------------------------
(* Several processes *)

\* The processes that have created a diagnosis and not yet linked it, and those
\* that are about to create one.
Committing ==
  { p \in Processes : \E t \in Tasks :
      Host[t] = p /\ pc[t] \in { "evidence", "link_read", "link_commit" } }
Deciding == { p \in Processes : \E t \in Tasks : Host[t] = p /\ pc[t] = "create" }

\* Before the incident has its link, each diagnosis is about to be linked or was
\* lost to a fault; afterwards, only those who had decided by then create more.
CreationIsBounded ==
  /\ incident.link = NoDiagnosis => diagnoses <= faults + Cardinality(Committing)
  /\ incident.link # NoDiagnosis =>
       diagnoses + Cardinality(Deciding) <= faults + Cardinality(Processes)

LEMMA Shares ==
  ASSUME IsFiniteSet(Processes), TypeInv, LockIsHeld
  PROVE  /\ IsFiniteSet(Committing) /\ IsFiniteSet(Deciding)
         /\ Cardinality(Committing) \in Nat /\ Cardinality(Deciding) \in Nat
         /\ Cardinality(Processes) \in Nat
         /\ Cardinality(Committing) <= Cardinality(Processes)
         /\ Cardinality(Committing) + Cardinality(Deciding) <= Cardinality(Processes)
         /\ Committing \intersect Deciding = {}
<1>1. Committing \subseteq Processes /\ Deciding \subseteq Processes
  BY DEF Committing, Deciding
<1>2. IsFiniteSet(Committing) /\ IsFiniteSet(Deciding)
  BY <1>1, FS_Subset
<1>3. Committing \intersect Deciding = {}
  <2>1. ASSUME NEW p \in Committing, p \in Deciding PROVE FALSE
    <3>1. PICK t \in Tasks : Host[t] = p /\ pc[t] \in { "evidence", "link_read", "link_commit" }
      BY DEF Committing
    <3>2. PICK u \in Tasks : Host[u] = p /\ pc[u] = "create"
      BY <2>1 DEF Deciding
    <3>3. {pc[t], pc[u]} \subseteq Locked /\ {t, u} \intersect Ingests = {}
      BY <3>1, <3>2, Labels DEF TypeInv, Suspended
    <3>4. t = u
      BY <3>1, <3>2, <3>3, OneUnderLock
    <3> QED
      BY <3>1, <3>2, <3>4
  <2> QED
    BY <2>1
<1>4. Cardinality(Committing) \in Nat /\ Cardinality(Deciding) \in Nat
      /\ Cardinality(Processes) \in Nat
  BY <1>2, FS_CardinalityType
<1>5. Cardinality(Committing \union Deciding) = Cardinality(Committing) + Cardinality(Deciding)
  <2>1. Cardinality(Committing \union Deciding) =
          Cardinality(Committing) + Cardinality(Deciding) - Cardinality(Committing \intersect Deciding)
    BY <1>2, FS_Union
  <2>2. Cardinality(Committing \intersect Deciding) = 0
    BY <1>3, FS_EmptySet
  <2> QED
    BY <1>4, <2>1, <2>2
<1>6. Cardinality(Committing \union Deciding) <= Cardinality(Processes)
  BY <1>1, FS_Subset
<1> QED
  BY <1>2, <1>3, <1>4, <1>5, <1>6

\* One task leaves a set of processes, and no other process does.
LEMMA OneLeaves ==
  ASSUME NEW S, NEW T, NEW p, IsFiniteSet(S), IsFiniteSet(T), S \ {p} \subseteq T
  PROVE  Cardinality(S) <= Cardinality(T) + 1
<1>1. Cardinality(S) \in Nat /\ Cardinality(T) \in Nat /\ Cardinality(S \ {p}) \in Nat
  BY FS_RemoveElement, FS_CardinalityType
<1>2. Cardinality(S \ {p}) = IF p \in S THEN Cardinality(S) - 1 ELSE Cardinality(S)
  BY FS_RemoveElement
<1>3. Cardinality(S \ {p}) <= Cardinality(T)
  BY FS_Subset
<1> QED
  BY <1>1, <1>2, <1>3

LEMMA CreationStays ==
  ASSUME IsFiniteSet(Processes), TypeInv, LockIsHeld, CreationIsBounded, Next
  PROVE  CreationIsBounded'
<1>1. TypeInv' /\ LockIsHeld'
  BY TypesStay, LockStays
<1>2. /\ IsFiniteSet(Committing) /\ IsFiniteSet(Deciding)
      /\ Cardinality(Committing) \in Nat /\ Cardinality(Deciding) \in Nat
      /\ Cardinality(Processes) \in Nat
      /\ Cardinality(Committing) + Cardinality(Deciding) <= Cardinality(Processes)
  BY Shares
<1>3. /\ IsFiniteSet(Committing') /\ IsFiniteSet(Deciding')
      /\ Cardinality(Committing') \in Nat /\ Cardinality(Deciding') \in Nat
  <2>1. Committing' \subseteq Processes /\ Deciding' \subseteq Processes
    BY DEF Committing, Deciding
  <2>2. IsFiniteSet(Committing') /\ IsFiniteSet(Deciding')
    BY <2>1, FS_Subset
  <2> QED
    BY <2>2, FS_CardinalityType
<1>4. /\ diagnoses \in Nat /\ diagnoses' \in Nat /\ faults \in Nat /\ faults' \in Nat
      /\ faults' >= faults
  <2>1. faults' = faults \/ faults' = faults + 1
    <3>1. ASSUME NEW t \in Tasks, Move(t) PROVE faults' = faults \/ faults' = faults + 1
      BY <3>1, WhoChanges DEF Fault, faultVars
    <3> QED
      BY <3>1 DEF Next, Move, Crash, Expire, Fault, Quiescent, vars, faultVars
  <2> QED
    BY <1>1, <2>1, BoundAssumption DEF TypeInv, TypeOK
\* While there is no link, it takes a fault to make a diagnosis that is lost.
<1>5. ASSUME incident.link = NoDiagnosis, incident'.link = NoDiagnosis
      PROVE  diagnoses' <= faults' + Cardinality(Committing')
  <2> USE DEF Committing
  <2>1. CASE UNCHANGED diagnoses /\ Committing \subseteq Committing'
    <3>1. Cardinality(Committing) <= Cardinality(Committing')
      BY <1>3, <2>1, FS_Subset
    <3> QED
      BY <1>2, <1>3, <1>4, <1>5, <2>1, <3>1 DEF CreationIsBounded
  <2>2. ASSUME NEW t \in Tasks, Create(t) PROVE diagnoses' <= faults' + Cardinality(Committing')
    <3>1. Host[t] \in Processes \ Committing
      <4>1. Host[t] \in Deciding
        BY <2>2, HostAssumption DEF Create, Deciding
      <4>2. Committing \intersect Deciding = {}
        BY Shares
      <4> QED
        BY <4>1, <4>2 DEF Deciding
    <3>2. Committing \union {Host[t]} \subseteq Committing'
      BY <2>2, <3>1 DEF Create, Goto, TypeInv, TypeOK
    <3>3. Cardinality(Committing \union {Host[t]}) = Cardinality(Committing) + 1
      BY <1>2, <3>1, FS_AddElement
    <3>4. Cardinality(Committing \union {Host[t]}) <= Cardinality(Committing')
      BY <1>3, <3>2, FS_Subset
    <3>5. diagnoses' = diagnoses + 1
      BY <2>2 DEF Create
    <3> QED
      BY <1>2, <1>3, <1>4, <1>5, <3>3, <3>4, <3>5 DEF CreationIsBounded
  <2>3. ASSUME faults' = faults + 1, UNCHANGED diagnoses,
               NEW p \in Processes, Committing \ {p} \subseteq Committing'
        PROVE  diagnoses' <= faults' + Cardinality(Committing')
    <3>1. Cardinality(Committing) <= Cardinality(Committing') + 1
      BY <1>2, <1>3, <2>3, OneLeaves
    <3> QED
      BY <1>2, <1>3, <1>4, <1>5, <2>3, <3>1 DEF CreationIsBounded
  <2>4. ASSUME NEW t \in Tasks, StatementFails(t) \/ Cancel(t)
        PROVE  diagnoses' <= faults' + Cardinality(Committing')
    <3>1. faults' = faults + 1 /\ UNCHANGED diagnoses
      BY <2>4 DEF StatementFails, Cancel, Fault, store
    <3>2. Committing \ {Host[t]} \subseteq Committing'
      BY <2>4, OneMoves DEF Move
    <3> QED
      BY <2>3, <3>1, <3>2, HostAssumption
  <2>5. ASSUME NEW p \in Processes, Crash(p)
        PROVE  diagnoses' <= faults' + Cardinality(Committing')
    <3>1. faults' = faults + 1 /\ UNCHANGED diagnoses
      BY <2>5 DEF Crash, Fault, store
    <3>2. Committing \ {p} \subseteq Committing'
      BY <2>5 DEF Crash, TypeInv, TypeOK
    <3> QED
      BY <2>3, <3>1, <3>2
  <2>6. ASSUME (\E e \in Events : Expire(e)) \/ Quiescent
        PROVE  UNCHANGED diagnoses /\ Committing \subseteq Committing'
    BY <2>6 DEF Expire, Quiescent, vars, store
  <2>7. ASSUME NEW t \in Tasks, Step(t) \/ Call(t), ~Create(t)
        PROVE  UNCHANGED diagnoses /\ Committing \subseteq Committing'
    <3>1. UNCHANGED diagnoses
      BY <2>7, WhoChanges DEF Move
    <3>2. ASSUME pc[t] \in { "evidence", "link_read", "link_commit" }
          PROVE  pc'[t] \in { "evidence", "link_read", "link_commit" }
      <4>1. CreateEvidence(t) \/ LinkRead(t) \/ LinkCommit(t)
        BY <2>7, <3>2 DEF Step, Receive, Call, Acquire, Service, Claim, Lookup, Aggregate,
                          Reload, Create, Note, Run, Nack, Ack
      <4>2. ~LinkCommit(t)
        BY <1>5 DEF LinkCommit, TypeInv, Suspended, Creating
      <4> QED
        BY <1>5, <4>1, <4>2 DEF CreateEvidence, LinkRead, Goto, TypeInv, TypeOK
    <3>3. Committing \subseteq Committing'
      BY <2>7, <3>2, OneMoves DEF Move
    <3> QED
      BY <3>1, <3>3
  <2> QED
    BY <2>1, <2>2, <2>4, <2>5, <2>6, <2>7 DEF Next
\* The link closes the account.
<1>6. ASSUME incident.link = NoDiagnosis, incident'.link # NoDiagnosis
      PROVE  diagnoses' + Cardinality(Deciding') <= faults' + Cardinality(Processes)
  <2>1. PICK t \in Tasks : LinkCommit(t)
    <3>1. ASSUME NEW t \in Tasks, Aggregate(t) PROVE incident'.link = incident.link
      BY <3>1 DEF Aggregate
    <3> QED
      BY <1>6, <3>1, StoreMoves
  <2>2. Deciding' \subseteq Deciding
    BY <2>1 DEF Deciding, LinkCommit, Goto, TypeInv, TypeOK
  <2>3. Cardinality(Deciding') <= Cardinality(Deciding)
    BY <1>2, <2>2, FS_Subset
  <2>4. diagnoses' = diagnoses
    BY <2>1 DEF LinkCommit
  <2> QED
    BY <1>2, <1>3, <1>4, <1>6, <2>3, <2>4 DEF CreationIsBounded
\* With a link nobody decides to create.
<1>7. ASSUME incident.link # NoDiagnosis
      PROVE  /\ incident'.link # NoDiagnosis
             /\ diagnoses' + Cardinality(Deciding') <= faults' + Cardinality(Processes)
  <2>1. incident'.link # NoDiagnosis
    <3>1. ASSUME NEW t \in Tasks, Aggregate(t) PROVE incident'.link = incident.link
      BY <3>1 DEF Aggregate
    <3>2. ASSUME NEW t \in Tasks, LinkCommit(t) PROVE incident'.link # NoDiagnosis
      BY <3>2 DEF LinkCommit, TypeInv, Suspended, Creating
    <3> QED
      BY <1>7, <3>1, <3>2, StoreMoves
  <2>2. Deciding' \subseteq Deciding
    <3>1. ASSUME NEW u \in Tasks, pc'[u] = "create" PROVE pc[u] = "create"
      BY <1>7, <3>1, Arrivals
    <3> QED
      BY <3>1 DEF Deciding
  <2>3. CASE UNCHANGED diagnoses
    <3>1. Cardinality(Deciding') <= Cardinality(Deciding)
      BY <1>2, <2>2, FS_Subset
    <3> QED
      BY <1>2, <1>3, <1>4, <1>7, <2>1, <2>3, <3>1 DEF CreationIsBounded
  <2>4. ASSUME NEW t \in Tasks, Create(t)
        PROVE  diagnoses' + Cardinality(Deciding') <= faults' + Cardinality(Processes)
    <3>1. Host[t] \in Deciding
      BY <2>4, HostAssumption DEF Create, Deciding
    <3>2. Host[t] \notin Deciding'
      <4>1. ASSUME NEW u \in Tasks, Host[u] = Host[t], pc'[u] = "create" PROVE FALSE
        <5>1. pc[u] = "create" /\ pc[t] = "create"
          BY <1>7, <2>4, <4>1, Arrivals DEF Create
        <5>2. u = t
          BY <4>1, <5>1, OneUnderLock, Labels DEF TypeInv, Suspended
        <5>3. pc'[t] = "evidence"
          BY <2>4 DEF Create, Goto, TypeInv, TypeOK
        <5> QED
          BY <4>1, <5>2, <5>3
      <4> QED
        BY <4>1 DEF Deciding
    <3>3. Cardinality(Deciding') <= Cardinality(Deciding \ {Host[t]})
      <4>1. Deciding' \subseteq Deciding \ {Host[t]} /\ IsFiniteSet(Deciding \ {Host[t]})
        BY <1>2, <2>2, <3>2, FS_RemoveElement
      <4> QED
        BY <4>1, FS_Subset
    <3>4. Cardinality(Deciding \ {Host[t]}) = Cardinality(Deciding) - 1
      BY <1>2, <3>1, FS_RemoveElement
    <3>5. diagnoses' = diagnoses + 1
      BY <2>4 DEF Create
    <3> QED
      BY <1>2, <1>3, <1>4, <1>7, <3>3, <3>4, <3>5 DEF CreationIsBounded
  <2> QED
    BY <2>1, <2>3, <2>4, StoreMoves
<1> QED
  BY <1>5, <1>6, <1>7 DEF CreationIsBounded

-----------------------------------------------------------------------------
(* The theorems *)

\* The state of discovery is always of its types.
THEOREM DiscoveryIsTyped == Spec => []TypeOK
<1>1. TypeInv => TypeOK
  BY DEF TypeInv
<1> QED
  BY DiscoveryInvariant, <1>1, PTL

\* An event that the consumer acknowledges is itself counted by the incident,
\* unless a fault came between its claim and its count, for any number of events,
\* consumers, calls, processes and faults (enterprise_consumer.py, consume_once).
THEOREM AcknowledgedIsStored == Spec => []AckedIsStored
<1>1. Init => AckInv
  BY Labels DEF Init, AckInv, AckedIsStored
<1>2. AckInv => AckedIsStored
  BY DEF AckInv
<1> QED
  BY DiscoveryInvariant, <1>1, <1>2, AckedStays, PTL DEF Spec

\* With P processes and F faults the incident costs P + F diagnoses at most:
\* the lock of process() orders the tasks of one process (discovery.py).
THEOREM DiagnosesAreBounded ==
  ASSUME IsFiniteSet(Processes)
  PROVE  Spec => []DiagnosesBounded
<1>1. Init => CreationIsBounded
  <2> SUFFICES ASSUME Init PROVE 0 <= 0 + Cardinality(Committing)
    BY DEF Init, CreationIsBounded
  <2>1. Committing = {}
    BY DEF Init, Committing
  <2> QED
    BY <2>1, FS_EmptySet
<1>2. TypeInv /\ LockIsHeld /\ CreationIsBounded /\ [Next]_vars => CreationIsBounded'
  <2>1. ASSUME CreationIsBounded, UNCHANGED vars PROVE CreationIsBounded'
    <3>1. Committing' = Committing /\ Deciding' = Deciding
      BY <2>1 DEF vars, Committing, Deciding
    <3> QED
      BY <2>1, <3>1 DEF vars, store, faultVars, CreationIsBounded
  <2> QED
    BY <2>1, CreationStays
<1>3. TypeInv /\ LockIsHeld /\ CreationIsBounded => DiagnosesBounded
  <2> SUFFICES ASSUME TypeInv, LockIsHeld, CreationIsBounded PROVE DiagnosesBounded
    OBVIOUS
  <2>1. diagnoses \in Nat /\ faults \in Nat
    BY BoundAssumption DEF TypeInv, TypeOK
  <2> QED
    BY <2>1, Shares DEF CreationIsBounded, DiagnosesBounded
<1> QED
  BY DiscoveryInvariant, <1>1, <1>2, <1>3, PTL DEF Spec

\* In one process, link_diagnosis is read and written under one lock: the link
\* that an incident has got stays (discovery.py; incident_repository.py:74).
THEOREM LinkedOnce ==
  ASSUME OneProcess
  PROVE  Spec => LinkIsFinal
<1>1. Init => LinkIsFollowed
  BY DEF Init, LinkIsFollowed, RanIsLinked
<1>2. TypeInv /\ LockIsHeld /\ LinkIsFollowed /\ [Next]_vars =>
        /\ LinkIsFollowed'
        /\ [incident.link # NoDiagnosis => incident'.link = incident.link]_incident
  <2>1. ASSUME LinkIsFollowed, UNCHANGED vars PROVE LinkIsFollowed' /\ UNCHANGED incident
    BY <2>1 DEF LinkIsFollowed, RanIsLinked, vars, store, task
  <2> QED
    BY <2>1, LinkStays
<1> QED
  BY DiscoveryInvariant, <1>1, <1>2, PTL DEF Spec, LinkIsFinal

\* In one process, only the diagnosis that the incident links is ever run.
THEOREM OnlyTheLinkedRuns ==
  ASSUME OneProcess
  PROVE  Spec => []RanIsLinked
<1>1. Init => LinkIsFollowed
  BY DEF Init, LinkIsFollowed, RanIsLinked
<1>2. TypeInv /\ LockIsHeld /\ LinkIsFollowed /\ [Next]_vars => LinkIsFollowed'
  <2>1. ASSUME LinkIsFollowed, UNCHANGED vars PROVE LinkIsFollowed'
    BY <2>1 DEF LinkIsFollowed, RanIsLinked, vars, store, task
  <2> QED
    BY <2>1, LinkStays
<1>3. LinkIsFollowed => RanIsLinked
  BY DEF LinkIsFollowed
<1> QED
  BY DiscoveryInvariant, <1>1, <1>2, <1>3, PTL DEF Spec

\* In one process, and while neither a key expires nor POST /incidents/events is
\* used, which stands outside the lock, no redelivery counts an event again
\* (incidents.py:77-80).
THEOREM EventsCountOnce ==
  ASSUME OneProcess, Ingests = {}, "expiry" \notin Faults
  PROVE  Spec => []CountedOnce
<1>1. Init => CountsOnce
  BY DEF Init, CountsOnce
<1>2. TypeInv /\ LockIsHeld /\ CountsOnce /\ [Next]_vars => CountsOnce'
  <2>1. ASSUME CountsOnce, UNCHANGED vars PROVE CountsOnce'
    BY <2>1 DEF CountsOnce, vars, store, task
  <2> QED
    BY <2>1, CountStays
<1>3. CountsOnce => CountedOnce
  BY DEF CountsOnce, CountedOnce
<1> QED
  BY DiscoveryInvariant, <1>1, <1>2, <1>3, PTL DEF Spec

(***************************************************************************)
(*                          WINDOWS AND SUMMARIES                          *)
(***************************************************************************)

-----------------------------------------------------------------------------
(* Windows and days *)

\* A window is the times that the same number of windows precede.
LEMMA WindowOf ==
  ASSUME NEW a \in Nat, NEW b \in Nat
  PROVE  /\ a - (a % Window) = Window * (a \div Window)
         /\ (a - (a % Window) = b - (b % Window)) <=> (a \div Window = b \div Window)
<1>1. PICK w \in Nat \ {0} : w = Window
  BY WindowAssumption
<1>2. a = w * (a \div w) + (a % w) /\ b = w * (b \div w) + (b % w)
  OBVIOUS
<1>3. PICK p \in Int, q \in Int : p = a \div w /\ q = b \div w
  OBVIOUS
<1>4. w * p = w * q <=> p = q
  OBVIOUS
<1>. QED  BY <1>1, <1>2, <1>3, <1>4

\* Two times of a window are of one day.
LEMMA WindowInDay ==
  ASSUME NEW a \in Nat, NEW b \in Nat, a \div Window = b \div Window
  PROVE  a \div Day = b \div Day
<1>1. PICK w \in Nat \ {0}, d \in Nat \ {0} : w = Window /\ d = Day /\ d % w = 0
  BY WindowAssumption
<1>2. PICK q \in Nat : d = w * q
  <2>1. d = w * (d \div w) + (d % w) /\ d \div w \in Nat
    OBVIOUS
  <2>. QED  BY <1>1, <2>1
<1>3. PICK v \in Nat : v = a \div w /\ w * v <= a /\ a < w * v + w /\ w * v <= b /\ b < w * v + w
  BY <1>1
<1>4. PICK x \in Nat : x = a \div d /\ d * x <= a /\ a < d * x + d
  OBVIOUS
<1>5. d * x = w * (q * x) /\ d * x + d = w * (q * x + q)
  BY <1>2
<1>6. PICK y \in Nat, z \in Nat : y = q * x /\ z = q * x + q
  OBVIOUS
<1>7. w * y <= a /\ a < w * z
  BY <1>4, <1>5, <1>6
<1>8. y <= v
  <2>1. w * y < w * v + w
    BY <1>3, <1>7
  <2>2. w * v + w = w * (v + 1)
    OBVIOUS
  <2>. QED  BY <2>1, <2>2
<1>9. v + 1 <= z
  <2>1. w * v < w * z
    BY <1>3, <1>7
  <2>. QED  BY <2>1
<1>10. w * y <= w * v /\ w * v + w <= w * z
  <2>1. w * (v + 1) <= w * z
    BY <1>9
  <2>. QED  BY <1>8, <2>1
<1>11. d * x <= b /\ b < d * x + d
  BY <1>3, <1>5, <1>6, <1>10
<1>12. b \div d = x
  BY <1>11
<1>. QED  BY <1>1, <1>4, <1>12

\* A day is the times that the same number of days precede.
LEMMA DayOf ==
  ASSUME NEW a \in Nat, NEW day \in Nat
  PROVE  day * Day <= a /\ a < (day + 1) * Day <=> a \div Day = day
<1>1. PICK d \in Nat \ {0} : d = Day
  BY WindowAssumption
<1>2. PICK x \in Nat : x = a \div d /\ d * x <= a /\ a < d * x + d
  OBVIOUS
<1>3. (day + 1) * d = d * day + d /\ day * d = d * day
  OBVIOUS
<1>4. ASSUME day * d <= a, a < (day + 1) * d PROVE a \div d = day
  BY <1>3, <1>4
<1>. QED  BY <1>1, <1>2, <1>3, <1>4

-----------------------------------------------------------------------------
(* The calls that count *)

Business == INSTANCE FoldLemmas WITH Op <- LAMBDA none, kept, frame : IF frame.business THEN Append(kept, frame) ELSE kept

CallsOf(frames) == { k \in DOMAIN frames : frames[k].business }
DepthOf(frames, k) == Cardinality({ j \in CallsOf(frames) : j <= k })

LEMMA BusinessFold == \A frames : BusinessFrames(frames) = Business!Fold(0, << >>, frames)
BY DEF BusinessFrames, Filter, FoldLeft, MapThenFoldSet, Max,
       Business!Fold, Business!FoldLeft, Business!MapThenFoldSet, Business!Max

LEMMA BusinessFramesOfNone == BusinessFrames(<< >>) = << >>
BY BusinessFold, Business!FoldOfNothing

LEMMA BusinessFramesOfMore ==
  ASSUME NEW S, NEW frames \in Seq(S), NEW frame \in S
  PROVE  BusinessFrames(Append(frames, frame)) =
           IF frame.business THEN Append(BusinessFrames(frames), frame) ELSE BusinessFrames(frames)
<1>1. Business!Fold(0, << >>, Append(frames, frame)) =
        IF frame.business THEN Append(Business!Fold(0, << >>, frames), frame) ELSE Business!Fold(0, << >>, frames)
  BY Business!FoldOfMore
<1>. QED  BY <1>1, BusinessFold

LEMMA CallsAre ==
  ASSUME NEW S, NEW frames \in Seq(S)
  PROVE  /\ IsFiniteSet(CallsOf(frames)) /\ CallsOf(frames) \subseteq 1..Len(frames)
         /\ \A k : IsFiniteSet({ j \in CallsOf(frames) : j <= k })
         /\ Cardinality(CallsOf(frames)) \in Nat
<1>1. PICK n \in Nat : n = Len(frames) /\ DOMAIN frames = 1..n
  OBVIOUS
<1>2. CallsOf(frames) \subseteq 1..n
  BY <1>1 DEF CallsOf
<1>3. IsFiniteSet(1..n)
  BY FS_Interval
<1>4. IsFiniteSet(CallsOf(frames))
  BY <1>2, <1>3, FS_Subset
<1>5. \A k : IsFiniteSet({ j \in CallsOf(frames) : j <= k })
  <2>1. \A k : { j \in CallsOf(frames) : j <= k } \in SUBSET CallsOf(frames)
    OBVIOUS
  <2>. QED  BY <1>4, <2>1, FS_Subset
<1>. QED  BY <1>1, <1>2, <1>4, <1>5, FS_CardinalityType

\* The frame of a call stands, among the business frames, at the depth of the call.
Counted(frames, business) ==
  /\ Len(business) = Cardinality(CallsOf(frames))
  /\ \A k \in CallsOf(frames) :
       DepthOf(frames, k) \in 1..Len(business) /\ business[DepthOf(frames, k)] = frames[k]
  /\ \A d \in 1..Len(business) : \E k \in CallsOf(frames) : DepthOf(frames, k) = d

LEMMA BusinessFramesCount ==
  ASSUME NEW S, NEW frames \in Seq(S)
  PROVE  BusinessFrames(frames) \in Seq(S) /\ Counted(frames, BusinessFrames(frames))
<1>. DEFINE T == { s \in Seq(S) : BusinessFrames(s) \in Seq(S) /\ Counted(s, BusinessFrames(s)) }
<1>1. << >> \in T
  <2>1. << >> \in Seq(S) /\ Len(<< >>) = 0 /\ DOMAIN << >> = {}
    OBVIOUS
  <2>2. CallsOf(<< >>) = {} /\ 1..0 = {}
    BY <2>1 DEF CallsOf
  <2>3. Counted(<< >>, << >>)
    BY <2>1, <2>2, FS_EmptySet DEF Counted
  <2>. QED  BY <2>1, <2>3, BusinessFramesOfNone
<1>2. ASSUME NEW s \in Seq(S), NEW e \in S, s \in T PROVE Append(s, e) \in T
  <2>0. PICK n \in Nat : n = Len(s)
    OBVIOUS
  <2>1. PICK t : /\ t = Append(s, e) /\ n = Len(s) /\ t \in Seq(S) /\ Len(t) = n + 1 /\ t[n + 1] = e
                 /\ \A i \in 1..n : t[i] = s[i]
    <3>1. /\ Append(s, e) \in Seq(S) /\ Len(Append(s, e)) = n + 1 /\ Append(s, e)[n + 1] = e
          /\ \A i \in 1..n : Append(s, e)[i] = s[i]
      BY <2>0
    <3>. QED  BY <2>0, <3>1
  <2>2. PICK b \in Seq(S), c \in Nat : b = BusinessFrames(s) /\ c = Len(b) /\ Counted(s, b)
    BY <1>2
  <2>3. DOMAIN s = 1..n /\ DOMAIN t = 1..n + 1
    BY <2>0, <2>1
  <2>4. CallsOf(s) \subseteq 1..n
    BY <2>3 DEF CallsOf
  <2>5. CallsOf(t) = IF e.business THEN CallsOf(s) \union {n + 1} ELSE CallsOf(s)
    <3>1. ASSUME NEW k PROVE k \in CallsOf(t) <=> (k \in CallsOf(s) \/ (e.business /\ k = n + 1))
      <4>1. k \in 1..n + 1 <=> k \in 1..n \/ k = n + 1
        OBVIOUS
      <4>. QED  BY <2>1, <2>3, <4>1 DEF CallsOf
    <3>. QED  BY <3>1
  <2>6. ASSUME NEW k \in CallsOf(s) PROVE DepthOf(t, k) = DepthOf(s, k)
    <3>1. { j \in CallsOf(t) : j <= k } = { j \in CallsOf(s) : j <= k }
      <4>1. k \in Int /\ k < n + 1
        BY <2>4
      <4>. QED  BY <2>5, <4>1
    <3>. QED  BY <3>1 DEF DepthOf
  <2>7. CASE ~e.business
    <3>1. BusinessFrames(t) = b /\ CallsOf(t) = CallsOf(s)
      BY <2>1, <2>2, <2>5, <2>7, BusinessFramesOfMore
    <3>2. Counted(t, b)
      <4>1. \A k \in CallsOf(s) : t[k] = s[k]
        BY <2>1, <2>4
      <4>. QED  BY <2>2, <2>6, <3>1, <4>1 DEF Counted
    <3>. QED  BY <2>1, <2>2, <3>1, <3>2
  <2>8. CASE e.business
    <3>1. PICK more : /\ more = Append(b, e) /\ more \in Seq(S) /\ Len(more) = c + 1 /\ more[c + 1] = e
                      /\ \A d \in 1..c : more[d] = b[d]
      <4>1. /\ Append(b, e) \in Seq(S) /\ Len(Append(b, e)) = c + 1 /\ Append(b, e)[c + 1] = e
            /\ \A d \in 1..c : Append(b, e)[d] = b[d]
        BY <2>2
      <4>. QED  BY <4>1
    <3>2. BusinessFrames(t) = more
      BY <2>1, <2>2, <2>8, <3>1, BusinessFramesOfMore
    <3>3. Cardinality(CallsOf(t)) = c + 1
      <4>1. n + 1 \notin CallsOf(s)
        BY <2>4
      <4>2. IsFiniteSet(CallsOf(s)) /\ Cardinality(CallsOf(s)) = c
        BY <2>2, CallsAre DEF Counted
      <4>. QED  BY <2>5, <2>8, <4>1, <4>2, FS_AddElement
    <3>4. DepthOf(t, n + 1) = c + 1
      <4>1. { j \in CallsOf(t) : j <= n + 1 } = CallsOf(t)
        <5>1. \A j \in CallsOf(t) : j <= n + 1
          BY <2>3 DEF CallsOf
        <5>. QED  BY <5>1
      <4>. QED  BY <3>3, <4>1 DEF DepthOf
    <3>5. ASSUME NEW k \in CallsOf(t)
          PROVE  DepthOf(t, k) \in 1..c + 1 /\ more[DepthOf(t, k)] = t[k]
      <4>1. CASE k = n + 1
        BY <2>1, <3>1, <3>4, <4>1
      <4>2. CASE k \in CallsOf(s)
        <5>1. DepthOf(s, k) \in 1..c /\ b[DepthOf(s, k)] = s[k] /\ t[k] = s[k]
          BY <2>1, <2>2, <2>4, <4>2 DEF Counted
        <5>. QED  BY <2>6, <3>1, <4>2, <5>1
      <4>. QED  BY <2>5, <2>8, <4>1, <4>2
    <3>6. ASSUME NEW d \in 1..c + 1 PROVE \E k \in CallsOf(t) : DepthOf(t, k) = d
      <4>1. CASE d = c + 1
        BY <2>5, <2>8, <3>4, <4>1
      <4>2. CASE d \in 1..c
        <5>1. PICK k \in CallsOf(s) : DepthOf(s, k) = d
          BY <2>2, <4>2 DEF Counted
        <5>. QED  BY <2>5, <2>6, <2>8, <5>1
      <4>. QED  BY <4>1, <4>2
    <3>7. Counted(t, more)
      BY <3>1, <3>3, <3>5, <3>6 DEF Counted
    <3>. QED  BY <2>1, <3>1, <3>2, <3>7
  <2>. QED  BY <2>7, <2>8
<1>3. \A s \in Seq(S) : s \in T
  <2>. HIDE DEF T
  <2>. QED  BY <1>1, <1>2, AllSequences
<1>. QED  BY <1>3

Methods(arrival) ==
  LET frames == Prefix(BusinessFrames(arrival.frames), MaxBusinessFrames)
  IN  [k \in DOMAIN frames |-> frames[k].method]

Told(arrival) ==
  { <<DepthOf(arrival.frames, k), arrival.frames[k].method>> :
      k \in { j \in CallsOf(arrival.frames) : DepthOf(arrival.frames, j) <= MaxBusinessFrames } }

\* What is told of an event is its methods, each with its place.
LEMMA ToldIs ==
  ASSUME NEW arrival \in Emitted
  PROVE  \E m \in Nat : /\ DOMAIN Methods(arrival) = 1..m
                        /\ Methods(arrival) = [d \in 1..m |-> Methods(arrival)[d]]
                        /\ Told(arrival) = { <<d, Methods(arrival)[d]>> : d \in 1..m }
<1>1. PICK frames : frames = arrival.frames
  OBVIOUS
<1>2. PICK S : frames \in Seq(S)
  BY <1>1, EmittedAssumption
<1>3. PICK b \in Seq(S), n \in Nat : b = BusinessFrames(frames) /\ n = Len(b) /\ Counted(frames, b)
  BY <1>2, BusinessFramesCount
<1>4. PICK limit \in Nat : limit = MaxBusinessFrames
  BY EmittedAssumption
<1>5. PICK m \in Nat : m = Min({limit, n}) /\ m <= limit /\ m <= n /\ (m < limit => m = n)
  <2>1. PICK both \in SUBSET Nat : both = {limit, n} /\ both # {}
    OBVIOUS
  <2>2. Min(both) \in both /\ \A k \in both : Min(both) <= k
    BY <2>1, MinIsLeast
  <2>. QED  BY <2>1, <2>2
<1>6. PICK first : first = SubSeq(b, 1, m) /\ first \in Seq(S) /\ Len(first) = m /\ \A i \in 1..m : first[i] = b[i]
  <2>0. m <= Len(b)
    BY <1>3, <1>5
  <2>1. SubSeq(b, 1, m) \in Seq(S)
    BY <2>0, FirstOf
  <2>2. Len(SubSeq(b, 1, m)) = m
    BY <2>0, FirstOf
  <2>3. \A i \in 1..m : SubSeq(b, 1, m)[i] = b[i]
    BY <2>0, FirstOf
  <2>. QED  BY <2>1, <2>2, <2>3
<1>7. Prefix(BusinessFrames(frames), MaxBusinessFrames) = first
  BY <1>3, <1>4, <1>5, <1>6 DEF Prefix
<1>8. DOMAIN first = 1..m
  BY <1>6
<1>9. Methods(arrival) = [d \in 1..m |-> b[d].method]
  BY <1>1, <1>6, <1>7, <1>8 DEF Methods
<1>10. ASSUME NEW k \in CallsOf(frames), DepthOf(frames, k) <= limit
       PROVE  DepthOf(frames, k) \in 1..m /\ frames[k].method = Methods(arrival)[DepthOf(frames, k)]
  <2>1. PICK d \in 1..n : d = DepthOf(frames, k) /\ b[d] = frames[k]
    BY <1>3 DEF Counted
  <2>2. d \in 1..m
    BY <1>5, <1>10, <2>1
  <2>. QED  BY <1>9, <2>1, <2>2
<1>11. ASSUME NEW d \in 1..m
       PROVE  \E k \in CallsOf(frames) : DepthOf(frames, k) = d /\ d <= limit
  <2>1. d \in 1..n /\ d <= limit
    BY <1>5
  <2>. QED  BY <1>3, <2>1 DEF Counted
<1>12. Told(arrival) = { <<d, Methods(arrival)[d]>> : d \in 1..m }
  <2>1. Told(arrival) = { <<DepthOf(frames, k), frames[k].method>> :
                          k \in { j \in CallsOf(frames) : DepthOf(frames, j) <= limit } }
    BY <1>1, <1>4 DEF Told
  <2>2. \A k \in CallsOf(frames) : DepthOf(frames, k) <= limit =>
          <<DepthOf(frames, k), frames[k].method>> \in { <<d, Methods(arrival)[d]>> : d \in 1..m }
    BY <1>10
  <2>3. ASSUME NEW d \in 1..m
        PROVE  \E k \in CallsOf(frames) : DepthOf(frames, k) <= limit
                 /\ <<d, Methods(arrival)[d]>> = <<DepthOf(frames, k), frames[k].method>>
    BY <1>10, <1>11
  <2>. QED  BY <2>1, <2>2, <2>3
<1>. QED  BY <1>9, <1>12

\* Two events have one fingerprint if and only if they are of the same fault.
LEMMA FingerprintIsTheFault ==
  ASSUME NEW e \in Emitted, NEW f \in Emitted
  PROVE  Fingerprint(e) = Fingerprint(f) <=> SameFault(e, f)
<1>1. SameFault(e, f) <=> e.service = f.service /\ e.exception.kind = f.exception.kind /\ Told(e) = Told(f)
  BY DEF SameFault, Told, DepthOf, CallsOf
<1>2. Fingerprint(e) = Fingerprint(f) <=>
        e.service = f.service /\ e.exception.kind = f.exception.kind /\ Methods(e) = Methods(f)
  BY DEF Fingerprint, Methods
<1>3. PICK g, h : g = Methods(e) /\ h = Methods(f)
  OBVIOUS
<1>3a. PICK m \in Nat : DOMAIN g = 1..m /\ g = [d \in 1..m |-> g[d]] /\ Told(e) = { <<d, g[d]>> : d \in 1..m }
  BY <1>3, ToldIs
<1>3b. PICK n \in Nat : DOMAIN h = 1..n /\ h = [d \in 1..n |-> h[d]] /\ Told(f) = { <<d, h[d]>> : d \in 1..n }
  BY <1>3, ToldIs
<1>4. ASSUME g = h PROVE Told(e) = Told(f)
  BY <1>3, <1>4, <1>3a, <1>3b
<1>5. ASSUME Told(e) = Told(f) PROVE g = h
  <2>1. ASSUME NEW d \in 1..m PROVE d \in 1..n /\ g[d] = h[d]
    <3>1. <<d, g[d]>> \in { <<c, h[c]>> : c \in 1..n }
      BY <1>5, <1>3a, <1>3b
    <3>2. PICK c \in 1..n : <<d, g[d]>> = <<c, h[c]>>
      BY <3>1
    <3>. QED  BY <3>2
  <2>2. ASSUME NEW d \in 1..n PROVE d \in 1..m
    <3>1. <<d, h[d]>> \in { <<c, g[c]>> : c \in 1..m }
      BY <1>5, <1>3a, <1>3b
    <3>2. PICK c \in 1..m : <<d, h[d]>> = <<c, g[c]>>
      BY <3>1
    <3>. QED  BY <3>2
  <2>3. 1..m = 1..n
    BY <2>1, <2>2
  <2>. QED  BY <1>3a, <1>3b, <2>1, <2>3
<1>. QED  BY <1>1, <1>2, <1>3, <1>4, <1>5

LEMMA KeyIs ==
  ASSUME NEW e \in Emitted, NEW f \in Emitted
  PROVE  Key(e) = Key(f) <=> SameFault(e, f) /\ e.at \div Window = f.at \div Window
<1>1. e.at \in Nat /\ f.at \in Nat
  BY EmittedAssumption
<1>2. Key(e) = Key(f) <=> /\ Fingerprint(e) = Fingerprint(f)
                          /\ e.at - (e.at % Window) = f.at - (f.at % Window)
  <2>1. Fingerprint(e) = Fingerprint(f) => e.service = f.service
    BY FingerprintIsTheFault DEF SameFault
  <2>. QED  BY <2>1 DEF Key
<1>3. e.at - (e.at % Window) = f.at - (f.at % Window) <=> e.at \div Window = f.at \div Window
  BY <1>1, WindowOf
<1>. QED  BY <1>2, <1>3, FingerprintIsTheFault

-----------------------------------------------------------------------------
(* The invariant *)

Seen(key) == { j \in DOMAIN arrived : Key(arrived[j]) = key }
Times(key) == { StoredTime(arrived[j]) : j \in Seen(key) }
RowOf(key) == [count |-> Cardinality(Seen(key)), first |-> Min(Times(key)), last |-> Max(Times(key))]

WindowsInv ==
  /\ arrived \in Seq(Emitted)
  /\ DOMAIN incidents = { Key(arrived[i]) : i \in DOMAIN arrived }
  /\ \A key \in DOMAIN incidents : incidents[key] = RowOf(key)

LEMMA SeenAre ==
  ASSUME WindowsInv, NEW key
  PROVE  /\ IsFiniteSet(Seen(key)) /\ Times(key) \in SUBSET Nat
         /\ \E bound \in Nat : \A t \in Times(key) : t <= bound
         /\ key \in DOMAIN incidents => Seen(key) # {} /\ Times(key) # {}
<1>1. PICK n \in Nat : DOMAIN arrived = 1..n
  BY DEF WindowsInv
<1>2. IsFiniteSet(Seen(key))
  <2>1. Seen(key) \in SUBSET (1..n) /\ IsFiniteSet(1..n)
    BY <1>1, FS_Interval DEF Seen
  <2>. QED  BY <2>1, FS_Subset
<1>3. Times(key) \in SUBSET Nat
  <2>1. \A j \in DOMAIN arrived : arrived[j] \in Emitted
    BY DEF WindowsInv
  <2>2. \A e \in Emitted : StoredTime(e) \in Nat
    BY EmittedAssumption DEF StoredTime
  <2>. QED  BY <2>1, <2>2 DEF Times, Seen
<1>4. IsFiniteSet(Times(key))
  <2>1. PICK at : at = [j \in Seen(key) |-> StoredTime(arrived[j])]
    OBVIOUS
  <2>2. Times(key) = { at[j] : j \in Seen(key) }
    BY <2>1 DEF Times
  <2>. QED  BY <1>2, <2>2, ImageIs
<1>5. \E bound \in Nat : \A t \in Times(key) : t <= bound
  BY <1>3, <1>4, FiniteIsBounded
<1>6. ASSUME key \in DOMAIN incidents PROVE Seen(key) # {} /\ Times(key) # {}
  BY <1>6 DEF WindowsInv, Seen, Times
<1>. QED  BY <1>2, <1>3, <1>5, <1>6

LEMMA StoredTimesAreTimes ==
  ASSUME WindowsInv, NEW key PROVE \A l \in Seen(key) : StoredTime(arrived[l]) \in Nat
<1>1. \A l \in Seen(key) : arrived[l] \in Emitted
  BY DEF Seen, WindowsInv
<1>2. \A e \in Emitted : StoredTime(e) \in Nat
  BY EmittedAssumption DEF StoredTime
<1>. QED  BY <1>1, <1>2

LEMMA IncidentsAreFinite == WindowsInv => IsFiniteSet(DOMAIN incidents)
<1>. SUFFICES ASSUME WindowsInv PROVE IsFiniteSet(DOMAIN incidents)
  OBVIOUS
<1>1. IsFiniteSet(DOMAIN arrived)
  BY FS_Interval DEF WindowsInv
<1>2. PICK key : key = [i \in DOMAIN arrived |-> Key(arrived[i])]
  OBVIOUS
<1>3. DOMAIN incidents = { key[i] : i \in DOMAIN arrived }
  BY <1>2 DEF WindowsInv
<1>. QED  BY <1>1, <1>3, ImageIs

LEMMA NoWindowsYet == WindowsInit => WindowsInv
<1>1. << >> \in Seq(Emitted) /\ DOMAIN << >> = {}
  OBVIOUS
<1>. QED  BY <1>1 DEF WindowsInit, WindowsInv

LEMMA WindowsStep ==
  ASSUME WindowsInv, NEW arrival \in Emitted, Ingest(arrival)
  PROVE  WindowsInv'
<1>1. PICK n \in Nat, key \in {Key(arrival)} : n = Len(arrived) /\ DOMAIN arrived = 1..n /\ key = Key(arrival)
  BY DEF WindowsInv
<1>2. /\ arrived' \in Seq(Emitted) /\ DOMAIN arrived' = 1..n + 1 /\ arrived'[n + 1] = arrival
      /\ \A i \in 1..n : arrived'[i] = arrived[i]
  BY <1>1 DEF Ingest, WindowsInv
<1>3. PICK at \in Nat : at = StoredTime(arrival)
  BY EmittedAssumption DEF StoredTime
<1>4. Seen(key)' = Seen(key) \union {n + 1} /\ n + 1 \notin Seen(key)
  <2>1. \A k : k \in 1..n + 1 <=> k \in 1..n \/ k = n + 1
    OBVIOUS
  <2>2. n + 1 \notin 1..n
    OBVIOUS
  <2>. QED  BY <1>1, <1>2, <2>1, <2>2 DEF Seen
<1>5. ASSUME NEW k, k # key PROVE Seen(k)' = Seen(k)
  <2>1. \A i : i \in 1..n + 1 <=> i \in 1..n \/ i = n + 1
    OBVIOUS
  <2>. QED  BY <1>1, <1>2, <1>5, <2>1 DEF Seen
<1>6. \A k : Seen(k) \subseteq 1..n
  BY <1>1 DEF Seen
<1>7. ASSUME NEW k, k # key PROVE RowOf(k)' = RowOf(k)
  <2>1. Times(k)' = Times(k)
    BY <1>2, <1>5, <1>6, <1>7 DEF Times, StoredTime
  <2>. QED  BY <1>5, <1>7, <2>1 DEF RowOf
<1>8. Times(key)' = Times(key) \union {at}
  <2>1. Times(key)' = { StoredTime(arrived'[j]) : j \in Seen(key) \union {n + 1} }
    BY <1>4 DEF Times, StoredTime
  <2>2. \A j \in Seen(key) : StoredTime(arrived'[j]) = StoredTime(arrived[j])
    BY <1>2, <1>6
  <2>. QED  BY <1>2, <1>3, <2>1, <2>2 DEF Times
<1>9. PICK was, row :
        /\ was = IF key \in DOMAIN incidents THEN incidents[key] ELSE [count |-> 0, first |-> at, last |-> at]
        /\ row = [count |-> was.count + 1, first |-> Min({was.first, at}), last |-> Max({was.last, at})]
  OBVIOUS
<1>10. incidents' = [k \in DOMAIN incidents \union {key} |-> IF k = key THEN row ELSE incidents[k]]
  BY <1>1, <1>3, <1>9 DEF Ingest, Aggregated, Row
<1>10a. row = RowOf(key)'
  <2>1. CASE key \in DOMAIN incidents
    <3>1. PICK T \in SUBSET Nat : T = Times(key) /\ T # {} /\ \E bound \in Nat : \A t \in T : t <= bound
      BY <2>1, SeenAre
    <3>2. Min(T \union {at}) = Min({Min(T), at})
      BY <3>1, MinOfMore
    <3>3. Max(T \union {at}) = Max({Max(T), at})
      BY <3>1, MaxOfMore
    <3>4. Cardinality(Seen(key)') = Cardinality(Seen(key)) + 1
      <4>1. IsFiniteSet(Seen(key))
        BY SeenAre
      <4>. QED  BY <1>4, <4>1, FS_AddElement
    <3>5. was = RowOf(key)
      BY <1>9, <2>1 DEF WindowsInv
    <3>6. was.count = Cardinality(Seen(key)) /\ was.first = Min(T) /\ was.last = Max(T)
      BY <3>1, <3>5 DEF RowOf
    <3>7. row = [count |-> Cardinality(Seen(key)'), first |-> Min(Times(key)'), last |-> Max(Times(key)')]
      BY <1>8, <1>9, <3>1, <3>2, <3>3, <3>4, <3>6
    <3>. QED  BY <3>7 DEF RowOf
  <2>2. CASE key \notin DOMAIN incidents
    <3>1. Seen(key) = {}
      BY <2>2 DEF WindowsInv, Seen
    <3>2. Times(key)' = {at}
      BY <1>8, <3>1 DEF Times
    <3>3. Cardinality(Seen(key)') = 1
      <4>1. Seen(key)' = {} \union {n + 1}
        BY <1>4, <3>1
      <4>2. Cardinality({} \union {n + 1}) = 0 + 1
        BY FS_EmptySet, FS_AddElement
      <4>. QED  BY <4>1, <4>2
    <3>4. {at, at} = {at} /\ 0 + 1 = 1
      OBVIOUS
    <3>5. was.count = 0 /\ was.first = at /\ was.last = at
      BY <1>9, <2>2
    <3>6. row = [count |-> Cardinality(Seen(key)'), first |-> Min(Times(key)'), last |-> Max(Times(key)')]
      BY <1>9, <3>2, <3>3, <3>4, <3>5
    <3>. QED  BY <3>6 DEF RowOf
  <2>. QED  BY <2>1, <2>2
<1>11. DOMAIN incidents' = { Key(arrived'[i]) : i \in DOMAIN arrived' }
  <2>1. DOMAIN incidents' = { Key(arrived[i]) : i \in 1..n } \union {key}
    BY <1>1, <1>10 DEF WindowsInv
  <2>2. \A i : i \in 1..n + 1 <=> i \in 1..n \/ i = n + 1
    OBVIOUS
  <2>. QED  BY <1>1, <1>2, <2>1, <2>2
<1>12. ASSUME NEW k \in DOMAIN incidents' PROVE incidents'[k] = RowOf(k)'
  <2>1. CASE k = key
    BY <1>10, <1>10a, <2>1
  <2>2. CASE k # key
    <3>1. k \in DOMAIN incidents /\ incidents'[k] = incidents[k]
      BY <1>10, <1>12, <2>2
    <3>. QED  BY <1>7, <2>2, <3>1 DEF WindowsInv
  <2>. QED  BY <2>1, <2>2
<1>. QED  BY <1>2, <1>11, <1>12 DEF WindowsInv

LEMMA WindowsAlways == WindowsSpec => []WindowsInv
<1>1. WindowsInv /\ [\E e \in Emitted : Ingest(e)]_windowVars => WindowsInv'
  <2>. SUFFICES ASSUME WindowsInv, [\E e \in Emitted : Ingest(e)]_windowVars PROVE WindowsInv'
    OBVIOUS
  <2>1. CASE UNCHANGED windowVars
    <3>1. arrived' = arrived /\ incidents' = incidents
      BY <2>1 DEF windowVars
    <3>2. \A k : RowOf(k)' = RowOf(k)
      BY <3>1 DEF RowOf, Times, Seen, StoredTime
    <3>. QED  BY <3>1, <3>2 DEF WindowsInv
  <2>. QED  BY <2>1, WindowsStep
<1>. QED  BY NoWindowsYet, <1>1, PTL DEF WindowsSpec

\* The events of a key are those of the fault and the window.
LEMMA AlikeAre ==
  ASSUME WindowsInv, NEW i \in DOMAIN arrived
  PROVE  Alike(i) = Seen(Key(arrived[i])) /\ StoredTimes(i) = Times(Key(arrived[i]))
<1>1. \A j \in DOMAIN arrived : arrived[j] \in Emitted
  BY DEF WindowsInv
<1>2. \A j \in DOMAIN arrived :
        Key(arrived[j]) = Key(arrived[i]) <=>
          SameFault(arrived[i], arrived[j]) /\ arrived[i].at \div Window = arrived[j].at \div Window
  BY <1>1, KeyIs
<1>3. Alike(i) = Seen(Key(arrived[i]))
  BY <1>2 DEF Alike, Seen
<1>. QED  BY <1>3 DEF StoredTimes, Times

LEMMA IncidentsAreClasses ==
  WindowsInv => Cardinality(DOMAIN incidents) = Cardinality({ Alike(i) : i \in DOMAIN arrived })
<1>. SUFFICES ASSUME WindowsInv
              PROVE  Cardinality(DOMAIN incidents) = Cardinality({ Alike(i) : i \in DOMAIN arrived })
  OBVIOUS
<1>. PICK classes : classes = { Alike(i) : i \in DOMAIN arrived }
  OBVIOUS
<1>1. PICK was : was = [k \in DOMAIN incidents |-> Seen(k)]
  OBVIOUS
<1>2. classes = { was[k] : k \in DOMAIN incidents }
  <2>1. classes = { Seen(Key(arrived[i])) : i \in DOMAIN arrived }
    BY AlikeAre
  <2>. QED  BY <1>1, <2>1 DEF WindowsInv
<1>3. ASSUME NEW k \in DOMAIN incidents, NEW l \in DOMAIN incidents, was[k] = was[l] PROVE k = l
  <2>1. PICK j \in Seen(k) : TRUE
    BY SeenAre
  <2>2. j \in Seen(l)
    BY <1>1, <1>3
  <2>. QED  BY <2>1, <2>2 DEF Seen
<1>4. IsFiniteSet(DOMAIN incidents)
  BY IncidentsAreFinite
<1>. QED  BY <1>2, <1>3, <1>4, ImageIs

LEMMA EventsArePartitioned == WindowsInv => IncidentsPartitionEvents
<1>. SUFFICES ASSUME WindowsInv PROVE IncidentsPartitionEvents
  OBVIOUS
<1>1. ASSUME NEW i \in DOMAIN arrived
      PROVE  incidents[Key(arrived[i])] =
               [count |-> Cardinality(Alike(i)), first |-> Min(StoredTimes(i)),
                last |-> Max(StoredTimes(i))]
  <2>1. incidents[Key(arrived[i])] = RowOf(Key(arrived[i]))
    BY DEF WindowsInv
  <2>. QED  BY <2>1, AlikeAre DEF RowOf
<1>. QED  BY <1>1, IncidentsAreClasses DEF IncidentsPartitionEvents

\* Each fault of each window of instants has one incident, and what its row tells
\* is how many its events are and between which clock readings they lie, in
\* whatever order these come, for every length of a window and every offset.
THEOREM IncidentsPartitionEventsHolds == WindowsSpec => []IncidentsPartitionEvents
BY WindowsAlways, EventsArePartitioned, PTL

-----------------------------------------------------------------------------
(* The summary *)

EventsOf(keys) == { j \in DOMAIN arrived : Key(arrived[j]) \in keys }

\* The function that the definition of a sum over keys chooses.
IsTotal(it, keys) ==
  it = [s \in SUBSET keys |->
          IF s = {} THEN 0 ELSE incidents[CHOOSE k \in s : TRUE].count + it[s \ {CHOOSE k \in s : TRUE}]]

\* The counts of some incidents sum up to the number of their events.
LEMMA OccurrencesAre ==
  ASSUME WindowsInv, NEW keys \in SUBSET DOMAIN incidents
  PROVE  Occurrences(keys) = Cardinality(EventsOf(keys))
<1>1. Occurrences(keys) = (CHOOSE it : IsTotal(it, keys))[keys]
  BY DEF Occurrences, MapThenSumSet, MapThenFoldSet, IsTotal
<1>2. ASSUME NEW s PROVE IsFiniteSet(EventsOf(s)) /\ Cardinality(EventsOf(s)) \in Nat
  <2>1. IsFiniteSet(DOMAIN arrived) /\ EventsOf(s) \in SUBSET DOMAIN arrived
    BY FS_Interval DEF WindowsInv, EventsOf
  <2>. QED  BY <2>1, FS_Subset, FS_CardinalityType
<1>3. EventsOf({}) = {} /\ Cardinality(EventsOf({})) = 0
  BY FS_EmptySet DEF EventsOf
<1>4. ASSUME NEW s \in SUBSET keys, NEW k \in s
      PROVE  Cardinality(EventsOf(s)) = incidents[k].count + Cardinality(EventsOf(s \ {k}))
  <2>1. incidents[k].count = Cardinality(Seen(k))
    <3>1. k \in DOMAIN incidents
      OBVIOUS
    <3>2. incidents[k] = RowOf(k)
      BY <3>1 DEF WindowsInv
    <3>. QED  BY <3>2 DEF RowOf
  <2>2. EventsOf(s) = Seen(k) \union EventsOf(s \ {k}) /\ Seen(k) \cap EventsOf(s \ {k}) = {}
    BY DEF EventsOf, Seen
  <2>3. IsFiniteSet(Seen(k)) /\ Cardinality(Seen(k)) \in Nat
    BY SeenAre, FS_CardinalityType
  <2>4. PICK a, b, c : a = Seen(k) /\ b = EventsOf(s \ {k}) /\ c = EventsOf(s)
    OBVIOUS
  <2>5. Cardinality(c) = Cardinality(a) + Cardinality(b) - Cardinality({})
    <3>1. IsFiniteSet(a) /\ IsFiniteSet(b)
      BY <1>2, <2>3, <2>4
    <3>2. Cardinality(a \union b) = Cardinality(a) + Cardinality(b) - Cardinality(a \cap b)
      BY <3>1, FS_Union
    <3>3. a \union b = c /\ a \cap b = {}
      BY <2>2, <2>4
    <3>. QED  BY <3>2, <3>3
  <2>6. Cardinality(a) \in Nat /\ Cardinality(b) \in Nat /\ Cardinality({}) = 0
    BY <1>2, <2>3, <2>4, FS_EmptySet
  <2>. QED  BY <2>1, <2>4, <2>5, <2>6
<1>5. PICK total : total = [s \in SUBSET keys |-> Cardinality(EventsOf(s))]
  OBVIOUS
<1>6. IsTotal(total, keys)
  <2>1. ASSUME NEW s \in SUBSET keys, s # {}
        PROVE  total[s] = incidents[CHOOSE k \in s : TRUE].count + total[s \ {CHOOSE k \in s : TRUE}]
    <3>1. PICK k : k = CHOOSE x \in s : TRUE
      OBVIOUS
    <3>2. k \in s /\ s \ {k} \in SUBSET keys
      BY <2>1, <3>1
    <3>3. total[s] = incidents[k].count + total[s \ {k}]
      BY <1>4, <1>5, <3>2
    <3>. QED  BY <3>1, <3>3
  <2>2. total[{}] = 0
    BY <1>3, <1>5
  <2>3. total = [s \in SUBSET keys |-> total[s]]
    BY <1>5
  <2>. QED  BY <2>1, <2>2, <2>3 DEF IsTotal
<1>7. PICK it : it = (CHOOSE x : IsTotal(x, keys)) /\ IsTotal(it, keys)
  BY <1>6
<1>8. IsFiniteSet(keys)
  BY IncidentsAreFinite, FS_Subset
<1>9. \A n \in Nat : n \in { m \in Nat : \A s \in SUBSET keys : Cardinality(s) = m => it[s] = total[s] }
  <2>. DEFINE N == { m \in Nat : \A s \in SUBSET keys : Cardinality(s) = m => it[s] = total[s] }
  <2>1. 0 \in N
    <3>1. \A s \in SUBSET keys : Cardinality(s) = 0 => s = {}
      BY <1>8, FS_Subset, FS_EmptySet
    <3>2. it[{}] = 0 /\ total[{}] = 0
      BY <1>6, <1>7 DEF IsTotal
    <3>. QED  BY <3>1, <3>2
  <2>2. ASSUME NEW n \in Nat, n \in N PROVE n + 1 \in N
    <3>1. ASSUME NEW s \in SUBSET keys, Cardinality(s) = n + 1 PROVE it[s] = total[s]
      <4>1. IsFiniteSet(s) /\ s # {}
        BY <1>8, <3>1, FS_Subset, FS_EmptySet
      <4>2. PICK k : k = CHOOSE x \in s : TRUE
        OBVIOUS
      <4>3. PICK r : r = s \ {k}
        OBVIOUS
      <4>4. k \in s /\ r \in SUBSET keys
        BY <4>1, <4>2, <4>3
      <4>5. Cardinality(r) = n
        <5>1. Cardinality(r) = Cardinality(s) - 1
          BY <4>1, <4>3, <4>4, FS_RemoveElement
        <5>. QED  BY <3>1, <5>1
      <4>6. it[r] = total[r]
        BY <2>2, <4>4, <4>5
      <4>7. it[s] = incidents[k].count + it[r]
        BY <1>7, <4>1, <4>2, <4>3 DEF IsTotal
      <4>8. total[s] = incidents[k].count + total[r]
        BY <1>6, <4>1, <4>2, <4>3 DEF IsTotal
      <4>. QED  BY <4>6, <4>7, <4>8
    <3>. QED  BY <3>1
  <2>. HIDE DEF N
  <2>3. \A n \in Nat : n \in N
    BY <2>1, <2>2, AllNumbers
  <2>. QED  BY <2>3 DEF N
<1>10. it[keys] = total[keys]
  <2>1. Cardinality(keys) \in Nat
    BY <1>8, FS_CardinalityType
  <2>. QED  BY <1>9, <2>1
<1>. QED  BY <1>1, <1>5, <1>7, <1>10

\* An incident is of the service of its events, and its times are clock readings
\* of some of them.
LEMMA IncidentTells ==
  ASSUME WindowsInv, NEW i \in DOMAIN arrived,
         NEW k, k = Key(arrived[i])
  PROVE  /\ k \in DOMAIN incidents /\ k.service = arrived[i].service
         /\ incidents[k].last = Max(StoredTimes(i))
         /\ \E j \in Seen(k) : incidents[k].first = StoredTime(arrived[j])
         /\ \E j \in Seen(k) : incidents[k].last = StoredTime(arrived[j])
<1>1. k \in DOMAIN incidents
  BY DEF WindowsInv
<1>2. PICK T \in SUBSET Nat : T = Times(k) /\ T # {} /\ \E bound \in Nat : \A t \in T : t <= bound
  BY <1>1, SeenAre
<1>3. Min(T) \in T /\ Max(T) \in T
  BY <1>2, MinIsLeast, MaxIsGreatest
<1>4. incidents[k].first = Min(T) /\ incidents[k].last = Max(T)
  <2>1. incidents[k] = RowOf(k)
    BY <1>1 DEF WindowsInv
  <2>. QED  BY <1>2, <2>1 DEF RowOf
<1>5. StoredTimes(i) = T
  BY <1>2, AlikeAre
<1>6. k.service = arrived[i].service
  BY DEF Key
<1>. QED  BY <1>1, <1>2, <1>3, <1>4, <1>5, <1>6 DEF Times

\* The instants of an incident's events are of one day.
LEMMA IncidentIsOfADay ==
  ASSUME WindowsInv, NEW i \in DOMAIN arrived, NEW j \in Seen(Key(arrived[i]))
  PROVE  /\ j \in OfService(i) /\ arrived[j].at \div Day = arrived[i].at \div Day
<1>1. j \in DOMAIN arrived /\ Key(arrived[j]) = Key(arrived[i])
  BY DEF Seen
<1>2. arrived[i] \in Emitted /\ arrived[j] \in Emitted
  BY <1>1 DEF WindowsInv
<1>3. PICK a \in Nat, b \in Nat : a = arrived[j].at /\ b = arrived[i].at
  BY <1>2, EmittedAssumption
<1>4. a \div Window = b \div Window
  BY <1>1, <1>2, <1>3, KeyIs
<1>5. a \div Day = b \div Day
  BY <1>3, <1>4, WindowInDay
<1>6. arrived[j].service = arrived[i].service
  BY <1>1 DEF Key
<1>. QED  BY <1>1, <1>3, <1>5, <1>6 DEF OfService

\* The number of occurrences of a day is that of the events whose incidents are
\* shown on it.
LEMMA ShownAreCounted ==
  ASSUME WindowsInv, NEW i \in DOMAIN arrived, NEW day \in Nat
  PROVE  Summary(arrived[i].service, day).occurrence_count =
           Cardinality({ j \in OfService(i) : DayShown(j) = day })
<1>. DEFINE during(at) == day * Day <= at /\ at < (day + 1) * Day
            keys == { k \in DOMAIN incidents :
                        k.service = arrived[i].service /\ during(incidents[k].last) }
<1>1. ASSUME NEW j \in DOMAIN arrived
      PROVE  Key(arrived[j]) \in keys <=> j \in OfService(i) /\ DayShown(j) = day
  <2>1. PICK k \in DOMAIN incidents, last \in Nat :
          /\ k = Key(arrived[j]) /\ k.service = arrived[j].service
          /\ last = incidents[k].last /\ last = Max(StoredTimes(j))
    <3>1. PICK k : k = Key(arrived[j])
      OBVIOUS
    <3>2. /\ k \in DOMAIN incidents /\ k.service = arrived[j].service
          /\ incidents[k].last = Max(StoredTimes(j))
          /\ \E l \in Seen(k) : incidents[k].last = StoredTime(arrived[l])
      BY <3>1, IncidentTells
    <3>3. \A l \in Seen(k) : StoredTime(arrived[l]) \in Nat
      BY StoredTimesAreTimes
    <3>4. PICK last : last = incidents[k].last /\ last \in Nat
      BY <3>2, <3>3
    <3>. QED  BY <3>1, <3>2, <3>4
  <2>2. during(last) <=> last \div Day = day
    BY DayOf
  <2>3. DayShown(j) = last \div Day
    BY <2>1 DEF DayShown
  <2>. HIDE DEF during
  <2>. QED  BY <2>1, <2>2, <2>3 DEF OfService
<1>2. EventsOf(keys) = { j \in OfService(i) : DayShown(j) = day }
  <2>. HIDE DEF keys
  <2>. QED  BY <1>1 DEF EventsOf, OfService
<1>3. Occurrences(keys) = Cardinality(EventsOf(keys))
  BY OccurrencesAre
<1>4. Summary(arrived[i].service, day).occurrence_count = Occurrences(keys)
  BY DEF Summary
<1>. HIDE DEF keys
<1>. QED  BY <1>2, <1>3, <1>4

\* If the dates of a service's events are written as they are in UTC, its
\* incidents appear on the days of their events.
LEMMA DatesAsInUtc ==
  ASSUME WindowsInv, NEW i \in DOMAIN arrived,
         \A j \in OfService(i) : StoredTime(arrived[j]) \div Day = arrived[j].at \div Day
  PROVE  \A j \in OfService(i) :
           LET k == Key(arrived[j])
           IN  /\ incidents[k].first \in Nat /\ incidents[k].first \div Day = arrived[j].at \div Day
               /\ DayShown(j) = arrived[j].at \div Day
<1>. SUFFICES ASSUME NEW j \in OfService(i), NEW k, k = Key(arrived[j])
              PROVE  /\ incidents[k].first \in Nat /\ incidents[k].first \div Day = arrived[j].at \div Day
                     /\ DayShown(j) = arrived[j].at \div Day
  OBVIOUS
<1>1. j \in DOMAIN arrived /\ OfService(j) = OfService(i)
  BY DEF OfService
<1>2. \A l \in Seen(k) : StoredTime(arrived[l]) \div Day = arrived[j].at \div Day
  <2>1. \A l \in Seen(k) : l \in OfService(j) /\ arrived[l].at \div Day = arrived[j].at \div Day
    BY <1>1, IncidentIsOfADay
  <2>. QED  BY <1>1, <2>1
<1>3. /\ incidents[k].last = Max(StoredTimes(j))
      /\ \E l \in Seen(k) : incidents[k].first = StoredTime(arrived[l])
      /\ \E l \in Seen(k) : incidents[k].last = StoredTime(arrived[l])
  BY <1>1, IncidentTells
<1>4. \A l \in Seen(k) : StoredTime(arrived[l]) \in Nat
  BY StoredTimesAreTimes
<1>5. incidents[k].first \in Nat /\ incidents[k].first \div Day = arrived[j].at \div Day
  BY <1>2, <1>3, <1>4
<1>6. incidents[k].last \div Day = arrived[j].at \div Day
  BY <1>2, <1>3
<1>. QED  BY <1>3, <1>5, <1>6 DEF DayShown

\* What is new on a day is counted among its incidents, and it is something when
\* an incident both begins and ends on it.
LEMMA NewAreIncidents ==
  ASSUME WindowsInv, NEW service, NEW day \in Nat,
         NEW k \in DOMAIN incidents, k.service = service,
         incidents[k].first \in Nat, incidents[k].first \div Day = day,
         incidents[k].last \in Nat, incidents[k].last \div Day = day
  PROVE  LET summary == Summary(service, day)
         IN  /\ 1 <= summary.new_fingerprint_count
             /\ summary.new_fingerprint_count <= summary.incident_count
<1>. DEFINE during(at) == day * Day <= at /\ at < (day + 1) * Day
            keys == { l \in DOMAIN incidents : l.service = service /\ during(incidents[l].last) }
            new == { l \in keys : during(incidents[l].first) }
<1>1. k \in new
  <2>1. during(incidents[k].first) /\ during(incidents[k].last)
    BY DayOf
  <2>. HIDE DEF during
  <2>. QED  BY <2>1
<1>2. IsFiniteSet(keys) /\ IsFiniteSet(new) /\ Cardinality(new) <= Cardinality(keys)
  <2>1. keys \in SUBSET DOMAIN incidents /\ new \in SUBSET keys
    OBVIOUS
  <2>. HIDE DEF keys, new
  <2>. QED  BY <2>1, IncidentsAreFinite, FS_Subset
<1>3. PICK prints : prints = { l.fingerprint : l \in new }
  OBVIOUS
<1>4. Cardinality(prints) \in Nat /\ 1 <= Cardinality(prints) /\ Cardinality(prints) <= Cardinality(new)
  <2>1. PICK print : print = [l \in new |-> l.fingerprint]
    OBVIOUS
  <2>2. prints = { print[l] : l \in new }
    BY <1>3, <2>1
  <2>3. IsFiniteSet(prints) /\ Cardinality(prints) <= Cardinality(new)
    <3>. HIDE DEF new
    <3>. QED  BY <1>2, <2>2, ImageIs
  <2>4. prints # {}
    BY <1>1, <1>3
  <2>5. Cardinality(prints) \in Nat /\ Cardinality(prints) # 0
    BY <2>3, <2>4, FS_CardinalityType, FS_EmptySet
  <2>. HIDE DEF new
  <2>. QED  BY <2>3, <2>5
<1>5. PICK summary :
        /\ summary = Summary(service, day)
        /\ summary.incident_count = Cardinality(keys)
        /\ summary.new_fingerprint_count = Cardinality(prints)
  <2>1. PICK summary : summary = Summary(service, day)
    OBVIOUS
  <2>2. summary =
          [incident_count |-> Cardinality(keys), new_fingerprint_count |-> Cardinality({ l.fingerprint : l \in new }),
           occurrence_count |-> Occurrences(keys)]
    BY <2>1 DEF Summary
  <2>. HIDE DEF keys, new
  <2>3. summary.incident_count = Cardinality(keys) /\ summary.new_fingerprint_count = Cardinality(prints)
    BY <1>3, <2>2
  <2>. QED  BY <2>1, <2>3
<1>6. Cardinality(keys) \in Nat /\ Cardinality(new) \in Nat
  <2>. HIDE DEF keys, new
  <2>. QED  BY <1>2, FS_CardinalityType
<1>. HIDE DEF keys, new
<1>. QED  BY <1>2, <1>4, <1>5, <1>6

LEMMA SummaryIsOfTheDay == WindowsInv => SummaryCountsTheDay
<1>. SUFFICES ASSUME WindowsInv, NEW i \in DOMAIN arrived
              PROVE  LET summary == Summary(arrived[i].service, DayShown(i))
                     IN  /\ summary.occurrence_count =
                              Cardinality({ j \in OfService(i) : DayShown(j) = DayShown(i) })
                         /\ (\A j \in OfService(i) : StoredTime(arrived[j]) \div Day = arrived[j].at \div Day) =>
                              /\ OnUtcDay(i)
                              /\ 1 <= summary.new_fingerprint_count
                              /\ summary.new_fingerprint_count <= summary.incident_count
  BY DEF SummaryCountsTheDay
<1>1. PICK k \in DOMAIN incidents, last \in Nat, d \in Nat \ {0} :
        /\ k = Key(arrived[i]) /\ k.service = arrived[i].service
        /\ last = incidents[k].last /\ last = Max(StoredTimes(i)) /\ d = Day
  <2>1. PICK k : k = Key(arrived[i])
    OBVIOUS
  <2>2. /\ k \in DOMAIN incidents /\ k.service = arrived[i].service
        /\ incidents[k].last = Max(StoredTimes(i))
        /\ \E l \in Seen(k) : incidents[k].last = StoredTime(arrived[l])
    BY <2>1, IncidentTells
  <2>3. \A l \in Seen(k) : StoredTime(arrived[l]) \in Nat
    BY StoredTimesAreTimes
  <2>4. PICK last : last = incidents[k].last /\ last \in Nat
    BY <2>2, <2>3
  <2>. QED  BY <2>1, <2>2, <2>4, WindowAssumption
<1>2. DayShown(i) = last \div Day /\ DayShown(i) \in Nat
  BY <1>1 DEF DayShown
<1>3. Summary(arrived[i].service, DayShown(i)).occurrence_count =
        Cardinality({ j \in OfService(i) : DayShown(j) = DayShown(i) })
  BY <1>2, ShownAreCounted
<1>4. ASSUME \A j \in OfService(i) : StoredTime(arrived[j]) \div Day = arrived[j].at \div Day
      PROVE  /\ OnUtcDay(i)
             /\ 1 <= Summary(arrived[i].service, DayShown(i)).new_fingerprint_count
             /\ Summary(arrived[i].service, DayShown(i)).new_fingerprint_count
                  <= Summary(arrived[i].service, DayShown(i)).incident_count
  <2>1. \A j \in OfService(i) : DayShown(j) = arrived[j].at \div Day
    BY <1>4, DatesAsInUtc
  <2>2. i \in OfService(i)
    BY DEF OfService
  <2>3. DayShown(i) = arrived[i].at \div Day
    BY <2>1, <2>2
  <2>4. { j \in OfService(i) : DayShown(j) = DayShown(i) } =
          { j \in OfService(i) : arrived[j].at \div Day = arrived[i].at \div Day }
    BY <2>1, <2>3
  <2>5. OnUtcDay(i)
    BY <1>3, <2>3, <2>4 DEF OnUtcDay
  <2>6. incidents[k].first \in Nat /\ incidents[k].first \div Day = DayShown(i)
    BY <1>1, <1>4, <2>2, <2>3, DatesAsInUtc
  <2>7. LET summary == Summary(arrived[i].service, DayShown(i))
        IN  1 <= summary.new_fingerprint_count /\ summary.new_fingerprint_count <= summary.incident_count
    BY <1>1, <1>2, <2>6, NewAreIncidents
  <2>. QED  BY <2>5, <2>7
<1>. QED  BY <1>3, <1>4

\* The summaries of a service share its events out among the days, and each gets
\* those of its own if no offset moves an event to another date, for every length
\* of a day that is a number of windows.
THEOREM SummaryCountsTheDayHolds == WindowsSpec => []SummaryCountsTheDay
BY WindowsAlways, SummaryIsOfTheDay, PTL

=============================================================================
