# Verification of the application diagnosis platform

The repository is a Python service (FastAPI, asyncio, SQLAlchemy on SQLite) that
investigates faults of applications: a language model calls read-only tools, every
finding must cite stored evidence, people confirm or reject the conclusion, and log
events may start an investigation by themselves. This directory holds TLA+ models of
its core, TLC configurations that check them, and TLAPS proofs.

Paths below are relative to `src/app_diagnosis/` in the repository unless they say
otherwise. `PROJECT.json` maps every definition to its lines, lists the hazards with
the properties aimed at them, and gives for each property a mutation of the model that
breaks it.

## 1. Inventory

### What runs concurrently

Each HTTP request, each discovery consumer and each run of an investigation is an
asyncio task of some process. Between two awaits a task runs alone in its process.
Several API and worker processes share one SQLite file. `asyncio.Lock` and the registry
`_active_tasks` order tasks of *one* process; between processes only the database
orders anything. Two facts about the database decide what an atomic step is, and both
are visible in how the tests and the engine are set up (`adapters/persistence/database.py`):

* a SELECT starts no transaction, so consecutive reads of one request see different
  committed states;
* an INSERT inside `begin_nested()` that is the first write of its session is not
  preceded by a BEGIN, so releasing the SAVEPOINT commits it, whatever the session does
  afterwards.

### Components

| Component | State | Operations | What is hard | What makes it correct |
|---|---|---|---|---|
| Diagnosis aggregate (`domain/diagnosis`) | status, version, conclusion | transitions of a case | nothing by itself, it is pure | only legal transitions; a version names one content |
| Diagnosis application service (`application/diagnoses.py`, `evidence_diagnoses.py`) | `diagnoses`, `confirmations`, `evidences` rows; `_active_tasks` | create, run, cancel, supplement, confirm_action | read, decide on a copy, write later; `task.cancel()` at any await; shielded `_mark_cancelled`; second process; crash between two commits | every commit is one legal transition of the *current* case; one verdict; a cancel that was answered holds; the registry is exact; requests end |
| Evidence store (`evidence_diagnoses.py`, `adapters/persistence/evidence_store.py`, `domain/evidence`) | `evidences` rows, unique by content hash | create, supplement, add_candidates | redaction before or after cutting; pieces by bytes; two sets of patterns for the same thing | no credential is stored; an accepted log is kept whole |
| Redaction (`adapters/redaction/local_rules.py`) | none | redact | rules that meet each other's output | what a rule hides stays hidden |
| Agent runtime (`agent/runtime/tool_loop.py`) | `agent_runs`, `tool_runs` rows; counters and flags of the loop | one investigation | any order of model answers; timeouts; cancellation inside `_finish`; a failing statement between two commits | budgets; no failed call again; conclusions rest on stored evidence; one end, stored; it ends |
| LLM client (`adapters/llm/openai_compatible.py`) and the messages of the loop | the list of messages | complete; parse | calls that are refused, repeated or failed half-way and must still be answered; corrections between batches | every request keeps the protocol; the model is told of all that its calls found |
| Citation policy (`agent/policies`) | none | validate a conclusion | rule interactions | accepted conclusions cite owned, direct enough evidence |
| Strategies and router (`agent/strategies`) | none | select, allow | ties between routes; tools whose store is missing | what is offered can run |
| Tool registry and tools (`tools/`) | shared tools, built once | resolve, execute | one tool object for all runs, two places to read from | evidence is of the service it is about; refused calls never reach an adapter |
| Service catalogue, plans (`application/services.py`, `plans.py`) | `service_profiles`, `diagnosis_plans` rows | create; plan of a run | what a plan promises is decided before the tools run | the plan names every type of evidence that comes |
| Code adapters (`adapters/code`) | a directory others edit; a cache of a commit | search, read | the server fails between two files; the fallback starts in the middle | code is cited with the revision it is of |
| Knowledge search (`adapters/knowledge`) | `knowledge_entries`; `_initialized` and a lock per process | search, seed | two processes seed at once; a crash or a failure half-way; curators meanwhile | every search sees all seeds; nothing retired comes back |
| Knowledge lifecycle (`application/knowledge.py`) | `knowledge_entries`, audit events | create, derive, change_status | stale copy written by id alone | one entry per diagnosis; status and audit agree |
| Evaluation candidates (`application/evaluation_candidates.py`) | `evaluation_candidates` row | label, promote | two reads per write, UPDATE of the changed columns only | promoted means labelled; cites own evidence |
| Incident discovery (`application/incidents.py`, `discovery.py`) | `incidents`, `deduplication_keys` rows; a lock per process | ingest, process | duplicates racing with the first delivery; two processes; crash between claim, aggregate and create | an event is counted once; one diagnosis is linked and run; the link is final |
| Enterprise consumer (`application/enterprise_consumer.py`) | messages of a broker | consume_once | redelivery after crash, shutdown, exception | what is acknowledged is counted, but for faults between claim and count; every message settles |
| Reports and traces (`application/reports.py`, `traces.py`) | none | read | tables read one after another while others commit | a verdict has its decision, a conclusion its run |
| Local log files (`adapters/logs/local_file.py`) | none; a log that grows | read_latest, query_related | cuts at the next event, at limits, at the start of the tail | an excerpt is one event; answers are complete up to the limit |
| Daily summaries (`application/daily_summaries.py`) | none | generate | windows and days meet; times are stored as clock readings | every event is counted once, and on its UTC day where clocks show the UTC date |
| Offline evaluation (`evaluation/`) | none | score a recorded run | states the citation rules a second time | what the system accepts, the evaluation accepts |
| Config and health adapters, notifications, HTTP API and bootstrap | none, or files read | I/O, text, wiring | environment of the above | section 8 |

### How they interact

The HTTP routes call one service method each. `DiagnosisApplicationService.run` registers
itself, moves the case, lets the strategy choose the tools and the resolver the stores,
awaits `ToolLoopRunner.run`, and applies the result; `cancel`
calls `task.cancel()` on the registered task of its own process and marks the case
itself as well. The runner asks the model through the client, hands the run's stores to
the shared tools, and stores the AgentRun, evidence and tool runs in transactions
of their own. `confirm_action` writes the case, the Confirmation and, for a rejection,
the evaluation candidate together. `ActiveDiscoveryService.process` holds a lock while it
ingests, creates and links, then runs the diagnosis outside the lock; the consumer
acknowledges afterwards. Knowledge is derived from confirmed diagnoses and searched by
later runs; labels are given to rejected diagnoses.

## 2. Modules

```
DiagnosisDomain  <-  DiagnosisCase                      abstract: what the aggregate promises
       ^                   ^ refines
DiagnosisLifecycle  <-  DiagnosisReport                          DiagnosisProofs
AgentRun (abstract) <refines-  ToolLoop  ->  CitationPolicy  <-  Evaluation
EvaluatedRun                   composes ToolLoop and Evaluation  ToolLoopProofs
ServiceTools, ModelDialogue                                      InvestigationProofs
IncidentDiscovery, IncidentWindows                               IncidentDiscoveryProofs
Curation, KnowledgeSeeds                                         KnowledgeProofs
EvidenceIntake, LogExcerpts, CodeReading                         EvidenceProofs
Lists   (used by IncidentWindows, LogExcerpts, CodeReading)      DataLemmas, FoldLemmas
MCDiscovery = IncidentDiscovery, LogExcerpts, IncidentWindows, EvidenceIntake,
              KnowledgeSeeds and CodeReading           instances for TLC
MCCuration  = Curation, ServiceTools and ModelDialogue
```

**DiagnosisDomain, DiagnosisCase.** Statuses, `ALLOWED_TRANSITIONS` (`Allowed`), the
effect of one transition (`Moved`, `Concluded`), and an abstract specification with one
atomic action per domain method. `DiagnosisCase` also says what a human decision leaves
next to the case: the Confirmation and the candidate, in the same step.

**DiagnosisLifecycle.** The four requests that change a diagnosis. Every label in `pc`
is one await of the code; a step is the code between two awaits, a read of the row or a
commit. `snap[r]` is the copy of the row the request decided on, `Unchanged(r)` the
`WHERE version = expected` of the repository, `pending[r]` the flag `task.cancel()`
leaves, `active` the registry. `ToolLoopRunner.run` is the one step `FinishLoop` plus
its effects on the AgentRun row and its way of handling cancellation. Faults: a process
dies, a task is cancelled from outside, a statement fails.

| Code | Actions |
|---|---|
| `run`, up to the loop | `SubmitRun`, `StartRead`, `StartCommit`, `AddAgentRun`, `Prepare` |
| `_finish`, `_apply_result`, `finally` | `FinishLoop`, `FinishCommit`, `ReturnResult`, `ApplyRead`, `ApplyCommit`, `Return`, `End` |
| `except CancelledError`, at each place where it may be raised | `CancelInService`, `CancelInLoop`, `CancelInFinish`, `CancelInHandler`, `CancelInMark`, `FinishCancelledCommit` |
| `cancel`, `_mark_cancelled` | `SubmitCancel`, `MarkRead`, `MarkCommit` |
| `supplement` | `SubmitSupplement`, `SupplementRead`, `SupplementFind`, `SupplementEvidence`, `SupplementCommit` |
| `confirm_action` | `SubmitDecision`, `ConfirmRead`, `ConfirmCommit` |

**DiagnosisReport** composes a reader with the lifecycle: it reads the diagnosis, the
confirmations (reports only) and the agent runs, each at a moment of its own.

**ToolLoop** is the agent loop in full: rounds, the structure correction, the citation
corrections, finalization mode, refused and executed calls, evidence and tool run
commits, the `except` clauses, and the awaits before the `try`. The model answers anything,
at any time. `add_candidates` commits draft by draft, so that a failure may leave some
(`Partly`), and others may add evidence to the diagnosis while the run is under way (`OthersAdd`): a second
process that runs it too, or a supplement that is then refused. **AgentRun** is what its row promises to readers, and ToolLoop implements it.
**CitationPolicy** holds the rules, as operators over the evidence that is stored.

**ModelDialogue** is the other half of the loop: the messages it collects, the request the
client makes of them, and what the client makes of a reply of any shape. Here it is left
open whether a call succeeds or a conclusion is accepted. A message is its role, the ids of
its calls, the id it answers and the evidence it tells of. Others may add evidence here as well
(`OthersAdd`); such evidence is in the next catalogue, but in no message before it.

| Code | Actions |
|---|---|
| `_request`, `_serialize_message`, `complete` | `Post`, `EndpointFails`, `TimeIsUp` |
| `_parse_response`, and the branches of `run` on it | `Receive` (`Parsed`, `Conclude`, `CallTools`) |
| the `for` over the calls, `_tool_message` | `AnswerCall`, `EndCalls` |
| the two instructions with the catalog of evidence | `Instruct` |
| a statement that fails, `uq_tool_runs_call` among them | `RunFails` |

**ServiceTools** says what a run may read: the catalogue of services, the choice of a
strategy by what a diagnosis matches (`Select`), the stores of the run (`ResourcesOf`), the
tools it is offered and its plan (`Prepare`), and each of the seven tools (`Execute`) over
the store of the run or else the one the tool was built with (`StoreOf`).

**EvidenceIntake** follows a text into the `evidences` table: the rules of the redactor one
after the other, the cut into pieces by bytes (`Split`), the refusal by Evidence's own
patterns. A text is a sequence of parts (a key, a login, a token, a secret, a wide
character, ...); what replaces a credential has two parts, since a cut may fall between.

**KnowledgeSeeds** is the first search of each process, which fills the table from files
under a lock of that process, and the ranked search; curators and other processes write
meanwhile. **CodeReading** is a search or a read over a directory, over a snapshot of a
commit that a server delivers file by file and that is cached, or over the second with the
first as its fallback.

**IncidentDiscovery** has consumers, replay calls and ingest calls over the events of
one incident: claim, lookup, aggregate, reload, create, link (a read and a later write),
note, run, acknowledge or hand back, with an `asyncio.Lock` per process, crashes,
shutdowns, failing statements and expiring deduplication keys. `orphaned` is a history variable:
the events whose claim was committed by a task that a fault ended before it counted them.

**IncidentWindows** says which events are those of one incident: the fingerprint (kind of
the exception, first business frames), the window, what the INSERT or UPDATE of
`aggregate` leaves in the row, and what the daily summary counts of the rows. An event has an
instant (`at`) and the offset from UTC that its time is written with. The window is that of the
instant; the columns keep the clock reading, `at + offset`, since SQLite drops the offset and `_utc`
reads the digits as UTC (`StoredTime`).

**LogExcerpts** is a log that an application writes, and what `read_latest` and
`query_related` take from it at any moment. The time of a line is its clock reading, without an
offset that may follow it.

**Evaluation** scores one case as `evaluate_case` does; **EvaluatedRun** scores the run that
ToolLoop has just ended.

**Curation** has the requests on one knowledge entry and one evaluation candidate.

Operators commented with "Variant:" are not part of any specification. Each is a plausible
mistake in the definition that follows it (a dropped guard, a forgotten save, a swapped
write), used to confirm that the properties notice it; `PROJECT.json` pairs them up.

## 3. Runs

All runs finish within five minutes with two workers.

| Run | Instance | States | Shows |
|---|---|---|---|
| `races` | 3 requests, 2 processes, no faults, a reader | 2.01 M | types; one verdict; cancel is final; the service implements `DiagnosisCase`; reports and traces are consistent |
| `faults` | 3 requests, 1 process, crash, shutdown, failing statements | 1.56 M | the registry is exact; a reviewed conclusion has a completed run; an answered run is applied |
| `liveness` | 3 requests, 1 process | 58 k | every request ends; a cancel stops the investigation |
| `tool_loop` | 4 rounds, 3 calls, 3 signatures (one refused by the registry), 2 call ids, 4 conclusions, one piece of evidence that others may add, 2 faults | 1.09 M | types; budgets; no failed call again; conclusions are supported; the trace is what happened; AgentRun is implemented; every run ends; the evaluation agrees with every completed run |
| `discovery_single` | the six modules of `MCDiscovery`, bounds below | 687 k | counted once; only the linked diagnosis runs; the link is final; excerpts are events; stored text is clean and whole; incidents partition the events and summaries count each once; searches see all seeds and revive nothing; code is of its revision |
| `discovery_shared` | 2 processes, 2 consumers and an ingest, 2 events (one without id), 1 fault of any kind | 217 k | the number of diagnoses; acknowledged is counted or was orphaned; every message settles |
| `curation` | the three modules of `MCCuration`, bounds below | 516 k | audit agrees with status; one derivation; sound labels; offers and plans are kept; evidence is of its service; requests keep the protocol and announce the evidence |

Five runs end in a counterexample. Each contradicts a sentence of the repository.

| Run | Statement | What the code does |
|---|---|---|
| `propagation` | the cancellation signal keeps propagating after the cancellation is persisted | the exception of the shielded `_mark_cancelled`, which lost the version race against `cancel()`, replaces `CancelledError`; so does the `ValueError` of a second `_finish` |
| `discovery_recount` | replaying an event does not count it again | a duplicate that arrives before the winner of the claim has aggregated finds no incident and aggregates too |
| `discovery_recovery` | a failure before the diagnosis is created can be recovered by a replay | after a crash between aggregation and creation the redelivered event passes for a duplicate, triggers nothing and is acknowledged |
| `curation_retired` | retired is a terminal state | `change_status` checks a copy and updates by id alone, so an overlapping confirmation revives the entry |
| `windows_days` | the summary is computed by UTC date | an event whose clock shows another date than UTC is counted on the day of its clock, as the stored `last_seen_at` has lost its offset |

The first four are races; the fifth is a conversion. What does hold of it is
`SummaryCountsTheDay`, for all offsets: each event is counted once, together with its incident,
and on its UTC day if the clocks show the UTC date.

Writing the models showed four more weaknesses, which need no run of their own. The first two contradict
the document that is named, the third the promise that messages are recovered:

* A run of a service that configures no store of a kind reads the store of the settings
  (`tools/code.py:68` and the other tools), where `docs/01-architecture/phase3c-service-context.md:49`
  grants only what the service configures. `StoreOf` does what the code does;
  `EvidenceIsOfItsService` states what holds: evidence never comes from the store of *another* service.
* `first_seen_at` and `last_seen_at` are the least and greatest clock readings, and not times
  (`IncidentsPartitionEvents`), where section 2.2 of the Phase 4B document has the minimum and maximum of times.
* If a crash falls between the claim and the count of an event, and another event creates the incident,
  the redelivered event is acknowledged and counted nowhere (`application/incidents.py:77-80`).
  These are the events in `orphaned` that `AckedIsStored` excepts.
* Two processes may each link a diagnosis to one incident; the second link replaces the first
  (`adapters/persistence/incident_repository.py:74-75`), as the check is made on a row read before.

`CountedOnce` passes in `discovery_single`, where one process serialises `process()`,
and fails in `discovery_recount`, where ingest calls stand outside the lock: the two
runs mark the exact border of what the lock protects, and the theorem EventsCountOnce has
that border as its assumption. `LinkIsFinal` and `RanIsLinked`
are claimed for one process only, for the same reason; with two processes
`DiagnosesBounded` states what is left of them.

### Why the bounds are enough

*Requests.* A violation of the lifecycle needs a writer, a writer it overlaps with and
something that reaches the state in which both are legal, hence three requests. Every safety
property of the lifecycle and of the reader is moreover proved for any number (section 5).
Two processes appear in `races`, the run whose properties could depend on a second
registry; faults multiply states, so they get a run with one process.
*Contents.* One content is enough for a supplement to meet its own copy.
*Tool loop.* Three calls and four rounds allow the sequence call, correction,
correction, conclusion, and two call ids allow a batch of two followed by a
repetition of either, under its own id or the other's. Others may add the one piece of evidence
that a conclusion needs and a tool finds as well. The conclusions are one that holds, one that holds after more evidence, one
with bad citations and one that cites nothing.
*Dialogue.* Three turns allow two batches of calls and the instruction to conclude; the
batches are none, one call, two, and two of which one has a blank id; one piece of evidence
was there before and one may be found, by a call or by others.
*Discovery.* Two deliveries of an event, by two tasks, overlap in every order; four events
in `discovery_single` (one malformed, one of an unknown service) include each kind of arrival
once and a second good event for an incident already there. `MaxFaults` 2 allows a fault
during the recovery from a fault.
*Logs and windows.* Excerpts of two lines, logs of five: an event may be cut by the next
one, by the limit, by the end of the log and by nothing; tails of nine continuation lines
and three more reach beyond the look-back of eight. Windows of two instants, days of two
windows and events at both ends of each, four arrivals; offsets that move the clock to the next
day, to the day before, and within the day; of two frames that count, stacks with
fewer, more and framework frames between.
*Intake.* Texts of five parts hold a credential with a part before and after it and two
credentials side by side, and rows of three bytes cut any of them and a wide character.
*Knowledge.* Three searches in two processes: two that wait for one lock and one that seeds
beside them; one crash or failure; directories with an entry twice, with two files, and with
a broken file after a good one; three entries, of which the second and the third are the best
match of different queries.
*Code.* One reader with a fallback and one without share a cache; four paths of which three
are looked at, one is large, one is in the directory alone; one edit.
*Service tools.* Two diagnoses, two services, settings with all, some and no stores, profiles
that share a log directory with the settings or have blank targets, texts with a tie and with
one best route; one call in each run, which finds two items against a budget of one.
*Curation.* A derivation needs a creation, a second one and two status changes to be confused:
four requests, three labels, one fault.
*Composition.* In `MCDiscovery` and `MCCuration` one of the modules moves in a behavior, the
one that leaves its initial state first. They share no variable, so no interleaving could
show more.
*Symmetry* is used among requests (and among processes in the lifecycle), never in a run
that checks liveness.

## 4. Fairness

Liveness is checked under fairness that the code justifies, and no more.

* `DiagnosisLifecycle!FairSpec`: weak fairness of `Step(r)`. asyncio resumes every ready
  task, SQLite ends every statement, and the agent loop ends by itself: that is `RunEnds`
  of ToolLoop. Nothing makes a client send a request, nothing makes a fault happen.
* `ToolLoop!FairSpec`: weak fairness of the code and of the timeouts. The model and the
  tools owe no answer; `asyncio.wait_for` ends each of those awaits.
* `IncidentDiscovery!FairSpec`: weak fairness of each task's steps, and strong fairness
  of `Acquire`, since `asyncio.Lock` wakes its waiters in the order they came. Faults are
  bounded by `MaxFaults`: a broker that redelivers settles a message only if failures end.
  A registered service is assumed as well; with `Unknown` events the message is handed
  back for ever, which the repository's documentation states itself.

The other modules state no liveness: what they model ends after a bounded number of awaits
that nothing else can prolong.

## 5. Proofs

TLAPS checks the theorems below, and the lemmas under them, in six modules, and what they
share about data in two more. Every invariant and every action property that a run checks is
stated by one of them. Each module starts from the types, adds to them what the
await at which somebody is suspended tells (`TypeOK` alone is seldom inductive, since a step
uses what an earlier one found out), and proves one lemma per action or group of actions.
The assumptions are those named in the modules: that the markers for "nothing" are no values
(`NoRequestAssumption`, `MarkersAssumption`, `StoresAssumption`, `TasksAssumption`,
`LabelsAssumption`, `DataAssumption`), and that the constants have their types
(`FaultsAssumption`, `BudgetAssumption`, `CallsAssumption`, `InputsAssumption`,
`SeedsAssumption`, `HostAssumption`, `EventsAssumption`, `EvidenceAssumption`,
`BoundAssumption`, `DialogueAssumption`, `TypeOfAssumption`, `ExcerptAssumption`,
`EmittedAssumption`, `ReadingAssumption`); `WindowAssumption` says that a day is a number of
windows. TLC evaluates them all. No theorem has a bound on the number of requests,
processes, events, lines, files, calls or rounds, nor on the length of a text.

**DataLemmas, FoldLemmas.** Several models compute over lists: the redactor reads a text part
by part, a search goes through files, a log is cut into rows. The induction theorems of the
library have an operator as a parameter, which the provers cannot instantiate. DataLemmas states
induction over a *set* instead, that of all numbers, sequences or subsets for which the statement
holds (`AllNumbers`, `AllSequences`, `AllSubsets`), and proves it from the library's theorem that
finite subsets are well-founded. FoldLemmas has the operator of a fold as a CONSTANT of the module: a
proof instantiates the module once for each fold, and cites what its base is, what one more
element does, and that what every step keeps holds at the end (`FoldOfNothing`, `FoldOfMore`,
`FoldOfRest`, `FoldIn`).

**DiagnosisProofs** (the service and the reader).
*Types.* `TypeInv == TypeOK /\ CallsMatch /\ OnlyRuns`
adds that the await at which a request is suspended belongs to its operation, and that
results and registrations belong to runs. It gives **TypeCorrect**.
*Versions.* `VersionsIdentifyRows` is inductive on top of `TypeInv`, because every write
increments the version of the row it replaces: **VersionsAreUnique**. With it, the
`WHERE version = ...` of the repository means that the copy *is* the row (`CopyIsCurrent`).
*Refinement.* `SnapshotsAdmitWrites` says that what a request checked on its copy still
holds when it writes: whoever stands at a commit holds a copy from which its transition
is legal. `RefineInv == TypeInv /\ VersionsIdentifyRows /\ SnapshotsAdmitWrites` turns
every commit into one action of `DiagnosisCase` and every other step into a stutter, one
lemma per commit (`...Refines`): **ServiceImplementsCase**. **OneVerdict** then needs only the
abstract steps: a decision leaves `waiting_for_confirmation` for a terminal status.
*Records.* `RecordInv` follows a run from the commit that completes its row to the case
that quotes its conclusion: **ReviewedConclusions**. `RegistryExact` is inductive with
`TypeInv`: **RegistryIsExact**. `AnswerInv` says of each answered request what
the case still shows of it: **CancellationIsFinal**, as no transition leaves `cancelled`,
and **AnsweredRunsAreApplied**.

*The reader.* `ReportInv` states that each table read agrees with a past of the tables now
(`Agreement`), in the order in which they were read. It needs `CompletedIsPast`: a run
whose row is completed will never write its row again. `ReportRefinesLifecycle` carries the
lifecycle's invariants over: **VerdictsAreShown**, **ConclusionsHaveRuns**.

**ToolLoopProofs** (the loop). `Inv` collects what its steps rely on: `Parsed` (a conclusion
that is looked at has been parsed), `BudgetsLeft` (what is left of the calls covers the batch
under way), `ExecutionIsLast` (the call that a tool is working on is the last that was handed to one) and
`FailuresRemembered` (a call that was executed and did not succeed is in `failed`). From it
**LoopIsTyped**, **BudgetsAreRespected**, **FailuresAreFinal**. `RowFollows` says where the row
lags behind the object, which makes each step one of AgentRun or a stutter:
**LoopImplementsAgentRun**. `Accepted`, with `CallsCounted` and `SuccessesRecorded`, carries the
verdict of the citation policy to the end of the run, although the run and others still add
evidence (`MoreEvidence`):
**CompletedIsSupported**. `WorkTraced` and `EndTraced` account for every counted call and every piece of
evidence that was not there before and that nobody else added: **ReturnedRunIsTraced**.
For all evidence and all conclusions, of any number
of findings, the evaluation finds nothing wrong with what the citation policy accepts,
except that a *possible root cause* may go without evidence, which the policy allows and
`unsupported_claims` counts: **AcceptedScoresClean**, and with `Accepted` **CompletedScoresClean**. `SoundFinding` says what a finding without violations
promises, `CodesOfAccepted` that each of the other failures is then excluded.

**IncidentDiscoveryProofs.** `TypeInv` says at which awaits a task has an event, a diagnosis of its own, or
an incident that is in the table; `LockIsHeld` that whoever is between the lock and its release holds it. With them
**DiscoveryIsTyped**. `AckInv` follows each event from its claim on: it is counted, about to be, or was orphaned by a
fault (`Accounted`, which nothing undoes: `AccountedStays`), and whoever acknowledges has found it so: **AcknowledgedIsStored**. For one process (`OneProcess`), `LinkIsFollowed`
makes the read and the later write of the link one step to everybody else: **LinkedOnce**,
**OnlyTheLinkedRuns**. If moreover no ingest call stands outside the lock and claims do not
expire, `CountsOnce` ties each count to its claim: **EventsCountOnce**. These are the
assumptions under which the code keeps the promise; `discovery_recount` shows that the ingest
calls are needed to break it. For several processes `CreationIsBounded` counts those that are
about to link or to create: **DiagnosesAreBounded**, for any finite number of them.
*Windows.* `WindowsInv` is that the table is a function of what has arrived: it has a row for
each key of an event, and the row has the number, the least and the greatest clock reading of the events
with that key. The minimum and maximum of the UPDATE keep it, whatever comes late and whatever the offsets. That two
events share a key exactly if they are the same fault in the same window is a lemma about the
first business frames (`FingerprintIsTheFault`): **IncidentsPartitionEventsHolds**. An incident
is on the day of its greatest clock reading, and all its events with it, so that the sum of the counts of a
day is the number of these events (`OccurrencesAre`, `ShownAreCounted`). Where the clocks show the UTC date, that day
is the one in which the window lies (`IncidentIsOfADay`): **SummaryCountsTheDayHolds**.

**EvidenceProofs.** *Logs that are given.* `IntakeInv` needs that the pieces cover the text they
are cut from: each part lies in one of them, together with what surrounds it (`Covered`, kept by
each step of the cut; `SplitCovers`), and that what is stored of a list of texts has each of them once
stripped (`DistinctHasAll`): **LogIsStoredWholeHolds**. `CleanInv` counts: the rows together
have no more secrets than were typed where nothing marks them, and no token. Cutting,
stripping and dropping duplicates can only lower a count (`Count`, `Total`), so that what
remains is the redactor. `RedactInv` says, of every text the redactor has read so far, what its
three rules know of it: the mode of the rule for values follows the last key (`ModeGoesOn`), no secret passes it after a
key (`SensitiveGoesOn`), and the rule for logins holds back whatever may still turn out to be
a password (`LoginGoesOn`). From it `RedactHides`: redaction leaves no more secrets than those that
nothing marks. **StoredIsCleanHolds**.
*Logs that are read.* The hits are taken in ascending order (`AscendingIs`), and an excerpt runs
from the last start of an event to before the next: **ExcerptsAreEventsHolds**.
*Code.* `ReadingInv` says of a search over a commit that what it has found, continued over the
files it has still to ask for, is what a search at one moment finds; of a search over the directory, that
all it has found is from there; and that the fallback starts again with nothing:
**CodeIsOfItsRevisionHolds**, for any number of calls, failures of the server and edits.

**InvestigationProofs.** *The dialogue.* `DialogueInv` says of each message with calls that its answers follow it
at once (`Settled`), or up to the calls that are still due (`RepliedTo`), that every answer
belongs to some calls, and that the messages tell of all that was there before the run and that its calls found, and of nothing
that is not stored (`AllIsTold`). That the client
drops nothing (`NothingIsDropped`) carries this to the request: **RequestsKeepProtocol**,
**EvidenceIsTold**.

*The tools.* `AccessInv` says that the resources of a prepared run are still those of
its service, since profiles never change once registered, and that each piece of evidence was found by
a tool that was offered: **AccessIsTyped**, **EvidenceBelongs**, **PromisesAreKept**.

**KnowledgeProofs.** *Seeds.* `NoneForgotten`: the entries a seeding search has passed are in the
table, and no step empties a row: **SeedsAreTyped**, **SearchesSeeAllSeeds**, **RetiredStaysRetired**.

*Curation.* `Derives`, `Changes` and `Relabels` say what a request knows at each
await, `OneCreator` that only one inserted the entry, `Changed` that an audited change had an
entry: **CurationIsTyped**, **TrailNamesStatus**, **EntryIsDerivedOnce**,
**CandidateLabelsAreSound**. `TrailNamesStatus` holds although `change_status` loses updates,
because the save and its audit event are one transaction.

Model-checked only: the liveness properties `EveryRequestEnds`, `CancelStopsInvestigation`,
`RunEnds` and `EveryMessageSettles`, since fairness and ENABLED are beyond the prover; and the
findings, which are counterexamples.

## 6. Properties

Stated where they are defined, with a comment each. The most telling ones:

* `ImplementsCase`: whatever overlaps, the history of a case is a sequence of domain methods.
* `DecisionMatchesStatus`: two reviewers who race leave one verdict, one Confirmation that
  says so, and a candidate exactly for a rejection.
* `CancelIsFinal`, `CancelStopsInvestigation`: a cancel that was answered holds, and one
  that lost the version race ends the investigation all the same.
* `AnsweredRunIsApplied`, `ReviewedConclusionIsRecorded`: two transactions, no half answer.
* `ConclusionHasItsRun`: reading the diagnosis *before* its runs makes a report consistent.
* `ConclusionIsSupported`, `FailedCallNotRepeated`, `RunIsTraced`:
  the promises of the evidence-driven loop against a model that may answer anything.
* `RequestsAreWellFormed`: whichever calls fail, are refused or repeat, and whatever is
  corrected in between, no request breaks the protocol of tool calls.
* `EvidenceIsAnnounced`: whenever it is asked, the model has been told the id of all that was there before and
  that its calls found, and of nothing that is not stored. What others have added since the last
  catalogue may be cited untold; the code does not keep them apart, so no more is true.
* `AckedIsStored`: an acknowledged event has itself been counted, unless a fault fell between its
  claim and its count, or the claim it met belongs to a call that is still about to count.
* `EvidenceIsOfItsService`, `OfferAndPlanAreKept`: shared tools and per-run stores, and a plan
  made before the tools run.
* `StoredIsClean`, `LogIsStoredWhole`: redaction, cutting and a second opinion on secrets leave
  neither a credential nor a hole.
* `SearchesSeeSeeds`, `SeedsReviveNothing`: seeding by several processes that may die half-way.
* `CodeIsOfItsRevision`: a search that fell back in the middle mixes no revisions.
* `DiagnosesBounded`: what one lock per process leaves of "one diagnosis per incident".
* `CompletedRunScoresClean`: two formulations of the citation rules, written apart, agree on
  every run that was completed.
* `ExcerptsAreEvents`: evidence never mixes two events, and a
  limited answer misses none that it had room for.
* `IncidentsPartitionEvents`, `SummaryCountsTheDay`: whatever the order of arrival and the
  offsets of clocks, incidents and daily counts are functions of the events, and each is counted once.
* `StatusIsAudited`: although `change_status` loses updates, the audit names the last one.

## 7. Plan

Written in this order, the most important behaviour first: the aggregate and its
service, the proofs of the service, discovery, the agent loop, curation, the reader,
logs, windows and evaluation; then the access of a run to stores and tools, the dialogue with the
model, the intake of evidence, seeds and code, and the proofs of the loop, of discovery, of the
dialogue, of access, of seeds and of curation, and at last those about data: windows, logs,
redaction and code. All of it is done. What would come next:

1. *Composition* of ToolLoop with ModelDialogue in one behavior, so that the reasons of the loop
   and the messages are one state; today each leaves open what the other decides.
2. *Links* in CodeReading, once the code's check of a path and its use of it are worth telling apart.
3. *Failure reviews:* the grouping of repeated failures in `evaluation/failure_review.py`.

## 8. Not modelled

* *Notifications*: I/O after the acknowledgement of a message.
* *The checks of configuration paths and health targets*: pure functions of a string.
* *Links of directories* in the code adapters.
* *Retries of the SDK* inside one request to the model: they are the SDK's.
* *HTTP API, bootstrap*: routing and error formatting, one service method for each route. The
  wiring of tools over the settings is the initial state of ServiceTools.
* *Rates and sums of a suite, review texts, the counts of diagnoses in a summary*: arithmetic
  over lists that were read.
* *Decoding of log files*: bytes, encodings and the discarded partial line; the tail is a
  sequence of lines.
* Within the modelled parts: the texts of conclusions, supplements and prompts are model
  values; formatting and logging are left out; the clock appears only as "a
  transition is refused because the clock ran backwards", which is a failing statement, and as
  the time budget of the loop.

Some hazards have no property. An AgentRun that is cancelled between its insert and the `try`
of the loop stays RUNNING (`agent/runtime/tool_loop.py:97`): DiagnosisLifecycle reaches that state, and the
documents ask for a reason of every stop, which such a row does not get. Evidence of a call whose
tool run could not be stored stays (`agent/runtime/tool_loop.py:302`), and a run whose stores
cannot be built leaves the case where it is (`application/diagnoses.py:251`): both are steps of the
models, and no document says what should be. The link of an incident may be overwritten by another process
(`adapters/persistence/incident_repository.py:74`, section 3). A reviewer may confirm a newer conclusion than the one
they saw (`application/evidence_diagnoses.py:242`): the request does not say what was seen, so that no state of
the program can tell.
