------------------------------- MODULE MCDiscovery -------------------------------
(* From lines of a log to incidents, and to evidence: a text that is        *)
(* submitted and stored, a log that is written and read, the events of logs *)
(* that are grouped, the tasks that handle the events of one group, the     *)
(* code and the knowledge that are searched.  The six share no state, so    *)
(* that it is enough to let one of them take steps in a behavior.           *)
EXTENDS MCIncidentDiscovery, MCIncidentWindows, LogExcerpts, EvidenceIntake,
        KnowledgeSeeds, CodeReading

CONSTANTS s1, s2, s3, q1, q2, NoSuchFile

Continuation(hit) == [starts |-> FALSE, hit |-> hit, at |-> 0]
Start(hit, when) == [starts |-> TRUE, hit |-> hit, at |-> when]

SomeLines ==
  { Continuation(hit) : hit \in BOOLEAN }
    \union { Start(hit, when) : hit \in BOOLEAN, when \in {1, 2} }

\* A new log, and full ones whose tail begins in the middle of a long event.
MiddleOfEvent == [i \in 1..9 |-> Continuation(FALSE)]
SomeTails == {<< >>} \union { MiddleOfEvent \o end : end \in [1..3 -> SomeLines] }

SomeRanges == { <<1, 1>>, <<1, 2>>, <<2, 2>> }

SeedOf(id, status) == [id |-> id, status |-> status]
Sound(entries) == [sound |-> TRUE, entries |-> entries]

Twice == <<Sound(<<SeedOf(1, "confirmed")>>), Sound(<<SeedOf(1, "retired")>>)>>
\* An entry twice; two files with three entries; a broken file after a good one.
SomeDirectories == { Twice,
  <<Sound(<<SeedOf(1, "confirmed"), SeedOf(2, "candidate")>>), Sound(<<SeedOf(3, "confirmed")>>)>>,
  <<Sound(<<SeedOf(2, "confirmed")>>), [sound |-> FALSE, entries |-> << >>]>> }

\* The second entry is the better match of {1}, the third the better one of {1, 2}.
SomeWords ==
  << [title |-> {3}, errors |-> {}, others |-> {1}],
     [title |-> {1}, errors |-> {}, others |-> {}],
     [title |-> {1}, errors |-> {2}, others |-> {3}] >>

TwoServers == [s \in Searches |-> IF s = s3 THEN p2 ELSE p1]

Code(large, lines_) == [large |-> large, lines |-> lines_]
Hit(of) == [hit |-> TRUE, of |-> of]
Miss(of) == [hit |-> FALSE, of |-> of]

\* A file with one hit, a large one, one with two hits, and a path of the directory alone.
DeployedFiles ==
  << Code(FALSE, <<Miss("commit"), Hit("commit")>>), Code(TRUE, <<Hit("commit")>>),
     Code(FALSE, <<Hit("commit"), Hit("commit")>>), NoSuchFile >>
WorkingTree ==
  << Code(FALSE, <<Hit("working-tree"), Miss("working-tree")>>), NoSuchFile, NoSuchFile,
     Code(FALSE, <<Hit("working-tree")>>) >>
SomeContents ==
  { Code(FALSE, <<Hit("working-tree")>>), Code(TRUE, <<Hit("working-tree")>>),
    Code(FALSE, <<Miss("working-tree"), Hit("working-tree")>>) }
SomeCodeRanges == { <<1, 1>>, <<2, 2>>, <<1, 3>>, <<2, 1>> }
OneFallback == [r \in Readers |-> IF r = q1 THEN "fallback" ELSE "snapshot"]

Components == { "tasks", "log", "windows", "intake", "knowledge", "code" }
\* A component that has done nothing yet.
Idle(part) ==
  CASE part = "tasks"     -> Init
    [] part = "log"       -> lines = << >>
    [] part = "windows"   -> arrived = << >>
    [] part = "intake"    -> typed = << >>
    [] part = "knowledge" -> SeedsInit /\ files = Twice
    [] part = "code"      -> ReadingInit
Alone(part) == \A other \in Components \ {part} : Idle(other)

logVars == lines

DiscoveryInit ==
  /\ Init /\ LogInit /\ WindowsInit /\ IntakeInit /\ SeedsInit /\ ReadingInit
  /\ Idle("log") \/ Idle("knowledge")  \* at most one of the two that may start differently does
DiscoveryNext ==
  \/ /\ Alone("tasks") /\ Next
     /\ UNCHANGED <<logVars, windowVars, intakeVars, seedVars, readVars>>
  \/ /\ Alone("log") /\ \E line \in Lines : Write(line)
     /\ UNCHANGED <<vars, windowVars, intakeVars, seedVars, readVars>>
  \/ /\ Alone("windows") /\ \E e \in Emitted : Ingest(e)
     /\ UNCHANGED <<vars, logVars, intakeVars, seedVars, readVars>>
  \/ /\ Alone("intake") /\ IntakeNext
     /\ UNCHANGED <<vars, logVars, windowVars, seedVars, readVars>>
  \/ /\ Alone("knowledge") /\ SeedsNext
     /\ UNCHANGED <<vars, logVars, windowVars, intakeVars, readVars>>
  \/ /\ Alone("code") /\ ReadingNext
     /\ UNCHANGED <<vars, logVars, windowVars, intakeVars, seedVars>>
  \/ /\ \/ Len(lines) >= MaxLines \/ Len(arrived) = MaxArrivals \/ taken # "no"
        \/ \A s \in Searches : at[s] \in {"done", "failed"}
        \/ \A r \in Readers : state[r] \in {"done", "failed"}  \* nothing more comes
     /\ UNCHANGED <<vars, logVars, windowVars, intakeVars, seedVars, readVars>>
DiscoverySpec ==
  DiscoveryInit /\
  [][DiscoveryNext]_<<vars, logVars, windowVars, intakeVars, seedVars, readVars>>
=============================================================================
