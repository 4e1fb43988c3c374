------------------------------ MODULE ServiceTools ------------------------------
(***************************************************************************)
(* What a run may read.  A diagnosis may belong to a service whose profile *)
(* names a code workspace, a log directory, a configuration workspace and  *)
(* health targets; the settings name others for the whole application.     *)
(* The seven tools are built once, over the stores of the settings, and    *)
(* shared by all runs; each run resolves its own stores and hands them to  *)
(* the tools with every call.  The strategy decides which tools the model  *)
(* is offered, and the plan of the run foretells what they will find.      *)
(*                                                                         *)
(* A store is what an adapter reads: a directory, or the set of health     *)
(* targets.  Nothing in the program changes or deletes a profile.          *)
(***************************************************************************)
EXTENDS FiniteSets, Sequences, Integers, Functions

CONSTANTS
  Cases, Services,
  Stores,        \* what the adapters of code, logs, configuration and health read
  KnowledgeBase, \* what knowledge__search reads
  NoStore,       \* a path, or targets, that nobody configured
  Blank,         \* a path of spaces; targets without a URL
  NoService, NoName,
  Settings,      \* the settings with which the application may be started
  Profiles,      \* the profiles that clients may register
  Texts,         \* how many patterns of each route a diagnosis may match
  Sizes, Budget, \* of the items that a tool finds, and of the answer of a tool
  MaxItems,      \* bound: items found by one call
  MaxCalls       \* bound: calls of one run

VARIABLES
  settings,
  catalogue,  \* the service_profiles table: a profile with a name, or NoProfile
  service,    \* diagnoses.service_id
  text,       \* title, symptom and submitted log, as the router sees them
  step,
  strategy,
  resources,  \* the ToolResourceContext of the run
  offered,    \* the tools whose definitions are sent to the model
  plan,       \* the diagnosis_plans row of the run
  evidence,   \* evidence rows that came from tools
  answer,     \* the last ToolExecutionResult
  calls

shared == <<settings, catalogue>>
inputs == <<service, text>>
run    == <<strategy, resources, offered, plan>>
work   == <<evidence, answer, calls>>
accessVars == <<shared, inputs, step, run, work>>

Kinds == { "code", "log", "config", "health" }
ToolsOf == [code   |-> {"code__search", "code__read"},
            log    |-> {"log__search", "related_logs__query"},
            config |-> {"config__read"},
            health |-> {"health__check"}]
Tools == {"knowledge__search"} \union UNION { ToolsOf[k] : k \in Kinds }
KindOf(t) == CHOOSE k \in Kinds : t \in ToolsOf[k]
Permission(t) == IF t = "knowledge__search" THEN "knowledge" ELSE KindOf(t)
Granted == {"knowledge"} \union Kinds  \* the permissions that every run is given

Routes == { "application", "network", "configuration" }
Strategies == Routes \union {"generic"}

Resources == [Kinds -> Stores \union {NoStore}]
Profile == [name : Nat, stores : [Kinds -> Stores \union {NoStore, Blank}]]
NoProfile == [name |-> NoName]

ASSUME StoresAssumption ==
  /\ NoStore \notin Stores /\ Blank \notin Stores /\ NoStore # Blank
  /\ KnowledgeBase # NoStore /\ NoService \notin Services /\ NoName \notin Nat
ASSUME InputsAssumption ==
  /\ Settings \subseteq Resources
  /\ Profiles \subseteq Profile
  /\ Texts \subseteq [Routes -> Nat]
  /\ Sizes \subseteq Nat /\ Budget \in Nat /\ MaxItems \in Nat /\ MaxCalls \in Nat

NoPlan == [steps |-> {}, expected |-> {}, tools |-> {}]
NoAnswer == [status |-> "none", summary |-> << >>, drafts |-> {}]
Failed == [NoAnswer EXCEPT !.status = "failed"]

AccessInit ==
  /\ settings \in Settings
  /\ catalogue = [s \in Services |-> NoProfile]
  /\ service = [c \in Cases |-> NoService]
  /\ text = [c \in Cases |-> [r \in Routes |-> 0]]
  /\ step = [c \in Cases |-> "new"]
  /\ strategy = [c \in Cases |-> "generic"]
  /\ resources = [c \in Cases |-> [k \in Kinds |-> NoStore]]
  /\ offered = [c \in Cases |-> {}]
  /\ plan = [c \in Cases |-> NoPlan]
  /\ evidence = [c \in Cases |-> {}]
  /\ answer = [c \in Cases |-> NoAnswer]
  /\ calls = [c \in Cases |-> 0]

-----------------------------------------------------------------------------
(* The service catalogue *)

\* A blank path is refused; blank targets are dropped only when they are used.
Acceptable(profile) == \A k \in Kinds \ {"health"} : profile.stores[k] # Blank

\* The name stands for the pair of name and environment, which is unique.
Taken(name) == \E s \in Services : catalogue[s].name = name

CreateService(s, profile) ==
  /\ catalogue[s] = NoProfile
  /\ Acceptable(profile) /\ ~Taken(profile.name)
  /\ catalogue' = [catalogue EXCEPT ![s] = profile]
  /\ UNCHANGED <<settings, inputs, step, run, work>>

CreateDiagnosis(c, s, matches) ==
  /\ step[c] = "new"
  /\ s # NoService => catalogue[s] # NoProfile
  /\ service' = [service EXCEPT ![c] = s]
  /\ text' = [text EXCEPT ![c] = matches]
  /\ step' = [step EXCEPT ![c] = "created"]
  /\ UNCHANGED <<shared, run, work>>

-----------------------------------------------------------------------------
(* The start of a run *)

\* The one route that matches the most patterns, if there is one.
Select(matches) ==
  LET Best == { r \in Routes : matches[r] > 0 /\ \A q \in Routes : matches[q] <= matches[r] }
  IN  IF \E r \in Routes : Best = {r} THEN CHOOSE r \in Routes : Best = {r} ELSE "generic"

Configured(profile) ==
  [k \in Kinds |-> IF profile.stores[k] = Blank THEN NoStore ELSE profile.stores[k]]

Unbound(c) == service[c] = NoService \/ catalogue[service[c]] = NoProfile
ResourcesOf(c) == IF Unbound(c) THEN settings ELSE Configured(catalogue[service[c]])

Resolve(c) ==
  /\ step[c] = "created"
  /\ strategy' = [strategy EXCEPT ![c] = Select(text[c])]
  /\ resources' = [resources EXCEPT ![c] = ResourcesOf(c)]
  /\ step' = [step EXCEPT ![c] = "resolved"]
  /\ UNCHANGED <<shared, inputs, offered, plan, work>>

\* An adapter refuses a directory that is not there, or a target that is not
\* local: run raises, and leaves the diagnosis without an AgentRun.
ResolveFails(c) ==
  /\ step[c] = "created"
  /\ ~Unbound(c) /\ \E k \in Kinds : ResourcesOf(c)[k] # NoStore
  /\ step' = [step EXCEPT ![c] = "stranded"]
  /\ UNCHANGED <<shared, inputs, run, work>>

\* ToolResourceContext.available_tool_names
Available(stores) ==
  {"knowledge__search"} \union UNION { ToolsOf[k] : k \in { k \in Kinds : stores[k] # NoStore } }

\* What the specialised strategies withhold.
Withheld ==
  [generic |-> {}, application |-> {"health__check"},
   network |-> ToolsOf.code, configuration |-> ToolsOf.code]

\* Variant: the tools of a kind are allowed when any adapter is there.
AllowAlways(name, available) == Tools \ Withheld[name]

\* A kind is allowed when the settings enable it or the run has its store.
Allowed(name, available) ==
  ({"knowledge__search"} \union
     UNION { ToolsOf[k] : k \in { k \in Kinds : settings[k] # NoStore
                                                  \/ ToolsOf[k] \cap available # {} } })
    \ Withheld[name]

Expects ==
  [knowledge__search |-> {"knowledge_entry"}, log__search |-> {"log_excerpt"},
   code__search |-> {"code_excerpt"}, code__read |-> {"code_excerpt"},
   config__read |-> {"config_excerpt"}, health__check |-> {"health_check"}]

PlanSteps(tools) ==
  { [tool |-> "none", expects |-> {"user_statement", "log_excerpt"}],
    [tool |-> "none", expects |-> {"cited_evidence"}] }
    \union { [tool |-> t, expects |-> Expects[t]] : t \in tools \cap DOMAIN Expects }

RuleBasedPlan(tools) ==
  LET steps == PlanSteps(tools)
  IN  [steps |-> steps, expected |-> UNION { s.expects : s \in steps }, tools |-> tools]

Resolvable(t, tools) == t \in Tools /\ t \in tools /\ Permission(t) \in Granted

Prepare(c) ==
  LET allowed == Allowed(strategy[c], Available(resources[c])) IN
  /\ step[c] = "resolved"
  /\ plan' = [plan EXCEPT ![c] = RuleBasedPlan(allowed)]
  /\ offered' = [offered EXCEPT ![c] = { t \in allowed : Resolvable(t, allowed) }]
  /\ step' = [step EXCEPT ![c] = "running"]
  /\ UNCHANGED <<shared, inputs, strategy, resources, work>>

-----------------------------------------------------------------------------
(* The tools: what each answers for the items that its adapter finds *)

Size(items) == FoldFunction(+, 0, items)

Answered(items, drafts) == [status |-> "success", summary |-> items, drafts |-> drafts]
Draft(type, store, items) ==
  { [type |-> type, store |-> store, size |-> items[i]] : i \in DOMAIN items }

\* All or nothing: what does not fit the budget is not answered.
Bounded(type, store, items) ==
  IF store = NoStore \/ Size(items) > Budget THEN Failed
  ELSE Answered(items, Draft(type, store, items))

CodeSearch(store, items)  == IF store = NoStore THEN Failed ELSE Answered(items, {})
CodeRead(store, items)    == Bounded("code_excerpt", store, items)
ConfigRead(store, items)  == Bounded("config_excerpt", store, items)
HealthCheck(store, items) == Bounded("health_check", store, items)
LogSearch(store, items)   == Bounded("log_excerpt", store, items)
RelatedLogs(store, items) == Bounded("log_excerpt", store, items)

\* The matches are dropped from the last until the rest fits.
Fitted(items) ==
  LET Fits(n) == Size(SubSeq(items, 1, n)) <= Budget
  IN  SubSeq(items, 1, CHOOSE n \in 0..Len(items) :
                         Fits(n) /\ \A m \in n + 1..Len(items) : ~Fits(m))

KnowledgeSearch(items) ==
  Answered(Fitted(items), Draft("knowledge_entry", KnowledgeBase, Fitted(items)))

Execute(t, store, items) ==
  [knowledge__search   |-> KnowledgeSearch(items),
   code__search        |-> CodeSearch(store, items),
   code__read          |-> CodeRead(store, items),
   config__read        |-> ConfigRead(store, items),
   health__check       |-> HealthCheck(store, items),
   log__search         |-> LogSearch(store, items),
   related_logs__query |-> RelatedLogs(store, items)][t]

\* The searches find several items, the others read one.
Finds(t) ==
  LET most == IF t \in {"knowledge__search", "code__search", "related_logs__query"}
              THEN MaxItems ELSE 1
      least == IF most = 1 THEN 1 ELSE 0
  IN  UNION { [1..n -> Sizes] : n \in least..most }

\* Variant: a tool reads its own store before that of the run.
OwnStoreFirst(c, t) ==
  IF t = "knowledge__search" THEN KnowledgeBase
  ELSE IF settings[KindOf(t)] # NoStore THEN settings[KindOf(t)] ELSE resources[c][KindOf(t)]

\* The store of the run, or else the one that the tool was built over.
StoreOf(c, t) ==
  IF t = "knowledge__search" THEN KnowledgeBase
  ELSE IF resources[c][KindOf(t)] # NoStore THEN resources[c][KindOf(t)] ELSE settings[KindOf(t)]

\* The evidence of what is found is stored before the model is told; a tool
\* that fails, or an adapter that raises, answers without drafts.
Keep(c, result) ==
  /\ answer' = [answer EXCEPT ![c] = result]
  /\ evidence' = [evidence EXCEPT ![c] = @ \union { [type |-> d.type, store |-> d.store] : d \in result.drafts }]
  /\ calls' = [calls EXCEPT ![c] = @ + 1]
  /\ UNCHANGED <<shared, inputs, step, run>>

CallTool(c, t) ==
  /\ step[c] = "running" /\ calls[c] < MaxCalls
  /\ Resolvable(t, offered[c])
  /\ \/ \E items \in Finds(t) : Keep(c, Execute(t, StoreOf(c, t), items))
     \/ Keep(c, Failed)

AccessNext ==
  \/ \E s \in Services, profile \in Profiles : CreateService(s, profile)
  \/ \E c \in Cases :
       \/ \E s \in Services \union {NoService}, matches \in Texts : CreateDiagnosis(c, s, matches)
       \/ Resolve(c) \/ ResolveFails(c) \/ Prepare(c)
       \/ \E t \in Tools : CallTool(c, t)

AccessSpec == AccessInit /\ [][AccessNext]_accessVars

-----------------------------------------------------------------------------
(* Properties *)

Evidence == [type : UNION { Expects[t] : t \in DOMAIN Expects },
             store : Stores \union {KnowledgeBase}]

AccessTypeOK ==
  /\ settings \in Settings
  /\ catalogue \in [Services -> Profiles \union {NoProfile}]
  /\ service \in [Cases -> Services \union {NoService}]
  /\ text \in [Cases -> [Routes -> Nat]]
  /\ step \in [Cases -> {"new", "created", "resolved", "stranded", "running"}]
  /\ strategy \in [Cases -> Strategies]
  /\ resources \in [Cases -> Resources]
  /\ offered \in [Cases -> SUBSET Tools]
  /\ DOMAIN plan = Cases /\ DOMAIN answer = Cases
  /\ evidence \in [Cases -> SUBSET Evidence]
  /\ calls \in [Cases -> 0..MaxCalls]

\* Although all runs share the tools, evidence comes from the store that the
\* service of its diagnosis configures, and only for a kind that it does not
\* configure from the store of the settings: never from another service's
\* (diagnoses.py, resolve; tools/*.py, execute).
EvidenceIsOfItsService ==
  \A c \in Cases : \A e \in evidence[c] :
    \/ e.store = KnowledgeBase
    \/ \E k \in Kinds :
         e.store = IF ~Unbound(c) /\ Configured(catalogue[service[c]])[k] # NoStore
                   THEN Configured(catalogue[service[c]])[k] ELSE settings[k]

\* What the model is offered and a reader of the plan is told can be had,
\* whatever mixture of profile and settings the run got: each tool that is
\* offered passes the registry and has an adapter, so that no call is wasted on
\* one that can only answer PermissionError; each step names a tool that is
\* offered; and all evidence that the tools store is of a type that the plan
\* expects (generic_application_error.py, allowed_tool_names;
\* domain/diagnosis_plan/models.py, create_rule_based).
OfferAndPlanAreKept ==
  \A c \in Cases : step[c] = "running" =>
    /\ \A t \in offered[c] : Resolvable(t, offered[c]) /\ StoreOf(c, t) # NoStore
    /\ \A s \in plan[c].steps : s.tool # "none" => s.tool \in offered[c]
    /\ \A e \in evidence[c] : e.type \in plan[c].expected
=============================================================================
