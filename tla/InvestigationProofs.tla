------------------------- MODULE InvestigationProofs -------------------------
(***************************************************************************)
(* What an investigation may read and what it tells the model, for any     *)
(* services, profiles, settings and texts and any number of calls, rounds, *)
(* replies and failures of the endpoint: its evidence is of its service,   *)
(* the tools that it is offered and the plan that is shown to people keep  *)
(* their promise, and every request is one that the protocol admits and    *)
(* shows the model all the evidence it may cite.                           *)
(***************************************************************************)
EXTENDS ServiceTools, ModelDialogue, TLAPS

(***************************************************************************)
(*                            THE TOOLS OF A RUN                           *)
(***************************************************************************)

-----------------------------------------------------------------------------
(* The tools *)

LEMMA KindsOfTools ==
  /\ \A k \in Kinds : ToolsOf[k] \subseteq Tools \ {"knowledge__search"}
  /\ \A t \in Tools \ {"knowledge__search"} : KindOf(t) \in Kinds /\ t \in ToolsOf[KindOf(t)]
  /\ \A k \in Kinds : \A t \in ToolsOf[k] : KindOf(t) = k
<1>1. \A j, k \in Kinds : j # k => ToolsOf[j] \intersect ToolsOf[k] = {}
  BY DEF Kinds, ToolsOf
<1>2. \A k \in Kinds : ToolsOf[k] \subseteq Tools \ {"knowledge__search"}
  BY DEF Kinds, ToolsOf, Tools
<1>3. \A t \in Tools \ {"knowledge__search"} : \E k \in Kinds : t \in ToolsOf[k]
  BY DEF Tools
<1>4. \A t \in Tools \ {"knowledge__search"} : KindOf(t) \in Kinds /\ t \in ToolsOf[KindOf(t)]
  BY <1>3 DEF KindOf
<1>5. \A k \in Kinds : \A t \in ToolsOf[k] : KindOf(t) = k
  BY <1>1, <1>2, <1>4
<1> QED
  BY <1>2, <1>4, <1>5

\* What a tool drafts is of its store and of a type that a plan expects of it.
LEMMA DraftsAreExpected ==
  ASSUME NEW t \in Tools, NEW store, NEW items, NEW d \in Execute(t, store, items).drafts
  PROVE  /\ d.store = IF t = "knowledge__search" THEN KnowledgeBase ELSE store
         /\ t \in DOMAIN Expects => d.type \in Expects[t]
         /\ t \notin DOMAIN Expects => d.type = "log_excerpt"
<1>1. ASSUME NEW type, NEW s, NEW i, NEW e \in Draft(type, s, i)
      PROVE  e.type = type /\ e.store = s
  BY <1>1 DEF Draft
<1>2. ASSUME NEW type, NEW s, NEW i, NEW e \in Bounded(type, s, i).drafts
      PROVE  e.type = type /\ e.store = s
  <2>1. Failed.drafts = {}
    BY DEF Failed, NoAnswer
  <2>2. Answered(i, Draft(type, s, i)).drafts = Draft(type, s, i)
    BY DEF Answered
  <2> QED
    BY <1>1, <1>2, <2>1, <2>2 DEF Bounded
<1>3. DOMAIN Expects = {"knowledge__search", "log__search", "code__search", "code__read",
                        "config__read", "health__check"}
  BY DEF Expects
<1>4. CASE t = "knowledge__search"
  <2>1. Execute(t, store, items) = KnowledgeSearch(items)
    BY <1>4 DEF Execute
  <2>2. d \in Draft("knowledge_entry", KnowledgeBase, Fitted(items))
    BY <2>1 DEF KnowledgeSearch, Answered
  <2> QED
    BY <1>1, <1>3, <1>4, <2>2 DEF Expects
<1>5. CASE t = "code__search"
  <2>1. Execute(t, store, items) = CodeSearch(store, items)
    BY <1>5 DEF Execute
  <2> QED
    BY <2>1 DEF CodeSearch, Answered, Failed, NoAnswer
<1>6. CASE t = "code__read"
  <2>1. d \in Bounded("code_excerpt", store, items).drafts
    BY <1>6 DEF Execute, CodeRead
  <2> QED
    BY <1>2, <1>3, <1>6, <2>1 DEF Expects
<1>7. CASE t = "config__read"
  <2>1. d \in Bounded("config_excerpt", store, items).drafts
    BY <1>7 DEF Execute, ConfigRead
  <2> QED
    BY <1>2, <1>3, <1>7, <2>1 DEF Expects
<1>8. CASE t = "health__check"
  <2>1. d \in Bounded("health_check", store, items).drafts
    BY <1>8 DEF Execute, HealthCheck
  <2> QED
    BY <1>2, <1>3, <1>8, <2>1 DEF Expects
<1>9. CASE t = "log__search"
  <2>1. d \in Bounded("log_excerpt", store, items).drafts
    BY <1>9 DEF Execute, LogSearch
  <2> QED
    BY <1>2, <1>3, <1>9, <2>1 DEF Expects
<1>10. CASE t = "related_logs__query"
  <2>1. d \in Bounded("log_excerpt", store, items).drafts
    BY <1>10 DEF Execute, RelatedLogs
  <2> QED
    BY <1>2, <1>3, <1>10, <2>1
<1>11. Tools = {"knowledge__search", "code__search", "code__read", "log__search",
                "related_logs__query", "config__read", "health__check"}
  BY DEF Tools, Kinds, ToolsOf
<1> QED
  BY <1>4, <1>5, <1>6, <1>7, <1>8, <1>9, <1>10, <1>11

-----------------------------------------------------------------------------
(* The inductive invariant *)

\* The service of a diagnosis is registered, and a run has the stores of it.
HasItsStores(c) ==
  /\ step[c] # "new" => service[c] = NoService \/ catalogue[service[c]] # NoProfile
  /\ step[c] \in {"resolved", "running"} => resources[c] = ResourcesOf(c)

AllowedTo(c) == Allowed(strategy[c], Available(resources[c]))

\* What Prepare decided of a run stays, as nothing that it was decided from changes.
IsPrepared(c) ==
  step[c] = "running" =>
    /\ offered[c] = { t \in AllowedTo(c) : Resolvable(t, AllowedTo(c)) }
    /\ plan[c] = RuleBasedPlan(AllowedTo(c))

FoundBy(c, t, e) ==
  /\ e.store = StoreOf(c, t)
  /\ t \in DOMAIN Expects => e.type \in Expects[t]
  /\ t \notin DOMAIN Expects => e.type = "log_excerpt"

\* Each row of evidence was found by a tool that was offered.
EvidenceIsFound(c) ==
  \A e \in evidence[c] : step[c] = "running" /\ \E t \in offered[c] : FoundBy(c, t, e)

AccessInv ==
  /\ AccessTypeOK
  /\ \A c \in Cases : HasItsStores(c) /\ IsPrepared(c) /\ EvidenceIsFound(c)

LEMMA AllowedAreTools ==
  ASSUME NEW name \in Strategies, NEW available
  PROVE  Allowed(name, available) \subseteq Tools
  BY KindsOfTools DEF Allowed, Tools, Kinds

LEMMA SelectsStrategy ==
  ASSUME NEW matches PROVE Select(matches) \in Strategies
<1> DEFINE Best == { r \in Routes : matches[r] > 0 /\ \A q \in Routes : matches[q] <= matches[r] }
<1>1. CASE \E r \in Routes : Best = {r}
  <2> DEFINE r == CHOOSE r \in Routes : Best = {r}
  <2>1. r \in Routes
    BY <1>1
  <2>2. Select(matches) = r
    BY <1>1 DEF Select
  <2> QED
    BY <2>1, <2>2 DEF Strategies
<1>2. CASE ~\E r \in Routes : Best = {r}
  BY <1>2 DEF Select, Strategies
<1> QED
  BY <1>1, <1>2

LEMMA ResourcesAreStores ==
  ASSUME AccessTypeOK, NEW c \in Cases
  PROVE  ResourcesOf(c) \in Resources
<1>1. CASE Unbound(c)
  BY <1>1, InputsAssumption DEF ResourcesOf, AccessTypeOK
<1>2. CASE ~Unbound(c)
  <2>1. service[c] \in Services /\ catalogue[service[c]] \in Profile
    BY <1>2, InputsAssumption DEF Unbound, AccessTypeOK
  <2>2. catalogue[service[c]].stores \in [Kinds -> Stores \union {NoStore, Blank}]
    BY <2>1 DEF Profile
  <2>3. Configured(catalogue[service[c]]) \in Resources
    BY <2>2 DEF Configured, Resources
  <2> QED
    BY <1>2, <2>3 DEF ResourcesOf
<1> QED
  BY <1>1, <1>2

LEMMA AccessStart == AccessInit => AccessInv
<1> SUFFICES ASSUME AccessInit PROVE AccessInv
  OBVIOUS
<1>1. AccessTypeOK
  BY InputsAssumption DEF AccessInit, AccessTypeOK, Resources, Strategies, Routes
<1>2. \A c \in Cases : step[c] = "new" /\ evidence[c] = {}
  BY DEF AccessInit
<1> QED
  BY <1>1, <1>2 DEF AccessInv, HasItsStores, IsPrepared, EvidenceIsFound

-----------------------------------------------------------------------------
(* The steps *)

\* What was decided and found is not touched by steps that leave the run alone.
LEMMA RunKept ==
  ASSUME NEW c \in Cases, IsPrepared(c), EvidenceIsFound(c), settings' = settings,
         step'[c] = "running" <=> step[c] = "running",
         strategy'[c] = strategy[c], resources'[c] = resources[c],
         offered'[c] = offered[c], plan'[c] = plan[c], evidence'[c] = evidence[c]
  PROVE  IsPrepared(c)' /\ EvidenceIsFound(c)'
<1>1. AllowedTo(c)' = AllowedTo(c)
  BY DEF AllowedTo, Allowed
<1>2. ASSUME NEW t PROVE StoreOf(c, t)' = StoreOf(c, t)
  BY DEF StoreOf
<1>3. IsPrepared(c)'
  BY <1>1 DEF IsPrepared
<1>4. ASSUME NEW e \in evidence'[c]
      PROVE  step'[c] = "running" /\ \E t \in offered'[c] : FoundBy(c, t, e)'
  <2>1. PICK t \in offered[c] : FoundBy(c, t, e)
    BY <1>4 DEF EvidenceIsFound
  <2>2. FoundBy(c, t, e)'
    BY <1>2, <2>1 DEF FoundBy
  <2> QED
    BY <1>4, <2>2 DEF EvidenceIsFound
<1> QED
  BY <1>3, <1>4 DEF EvidenceIsFound

\* A diagnosis that has not got its run yet has nothing of one.
LEMMA NoRunYet ==
  ASSUME NEW c \in Cases, EvidenceIsFound(c), step[c] # "running",
         step'[c] # "running", evidence'[c] = evidence[c]
  PROVE  IsPrepared(c)' /\ EvidenceIsFound(c)'
  BY DEF IsPrepared, EvidenceIsFound

\* Stores are kept while the diagnosis, its service and its profile stay the same.
LEMMA StoresKept ==
  ASSUME NEW c \in Cases, HasItsStores(c), settings' = settings,
         service'[c] = service[c], step'[c] = step[c], resources'[c] = resources[c],
         service[c] # NoService => catalogue'[service[c]] = catalogue[service[c]]
  PROVE  HasItsStores(c)'
<1>1. ResourcesOf(c)' = ResourcesOf(c)
  BY DEF ResourcesOf, Unbound
<1> QED
  BY <1>1 DEF HasItsStores

LEMMA CreateServiceStep ==
  ASSUME AccessInv, NEW s \in Services, NEW profile \in Profiles, CreateService(s, profile)
  PROVE  AccessInv'
<1> USE DEF AccessInv, CreateService, inputs, run, work
<1>1. AccessTypeOK'
  BY DEF AccessTypeOK
<1>2. ASSUME NEW c \in Cases PROVE HasItsStores(c)'
  <2>1. CASE step[c] = "new"
    BY <2>1 DEF HasItsStores
  <2>2. CASE step[c] # "new"
    <3>1. service[c] # NoService => service[c] \in Services /\ service[c] # s
      BY <2>2 DEF HasItsStores, AccessTypeOK
    <3>2. service[c] # NoService => catalogue'[service[c]] = catalogue[service[c]]
      BY <3>1 DEF AccessTypeOK
    <3> QED
      BY <3>2, StoresKept
  <2> QED
    BY <2>1, <2>2
<1>3. ASSUME NEW c \in Cases PROVE IsPrepared(c)' /\ EvidenceIsFound(c)'
  BY RunKept
<1> QED
  BY <1>1, <1>2, <1>3

LEMMA CreateDiagnosisStep ==
  ASSUME AccessInv, NEW c \in Cases, NEW s \in Services \union {NoService}, NEW matches \in Texts,
         CreateDiagnosis(c, s, matches)
  PROVE  AccessInv'
<1> USE DEF AccessInv, CreateDiagnosis, shared, run, work
<1>1. AccessTypeOK'
  BY InputsAssumption DEF AccessTypeOK
<1>2. HasItsStores(c)' /\ IsPrepared(c)' /\ EvidenceIsFound(c)'
  <2>1. service'[c] = s /\ step'[c] = "created"
    BY DEF AccessTypeOK
  <2>2. HasItsStores(c)'
    BY <2>1 DEF HasItsStores
  <2> QED
    BY <2>1, <2>2, NoRunYet
<1>3. ASSUME NEW d \in Cases, d # c PROVE HasItsStores(d)' /\ IsPrepared(d)' /\ EvidenceIsFound(d)'
  <2>1. service'[d] = service[d] /\ step'[d] = step[d]
    BY <1>3 DEF AccessTypeOK
  <2> QED
    BY <2>1, StoresKept, RunKept
<1> QED
  BY <1>1, <1>2, <1>3

LEMMA ResolveStep ==
  ASSUME AccessInv, NEW c \in Cases, Resolve(c) \/ ResolveFails(c)
  PROVE  AccessInv'
<1> USE DEF AccessInv, Resolve, ResolveFails, shared, inputs, run, work
<1>1. AccessTypeOK'
  <2>1. Select(text[c]) \in Strategies /\ ResourcesOf(c) \in Resources
    BY SelectsStrategy, ResourcesAreStores
  <2>2. CASE Resolve(c)
    BY <2>1, <2>2 DEF AccessTypeOK
  <2>3. CASE ResolveFails(c)
    BY <2>3 DEF AccessTypeOK
  <2> QED
    BY <2>2, <2>3
<1>2. HasItsStores(c)' /\ IsPrepared(c)' /\ EvidenceIsFound(c)'
  <2>1. step[c] = "created" /\ step'[c] \in {"resolved", "stranded"}
    BY DEF AccessTypeOK
  <2>2. ResourcesOf(c)' = ResourcesOf(c)
    BY DEF ResourcesOf, Unbound
  <2>3. step'[c] = "resolved" => resources'[c] = ResourcesOf(c)
    BY DEF AccessTypeOK
  <2>4. HasItsStores(c)'
    BY <2>1, <2>2, <2>3 DEF HasItsStores
  <2> QED
    BY <2>1, <2>4, NoRunYet
<1>3. ASSUME NEW d \in Cases, d # c PROVE HasItsStores(d)' /\ IsPrepared(d)' /\ EvidenceIsFound(d)'
  <2>1. step'[d] = step[d] /\ strategy'[d] = strategy[d] /\ resources'[d] = resources[d]
    BY <1>3 DEF AccessTypeOK
  <2> QED
    BY <2>1, StoresKept, RunKept
<1> QED
  BY <1>1, <1>2, <1>3

LEMMA PrepareStep ==
  ASSUME AccessInv, NEW c \in Cases, Prepare(c)
  PROVE  AccessInv'
<1> USE DEF AccessInv, Prepare, shared, inputs, work
<1>1. AllowedTo(c) \subseteq Tools
  BY AllowedAreTools DEF AccessTypeOK, AllowedTo
<1>2. /\ step[c] = "resolved" /\ step'[c] = "running"
      /\ offered'[c] = { t \in AllowedTo(c) : Resolvable(t, AllowedTo(c)) }
      /\ plan'[c] = RuleBasedPlan(AllowedTo(c))
  BY DEF AccessTypeOK, AllowedTo
<1>3. AccessTypeOK'
  <2>1. offered' \in [Cases -> SUBSET Tools]
    BY <1>1 DEF AccessTypeOK, AllowedTo
  <2> QED
    BY <2>1 DEF AccessTypeOK
<1>4. HasItsStores(c)'
  <2>1. ResourcesOf(c)' = ResourcesOf(c)
    BY DEF ResourcesOf, Unbound
  <2> QED
    BY <1>2, <2>1 DEF HasItsStores
<1>5. IsPrepared(c)' /\ EvidenceIsFound(c)'
  <2>1. AllowedTo(c)' = AllowedTo(c)
    BY DEF AllowedTo, Allowed
  <2>2. evidence'[c] = {}
    BY <1>2 DEF EvidenceIsFound
  <2> QED
    BY <1>2, <2>1, <2>2 DEF IsPrepared, EvidenceIsFound
<1>6. ASSUME NEW d \in Cases, d # c PROVE HasItsStores(d)' /\ IsPrepared(d)' /\ EvidenceIsFound(d)'
  <2>1. step'[d] = step[d] /\ offered'[d] = offered[d] /\ plan'[d] = plan[d]
    BY <1>6 DEF AccessTypeOK
  <2> QED
    BY <2>1, StoresKept, RunKept
<1> QED
  BY <1>3, <1>4, <1>5, <1>6

\* A tool that was offered has a store; what it drafts is of that store.
LEMMA DraftsAreFound ==
  ASSUME AccessInv, NEW c \in Cases, NEW t \in Tools, NEW items,
         NEW d \in Execute(t, StoreOf(c, t), items).drafts
  PROVE  FoundBy(c, t, [type |-> d.type, store |-> d.store])
<1>1. d.store = StoreOf(c, t)
  BY DraftsAreExpected DEF StoreOf
<1> QED
  BY <1>1, DraftsAreExpected DEF FoundBy

LEMMA KeepStep ==
  ASSUME AccessInv, NEW c \in Cases, NEW t \in offered[c], NEW result,
         step[c] = "running", calls[c] < MaxCalls, Keep(c, result),
         \A d \in result.drafts : /\ FoundBy(c, t, [type |-> d.type, store |-> d.store])
                                 /\ [type |-> d.type, store |-> d.store] \in Evidence
  PROVE  AccessInv'
<1> USE DEF AccessInv, Keep, shared, inputs, run
<1> DEFINE new == { [type |-> d.type, store |-> d.store] : d \in result.drafts }
<1>1. evidence'[c] = evidence[c] \union new /\ new \subseteq Evidence
  BY DEF AccessTypeOK
<1>2. AccessTypeOK'
  <2>1. calls' \in [Cases -> 0..MaxCalls]
    BY InputsAssumption DEF AccessTypeOK
  <2>2. evidence' \in [Cases -> SUBSET Evidence]
    BY <1>1 DEF AccessTypeOK
  <2> QED
    BY <2>1, <2>2 DEF AccessTypeOK
<1>3. ASSUME NEW d \in Cases PROVE HasItsStores(d)'
  BY StoresKept
<1>4. IsPrepared(c)' /\ EvidenceIsFound(c)'
  <2>1. IsPrepared(c)'
    BY DEF IsPrepared, AllowedTo, Allowed
  <2>2. ASSUME NEW u PROVE StoreOf(c, u)' = StoreOf(c, u)
    BY DEF StoreOf
  <2>3. ASSUME NEW e \in evidence'[c] PROVE \E u \in offered[c] : FoundBy(c, u, e)
    BY <1>1, <2>3 DEF EvidenceIsFound
  <2>4. ASSUME NEW e, NEW u, FoundBy(c, u, e) PROVE FoundBy(c, u, e)'
    BY <2>2, <2>4 DEF FoundBy
  <2> QED
    BY <2>1, <2>3, <2>4 DEF EvidenceIsFound
<1>5. ASSUME NEW d \in Cases, d # c PROVE IsPrepared(d)' /\ EvidenceIsFound(d)'
  <2>1. evidence'[d] = evidence[d]
    BY <1>5 DEF AccessTypeOK
  <2> QED
    BY <2>1, RunKept
<1> QED
  BY <1>2, <1>3, <1>4, <1>5

\* A tool that was offered has an adapter.
LEMMA OfferedHaveStores ==
  ASSUME AccessInv, NEW c \in Cases, step[c] = "running", NEW t \in offered[c]
  PROVE  t \in Tools /\ Resolvable(t, offered[c]) /\ StoreOf(c, t) # NoStore
                     /\ StoreOf(c, t) \in Stores \union {KnowledgeBase}
<1>1. t \in AllowedTo(c) /\ Resolvable(t, AllowedTo(c)) /\ t \in Tools
  BY DEF AccessInv, IsPrepared, Resolvable
<1>2. Resolvable(t, offered[c])
  BY <1>1 DEF Resolvable
<1>3. CASE t = "knowledge__search"
  BY <1>1, <1>2, <1>3, StoresAssumption DEF StoreOf
<1>4. CASE t # "knowledge__search"
  <2> DEFINE k == KindOf(t)
  <2>1. k \in Kinds /\ t \in ToolsOf[k] /\ \A j \in Kinds : t \in ToolsOf[j] => j = k
    BY <1>1, <1>4, KindsOfTools
  <2>2. settings[k] # NoStore \/ ToolsOf[k] \cap Available(resources[c]) # {}
    BY <1>1, <1>4, <2>1 DEF AllowedTo, Allowed
  <2>3. ToolsOf[k] \cap Available(resources[c]) # {} => resources[c][k] # NoStore
    <3> SUFFICES ASSUME NEW u \in ToolsOf[k], u \in Available(resources[c]) PROVE resources[c][k] # NoStore
      OBVIOUS
    <3>1. u # "knowledge__search" /\ \A j \in Kinds : u \in ToolsOf[j] => j = k
      BY <2>1, KindsOfTools
    <3>2. PICK j \in Kinds : resources[c][j] # NoStore /\ u \in ToolsOf[j]
      BY <3>1 DEF Available
    <3> QED
      BY <3>1, <3>2
  <2>4. settings[k] \in Stores \union {NoStore} /\ resources[c][k] \in Stores \union {NoStore}
    BY <2>1, InputsAssumption DEF AccessInv, AccessTypeOK, Resources
  <2> QED
    BY <1>1, <1>2, <1>4, <2>2, <2>3, <2>4 DEF StoreOf
<1> QED
  BY <1>3, <1>4

LEMMA CallToolStep ==
  ASSUME AccessInv, NEW c \in Cases, NEW t \in Tools, CallTool(c, t)
  PROVE  AccessInv'
<1>1. step[c] = "running" /\ calls[c] < MaxCalls /\ t \in offered[c]
  BY DEF CallTool, Resolvable
<1>2. CASE Keep(c, Failed)
  <2>1. Failed.drafts = {}
    BY DEF Failed, NoAnswer
  <2> QED
    BY <1>1, <1>2, <2>1, KeepStep
<1>3. ASSUME NEW items \in Finds(t), Keep(c, Execute(t, StoreOf(c, t), items)) PROVE AccessInv'
  <2> DEFINE result == Execute(t, StoreOf(c, t), items)
  <2>1. ASSUME NEW d \in result.drafts
        PROVE  /\ FoundBy(c, t, [type |-> d.type, store |-> d.store])
               /\ [type |-> d.type, store |-> d.store] \in Evidence
    <3>1. FoundBy(c, t, [type |-> d.type, store |-> d.store])
      BY <2>1, DraftsAreFound
    <3>2. d.store \in Stores \union {KnowledgeBase}
      BY <1>1, <3>1, OfferedHaveStores DEF FoundBy
    <3>3. d.type \in UNION { Expects[u] : u \in DOMAIN Expects }
      <4>1. "log_excerpt" \in Expects["log__search"] /\ "log__search" \in DOMAIN Expects
        BY DEF Expects
      <4>2. CASE t \in DOMAIN Expects
        BY <3>1, <4>2 DEF FoundBy
      <4>3. CASE t \notin DOMAIN Expects
        BY <3>1, <4>1, <4>3 DEF FoundBy
      <4> QED
        BY <4>2, <4>3
    <3> QED
      BY <3>1, <3>2, <3>3 DEF Evidence
  <2> QED
    BY <1>1, <1>3, <2>1, KeepStep
<1> QED
  BY <1>2, <1>3 DEF CallTool

LEMMA AccessStep == AccessInv /\ [AccessNext]_accessVars => AccessInv'
<1> SUFFICES ASSUME AccessInv, [AccessNext]_accessVars PROVE AccessInv'
  OBVIOUS
<1>1. CASE UNCHANGED accessVars
  <2> USE <1>1 DEF accessVars, shared, inputs, run, work
  <2>1. AccessTypeOK'
    BY DEF AccessInv, AccessTypeOK
  <2>2. \A c \in Cases : HasItsStores(c)' /\ IsPrepared(c)' /\ EvidenceIsFound(c)'
    BY StoresKept, RunKept DEF AccessInv
  <2> QED
    BY <2>1, <2>2 DEF AccessInv
<1>2. CASE AccessNext
  BY <1>2, CreateServiceStep, CreateDiagnosisStep, ResolveStep, PrepareStep, CallToolStep DEF AccessNext
<1> QED
  BY <1>1, <1>2

-----------------------------------------------------------------------------
(* The theorems *)

\* Every variable of ServiceTools keeps its type, for any services and settings.
THEOREM AccessIsTyped == AccessSpec => []AccessTypeOK
<1>1. AccessInv => AccessTypeOK
  BY DEF AccessInv
<1> QED
  BY AccessStart, AccessStep, <1>1, PTL DEF AccessSpec

LEMMA FoundEvidenceIsOfItsService ==
  ASSUME AccessInv PROVE EvidenceIsOfItsService
<1> SUFFICES ASSUME NEW c \in Cases, NEW e \in evidence[c], e.store # KnowledgeBase
             PROVE  \E k \in Kinds :
                      e.store = IF ~Unbound(c) /\ Configured(catalogue[service[c]])[k] # NoStore
                                THEN Configured(catalogue[service[c]])[k] ELSE settings[k]
  BY DEF EvidenceIsOfItsService
<1>1. PICK t \in offered[c] : FoundBy(c, t, e)
  BY DEF AccessInv, EvidenceIsFound
<1>2. step[c] = "running" /\ resources[c] = ResourcesOf(c)
  BY DEF AccessInv, EvidenceIsFound, HasItsStores
<1>3. t \in Tools /\ t # "knowledge__search" /\ e.store = StoreOf(c, t)
  BY <1>1, <1>2, OfferedHaveStores DEF FoundBy, StoreOf
<1>4. KindOf(t) \in Kinds
  BY <1>3, KindsOfTools
<1> QED
  BY <1>2, <1>3, <1>4 DEF StoreOf, ResourcesOf

\* Evidence is of the service of its diagnosis, however many services, runs and
\* tools share the application: no store of another service is ever read.
THEOREM EvidenceBelongs == AccessSpec => []EvidenceIsOfItsService
<1>1. AccessInv => EvidenceIsOfItsService
  BY FoundEvidenceIsOfItsService
<1> QED
  BY AccessStart, AccessStep, <1>1, PTL DEF AccessSpec

LEMMA PreparedRunsKeepOffers ==
  ASSUME AccessInv PROVE OfferAndPlanAreKept
<1> SUFFICES ASSUME NEW c \in Cases, step[c] = "running"
             PROVE  /\ \A t \in offered[c] : Resolvable(t, offered[c]) /\ StoreOf(c, t) # NoStore
                    /\ \A s \in plan[c].steps : s.tool # "none" => s.tool \in offered[c]
                    /\ \A e \in evidence[c] : e.type \in plan[c].expected
  BY DEF OfferAndPlanAreKept
<1>1. \A t \in offered[c] : Resolvable(t, offered[c]) /\ StoreOf(c, t) # NoStore
  BY OfferedHaveStores
<1> DEFINE allowed == AllowedTo(c)
<1>2. /\ offered[c] = { t \in allowed : Resolvable(t, allowed) }
      /\ plan[c] = RuleBasedPlan(allowed)
  BY DEF AccessInv, IsPrepared
<1>3. allowed \subseteq Tools
  BY AllowedAreTools DEF AccessInv, AccessTypeOK, AllowedTo
<1>4. ASSUME NEW t \in allowed PROVE t \in offered[c]
  <2>1. Permission(t) \in Granted
    BY <1>3, KindsOfTools DEF Permission, Granted
  <2> QED
    BY <1>2, <1>3, <2>1 DEF Resolvable
<1>5. plan[c].steps = PlanSteps(allowed) /\ plan[c].expected = UNION { s.expects : s \in PlanSteps(allowed) }
  BY <1>2 DEF RuleBasedPlan
<1>6. \A s \in plan[c].steps : s.tool # "none" => s.tool \in offered[c]
  BY <1>4, <1>5 DEF PlanSteps
<1>7. ASSUME NEW e \in evidence[c] PROVE e.type \in plan[c].expected
  <2>1. PICK t \in offered[c] : FoundBy(c, t, e)
    BY DEF AccessInv, EvidenceIsFound
  <2>2. CASE t \in DOMAIN Expects
    <3> DEFINE s == [tool |-> t, expects |-> Expects[t]]
    <3>1. s \in PlanSteps(allowed)
      BY <1>2, <2>1, <2>2 DEF PlanSteps
    <3>2. e.type \in s.expects
      BY <2>1, <2>2 DEF FoundBy
    <3> QED
      BY <1>5, <3>1, <3>2
  <2>3. CASE t \notin DOMAIN Expects
    <3> DEFINE s == [tool |-> "none", expects |-> {"user_statement", "log_excerpt"}]
    <3>1. s \in PlanSteps(allowed)
      BY DEF PlanSteps
    <3>2. e.type \in s.expects
      BY <2>1, <2>3 DEF FoundBy
    <3> QED
      BY <1>5, <3>1, <3>2
  <2> QED
    BY <2>2, <2>3
<1> QED
  BY <1>1, <1>6, <1>7

\* What a run is offered can be had, and its plan foretells its evidence, for
\* all profiles, settings and texts.
THEOREM PromisesAreKept == AccessSpec => []OfferAndPlanAreKept
<1>1. AccessInv => OfferAndPlanAreKept
  BY PreparedRunsKeepOffers
<1> QED
  BY AccessStart, AccessStep, <1>1, PTL DEF AccessSpec

(***************************************************************************)
(*                       THE DIALOGUE WITH THE MODEL                       *)
(***************************************************************************)

AllEvidence == Earlier \union Drafted \union Elsewhere

Said ==
  [role : {"system", "user", "assistant", "tool"}, calls : Seq(CallIds \union {BlankId}),
   id : CallIds \union {BlankId, NoId}, tells : SUBSET AllEvidence]

\* Only the assistant calls, and only the answer of a call has an id.
InRole(m) == (m.role # "assistant" => m.calls = << >>) /\ (m.role # "tool" => m.id = NoId)

DialogueTypeOK ==
  /\ messages \in Seq(Said)
  /\ \A i \in DOMAIN messages : InRole(messages[i])
  /\ asked \in Seq(CallIds \union {BlankId})
  /\ final \in BOOLEAN
  /\ stored \subseteq AllEvidence
  /\ turn \in {"ready", "posted", "calls", "instruct", "ended"}

\* Of the calls at k those that are not among `due` have been answered, in order.
RepliedTo(k, due) ==
  /\ k + Len(messages[k].calls) = Len(messages) + Len(due)
  /\ \A j \in DOMAIN messages[k].calls :
       IF k + j <= Len(messages)
       THEN messages[k + j].role = "tool" /\ messages[k + j].id = messages[k].calls[j]
       ELSE due[k + j - Len(messages)] = messages[k].calls[j]

\* All calls at k have been answered, and something else may have been said.
Settled(k) ==
  /\ k + Len(messages[k].calls) <= Len(messages)
  /\ \A j \in DOMAIN messages[k].calls :
       messages[k + j].role = "tool" /\ messages[k + j].id = messages[k].calls[j]

CallsAt(k) == k \in DOMAIN messages /\ messages[k].calls # << >>

\* An answer stands where some calls want one.
AnswersBelong ==
  \A i \in DOMAIN messages : messages[i].role = "tool" =>
    \E k \in DOMAIN messages : CallsAt(k) /\ k < i /\ i <= k + Len(messages[k].calls)

CallsAreAnswered ==
  /\ turn \in {"ready", "posted", "instruct"} => \A k \in DOMAIN messages : CallsAt(k) => Settled(k)
  /\ turn = "calls" => \E k \in DOMAIN messages :
       /\ CallsAt(k) /\ RepliedTo(k, asked)
       /\ \A i \in DOMAIN messages \ {k} : CallsAt(i) => Settled(i)

ModelIsNext ==
  turn \in {"ready", "posted"} =>
    /\ messages # << >>
    /\ messages[Len(messages)].role \in {"user", "tool"}
    /\ final => messages[Len(messages)].role = "user"

Told == UNION { messages[i].tells : i \in DOMAIN messages }

AllIsTold == turn # "ended" => Earlier \union found \subseteq Told /\ Told \subseteq stored

RequestIsDialogue ==
  turn = "posted" => wire = [messages |-> messages, tools |-> ~final]

DialogueInv ==
  /\ DialogueTypeOK /\ AnswersBelong /\ CallsAreAnswered /\ ModelIsNext /\ AllIsTold
  /\ RequestIsDialogue

-----------------------------------------------------------------------------

LEMMA DialogueStarts == DialogueInit => DialogueInv
<1> SUFFICES ASSUME DialogueInit PROVE DialogueInv
  OBVIOUS
<1>1. /\ Len(messages) = 2 /\ DOMAIN messages = {1, 2}
      /\ messages[1] = [role |-> "system", calls |-> << >>, id |-> NoId, tells |-> {}]
      /\ messages[2] = [role |-> "user", calls |-> << >>, id |-> NoId, tells |-> Earlier]
  BY DEF DialogueInit, System, User, Message
<1>2. DialogueTypeOK
  <2>1. System \in Said /\ User(Earlier) \in Said
    BY DEF Said, System, User, Message, AllEvidence
  <2>2. messages \in Seq(Said)
    BY <2>1 DEF DialogueInit
  <2>3. \A i \in DOMAIN messages : InRole(messages[i])
    BY <1>1 DEF InRole
  <2>4. final \in BOOLEAN /\ asked = << >>
    BY Zenon DEF DialogueInit
  <2>5. asked \in Seq(CallIds \union {BlankId})
    BY <2>4
  <2>6. stored \subseteq AllEvidence /\ turn = "ready"
    BY DEF DialogueInit, AllEvidence
  <2> QED
    BY <2>2, <2>3, <2>4, <2>5, <2>6 DEF DialogueTypeOK
<1>3. Told = Earlier /\ stored = Earlier /\ found = {}
  <2>1. Told = messages[1].tells \union messages[2].tells
    BY <1>1 DEF Told
  <2>2. stored = Earlier /\ found = {}
    BY DEF DialogueInit
  <2> QED
    BY <1>1, <2>1, <2>2
<1>4. turn = "ready" /\ final = FALSE
  BY DEF DialogueInit
<1>5. AnswersBelong /\ CallsAreAnswered
  BY <1>1, <1>4 DEF AnswersBelong, CallsAreAnswered, CallsAt
<1>6. ModelIsNext
  BY <1>1, <1>4 DEF ModelIsNext
<1>7. AllIsTold
  BY <1>3 DEF AllIsTold
<1> QED
  BY <1>2, <1>4, <1>5, <1>6, <1>7 DEF DialogueInv, RequestIsDialogue

\* What one more message leaves as it was.
LEMMA OneMore ==
  ASSUME DialogueInv, NEW m \in Said, messages' = Append(messages, m)
  PROVE  /\ Len(messages') = Len(messages) + 1 /\ messages' \in Seq(Said)
         /\ DOMAIN messages' = DOMAIN messages \union {Len(messages')}
         /\ Len(messages') \notin DOMAIN messages
         /\ \A i \in DOMAIN messages : messages'[i] = messages[i]
         /\ messages'[Len(messages')] = m
         /\ Told' = Told \union m.tells
<1> USE DEF DialogueInv, DialogueTypeOK
<1>1. messages \in Seq(Said) /\ Len(messages) \in Nat
  OBVIOUS
<1>2. /\ Len(messages') = Len(messages) + 1 /\ messages' \in Seq(Said)
      /\ DOMAIN messages' = 1..Len(messages) + 1 /\ DOMAIN messages = 1..Len(messages)
      /\ \A i \in DOMAIN messages : messages'[i] = messages[i]
      /\ messages'[Len(messages) + 1] = m
  BY <1>1
<1>3. DOMAIN messages' = DOMAIN messages \union {Len(messages')} /\ Len(messages') \notin DOMAIN messages
  BY <1>1, <1>2
<1>4. UNION { messages'[i].tells : i \in DOMAIN messages' } =
        (UNION { messages[i].tells : i \in DOMAIN messages }) \union m.tells
  <2>1. ASSUME NEW e PROVE
          (\E i \in DOMAIN messages' : e \in messages'[i].tells)
            <=> (\E i \in DOMAIN messages : e \in messages[i].tells) \/ e \in m.tells
    <3>1. ASSUME NEW i \in DOMAIN messages', e \in messages'[i].tells
          PROVE  (\E h \in DOMAIN messages : e \in messages[h].tells) \/ e \in m.tells
      <4>1. CASE i \in DOMAIN messages
        BY <1>2, <3>1, <4>1
      <4>2. CASE i = Len(messages')
        BY <1>2, <3>1, <4>2
      <4> QED
        BY <1>3, <4>1, <4>2
    <3>2. ASSUME NEW i \in DOMAIN messages, e \in messages[i].tells
          PROVE  i \in DOMAIN messages' /\ e \in messages'[i].tells
      BY <1>2, <1>3, <3>2
    <3>3. Len(messages') \in DOMAIN messages' /\ messages'[Len(messages')].tells = m.tells
      BY <1>2, <1>3
    <3> QED
      BY <3>1, <3>2, <3>3
  <2> DEFINE told == { messages[i].tells : i \in DOMAIN messages }
             now == { messages'[i].tells : i \in DOMAIN messages' }
  <2>2. \A e : e \in UNION now <=> e \in (UNION told) \/ e \in m.tells
    BY <2>1
  <2> HIDE DEF told, now
  <2>3. UNION now = (UNION told) \union m.tells
    <3>1. UNION now \subseteq (UNION told) \union m.tells
      BY <2>2, Zenon
    <3>2. (UNION told) \union m.tells \subseteq UNION now
      BY <2>2, Zenon
    <3> QED
      BY <3>1, <3>2, Zenon
  <2> QED
    BY <2>3 DEF told, now
<1>5. Told' = Told \union m.tells
  BY <1>4 DEF Told
<1> QED
  BY <1>2, <1>3, <1>5

\* What is settled stays settled.
LEMMA SettledStays ==
  ASSUME DialogueInv, NEW m \in Said, messages' = Append(messages, m),
         NEW k \in DOMAIN messages, Settled(k)
  PROVE  Settled(k)'
<1>1. /\ Len(messages) \in Nat /\ k \in 1..Len(messages) /\ DOMAIN messages = 1..Len(messages)
      /\ messages[k] \in Said
  BY DEF DialogueInv, DialogueTypeOK
<1>2. messages[k].calls \in Seq(CallIds \union {BlankId})
  BY <1>1 DEF Said
<1>3. \A j \in DOMAIN messages[k].calls : k + j \in DOMAIN messages
  BY <1>1, <1>2 DEF Settled
<1>4. messages'[k] = messages[k] /\ Len(messages') = Len(messages) + 1
  BY OneMore
<1>5. \A j \in DOMAIN messages[k].calls : messages'[k + j] = messages[k + j]
  BY <1>3, OneMore
<1> QED
  BY <1>1, <1>2, <1>4, <1>5 DEF Settled

\* An answer that belonged to some calls still does.
LEMMA BelongsStill ==
  ASSUME DialogueInv, NEW m \in Said, messages' = Append(messages, m),
         m.role = "tool" =>
           \E k \in DOMAIN messages : CallsAt(k) /\ k <= Len(messages)
                                      /\ Len(messages) < k + Len(messages[k].calls)
  PROVE  AnswersBelong'
<1> SUFFICES ASSUME NEW i \in DOMAIN messages', messages'[i].role = "tool"
             PROVE  \E k \in DOMAIN messages' : CallsAt(k)' /\ k < i /\ i <= k + Len(messages'[k].calls)
  BY DEF AnswersBelong
<1>1. \A k \in DOMAIN messages : messages'[k] = messages[k] /\ k \in DOMAIN messages'
  BY OneMore
<1>2. \A k \in DOMAIN messages : CallsAt(k) => CallsAt(k)'
  BY <1>1 DEF CallsAt
<1>3. CASE i \in DOMAIN messages
  <2>1. messages[i].role = "tool"
    BY <1>1, <1>3
  <2>2. PICK k \in DOMAIN messages : CallsAt(k) /\ k < i /\ i <= k + Len(messages[k].calls)
    BY <1>3, <2>1 DEF DialogueInv, AnswersBelong
  <2> QED
    BY <1>1, <1>2, <2>2
<1>4. CASE i = Len(messages')
  <2>1. /\ m.role = "tool" /\ i = Len(messages) + 1
        /\ Len(messages) \in Nat /\ DOMAIN messages = 1..Len(messages)
    BY <1>4, OneMore DEF DialogueInv, DialogueTypeOK
  <2>2. PICK k \in DOMAIN messages : CallsAt(k) /\ k <= Len(messages)
                                      /\ Len(messages) < k + Len(messages[k].calls)
    BY <2>1
  <2>3. messages[k] \in Said /\ messages[k].calls \in Seq(CallIds \union {BlankId})
    <3>1. messages[k] \in Said
      BY <2>1, <2>2 DEF DialogueInv, DialogueTypeOK
    <3> QED
      BY <3>1 DEF Said
  <2>4. Len(messages[k].calls) \in Nat /\ k \in Nat
    BY <2>1, <2>3
  <2>5. k < i /\ i <= k + Len(messages[k].calls)
    BY <2>1, <2>2, <2>4
  <2> QED
    BY <1>1, <1>2, <2>2, <2>5
<1> QED
  BY <1>3, <1>4, OneMore

\* A message that calls nothing leaves all calls settled.
LEMMA AllSettled ==
  ASSUME DialogueInv, NEW m \in Said, messages' = Append(messages, m), m.calls = << >>,
         \A k \in DOMAIN messages : CallsAt(k) => Settled(k)
  PROVE  \A k \in DOMAIN messages' : CallsAt(k)' => Settled(k)'
<1> SUFFICES ASSUME NEW k \in DOMAIN messages', CallsAt(k)' PROVE Settled(k)'
  OBVIOUS
<1>1. k \in DOMAIN messages /\ messages'[k] = messages[k]
  BY OneMore DEF CallsAt
<1>2. CallsAt(k)
  BY <1>1 DEF CallsAt
<1> QED
  BY <1>1, <1>2, SettledStays

-----------------------------------------------------------------------------
\* What each action keeps.

\* The end of a run wants the types and no stray answer.
LEMMA EndKeeps ==
  ASSUME DialogueTypeOK', AnswersBelong', turn' = "ended"
  PROVE  DialogueInv'
BY DEF DialogueInv, CallsAreAnswered, ModelIsNext, AllIsTold, RequestIsDialogue

LEMMA SameMessages ==
  ASSUME DialogueInv, UNCHANGED messages
  PROVE  AnswersBelong' /\ \A k : (CallsAt(k)' <=> CallsAt(k)) /\ (Settled(k)' <=> Settled(k))
BY DEF DialogueInv, AnswersBelong, CallsAt, Settled

\* The client sends what was said.
LEMMA NothingIsDropped ==
  ASSUME DialogueInv
  PROVE  [i \in DOMAIN messages |-> Serialized(messages[i])] = messages
<1>1. messages \in Seq(Said)
  BY DEF DialogueInv, DialogueTypeOK
<1>2. ASSUME NEW i \in DOMAIN messages PROVE Serialized(messages[i]) = messages[i]
  <2>1. messages[i] \in Said /\ InRole(messages[i])
    BY <1>1 DEF DialogueInv, DialogueTypeOK
  <2> DEFINE m == messages[i]
  <2>2. /\ (IF m.role = "assistant" THEN m.calls ELSE << >>) = m.calls
        /\ (IF m.role = "tool" THEN m.id ELSE NoId) = m.id
    BY <2>1 DEF InRole
  <2>3. Serialized(m) = [[m EXCEPT !.calls = m.calls] EXCEPT !.id = m.id]
    BY <2>2 DEF Serialized
  <2>4. [[m EXCEPT !.calls = m.calls] EXCEPT !.id = m.id] = m
    BY <2>1 DEF Said
  <2> QED
    BY <2>3, <2>4
<1> QED
  BY <1>1, <1>2

LEMMA PostKeeps == DialogueInv /\ Post => DialogueInv'
<1> SUFFICES ASSUME DialogueInv, Post PROVE DialogueInv'
  OBVIOUS
<1>1. UNCHANGED <<messages, final, asked, stored, found>> /\ turn = "ready" /\ turn' \in {"posted", "ended"}
  BY DEF Post, End
<1>2. DialogueTypeOK'
  BY <1>1 DEF DialogueInv, DialogueTypeOK
<1>3. AnswersBelong' /\ \A k : (CallsAt(k)' <=> CallsAt(k)) /\ (Settled(k)' <=> Settled(k))
  BY <1>1, SameMessages
<1>4. CASE turn' = "ended"
  BY <1>2, <1>3, <1>4, EndKeeps
<1>5. CASE turn' = "posted"
  <2>1. RequestIsDialogue'
    <3>1. wire' = [messages |-> [i \in DOMAIN messages |-> Serialized(messages[i])], tools |-> ~final]
      BY <1>5 DEF Post, End
    <3>2. wire' = [messages |-> messages, tools |-> ~final]
      BY <3>1, NothingIsDropped
    <3> QED
      BY <1>1, <3>2 DEF RequestIsDialogue
  <2>2. CallsAreAnswered'
    BY <1>1, <1>3, <1>5 DEF DialogueInv, CallsAreAnswered
  <2>3. ModelIsNext' /\ AllIsTold'
    BY <1>1, <1>5 DEF DialogueInv, ModelIsNext, AllIsTold, Told
  <2> QED
    BY <1>2, <1>3, <2>1, <2>2, <2>3 DEF DialogueInv
<1> QED
  BY <1>1, <1>4, <1>5

LEMMA FailureKeeps == DialogueInv /\ (EndpointFails \/ TimeIsUp \/ RunFails) => DialogueInv'
<1> SUFFICES ASSUME DialogueInv, EndpointFails \/ TimeIsUp \/ RunFails PROVE DialogueInv'
  OBVIOUS
<1>1. UNCHANGED <<messages, final, asked>> /\ turn' = "ended"
  BY DEF EndpointFails, TimeIsUp, RunFails, End
<1>2. stored' \subseteq stored \union Drafted
  BY DEF EndpointFails, TimeIsUp, RunFails
<1>3. DialogueTypeOK'
  BY <1>1, <1>2 DEF DialogueInv, DialogueTypeOK, AllEvidence
<1> QED
  BY <1>1, <1>3, SameMessages, EndKeeps

\* Others change what is stored, and nothing else.
LEMMA OthersKeep == DialogueInv /\ OthersAdd => DialogueInv'
<1> SUFFICES ASSUME DialogueInv, OthersAdd PROVE DialogueInv'
  OBVIOUS
<1>1. UNCHANGED <<messages, final, asked, found, turn, wire>>
  BY DEF OthersAdd
<1>2. stored \subseteq stored' /\ stored' \subseteq stored \union Elsewhere
  BY DEF OthersAdd
<1>3. DialogueTypeOK'
  BY <1>1, <1>2 DEF DialogueInv, DialogueTypeOK, AllEvidence
<1>4. AllIsTold'
  BY <1>1, <1>2 DEF DialogueInv, AllIsTold, Told
<1>5. ModelIsNext' /\ RequestIsDialogue'
  BY <1>1 DEF DialogueInv, ModelIsNext, RequestIsDialogue
<1>6. AnswersBelong' /\ CallsAreAnswered'
  BY <1>1 DEF DialogueInv, AnswersBelong, CallsAreAnswered, CallsAt, Settled, RepliedTo
<1> QED
  BY <1>3, <1>4, <1>5, <1>6 DEF DialogueInv

\* What an assistant's message changes.
LEMMA ReceiveKeeps == DialogueInv /\ Receive => DialogueInv'
<1> SUFFICES ASSUME DialogueInv, Receive PROVE DialogueInv'
  OBVIOUS
<1>1. PICK reply \in Reply :
        \/ Conclude(reply) \/ CallTools(reply)
        \/ turn' = "ended" /\ UNCHANGED <<messages, final, asked>>
  BY DEF Receive, End
<1>2. turn = "posted" /\ UNCHANGED <<stored, found, wire>>
  BY DEF Receive
<1>3. reply.calls \in Seq(CallIds \union {BlankId})
  BY DialogueAssumption DEF Reply
<1>4. \A k \in DOMAIN messages : CallsAt(k) => Settled(k)
  BY <1>2 DEF DialogueInv, CallsAreAnswered
<1>5. CASE turn' = "ended" /\ UNCHANGED <<messages, final, asked>>
  <2>1. DialogueTypeOK'
    BY <1>2, <1>5 DEF DialogueInv, DialogueTypeOK
  <2> QED
    BY <1>5, <2>1, SameMessages, EndKeeps
<1>6. ASSUME NEW called \in Seq(CallIds \union {BlankId}), messages' = Append(messages, Assistant(called)),
             final' \in BOOLEAN, asked' \in Seq(CallIds \union {BlankId}),
             turn' \in {"calls", "instruct", "ended"}
      PROVE  /\ DialogueTypeOK' /\ AnswersBelong' /\ AllIsTold'
             /\ Assistant(called) \in Said
  <2>1. Assistant(called) \in Said /\ InRole(Assistant(called)) /\ Assistant(called).tells = {}
        /\ Assistant(called).role # "tool"
    BY DEF Assistant, Message, Said, InRole
  <2>2. AnswersBelong'
    BY <1>6, <2>1, BelongsStill
  <2>3. messages' \in Seq(Said) /\ \A i \in DOMAIN messages' : InRole(messages'[i])
    BY <1>6, <2>1, OneMore DEF DialogueInv, DialogueTypeOK
  <2>4. DialogueTypeOK'
    BY <1>2, <1>6, <2>3 DEF DialogueInv, DialogueTypeOK
  <2>5. AllIsTold'
    <3>1. Earlier \union found \subseteq Told /\ Told \subseteq stored
      BY <1>2 DEF DialogueInv, AllIsTold
    <3>2. Told' = Told
      BY <1>6, <2>1, OneMore
    <3> QED
      BY <1>2, <3>1, <3>2 DEF AllIsTold
  <2> QED
    BY <2>1, <2>2, <2>4, <2>5
<1>7. CASE Conclude(reply) /\ turn' = "instruct"
  <2>1. messages' = Append(messages, Assistant(<< >>)) /\ final' = TRUE /\ asked' = asked
    BY <1>7 DEF Conclude, End
  <2>2. << >> \in Seq(CallIds \union {BlankId}) /\ asked' \in Seq(CallIds \union {BlankId})
    BY <2>1 DEF DialogueInv, DialogueTypeOK
  <2>3. DialogueTypeOK' /\ AnswersBelong' /\ AllIsTold' /\ Assistant(<< >>) \in Said
    BY <1>6, <1>7, <2>1, <2>2
  <2>4. Assistant(<< >>).calls = << >>
    BY DEF Assistant, Message
  <2>5. CallsAreAnswered'
    BY <1>4, <1>7, <2>1, <2>3, <2>4, AllSettled DEF CallsAreAnswered
  <2> QED
    BY <1>7, <2>3, <2>5 DEF DialogueInv, ModelIsNext, RequestIsDialogue
<1>8. CASE Conclude(reply) /\ turn' = "ended"
  <2>1. UNCHANGED <<messages, final, asked>>
    BY <1>8 DEF Conclude, End
  <2> QED
    BY <1>5, <1>8, <2>1
<1>9. CASE CallTools(reply)
  <2> DEFINE m == Assistant(reply.calls)
  <2>0. PICK k : k = Len(messages')
    OBVIOUS
  <2>1. /\ messages' = Append(messages, m) /\ final' = final /\ reply.calls # << >>
        /\ \/ turn' = "calls" /\ asked' = reply.calls
           \/ turn' = "ended" /\ asked' = asked
    <3>1. messages' = Append(messages, m) /\ final' = final /\ reply.calls # << >>
      BY <1>9 DEF CallTools
    <3>2. \/ turn' = "calls" /\ asked' = reply.calls
          \/ turn' = "ended" /\ asked' = asked
      BY <1>9 DEF CallTools, End
    <3> QED
      BY <3>1, <3>2
  <2>2. final' \in BOOLEAN /\ asked' \in Seq(CallIds \union {BlankId})
    BY <1>3, <2>1 DEF DialogueInv, DialogueTypeOK
  <2>3. DialogueTypeOK' /\ AnswersBelong' /\ AllIsTold' /\ m \in Said
    BY <1>3, <1>6, <2>1, <2>2
  <2>4. CASE turn' = "ended"
    BY <2>3, <2>4, EndKeeps
  <2>5. CASE turn' = "calls" /\ asked' = reply.calls
    <3>1. /\ k \in DOMAIN messages' /\ messages'[k] = m /\ m.calls = reply.calls /\ k \in Nat
          /\ DOMAIN messages' = DOMAIN messages \union {k} /\ k \notin DOMAIN messages
          /\ \A i \in DOMAIN messages : messages'[i] = messages[i]
      BY <2>0, <2>1, <2>3, OneMore DEF Assistant, Message
    <3>2. CallsAt(k)'
      BY <2>1, <3>1 DEF CallsAt
    <3>3. RepliedTo(k, asked)'
      <4>1. Len(reply.calls) \in Nat /\ DOMAIN reply.calls = 1..Len(reply.calls)
        BY <1>3
      <4>2. \A j \in DOMAIN reply.calls : ~(k + j <= k) /\ k + j - k = j
        BY <3>1, <4>1
      <4> QED
        BY <2>0, <2>5, <3>1, <4>1, <4>2 DEF RepliedTo
    <3>4. \A i \in DOMAIN messages' \ {k} : CallsAt(i)' => Settled(i)'
      <4> SUFFICES ASSUME NEW i \in DOMAIN messages, CallsAt(i)' PROVE Settled(i)'
        BY <3>1
      <4>1. CallsAt(i)
        BY <3>1 DEF CallsAt
      <4> QED
        BY <1>4, <2>1, <2>3, <4>1, SettledStays
    <3>5. CallsAreAnswered'
      BY <2>5, <3>1, <3>2, <3>3, <3>4 DEF CallsAreAnswered
    <3> QED
      BY <2>3, <2>5, <3>5 DEF DialogueInv, ModelIsNext, RequestIsDialogue
  <2> QED
    BY <2>1, <2>4, <2>5
<1> QED
  BY <1>1, <1>5, <1>7, <1>8, <1>9 DEF Conclude, End

\* The next of the calls that are due is answered.
LEMMA AnswerKeeps == DialogueInv /\ AnswerCall => DialogueInv'
<1> SUFFICES ASSUME DialogueInv, AnswerCall PROVE DialogueInv'
  OBVIOUS
<1>1. PICK tells \in SUBSET (Drafted \union stored) :
        /\ stored' = stored \union tells /\ found' = found \union tells
        /\ messages' = Append(messages, Tool(Head(asked), tells))
  BY DEF AnswerCall
<1> DEFINE m == Tool(Head(asked), tells)
<1>2. /\ turn = "calls" /\ asked # << >> /\ asked' = Tail(asked)
      /\ turn' = "calls" /\ UNCHANGED <<final, wire>>
  BY DEF AnswerCall
<1>3. /\ asked \in Seq(CallIds \union {BlankId}) /\ Head(asked) \in CallIds \union {BlankId}
      /\ Len(asked) \in Nat \ {0} /\ DOMAIN asked = 1..Len(asked) /\ Head(asked) = asked[1]
      /\ asked' \in Seq(CallIds \union {BlankId}) /\ Len(asked') = Len(asked) - 1
      /\ \A j \in 1..Len(asked) - 1 : asked'[j] = asked[j + 1]
  BY <1>2 DEF DialogueInv, DialogueTypeOK
<1>4. /\ m = [role |-> "tool", calls |-> << >>, id |-> Head(asked), tells |-> tells]
      /\ m \in Said /\ InRole(m) /\ stored' \subseteq AllEvidence
  <2>1. stored \subseteq AllEvidence /\ tells \subseteq AllEvidence
    BY DEF DialogueInv, DialogueTypeOK, AllEvidence
  <2>2. m = [role |-> "tool", calls |-> << >>, id |-> Head(asked), tells |-> tells]
    BY DEF Tool, Message
  <2>3. m \in Said
    <3>1. tells \in SUBSET AllEvidence
      BY <2>1
    <3>2. << >> \in Seq(CallIds \union {BlankId}) /\ Head(asked) \in CallIds \union {BlankId, NoId}
      BY <1>3
    <3> HIDE DEF m
    <3> QED
      BY <2>2, <3>1, <3>2 DEF Said
  <2> QED
    BY <1>1, <2>1, <2>2, <2>3 DEF InRole
<1>5. PICK k \in DOMAIN messages :
        /\ CallsAt(k) /\ RepliedTo(k, asked)
        /\ \A i \in DOMAIN messages \ {k} : CallsAt(i) => Settled(i)
  BY <1>2 DEF DialogueInv, CallsAreAnswered
<1>6. /\ messages \in Seq(Said) /\ Len(messages) \in Nat /\ DOMAIN messages = 1..Len(messages)
      /\ k \in 1..Len(messages) /\ messages[k] \in Said
  BY <1>5 DEF DialogueInv, DialogueTypeOK
<1>7. /\ messages[k].calls \in Seq(CallIds \union {BlankId}) /\ Len(messages[k].calls) \in Nat
      /\ DOMAIN messages[k].calls = 1..Len(messages[k].calls)
  BY <1>6 DEF Said
<1>8. /\ Len(messages') = Len(messages) + 1 /\ messages' \in Seq(Said)
      /\ DOMAIN messages' = DOMAIN messages \union {Len(messages')}
      /\ Len(messages') \notin DOMAIN messages
      /\ \A i \in DOMAIN messages : messages'[i] = messages[i]
      /\ messages'[Len(messages')] = m /\ messages' = Append(messages, m)
      /\ Told' = Told \union m.tells
  BY <1>1, <1>4, OneMore
<1>9. k + Len(messages[k].calls) = Len(messages) + Len(asked)
  BY <1>5 DEF RepliedTo
<1>10. AnswersBelong'
  <2>1. Len(messages) < k + Len(messages[k].calls) /\ k <= Len(messages)
    BY <1>3, <1>6, <1>9
  <2> QED
    BY <1>1, <1>4, <1>5, <2>1, BelongsStill
<1> HIDE DEF m
<1>11. DialogueTypeOK'
  <2>1. \A i \in DOMAIN messages' : InRole(messages'[i])
    BY <1>4, <1>8 DEF DialogueInv, DialogueTypeOK
  <2>2. final' \in BOOLEAN
    BY <1>2 DEF DialogueInv, DialogueTypeOK
  <2> QED
    BY <1>2, <1>3, <1>4, <1>8, <2>1, <2>2 DEF DialogueTypeOK
<1>12. AllIsTold'
  <2>1. Earlier \union found \subseteq Told /\ Told \subseteq stored
    BY <1>2 DEF DialogueInv, AllIsTold
  <2>2. m.tells = tells
    BY <1>4
  <2>3. Told' = Told \union tells
    BY <1>8, <2>2
  <2> QED
    BY <1>1, <2>1, <2>3 DEF AllIsTold
<1>13. RepliedTo(k, asked)'
  <2>1. messages'[k] = messages[k]
    BY <1>5, <1>8
  <2>2. k + Len(messages[k].calls) = Len(messages') + Len(asked')
    BY <1>3, <1>6, <1>7, <1>8, <1>9
  <2>3. ASSUME NEW j \in DOMAIN messages[k].calls
        PROVE  IF k + j <= Len(messages')
               THEN messages'[k + j].role = "tool" /\ messages'[k + j].id = messages[k].calls[j]
               ELSE asked'[k + j - Len(messages')] = messages[k].calls[j]
    <3>0. j \in 1..Len(messages[k].calls)
      BY <1>7
    <3>1. CASE k + j <= Len(messages)
      <4>1. k + j \in DOMAIN messages /\ k + j <= Len(messages')
        BY <1>6, <1>7, <1>8, <3>0, <3>1
      <4>2. messages[k + j].role = "tool" /\ messages[k + j].id = messages[k].calls[j]
        BY <1>5, <3>1 DEF RepliedTo
      <4> QED
        BY <1>8, <4>1, <4>2
    <3>2. CASE k + j = Len(messages')
      <4>1. ~(k + j <= Len(messages)) /\ k + j - Len(messages) = 1
        BY <1>6, <1>8, <3>0, <3>2
      <4>2. asked[1] = messages[k].calls[j]
        BY <1>5, <4>1 DEF RepliedTo
      <4>3. messages'[k + j].role = "tool" /\ messages'[k + j].id = asked[1]
        BY <1>3, <1>4, <1>8, <3>2
      <4> QED
        BY <1>6, <1>8, <3>0, <3>2, <4>2, <4>3
    <3>3. CASE k + j > Len(messages')
      <4>1. /\ ~(k + j <= Len(messages)) /\ ~(k + j <= Len(messages'))
            /\ k + j - Len(messages') \in 1..Len(asked) - 1
            /\ k + j - Len(messages') + 1 = k + j - Len(messages)
        <5>1. k \in Nat /\ j \in Nat /\ j <= Len(messages[k].calls)
          BY <1>6, <1>7, <3>0
        <5>2. Len(asked) \in Nat /\ Len(messages) \in Nat /\ Len(messages[k].calls) \in Nat
          BY <1>3, <1>6, <1>7
        <5>3. Len(messages') = Len(messages) + 1
          BY <1>8
        <5>4. ASSUME NEW c \in Nat, NEW n \in Nat, NEW a \in Nat,
                     c = Len(messages[k].calls), n = Len(messages), a = Len(asked)
              PROVE  /\ ~(k + j <= n) /\ ~(k + j <= n + 1)
                     /\ k + j - (n + 1) \in 1..a - 1
                     /\ k + j - (n + 1) + 1 = k + j - n
          <6>1. k + c = n + a /\ j <= c /\ k + j > n + 1
            BY <1>9, <3>3, <5>1, <5>3, <5>4
          <6> QED
            BY <5>1, <6>1
        <5> QED
          BY <5>2, <5>3, <5>4
      <4>2. asked[k + j - Len(messages)] = messages[k].calls[j]
        BY <1>5, <4>1 DEF RepliedTo
      <4>3. asked'[k + j - Len(messages')] = asked[k + j - Len(messages)]
        BY <1>3, <4>1
      <4> QED
        BY <4>1, <4>2, <4>3
    <3> QED
      BY <1>6, <1>8, <3>0, <3>1, <3>2, <3>3
  <2> QED
    BY <2>1, <2>2, <2>3 DEF RepliedTo
<1>14. CallsAreAnswered'
  <2>1. k \in DOMAIN messages' /\ CallsAt(k)'
    BY <1>5, <1>8 DEF CallsAt
  <2>2. \A i \in DOMAIN messages' \ {k} : CallsAt(i)' => Settled(i)'
    <3> SUFFICES ASSUME NEW i \in DOMAIN messages' \ {k}, CallsAt(i)' PROVE Settled(i)'
      OBVIOUS
    <3>1. m.calls = << >>
      BY <1>4
    <3>2. i \in DOMAIN messages /\ messages'[i] = messages[i]
      BY <1>8, <3>1 DEF CallsAt
    <3>3. Settled(i)
      BY <1>5, <3>2 DEF CallsAt
    <3> QED
      BY <1>4, <1>8, <3>2, <3>3, SettledStays
  <2> QED
    BY <1>2, <1>13, <2>1, <2>2 DEF CallsAreAnswered
<1> QED
  BY <1>2, <1>10, <1>11, <1>12, <1>14 DEF DialogueInv, ModelIsNext, RequestIsDialogue

\* No call is due any more, and the last message is an answer.
LEMMA EndCallsKeeps == DialogueInv /\ EndCalls => DialogueInv'
<1> SUFFICES ASSUME DialogueInv, EndCalls PROVE DialogueInv'
  OBVIOUS
<1>1. /\ turn = "calls" /\ asked = << >> /\ turn' \in {"ready", "instruct"}
      /\ final' = (turn' = "instruct") /\ UNCHANGED <<messages, asked, stored, found, wire>>
  BY DEF EndCalls
<1>2. PICK k \in DOMAIN messages :
        /\ CallsAt(k) /\ RepliedTo(k, asked)
        /\ \A i \in DOMAIN messages \ {k} : CallsAt(i) => Settled(i)
  BY <1>1 DEF DialogueInv, CallsAreAnswered
<1>3. /\ messages \in Seq(Said) /\ Len(messages) \in Nat /\ DOMAIN messages = 1..Len(messages)
      /\ k \in 1..Len(messages) /\ messages[k] \in Said
  BY <1>2 DEF DialogueInv, DialogueTypeOK
<1>4. /\ messages[k].calls \in Seq(CallIds \union {BlankId}) /\ messages[k].calls # << >>
      /\ Len(messages[k].calls) \in Nat \ {0}
      /\ DOMAIN messages[k].calls = 1..Len(messages[k].calls)
  BY <1>2, <1>3 DEF Said, CallsAt
<1>5. k + Len(messages[k].calls) = Len(messages)
  BY <1>1, <1>2, <1>3, <1>4 DEF RepliedTo
<1>6. Settled(k) /\ messages[Len(messages)].role = "tool"
  <2>1. \A j \in DOMAIN messages[k].calls : k + j <= Len(messages)
    BY <1>3, <1>4, <1>5
  <2>2. \A j \in DOMAIN messages[k].calls :
          messages[k + j].role = "tool" /\ messages[k + j].id = messages[k].calls[j]
    BY <1>2, <2>1 DEF RepliedTo
  <2>3. Len(messages[k].calls) \in DOMAIN messages[k].calls
    BY <1>4
  <2>4. messages[k + Len(messages[k].calls)].role = "tool"
    BY <2>2, <2>3
  <2> QED
    BY <1>3, <1>5, <2>2, <2>4 DEF Settled
<1>7. DialogueTypeOK'
  BY <1>1 DEF DialogueInv, DialogueTypeOK
<1>8. AnswersBelong' /\ \A i : (CallsAt(i)' <=> CallsAt(i)) /\ (Settled(i)' <=> Settled(i))
  BY <1>1, SameMessages
<1>9. CallsAreAnswered'
  <2>1. \A i \in DOMAIN messages : CallsAt(i) => Settled(i)
    BY <1>2, <1>6
  <2>2. \A i \in DOMAIN messages' : CallsAt(i)' => Settled(i)'
    BY <1>1, <1>8, <2>1
  <2> QED
    BY <1>1, <2>2 DEF CallsAreAnswered
<1>10. ModelIsNext'
  <2>1. messages' # << >> /\ messages'[Len(messages')].role = "tool"
    BY <1>1, <1>3, <1>6
  <2>2. turn' \in {"ready", "posted"} => ~final'
    BY <1>1
  <2> QED
    BY <2>1, <2>2 DEF ModelIsNext
<1>11. AllIsTold'
  BY <1>1 DEF DialogueInv, AllIsTold, Told
<1> QED
  BY <1>1, <1>7, <1>8, <1>9, <1>10, <1>11 DEF DialogueInv, RequestIsDialogue

\* The catalog tells all that is stored now.
LEMMA InstructKeeps == DialogueInv /\ Instruct => DialogueInv'
<1> SUFFICES ASSUME DialogueInv, Instruct PROVE DialogueInv'
  OBVIOUS
<1> DEFINE m == User(stored)
<1>1. /\ turn = "instruct" /\ messages' = Append(messages, m) /\ turn' = "ready"
      /\ UNCHANGED <<final, asked, stored, found, wire>>
  BY DEF Instruct
<1>2. /\ m = [role |-> "user", calls |-> << >>, id |-> NoId, tells |-> stored]
      /\ m \in Said /\ InRole(m)
  <2>1. stored \subseteq AllEvidence
    BY DEF DialogueInv, DialogueTypeOK
  <2> QED
    BY <2>1 DEF User, Message, Said, InRole
<1>3. /\ Len(messages') = Len(messages) + 1 /\ messages' \in Seq(Said)
      /\ DOMAIN messages' = DOMAIN messages \union {Len(messages')}
      /\ \A i \in DOMAIN messages : messages'[i] = messages[i]
      /\ messages'[Len(messages')] = m
      /\ Told' = Told \union m.tells
  BY <1>1, <1>2, OneMore
<1>4. DialogueTypeOK'
  <2>1. \A i \in DOMAIN messages' : InRole(messages'[i])
    BY <1>2, <1>3 DEF DialogueInv, DialogueTypeOK
  <2> QED
    BY <1>1, <1>3, <2>1 DEF DialogueInv, DialogueTypeOK
<1>5. AnswersBelong'
  BY <1>1, <1>2, BelongsStill
<1>6. CallsAreAnswered'
  <2>1. \A k \in DOMAIN messages : CallsAt(k) => Settled(k)
    BY <1>1 DEF DialogueInv, CallsAreAnswered
  <2>2. m.calls = << >>
    BY <1>2
  <2> QED
    BY <1>1, <1>2, <2>1, <2>2, AllSettled DEF CallsAreAnswered
<1>7. ModelIsNext'
  <2>1. messages' # << >> /\ messages'[Len(messages')].role = "user"
    BY <1>2, <1>3
  <2> QED
    BY <2>1 DEF ModelIsNext
<1>8. AllIsTold'
  <2>1. Earlier \union found \subseteq Told /\ Told \subseteq stored
    BY <1>1 DEF DialogueInv, AllIsTold
  <2>2. Told' = Told \union stored
    BY <1>2, <1>3
  <2> QED
    BY <1>1, <2>1, <2>2 DEF AllIsTold
<1> QED
  BY <1>1, <1>4, <1>5, <1>6, <1>7, <1>8 DEF DialogueInv, RequestIsDialogue

-----------------------------------------------------------------------------

LEMMA StutterKeeps == DialogueInv /\ UNCHANGED dialogueVars => DialogueInv'
<1> SUFFICES ASSUME DialogueInv, UNCHANGED dialogueVars PROVE DialogueInv'
  OBVIOUS
<1>1. UNCHANGED <<messages, final, asked, stored, found, turn, wire>>
  BY DEF dialogueVars
<1>2. DialogueTypeOK' /\ ModelIsNext' /\ AllIsTold' /\ RequestIsDialogue'
  BY <1>1 DEF DialogueInv, DialogueTypeOK, ModelIsNext, AllIsTold, Told, RequestIsDialogue
<1>3. AnswersBelong' /\ CallsAreAnswered'
  BY <1>1 DEF DialogueInv, AnswersBelong, CallsAreAnswered, CallsAt, Settled, RepliedTo
<1> QED
  BY <1>2, <1>3 DEF DialogueInv

LEMMA DialogueHolds == DialogueSpec => []DialogueInv
<1>1. DialogueInv /\ [DialogueNext]_dialogueVars => DialogueInv'
  BY PostKeeps, FailureKeeps, ReceiveKeeps, AnswerKeeps, EndCallsKeeps, InstructKeeps, OthersKeep,
     StutterKeeps
  DEF DialogueNext
<1> QED
  BY DialogueStarts, <1>1, PTL DEF DialogueSpec

\* No request breaks the protocol of tool calls: every call of the assistant
\* is answered, by its id and in its order, before the endpoint is asked again,
\* however the run got there (tool_loop.py:200-317).
THEOREM RequestsKeepProtocol == DialogueSpec => []RequestsAreWellFormed
<1>1. DialogueInv => RequestsAreWellFormed
  <2> SUFFICES ASSUME DialogueInv, turn = "posted" PROVE RequestsAreWellFormed
    BY DEF RequestsAreWellFormed
  <2>1. wire.messages = messages /\ wire.tools = ~final
    BY DEF DialogueInv, RequestIsDialogue
  <2>2. \A k \in DOMAIN messages : CallsAt(k) => Settled(k)
    BY DEF DialogueInv, CallsAreAnswered
  <2>3. AnswersBelong /\ ModelIsNext
    BY DEF DialogueInv
  <2> QED
    BY <2>1, <2>2, <2>3 DEF RequestsAreWellFormed, AnswersBelong, ModelIsNext, CallsAt, Settled
<1> QED
  BY <1>1, DialogueHolds, PTL

\* Whoever else adds evidence to the diagnosis meanwhile, the model has been told
\* the ids of what was there before the run and of all that the calls of the run
\* found, and of nothing that is not stored, whenever it is asked to go on
\* (tool_loop.py, _existing_evidence_catalog, _tool_message).
THEOREM EvidenceIsTold == DialogueSpec => []EvidenceIsAnnounced
<1>1. DialogueInv => EvidenceIsAnnounced
  <2> SUFFICES ASSUME DialogueInv, turn = "posted" PROVE EvidenceIsAnnounced
    BY DEF EvidenceIsAnnounced
  <2>1. wire.messages = messages
    BY DEF DialogueInv, RequestIsDialogue
  <2> QED
    BY <2>1 DEF DialogueInv, AllIsTold, Told, EvidenceIsAnnounced
<1> QED
  BY <1>1, DialogueHolds, PTL

=============================================================================
