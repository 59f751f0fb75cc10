-------------------------- MODULE InferenceServices --------------------------
(***************************************************************************)
(* The InferenceService controller (serving/inferenceservice_controller.go)*)
(* with its sub-reconcilers for ClusterRoleBindings, NetworkPolicies,      *)
(* Routes, the metrics Service, the ServiceMonitor and the dashboard       *)
(* ConfigMap, and the InferenceGraph controller.  A pass of the worker has *)
(* one step per sub-reconciler; users, KServe and the garbage collector    *)
(* act between the steps.  The KEDA sub-reconciler is module KedaAuth.     *)
(***************************************************************************)
EXTENDS Naturals, Sequences, FiniteSets

CONSTANTS
  Services,       \* names of InferenceServices, of one namespace
  Graphs,         \* names of InferenceGraphs
  Specs,          \* [Services -> the specs users give the service]
  GraphSpecs,     \* the InferenceGraphs users create
  RuntimeSpecs,   \* the ServingRuntimes users create
  Backends,       \* [Services -> the sets of backing Services KServe makes]
  Existing,       \* what may exist before the controller's first start:
                  \* [Services -> [spec, backends] or Absent]
  Absent,         \* no service, graph or runtime; no name or URL
  MaxChanges      \* bound on changes in the cluster and on failed calls

Components == {"predictor", "transformer"}

\* The backing Services of an InferenceService: predictor, transformer and
\* canary predictor.
BackendNames == {"predictor", "transformer", "canary"}
componentOf(b) == IF b = "transformer" THEN "transformer" ELSE "predictor"

\* No object of that name; an object is a record with its owner.
NoObject == [owner |-> "none"]

backendsOf(ports) ==
  [b \in BackendNames |-> IF b \in DOMAIN ports THEN [owner |-> "isvc", ports |-> ports[b]] ELSE NoObject]

Accounts == {"", "default", "custom"}

\* An InferenceService: visibility label, auth annotation, predictor's
\* ServiceAccount, transformer, explainer, canary percentages, worker spec and
\* how it selects its runtime (by name, by model format, without a format, or
\* no model at all).
SpecRecord ==
  [visibility : {"none", "exposed", "cluster-local"}, auth : {"none", "true", "True"}, account : Accounts,
   transformer : BOOLEAN, explainer : BOOLEAN, canary : Seq(1..100), multiNode : BOOLEAN,
   model : {"named", "auto", "unformatted", "none"}]

\* The objects the controller makes for an InferenceService.
ObjectNames == {"predictorPolicy", "transformerPolicy", "route", "metrics", "monitor", "dashboard"}
Owners == {"isvc", "former", "foreign"}

\* What is stored of an InferenceService.
ServiceRecord == [spec : UNION {Specs[s] : s \in Services}, finalizer : BOOLEAN, deleting : BOOLEAN]

ASSUME NameAssumption == Absent \notin Services /\ Absent \notin GraphSpecs /\ Absent \notin ServiceRecord

ASSUME StartAssumption == \A e \in Existing : \A s \in Services : e[s] = Absent \/ e[s].spec \in Specs[s]

VARIABLES
  isvc,      \* [Services -> [spec, finalizer, deleting] or Absent]
  object,    \* [Services -> [ObjectNames -> [owner, content] or NoObject]]
  binding,   \* ServiceAccounts with an auth-delegator ClusterRoleBinding
  backend,   \* [Services -> [BackendNames -> [owner, ports] or NoObject]]
  runtime,   \* the ServingRuntime, or Absent
  graph,     \* [Graphs -> graph or Absent]
  router,    \* [Graphs -> the NetworkPolicy of the graph's router, or NoObject]
  queue,     \* services to reconcile
  graphs,    \* graphs to reconcile
  retry,     \* services whose last pass was rejected, to be retried
  worker,    \* the pass under way
  changes,
  unnoticed  \* what no event and no error reports: lost bindings, bindings of
             \* an account that is used no more, runtimes read as empty

vars == <<isvc, object, binding, backend, runtime, graph, router, queue, graphs, retry, worker, changes, unnoticed>>
cluster == <<backend, runtime, graph, router, graphs>>

\* The step after each step of a pass, of one that reconciles and of one that
\* cleans up.
next ==
  [finalizer |-> "binding", binding |-> "policy", policy |-> "route", route |-> "metrics", metrics |-> "monitor",
   monitor |-> "dashboard", dashboard |-> "idle",
   deleteBinding |-> "deletePolicies", deletePolicies |-> "cleanup", cleanup |-> "removeFinalizer", removeFinalizer |-> "idle"]

\* A pass knows the service it read, what failed so far, whether the service
\* went away meanwhile, and whether another's policy was in the way from the
\* start.
Idle ==
  [at |-> "idle", svc |-> Absent, read |-> Absent, failed |-> FALSE, policyFailed |-> FALSE, stale |-> FALSE, blocked |-> FALSE]

TypeOK ==
  /\ \A s \in Services :
       /\ isvc[s] = Absent \/ isvc[s].spec \in Specs[s]
       /\ \A o \in ObjectNames : object[s][o] = NoObject \/ object[s][o].owner \in Owners
       /\ \A b \in BackendNames : backend[s][b] = NoObject \/ backend[s][b].owner \in {"isvc", "former"}
  /\ binding \subseteq Accounts \ {""}
  /\ queue \subseteq Services /\ retry \subseteq Services /\ graphs \subseteq Graphs
  /\ worker.at \in {"idle"} \cup DOMAIN next
  /\ changes \in 0..MaxChanges

Live(s) == isvc[s] # Absent /\ ~isvc[s].deleting

Change == changes < MaxChanges /\ changes' = changes + 1

---------------------------------------------------------------------------
(* Events. *)

\* Owns: an object's change reaches the service its controller reference
\* names; an update that changes nothing is no event.
notify(s, old, new) ==
  IF old # new /\ \E r \in {old, new} : r # NoObject /\ r.owner # "foreign" THEN {s} ELSE {}

\* A URL of a graph's step names a port of a backing Service.
resolves(url) == backend[url.svc][url.backend] # NoObject /\ url.port \in backend[url.svc][url.backend].ports

\* What a graph's steps name, and what their URLs resolve to now.
inferenceGraphInferenceServiceRequests(g) ==
  IF g = Absent THEN {}
  ELSE {s \in Services : \E step \in g.steps :
          \/ step.name = s
          \/ step.name = Absent /\ step.url # Absent /\ step.url.svc = s /\ resolves(step.url)}

---------------------------------------------------------------------------
(* Reading the spec, the backing Services and the runtime. *)

\* The annotation is compared with "true" for the binding and parsed for the
\* policies and the Route.
authIsTrue(spec) == spec.auth = "true"
rawAuthEnabled(spec) == spec.auth \in {"true", "True"}

accountOf(spec) == IF spec.account = "" THEN "default" ELSE spec.account

\* https with authentication, http without, else the first named port.
setRouteTargetPort(auth, ports) ==
  IF auth /\ "https" \in ports THEN "https"
  ELSE IF ~auth /\ "http" \in ports THEN "http"
  ELSE CHOOSE p \in ports : TRUE

\* Ownership is by UID: to a pass whose service was deleted, and perhaps
\* created again, its own objects are those of the former service.
isOwnedByInferenceService(s, r) == r # NoObject /\ r.owner = IF worker.svc = s /\ worker.stale THEN "former" ELSE "isvc"

\* Only Services that this very InferenceService owns count.
listComponentServices(s, c) ==
  {b \in BackendNames : componentOf(b) = c /\ isOwnedByInferenceService(s, backend[s][b])}

serviceTargetPorts(s, bs, auth) ==
  {<<b, setRouteTargetPort(auth, backend[s][b].ports)>> : b \in {x \in bs : backend[s][x].ports # {}}}

graphTargetComponent(spec) == IF spec.transformer THEN "transformer" ELSE "predictor"

graphTargetServices(spec, bs) == bs \cap {graphTargetComponent(spec)}

routeComponent(s) == IF listComponentServices(s, "transformer") # {} THEN "transformer" ELSE "predictor"

hasTransformer(s, spec) == spec.transformer \/ listComponentServices(s, "transformer") # {}

\* The runtime, none without an error, or an error.  When the Get of a named
\* runtime fails in any way but NotFound, an empty runtime is returned as if
\* it had been found.
FindSupportingRuntimeForISvc(spec, misread) ==
  LET empty(result) == [result |-> result, port |-> "none", path |-> "none", kind |-> "unsupported"]
  IN  IF spec.model \in {"none", "unformatted"} THEN empty("nil")
      ELSE IF misread THEN empty("found")
      ELSE IF runtime = Absent \/ (spec.model = "auto" /\ ~runtime.autoSelect) THEN empty("error")
      ELSE [result |-> "found", port |-> runtime.port, path |-> runtime.path, kind |-> runtime.kind]

\* The metrics port of the policy: that of the metrics Service the service
\* owns, else that of the runtime; any trouble means no metrics rule.
metricsPorts(s, found) ==
  IF found.port \in {"none", "malformed"} THEN "none"
  ELSE IF isOwnedByInferenceService(s, object[s]["metrics"]) THEN object[s]["metrics"].content
  ELSE found.port

\* The raw graphs that call the component, with the ports they may use.  A
\* step's URL goes before its name, and a step that names another service is
\* not about this one.
graphIngressRules(s, spec, c) ==
  LET owned == listComponentServices(s, c)
      ports(step) ==
        IF step.url # Absent
        THEN IF step.url.svc = s /\ step.url.backend \in owned /\ resolves(step.url) THEN {<<step.url.backend, step.url.port>>} ELSE {}
        ELSE IF step.name = s /\ c = graphTargetComponent(spec)
        THEN serviceTargetPorts(s, graphTargetServices(spec, owned), rawAuthEnabled(spec)) ELSE {}
  IN  [g \in Graphs |->
         IF graph[g] # Absent /\ graph[g].raw
         THEN UNION {ports(step) : step \in {x \in graph[g].steps : x.name \in {s, Absent}}} ELSE {}]

\* Mutant: the canaries behind a transformer are forgotten.
routed_noCanary(s, spec, c) == spec.visibility = "exposed" /\ routeComponent(s) = c

\* The Route leads to the transformer, if there is one, and to canaries of the
\* predictor.
routed(s, spec, c) ==
  spec.visibility = "exposed" /\ (routeComponent(s) = c \/ (c = "predictor" /\ spec.canary # <<>>))

\* The ingress rules of a component's policy: the router, all Pods of the
\* cluster, the service's own transformer and explainer, graphs, monitoring
\* and the nodes of a multi-node predictor.
desiredNetworkPolicy(s, spec, c, found) ==
  LET auth == rawAuthEnabled(spec)
      owned == listComponentServices(s, c)
      ports == serviceTargetPorts(s, owned, auth)
      entry == spec.visibility = "cluster-local" /\ c = graphTargetComponent(spec)
      callers == {x \in {"transformer", "explainer"} :
                    (x = "transformer" /\ listComponentServices(s, "transformer") # {}) \/ (x = "explainer" /\ spec.explainer)}
      called == c = "predictor" /\ callers # {} /\ ports # {}
  IN  [router |-> IF routed(s, spec, c) THEN ports ELSE {},
       local |-> IF entry THEN serviceTargetPorts(s, graphTargetServices(spec, owned), auth) ELSE {},
       callers |-> IF called THEN callers ELSE {},
       callerPorts |-> IF called THEN ports ELSE {},
       graphs |-> graphIngressRules(s, spec, c),
       metrics |-> metricsPorts(s, found),
       multiNode |-> c = "predictor" /\ spec.multiNode]

policyName(c) == IF c = "predictor" THEN "predictorPolicy" ELSE "transformerPolicy"

Sum(percents) == LET f[i \in 0..Len(percents)] == IF i = 0 THEN 0 ELSE f[i - 1] + percents[i] IN f[Len(percents)]

\* The backend the Route points at is chosen by labels, whoever owns it.
routeTarget(s) ==
  IF backend[s]["transformer"] # NoObject THEN "transformer"
  ELSE IF backend[s]["predictor"] # NoObject THEN "predictor"
  ELSE IF backend[s]["canary"] # NoObject THEN "canary"
  ELSE Absent

\* Exposure needs a backing Service with a port; a canary split needs the
\* canary's Service and percentages that leave nothing negative.
routeError(s, spec) ==
  /\ spec.visibility = "exposed"
  /\ \/ routeTarget(s) = Absent
     \/ backend[s][routeTarget(s)].ports = {}
     \/ spec.canary # <<>> /\ (Sum(spec.canary) > 100 \/ backend[s]["canary"] = NoObject)

desiredRoute(s, spec) ==
  IF spec.visibility # "exposed" THEN Absent
  ELSE [to |-> routeTarget(s),
        port |-> setRouteTargetPort(rawAuthEnabled(spec), backend[s][routeTarget(s)].ports),
        numeric |-> spec.canary # <<>>,
        reencrypt |-> rawAuthEnabled(spec),
        weight |-> 100 - Sum(spec.canary),
        canaries |-> spec.canary]

---------------------------------------------------------------------------
(* The steps of a pass. *)

\* A first start, with services of which the controller knows nothing yet.
Init ==
  /\ \E e \in Existing :
       /\ isvc = [s \in Services |-> IF e[s] = Absent THEN Absent ELSE [spec |-> e[s].spec, finalizer |-> FALSE, deleting |-> FALSE]]
       /\ backend = [s \in Services |-> IF e[s] = Absent THEN [b \in BackendNames |-> NoObject] ELSE backendsOf(e[s].backends)]
       /\ queue = {s \in Services : e[s] # Absent}
  /\ object = [s \in Services |-> [o \in ObjectNames |-> NoObject]]
  /\ binding = {}
  /\ runtime \in RuntimeSpecs \cup {Absent}
  /\ graph = [g \in Graphs |-> Absent]
  /\ router = [g \in Graphs |-> NoObject]
  /\ graphs = {} /\ retry = {}
  /\ worker = Idle
  /\ changes = 0
  /\ unnoticed = [lost |-> {}, stray |-> {}, misread |-> {}]

\* Get the service: a new pass, the deletion of the service, or the cleanup
\* of a namespace that may have lost its last one.
Reconcile(s) ==
  /\ worker.at = "idle"
  /\ s \in queue
  /\ queue' = queue \ {s}
  /\ retry' = retry \ {s}
  /\ unnoticed' = [unnoticed EXCEPT !.misread = @ \ {s}]
  /\ worker' =
       LET policy == object[s]["predictorPolicy"]
           start == [Idle EXCEPT !.svc = s, !.read = isvc[s], !.blocked = policy # NoObject /\ policy.owner = "foreign"]
       IN  IF isvc[s] = Absent THEN [start EXCEPT !.at = "cleanup"]
           ELSE IF ~isvc[s].deleting THEN [start EXCEPT !.at = "finalizer"]
           ELSE IF isvc[s].finalizer THEN [start EXCEPT !.at = "deleteBinding"]
           ELSE Idle
  /\ UNCHANGED <<isvc, object, binding, changes, cluster>>

\* Mutant: the finalizer goes although part of the cleanup failed.
ends_anyway(step, failed) == next[step] = "idle" \/ (step = "cleanup" /\ worker.read = Absent)

\* The pass is over after its last step, and before the finalizer is removed
\* when anything of the cleanup failed.
ends(step, failed) == next[step] = "idle" \/ (step = "cleanup" /\ (failed \/ worker.read = Absent))

\* A sub-reconciler that fails does not stop the others; a pass with any
\* failure is retried.
proceed(error) ==
  LET failed == worker.failed \/ error
  IN  IF ends(worker.at, failed)
      THEN worker' = Idle /\ retry' = IF failed THEN retry \cup {worker.svc} ELSE retry
      ELSE /\ worker' = [worker EXCEPT !.at = next[worker.at], !.failed = failed,
                                       !.policyFailed = @ \/ (worker.at = "policy" /\ error)]
           /\ UNCHANGED retry

put(s, objects) ==
  /\ object' = [object EXCEPT ![s] = objects]
  /\ queue' = queue \cup UNION {notify(s, object[s][o], objects[o]) : o \in ObjectNames}

\* Adding the finalizer is a patch under an optimistic lock.
AddFinalizer ==
  LET s == worker.svc
      current == isvc[s] = worker.read /\ ~worker.stale
  IN  /\ worker.at = "finalizer"
      /\ IF worker.read.finalizer THEN proceed(FALSE) /\ UNCHANGED <<isvc, queue>>
         ELSE IF current
         THEN isvc' = [isvc EXCEPT ![s].finalizer = TRUE] /\ queue' = queue \cup {s} /\ proceed(FALSE)
         ELSE worker' = Idle /\ queue' = queue \cup {s} /\ UNCHANGED <<isvc, retry>>
      /\ UNCHANGED <<object, binding, changes, unnoticed, cluster>>

getExistingIsvcsWithTheSameSAandAuthEnabled(account) ==
  {s \in Services : Live(s) /\ authIsTrue(isvc[s].spec) /\ accountOf(isvc[s].spec) = account}

\* Mutant: only the service itself is asked.
bindingWanted_own(spec) == authIsTrue(spec)

bindingWanted(spec) ==
  authIsTrue(spec) \/ getExistingIsvcsWithTheSameSAandAuthEnabled(accountOf(spec)) # {}

\* The binding is looked up under the account as it is spelled in the spec,
\* which finds none for an empty one.
ReconcileClusterRoleBinding ==
  LET spec == worker.read.spec
  IN  /\ worker.at = "binding"
      /\ binding' = IF bindingWanted(spec) THEN binding \cup {accountOf(spec)} ELSE binding \ {spec.account}
      /\ unnoticed' = [unnoticed EXCEPT !.lost = @ \ binding', !.stray = @ \ (binding \ binding')]
      /\ proceed(FALSE)
      /\ UNCHANGED <<isvc, object, queue, changes, cluster>>

\* A policy of another owner is never overwritten.
mayWrite(s, r) == r = NoObject \/ isOwnedByInferenceService(s, r)

deleteOwnedNetworkPolicy(s, r) == IF isOwnedByInferenceService(s, r) THEN NoObject ELSE r

owner == IF worker.stale THEN "former" ELSE "isvc"

\* Reading a named runtime may fail for other reasons than its absence.
lookup(misread) ==
  IF misread
  THEN /\ Change
       /\ worker.read.spec.model = "named"
       /\ unnoticed' = [unnoticed EXCEPT !.misread = @ \cup {worker.svc}]
  ELSE UNCHANGED <<changes, unnoticed>>

ReconcileNetworkPolicies(misread) ==
  LET s == worker.svc
      spec == worker.read.spec
      found == FindSupportingRuntimeForISvc(spec, misread)
      components == {"predictor"} \cup IF hasTransformer(s, spec) THEN {"transformer"} ELSE {}
      refused == {c \in components : ~mayWrite(s, object[s][policyName(c)])}
      new(c) == IF c \in refused THEN object[s][policyName(c)]
                ELSE IF c \in components THEN [owner |-> owner, content |-> desiredNetworkPolicy(s, spec, c, found)]
                ELSE deleteOwnedNetworkPolicy(s, object[s][policyName(c)])
  IN  /\ worker.at = "policy"
      /\ lookup(misread)
      /\ put(s, [object[s] EXCEPT !["predictorPolicy"] = new("predictor"), !["transformerPolicy"] = new("transformer")])
      /\ proceed(refused # {})
      /\ UNCHANGED <<isvc, binding, cluster>>

\* processDelta creates, updates or deletes; it leaves the owner as it was.
processDelta(old, content) ==
  IF content = Absent THEN NoObject
  ELSE IF old = NoObject THEN [owner |-> owner, content |-> content]
  ELSE [old EXCEPT !.content = content]

\* Mutant: the Route is reconciled although the policies could not be.
networkPolicyFailed_ignored(w) == FALSE

networkPolicyFailed(w) == w.policyFailed

\* While the policies cannot be written the Route is only ever taken away.
ReconcileRoute ==
  LET s == worker.svc
      spec == worker.read.spec
      old == object[s]["route"]
      gated == networkPolicyFailed(worker)
      error == ~gated /\ routeError(s, spec)
      new == IF gated THEN IF spec.visibility # "exposed" /\ isOwnedByInferenceService(s, old) THEN NoObject ELSE old
             ELSE IF error THEN old
             ELSE processDelta(old, desiredRoute(s, spec))
  IN  /\ worker.at = "route"
      /\ put(s, [object[s] EXCEPT !["route"] = new])
      /\ proceed(error)
      /\ UNCHANGED <<isvc, binding, changes, unnoticed, cluster>>

\* The metrics Service has the runtime's port; without a port it goes.
ReconcileMetricsService(misread) ==
  LET s == worker.svc
      found == FindSupportingRuntimeForISvc(worker.read.spec, misread)
      error == found.result = "error" \/ found.port = "malformed"
  IN  /\ worker.at = "metrics"
      /\ lookup(misread)
      /\ put(s, IF error THEN object[s]
                ELSE [object[s] EXCEPT !["metrics"] = processDelta(@, IF found.port = "none" THEN Absent ELSE found.port)])
      /\ proceed(error)
      /\ UNCHANGED <<isvc, binding, cluster>>

ReconcileServiceMonitor(misread) ==
  LET s == worker.svc
      found == FindSupportingRuntimeForISvc(worker.read.spec, misread)
      error == found.result = "error"
  IN  /\ worker.at = "monitor"
      /\ lookup(misread)
      /\ put(s, IF error THEN object[s]
                ELSE [object[s] EXCEPT !["monitor"] = processDelta(@, IF found.result = "nil" THEN Absent ELSE found.path)])
      /\ proceed(error)
      /\ UNCHANGED <<isvc, binding, cluster>>

\* Without a model, and without a suitable runtime, metrics are unsupported;
\* for a model without a format there is no runtime whose annotations could
\* be read, and the pass ends in a panic.
ReconcileDashboard(misread) ==
  LET s == worker.svc
      spec == worker.read.spec
      found == FindSupportingRuntimeForISvc(spec, misread)
      error == spec.model = "unformatted" \/ (spec.model = "named" /\ found.result = "error")
  IN  /\ worker.at = "dashboard"
      /\ lookup(misread)
      /\ put(s, IF error THEN object[s] ELSE [object[s] EXCEPT !["dashboard"] = processDelta(@, found.kind)])
      /\ proceed(error)
      /\ UNCHANGED <<isvc, binding, cluster>>

---------------------------------------------------------------------------
(* Deletion. *)

DeleteClusterRoleBinding ==
  LET account == accountOf(worker.read.spec)
  IN  /\ worker.at = "deleteBinding"
      /\ binding' = IF getExistingIsvcsWithTheSameSAandAuthEnabled(account) = {} THEN binding \ {account} ELSE binding
      /\ unnoticed' = [unnoticed EXCEPT !.stray = @ \ (binding \ binding')]
      /\ proceed(FALSE)
      /\ UNCHANGED <<isvc, object, queue, changes, cluster>>

DeleteNetworkPolicies ==
  LET s == worker.svc
  IN  /\ worker.at = "deletePolicies"
      /\ put(s, [object[s] EXCEPT !["predictorPolicy"] = deleteOwnedNetworkPolicy(s, @),
                                  !["transformerPolicy"] = deleteOwnedNetworkPolicy(s, @)])
      /\ proceed(FALSE)
      /\ UNCHANGED <<isvc, binding, changes, unnoticed, cluster>>

hasInferenceServiceOwner(r) == r # NoObject /\ r.owner # "foreign"

\* Without an active InferenceService in the namespace every policy that
\* names one as its owner goes.
DeleteResourcesIfNoIsvcExists ==
  LET policies == {"predictorPolicy", "transformerPolicy"}
      orphans(s) == {o \in policies : hasInferenceServiceOwner(object[s][o])}
  IN  /\ worker.at = "cleanup"
      /\ IF \E s \in Services : Live(s) THEN UNCHANGED <<object, queue>>
         ELSE /\ object' = [s \in Services |-> [o \in ObjectNames |-> IF o \in orphans(s) THEN NoObject ELSE object[s][o]]]
              /\ queue' = queue \cup {s \in Services : orphans(s) # {}}
      /\ proceed(FALSE)
      /\ UNCHANGED <<isvc, binding, changes, unnoticed, cluster>>

formerly(r) == IF r.owner = "isvc" THEN [r EXCEPT !.owner = "former"] ELSE r

\* A service that is gone leaves its objects to the garbage collector.
gone(s) ==
  /\ isvc' = [isvc EXCEPT ![s] = Absent]
  /\ object' = [object EXCEPT ![s] = [o \in ObjectNames |-> formerly(object[s][o])]]
  /\ backend' = [backend EXCEPT ![s] = [b \in BackendNames |-> formerly(backend[s][b])]]
  /\ queue' = queue \cup {s}

RemoveFinalizer ==
  /\ worker.at = "removeFinalizer"
  /\ gone(worker.svc)
  /\ proceed(FALSE)
  /\ UNCHANGED <<binding, runtime, graph, router, graphs, changes, unnoticed>>

\* Mutant: the error is swallowed.
CallFails_swallowed ==
  /\ worker.at # "idle"
  /\ Change
  /\ worker' = Idle
  /\ UNCHANGED <<isvc, object, binding, queue, retry, unnoticed, cluster>>

\* A failed call: its sub-reconciler changes nothing, and the failure of the
\* pass brings the service back.
CallFails ==
  /\ worker.at # "idle"
  /\ Change
  /\ queue' = queue \cup {worker.svc}
  /\ IF worker.at \in {"finalizer", "removeFinalizer"} THEN worker' = Idle /\ UNCHANGED retry ELSE proceed(TRUE)
  /\ UNCHANGED <<isvc, object, binding, unnoticed, cluster>>

Requeue(s) ==
  /\ s \in retry
  /\ queue' = queue \cup {s}
  /\ retry' = retry \ {s}
  /\ UNCHANGED <<isvc, object, binding, worker, changes, unnoticed, cluster>>

\* At the start every service, and the named owner of every object, is
\* reconciled.
Restart ==
  /\ Change
  /\ worker' = Idle
  /\ queue' = {s \in Services : \/ isvc[s] # Absent
                                \/ \E o \in ObjectNames : object[s][o].owner \notin {"none", "foreign"}
                                \/ \E b \in BackendNames : backend[s][b] # NoObject}
  /\ graphs' = {g \in Graphs : graph[g] # Absent \/ router[g] # NoObject}
  /\ retry' = {}
  /\ unnoticed' = [unnoticed EXCEPT !.misread = {}]
  /\ UNCHANGED <<isvc, object, binding, backend, runtime, graph, router>>

---------------------------------------------------------------------------
(* The InferenceGraph controller: one policy for the graph's router. *)

ReconcileGraph(g) ==
  LET old == router[g]
      keep == graph[g] # Absent /\ graph[g].raw
      refused == keep /\ old # NoObject /\ old.owner # "graph"
  IN  /\ g \in graphs
      /\ router' = [router EXCEPT ![g] =
           IF graph[g] = Absent \/ refused THEN old
           ELSE IF keep THEN [owner |-> "graph", from |-> IF graph[g].local THEN "all" ELSE "router"]
           ELSE IF old.owner = "graph" THEN NoObject ELSE old]
      /\ graphs' = IF refused THEN graphs ELSE graphs \ {g}
      /\ UNCHANGED <<isvc, object, binding, backend, runtime, graph, queue, retry, worker, changes, unnoticed>>

---------------------------------------------------------------------------
(* Changes in the cluster. *)

CreateService(s, spec) ==
  /\ Change
  /\ isvc[s] = Absent
  /\ isvc' = [isvc EXCEPT ![s] = [spec |-> spec, finalizer |-> FALSE, deleting |-> FALSE]]
  /\ queue' = queue \cup {s}
  /\ UNCHANGED <<object, binding, retry, worker, unnoticed, cluster>>

\* The binding of an account that the service leaves, or whose name it never
\* spelled, is not looked for again.
strays(s, new) ==
  LET old == accountOf(isvc[s].spec)
  IN  IF /\ accountOf(new) # old \/ (new.account = "" /\ ~authIsTrue(new))
         /\ old \in binding \/ worker.svc = s
      THEN {old} ELSE {}

UpdateService(s, spec) ==
  /\ Change
  /\ Live(s)
  /\ isvc[s].spec # spec
  /\ isvc' = [isvc EXCEPT ![s].spec = spec]
  /\ queue' = queue \cup {s}
  /\ unnoticed' = [unnoticed EXCEPT !.stray = @ \cup strays(s, spec)]
  /\ UNCHANGED <<object, binding, retry, worker, cluster>>

\* Without the finalizer nothing waits for this controller, not even the
\* binding that a pass of another service made for this one.
DeleteService(s) ==
  /\ Change
  /\ Live(s)
  /\ IF isvc[s].finalizer
     THEN isvc' = [isvc EXCEPT ![s].deleting = TRUE] /\ queue' = queue \cup {s} /\ UNCHANGED <<object, backend>>
     ELSE gone(s)
  /\ worker' = IF worker.svc = s /\ ~isvc[s].finalizer THEN [worker EXCEPT !.stale = TRUE] ELSE worker
  /\ unnoticed' = IF isvc[s].finalizer THEN unnoticed
                  ELSE [unnoticed EXCEPT !.stray = @ \cup ({accountOf(isvc[s].spec)} \cap binding)]
  /\ UNCHANGED <<binding, runtime, graph, router, graphs, retry>>

\* KServe makes, changes and removes the backing Services.
ChangeBackends(s, new) ==
  /\ Change
  /\ Live(s)
  /\ \A b \in BackendNames : backend[s][b] # NoObject => backend[s][b].owner = "isvc"
  /\ backend' = [backend EXCEPT ![s] = backendsOf(new)]
  /\ backend' # backend
  /\ queue' = queue \cup {s}
  /\ UNCHANGED <<isvc, object, binding, runtime, graph, router, graphs, retry, worker, unnoticed>>

\* Every service of the namespace hears of a ServingRuntime.
ChangeRuntime(new) ==
  /\ Change
  /\ new # runtime
  /\ runtime' = new
  /\ queue' = queue \cup {s \in Services : isvc[s] # Absent}
  /\ UNCHANGED <<isvc, object, binding, backend, graph, router, graphs, retry, worker, unnoticed>>

\* Mutant: only what the graph names now is told.
graphTargets_new(old, new) == inferenceGraphInferenceServiceRequests(new)

graphTargets(old, new) ==
  inferenceGraphInferenceServiceRequests(old) \cup inferenceGraphInferenceServiceRequests(new)

ChangeGraph(g, new) ==
  /\ Change
  /\ new # graph[g]
  /\ graph' = [graph EXCEPT ![g] = new]
  /\ router' = [router EXCEPT ![g] = IF new = Absent /\ @.owner = "graph" THEN [@ EXCEPT !.owner = "former"] ELSE @]
  /\ graphs' = graphs \cup {g}
  /\ queue' = queue \cup graphTargets(graph[g], new)
  /\ UNCHANGED <<isvc, object, binding, backend, runtime, retry, worker, unnoticed>>

\* Another owner's policy takes the name of a predictor's policy.
CreateForeignPolicy(s) ==
  /\ Change
  /\ object[s]["predictorPolicy"] = NoObject
  /\ object' = [object EXCEPT ![s]["predictorPolicy"] = [owner |-> "foreign", content |-> "other"]]
  /\ UNCHANGED <<isvc, binding, queue, retry, worker, unnoticed, cluster>>

DeleteObject(s, o) ==
  /\ Change
  /\ object[s][o] # NoObject
  /\ object[s][o].owner # "foreign"
  /\ put(s, [object[s] EXCEPT ![o] = NoObject])
  /\ UNCHANGED <<isvc, binding, retry, worker, unnoticed, cluster>>

\* A ClusterRoleBinding has no owner, so its loss is no event.
DeleteBinding(a) ==
  /\ Change
  /\ a \in binding
  /\ binding' = binding \ {a}
  /\ unnoticed' = [unnoticed EXCEPT !.lost = @ \cup {a}]
  /\ UNCHANGED <<isvc, object, queue, retry, worker, cluster>>

Collect(s) ==
  LET former(r) == r.owner = "former"
      kept(r) == IF former(r) THEN NoObject ELSE r
  IN  /\ \/ \E o \in ObjectNames : former(object[s][o])
         \/ \E b \in BackendNames : former(backend[s][b])
      /\ object' = [object EXCEPT ![s] = [o \in ObjectNames |-> kept(object[s][o])]]
      /\ backend' = [backend EXCEPT ![s] = [b \in BackendNames |-> kept(backend[s][b])]]
      /\ queue' = queue \cup {s}
      /\ UNCHANGED <<isvc, binding, runtime, graph, router, graphs, retry, worker, changes, unnoticed>>

CollectRouter(g) ==
  /\ router[g].owner = "former"
  /\ router' = [router EXCEPT ![g] = NoObject]
  /\ graphs' = graphs \cup {g}
  /\ UNCHANGED <<isvc, object, binding, backend, runtime, graph, queue, retry, worker, changes, unnoticed>>

Pass ==
  \/ AddFinalizer
  \/ ReconcileClusterRoleBinding
  \/ ReconcileNetworkPolicies(FALSE)
  \/ ReconcileRoute
  \/ ReconcileMetricsService(FALSE)
  \/ ReconcileServiceMonitor(FALSE)
  \/ ReconcileDashboard(FALSE)
  \/ DeleteClusterRoleBinding
  \/ DeleteNetworkPolicies
  \/ DeleteResourcesIfNoIsvcExists
  \/ RemoveFinalizer

Misread ==
  \/ ReconcileNetworkPolicies(TRUE)
  \/ ReconcileMetricsService(TRUE)
  \/ ReconcileServiceMonitor(TRUE)
  \/ ReconcileDashboard(TRUE)

Environment ==
  \/ \E s \in Services :
       \/ \E spec \in Specs[s] : CreateService(s, spec) \/ UpdateService(s, spec)
       \/ DeleteService(s)
       \/ \E new \in Backends[s] : ChangeBackends(s, new)
       \/ CreateForeignPolicy(s)
       \/ \E o \in ObjectNames : DeleteObject(s, o)
  \/ \E new \in RuntimeSpecs \cup {Absent} : ChangeRuntime(new)
  \/ \E g \in Graphs : \E new \in GraphSpecs \cup {Absent} : ChangeGraph(g, new)
  \/ \E a \in Accounts : DeleteBinding(a)
  \/ CallFails
  \/ Restart

Next ==
  \/ \E s \in Services : Reconcile(s) \/ Requeue(s) \/ Collect(s)
  \/ \E g \in Graphs : ReconcileGraph(g) \/ CollectRouter(g)
  \/ Pass
  \/ Misread
  \/ Environment

Spec == Init /\ [][Next]_vars

\* The workers and the garbage collector keep running; the queue and the
\* delayed retries are served in turn.
FairSpec ==
  /\ Spec
  /\ WF_vars(Pass)
  /\ \A s \in Services : SF_vars(Reconcile(s)) /\ WF_vars(Requeue(s)) /\ WF_vars(Collect(s))
  /\ \A g \in Graphs : WF_vars(ReconcileGraph(g)) /\ WF_vars(CollectRouter(g))

---------------------------------------------------------------------------
(* Properties. *)

Quiet(s) == s \notin queue /\ worker.svc # s
Settled(s) == Quiet(s) /\ Live(s)

owned(r) == r.owner = "isvc"

\* Whenever nothing is pending for a service, the policies it owns say what
\* its spec, its backing Services, the graphs that call it and the runtime
\* imply, also when the last pass failed in another sub-reconciler
\* (kserve_raw_networkpolicy_reconciler.go).
PoliciesCurrent ==
  \A s \in Services :
    Settled(s) /\ s \notin unnoticed.misread =>
      LET spec == isvc[s].spec
          found == FindSupportingRuntimeForISvc(spec, FALSE)
      IN  \A c \in Components :
            LET policy == object[s][policyName(c)]
            IN  IF c = "predictor" \/ hasTransformer(s, spec)
                THEN policy # NoObject /\ (owned(policy) => policy.content = desiredNetworkPolicy(s, spec, c, found))
                ELSE ~owned(policy)

\* Whenever nothing is pending for an exposed service, the router may reach
\* every backend of its Route through the policy of the backend's component:
\* the Route reconciler and the policy reconciler find the backends and their
\* ports independently of each other.
RouterAdmitted ==
  \A s \in Services :
    LET route == object[s]["route"]
        admits(b, p) == object[s][policyName(componentOf(b))] # NoObject
                        /\ <<b, p>> \in object[s][policyName(componentOf(b))].content.router
    IN  Settled(s) /\ s \notin retry /\ owned(route) /\ (\A b \in BackendNames : backend[s][b] = NoObject \/ owned(backend[s][b]))
        => /\ admits(route.content.to, route.content.port)
           /\ route.content.canaries # <<>> /\ backend[s]["canary"].ports # {} =>
                admits("canary", setRouteTargetPort(rawAuthEnabled(isvc[s].spec), backend[s]["canary"].ports))

\* Every service that asks for authentication has its ServiceAccount bound
\* once nothing is pending for it, unless the binding was deleted by hand,
\* which no watch reports: a pass of another service with the same account
\* never takes the binding away (kserve_raw_clusterrolebinding_reconciler.go).
DelegationGranted ==
  \A s \in Services :
    Settled(s) /\ authIsTrue(isvc[s].spec) => accountOf(isvc[s].spec) \in binding \cup unnoticed.lost

\* Once nothing is pending, an account is bound only if a service that asks
\* for authentication runs under it, except the accounts services moved away
\* from and those services never spelled.
DelegationRevoked ==
  (\A s \in Services : Quiet(s) /\ (isvc[s] = Absent \/ Live(s))) =>
    \A a \in binding \ unnoticed.stray : getExistingIsvcsWithTheSameSAandAuthEnabled(a) # {}

\* At rest, an account is bound exactly if a service that asks for
\* authentication runs under it, however services share and leave accounts.
DelegationFollowsUse == DelegationGranted /\ DelegationRevoked

\* A NetworkPolicy of another owner is never changed or deleted, whatever its
\* name, in any pass, deletion or cleanup.
ForeignPolicyKept ==
  [][\A s \in Services : object[s]["predictorPolicy"].owner = "foreign"
       => object'[s]["predictorPolicy"] = object[s]["predictorPolicy"]]_vars

\* While another owner's policy holds the place of the predictor's policy no
\* pass creates or changes the service's Route: exposure waits for the policy
\* (kserve_raw_inferenceservice_reconciler.go:56-67).
ExposureWaitsForPolicy ==
  [][\A s \in Services : worker.svc = s /\ worker.blocked /\ object'[s]["route"] # object[s]["route"]
       => object'[s]["route"] = NoObject \/ object'[s]["route"].owner = "former"]_vars

\* Another owner's policy in the place of the service's own is kept, and keeps
\* the service from being exposed.
ForeignPolicyRespected == ForeignPolicyKept /\ ExposureWaitsForPolicy

\* A service that is gone has left no policy of its own, and no ClusterRoleBinding
\* that no one will remove: another service of the same account is there to
\* remove it (inferenceservice_controller.go, the finalizer's cleanup).  The
\* exception is an account whose last user moved away: a service may do so
\* after this one's cleanup counted it and before the finalizer is removed.
FinalizerGuards ==
  [][\A s \in Services : isvc[s] # Absent /\ isvc[s].finalizer /\ isvc'[s] = Absent
       => /\ \A c \in Components : object[s][policyName(c)].owner # "isvc"
          /\ accountOf(isvc[s].spec) \in binding \ unnoticed.stray
               => \E t \in Services \ {s} : isvc[t] # Absent /\ accountOf(isvc[t].spec) = accountOf(isvc[s].spec)]_vars

\* What a pass must reject, and what is therefore retried without end.
Rejected(s) ==
  LET spec == isvc[s].spec
      found == FindSupportingRuntimeForISvc(spec, FALSE)
  IN  /\ Live(s)
      /\ \/ object[s]["predictorPolicy"].owner = "foreign"
         \/ routeError(s, spec)
         \/ found.result = "error"
         \/ found.port = "malformed"
         \/ spec.model = "unformatted"

\* When the changes end, the controllers come to rest, except for services
\* that every pass must reject: no two sub-reconcilers undo each other's
\* writes, and no object that the garbage collector has to remove stays in
\* the way.
ComesToRest ==
  <>[](\/ \E s \in Services : Rejected(s)
       \/ /\ queue = {} /\ retry = {} /\ graphs = {} /\ worker = Idle
          /\ \A s \in Services : isvc[s] = Absent \/ Live(s)
          /\ \A g \in Graphs : router[g] # NoObject <=> graph[g] # Absent /\ graph[g].raw)

=============================================================================
