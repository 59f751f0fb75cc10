---------------------- MODULE InferenceServicesProofs ----------------------
(***************************************************************************)
(* Proofs about InferenceServices, for any number of services, accounts    *)
(* and graphs: the shape of the state, what every kind of step does, what  *)
(* a pass knows about the service it works for, and that at rest a         *)
(* ServiceAccount is bound exactly if a service that asks for              *)
(* authentication runs under it.                                           *)
(*                                                                         *)
(* The bindings are shared, so the argument is about all services at once: *)
(* a binding that is there is covered, by a service that uses it, by one   *)
(* whose pass is still to remove it, or it is known that an update has     *)
(* left it behind (unnoticed.stray).                                       *)
(***************************************************************************)
EXTENDS InferenceServices, TLAPS

ReconcileSteps == {"finalizer", "binding", "policy", "route", "metrics", "monitor", "dashboard"}
DeletionSteps == {"deleteBinding", "deletePolicies", "cleanup", "removeFinalizer"}

WorkerFields == {"at", "svc", "read", "failed", "policyFailed", "stale", "blocked"}

\* A step of the pass has a service, and reconciles what it has read.
WorkerShape ==
  /\ DOMAIN worker = WorkerFields
  /\ worker.at = "idle" => worker = Idle
  /\ worker.at # "idle" =>
       /\ worker.at \in ReconcileSteps \cup DeletionSteps
       /\ worker.svc \in Services
       /\ worker.read \in ServiceRecord \cup {Absent}
       /\ worker.at # "cleanup" => worker.read # Absent
  /\ worker.policyFailed => worker.failed
  /\ worker.at = "removeFinalizer" => ~worker.failed

Object(r) == r = NoObject \/ (r.owner \in Owners /\ r = [owner |-> r.owner, content |-> r.content])

ObjectShape ==
  /\ object = [s \in Services |-> [o \in ObjectNames |-> object[s][o]]]
  /\ \A s \in Services : \A o \in ObjectNames :
       Object(object[s][o]) /\ (object[s][o].owner = "foreign" => o = "predictorPolicy")

Shape ==
  /\ isvc \in [Services -> ServiceRecord \cup {Absent}]
  /\ ObjectShape
  /\ DOMAIN backend = Services /\ DOMAIN graph = Graphs
  /\ DOMAIN unnoticed = {"lost", "stray", "misread"}
  /\ WorkerShape

\* The pass works for the service that is there, with what its spec still says, or the
\* service is queued again.
ReadInv ==
  /\ worker.at = "finalizer" => worker.stale \/ isvc[worker.svc] # Absent
  /\ \A s \in Services : isvc[s] # Absent /\ isvc[s].deleting => isvc[s].finalizer
  /\ worker.stale => worker.svc \in queue
  /\ worker.at \in ReconcileSteps \ {"finalizer"} \/ (worker.at = "finalizer" /\ worker.read.finalizer) =>
       isvc[worker.svc] # Absent /\ isvc[worker.svc].finalizer /\ ~worker.stale
  /\ worker.at \in DeletionSteps /\ worker.read # Absent =>
       worker.read = isvc[worker.svc] /\ worker.read.deleting /\ ~worker.stale
  /\ worker.at # "idle" /\ Live(worker.svc) /\ worker.svc \notin queue =>
       worker.at \in ReconcileSteps /\ worker.read.spec = isvc[worker.svc].spec

GrantInv ==
  \A s \in Services :
    Live(s) /\ authIsTrue(isvc[s].spec) /\ s \notin queue /\ ~(worker.svc = s /\ worker.at \in {"finalizer", "binding"}) =>
      accountOf(isvc[s].spec) \in binding \cup unnoticed.lost

\* The cleanup of service t has dealt with its binding.
Unbound(t) ==
  /\ worker.svc = t /\ worker.read # Absent /\ ~worker.failed
  /\ worker.at \in {"deletePolicies", "cleanup", "removeFinalizer"}

\* A service that uses the binding of an account, or is about to remove it.
Covers(t, a) ==
  /\ isvc[t] # Absent
  /\ accountOf(isvc[t].spec) = a
  /\ IF isvc[t].deleting THEN ~Unbound(t)
     ELSE \/ authIsTrue(isvc[t].spec)
          \/ isvc[t].spec.account = a /\ (t \in queue \/ (worker.svc = t /\ worker.at \in {"finalizer", "binding"}))

BoundInv == \A a \in binding \ unnoticed.stray : \E t \in Services : Covers(t, a)

\* The binding that the pass is about to make will be used or removed.
AskedInv ==
  /\ worker.at \in {"finalizer", "binding"}
  /\ authIsTrue(worker.read.spec)
  /\ isvc[worker.svc] # Absent /\ ~worker.stale
  => accountOf(worker.read.spec) \in unnoticed.stray \/ Covers(worker.svc, accountOf(worker.read.spec))
Inv == Shape /\ ReadInv /\ GrantInv /\ BoundInv /\ AskedInv
---------------------------------------------------------------------------
(* The worker. *)

\* The pass goes on to its next step.
Onward(e) ==
  /\ DOMAIN worker' = WorkerFields
  /\ worker'.at = next[worker.at]
  /\ worker'.svc = worker.svc /\ worker'.read = worker.read /\ worker'.stale = worker.stale /\ worker'.blocked = worker.blocked
  /\ worker'.failed <=> worker.failed \/ e
  /\ worker'.policyFailed <=> worker.policyFailed \/ (worker.at = "policy" /\ e)
  /\ UNCHANGED retry

\* The pass ends.
Over(e) == worker' = Idle /\ retry \subseteq retry' /\ (worker.failed \/ e => worker.svc \in retry')

\* The steps follow each other as the reconciler calls them.
LEMMA NextIs ==
  /\ next["finalizer"] = "binding" /\ next["binding"] = "policy" /\ next["policy"] = "route" /\ next["route"] = "metrics"
  /\ next["metrics"] = "monitor" /\ next["monitor"] = "dashboard" /\ next["dashboard"] = "idle"
  /\ next["deleteBinding"] = "deletePolicies" /\ next["deletePolicies"] = "cleanup"
  /\ next["cleanup"] = "removeFinalizer" /\ next["removeFinalizer"] = "idle"
BY SMT DEF next

\* An idle worker has no service.
LEMMA IdleIs ==
  /\ DOMAIN Idle = WorkerFields
  /\ Idle.at = "idle" /\ Idle.svc = Absent /\ Idle.read = Absent
  /\ ~Idle.failed /\ ~Idle.policyFailed /\ ~Idle.stale /\ ~Idle.blocked
BY SMT DEF Idle, WorkerFields

\* A sub-reconciler is followed by the next, or ends the pass; a failure is kept in mind.
LEMMA ProceedFacts ==
  ASSUME NEW e, WorkerShape, worker.at # "idle", proceed(e)
  PROVE  \/ ends(worker.at, worker.failed \/ e) /\ Over(e)
         \/ ~ends(worker.at, worker.failed \/ e) /\ Onward(e)
<1>0. DOMAIN worker = WorkerFields BY DEF WorkerShape
<1>1. CASE ends(worker.at, worker.failed \/ e) BY <1>1 DEF proceed, Over
<1>2. CASE ~ends(worker.at, worker.failed \/ e)
  <2>1. /\ worker' = [worker EXCEPT !.at = next[worker.at], !.failed = (worker.failed \/ e),
                                    !.policyFailed = @ \/ (worker.at = "policy" /\ e)]
        /\ UNCHANGED retry
    BY <1>2 DEF proceed
  <2> QED BY <1>0, <1>2, <2>1, Zenon DEF Onward, WorkerFields
<1> QED BY <1>1, <1>2

\* Where the pass goes from each step.
LEMMA StepFacts ==
  ASSUME NEW e, WorkerShape, worker.at # "idle", proceed(e)
  PROVE  \/ /\ Over(e)
            /\ worker.at \in {"dashboard", "cleanup", "removeFinalizer"}
         \/ /\ Onward(e)
            /\ worker'.at # "idle"
            /\ worker.at \in ReconcileSteps => worker'.at \in ReconcileSteps \ {"finalizer"}
            /\ worker.at \in DeletionSteps => worker'.at \in DeletionSteps \ {"deleteBinding"}
            /\ worker'.at = "binding" => worker.at = "finalizer"
            /\ worker'.at = "policy" => worker.at = "binding"
            /\ worker'.at = "route" => worker.at = "policy"
            /\ worker'.at = "deletePolicies" => worker.at = "deleteBinding"
            /\ worker'.at = "cleanup" => worker.at = "deletePolicies"
            /\ worker'.at = "removeFinalizer" => worker.at = "cleanup" /\ ~worker.failed /\ ~e /\ worker.read # Absent
<1>1. worker.at \in ReconcileSteps \cup DeletionSteps BY DEF WorkerShape
<1>2. CASE ends(worker.at, worker.failed \/ e) /\ Over(e)
  <2>1. worker.at \in {"dashboard", "cleanup", "removeFinalizer"} BY <1>1, <1>2, NextIs DEF ends, ReconcileSteps, DeletionSteps
  <2> QED BY <1>2, <2>1
<1>3. CASE ~ends(worker.at, worker.failed \/ e) /\ Onward(e)
  <2>1. worker'.at = next[worker.at] BY <1>3 DEF Onward
  <2>2. worker.at \notin {"dashboard", "removeFinalizer"} BY <1>3, NextIs DEF ends
  <2>3. worker.at = "cleanup" => ~worker.failed /\ ~e /\ worker.read # Absent BY <1>3 DEF ends
  <2> QED BY <1>1, <1>3, <2>1, <2>2, <2>3, NextIs DEF ReconcileSteps, DeletionSteps
<1> QED BY <1>2, <1>3, ProceedFacts
\* A new pass has read its service as it is.
LEMMA ReconcileFacts ==
  ASSUME NEW s \in Services, Reconcile(s)
  PROVE  /\ worker.at = "idle" /\ s \in queue /\ queue' = queue \ {s}
         /\ UNCHANGED <<isvc, object, binding, backend, runtime, graph>>
         /\ \/ worker' = Idle /\ isvc[s] # Absent /\ isvc[s].deleting /\ ~isvc[s].finalizer
            \/ /\ DOMAIN worker' = WorkerFields
               /\ worker'.svc = s /\ worker'.read = isvc[s]
               /\ ~worker'.failed /\ ~worker'.policyFailed /\ ~worker'.stale
               /\ worker'.blocked => object[s]["predictorPolicy"].owner = "foreign"
               /\ \/ worker'.at = "cleanup" /\ isvc[s] = Absent
                  \/ worker'.at = "finalizer" /\ Live(s)
                  \/ worker'.at = "deleteBinding" /\ isvc[s] # Absent /\ isvc[s].deleting /\ isvc[s].finalizer
<1> DEFINE policy == object[s]["predictorPolicy"]
           start == [Idle EXCEPT !.svc = s, !.read = isvc[s], !.blocked = policy # NoObject /\ policy.owner = "foreign"]
<1>1. /\ DOMAIN start = WorkerFields
      /\ start.svc = s /\ start.read = isvc[s] /\ ~start.failed /\ ~start.policyFailed /\ ~start.stale
      /\ start.blocked => policy.owner = "foreign"
  BY IdleIs, Zenon DEF WorkerFields
<1>2. worker' = IF isvc[s] = Absent THEN [start EXCEPT !.at = "cleanup"]
                ELSE IF ~isvc[s].deleting THEN [start EXCEPT !.at = "finalizer"]
                ELSE IF isvc[s].finalizer THEN [start EXCEPT !.at = "deleteBinding"]
                ELSE Idle
  BY Zenon DEF Reconcile
<1>3. /\ worker.at = "idle" /\ s \in queue /\ queue' = queue \ {s}
      /\ UNCHANGED <<isvc, object, binding, backend, runtime, graph>>
  BY Zenon DEF Reconcile, cluster
<1> HIDE DEF start
<1> QED BY <1>1, <1>2, <1>3 DEF Live, WorkerFields

---------------------------------------------------------------------------
(* The kinds of steps. *)

WriteSteps == {"policy", "route", "metrics", "monitor", "dashboard", "deletePolicies", "cleanup"}

\* Neither services, nor bindings, nor the pass change.
Still == UNCHANGED <<isvc, binding, unnoticed, worker>> /\ queue \subseteq queue' /\ retry \subseteq retry' \cup queue'

\* A sub-reconciler that writes the objects of the service.
Writes ==
  /\ worker.at \in WriteSteps
  /\ \E e \in BOOLEAN : proceed(e)
  /\ worker.at = "policy" => \E m \in BOOLEAN : ReconcileNetworkPolicies(m)
  /\ worker.at = "route" => ReconcileRoute
  /\ worker.at = "deletePolicies" => DeleteNetworkPolicies
  /\ UNCHANGED <<isvc, binding>> /\ queue \subseteq queue'
  /\ DOMAIN unnoticed' = DOMAIN unnoticed /\ unnoticed'.lost = unnoticed.lost /\ unnoticed'.stray = unnoticed.stray
  /\ unnoticed.misread \subseteq unnoticed'.misread

Others ==
  \/ \E s \in Services : Reconcile(s) \/ DeleteService(s)
  \/ \E s \in Services : \E spec \in Specs[s] : CreateService(s, spec) \/ UpdateService(s, spec)
  \/ AddFinalizer \/ ReconcileClusterRoleBinding \/ DeleteClusterRoleBinding \/ RemoveFinalizer
  \/ CallFails \/ Restart
  \/ \E a \in Accounts : DeleteBinding(a)

\* A reading of the runtime leaves the accounts alone.
LEMMA LookupFacts ==
  ASSUME NEW m \in BOOLEAN, DOMAIN unnoticed = {"lost", "stray", "misread"}, lookup(m)
  PROVE  /\ DOMAIN unnoticed' = DOMAIN unnoticed /\ unnoticed'.lost = unnoticed.lost /\ unnoticed'.stray = unnoticed.stray
         /\ unnoticed.misread \subseteq unnoticed'.misread
BY DEF lookup

\* The sub-reconcilers that write objects.
LEMMA WritesFacts ==
  ASSUME NEW m \in BOOLEAN, Shape,
         \/ ReconcileNetworkPolicies(m) \/ ReconcileRoute \/ ReconcileMetricsService(m) \/ ReconcileServiceMonitor(m)
         \/ ReconcileDashboard(m) \/ DeleteNetworkPolicies \/ DeleteResourcesIfNoIsvcExists
  PROVE  Writes
<1>0. DOMAIN unnoticed = {"lost", "stray", "misread"} BY DEF Shape
<1>1. CASE ReconcileNetworkPolicies(m)
  <2>1. worker.at = "policy" /\ lookup(m) /\ UNCHANGED <<isvc, binding>> /\ queue \subseteq queue'
    BY <1>1, Zenon DEF ReconcileNetworkPolicies, put
  <2>2. \E e \in BOOLEAN : proceed(e) BY <1>1, Zenon DEF ReconcileNetworkPolicies
  <2> QED BY <1>0, <1>1, <2>1, <2>2, LookupFacts DEF Writes, WriteSteps
<1>2. CASE ReconcileRoute
  <2>1. worker.at = "route" /\ UNCHANGED <<isvc, binding, unnoticed>> /\ queue \subseteq queue'
    BY <1>2, Zenon DEF ReconcileRoute, put
  <2>2. \E e \in BOOLEAN : proceed(e) BY <1>2, Zenon DEF ReconcileRoute
  <2> QED BY <1>2, <2>1, <2>2 DEF Writes, WriteSteps
<1>3. CASE ReconcileMetricsService(m)
  <2>1. worker.at = "metrics" /\ lookup(m) /\ UNCHANGED <<isvc, binding>> /\ queue \subseteq queue'
    BY <1>3, Zenon DEF ReconcileMetricsService, put
  <2>2. \E e \in BOOLEAN : proceed(e) BY <1>3, Zenon DEF ReconcileMetricsService
  <2> QED BY <1>0, <1>3, <2>1, <2>2, LookupFacts DEF Writes, WriteSteps
<1>4. CASE ReconcileServiceMonitor(m)
  <2>1. worker.at = "monitor" /\ lookup(m) /\ UNCHANGED <<isvc, binding>> /\ queue \subseteq queue'
    BY <1>4, Zenon DEF ReconcileServiceMonitor, put
  <2>2. \E e \in BOOLEAN : proceed(e) BY <1>4, Zenon DEF ReconcileServiceMonitor
  <2> QED BY <1>0, <1>4, <2>1, <2>2, LookupFacts DEF Writes, WriteSteps
<1>5. CASE ReconcileDashboard(m)
  <2>1. worker.at = "dashboard" /\ lookup(m) /\ UNCHANGED <<isvc, binding>> /\ queue \subseteq queue'
    BY <1>5, Zenon DEF ReconcileDashboard, put
  <2>2. \E e \in BOOLEAN : proceed(e) BY <1>5, Zenon DEF ReconcileDashboard
  <2> QED BY <1>0, <1>5, <2>1, <2>2, LookupFacts DEF Writes, WriteSteps
<1>6. CASE DeleteNetworkPolicies
  <2>1. worker.at = "deletePolicies" /\ UNCHANGED <<isvc, binding, unnoticed>> /\ queue \subseteq queue'
    BY <1>6, Zenon DEF DeleteNetworkPolicies, put
  <2>2. \E e \in BOOLEAN : proceed(e) BY <1>6, Zenon DEF DeleteNetworkPolicies
  <2> QED BY <1>6, <2>1, <2>2 DEF Writes, WriteSteps
<1>7. CASE DeleteResourcesIfNoIsvcExists
  <2>1. worker.at = "cleanup" /\ UNCHANGED <<isvc, binding, unnoticed>> /\ queue \subseteq queue'
    BY <1>7, Zenon DEF DeleteResourcesIfNoIsvcExists
  <2>2. \E e \in BOOLEAN : proceed(e) BY <1>7, Zenon DEF DeleteResourcesIfNoIsvcExists
  <2> QED BY <1>7, <2>1, <2>2 DEF Writes, WriteSteps
<1> QED BY <1>1, <1>2, <1>3, <1>4, <1>5, <1>6, <1>7

\* Every step is of one of the kinds.
LEMMA KindsOfSteps ==
  ASSUME Shape, Next
  PROVE  Still \/ Writes \/ Others
<1>1. ASSUME NEW s \in Services, Requeue(s) \/ Collect(s) \/ CreateForeignPolicy(s) PROVE Still
  <2>1. CASE Requeue(s)
    <3>1. UNCHANGED <<isvc, binding, unnoticed, worker>> /\ queue' = queue \cup {s} /\ retry' = retry \ {s} BY <2>1, Zenon DEF Requeue
    <3> QED BY <3>1 DEF Still
  <2>2. CASE Collect(s) \/ CreateForeignPolicy(s) BY <2>2, Zenon DEF Collect, CreateForeignPolicy, Still
  <2> QED BY <1>1, <2>1, <2>2
<1>2. ASSUME NEW s \in Services, NEW o \in ObjectNames, DeleteObject(s, o) PROVE Still
  BY <1>2, Zenon DEF DeleteObject, put, Still
<1>3. ASSUME NEW s \in Services, NEW new \in Backends[s], ChangeBackends(s, new) PROVE Still
  BY <1>3, Zenon DEF ChangeBackends, Still
<1>4. ASSUME NEW new, ChangeRuntime(new) PROVE Still
  BY <1>4, Zenon DEF ChangeRuntime, Still
<1>5. ASSUME NEW g \in Graphs, NEW new, ChangeGraph(g, new) PROVE Still
  BY <1>5, Zenon DEF ChangeGraph, Still
<1>6. ASSUME NEW g \in Graphs, ReconcileGraph(g) \/ CollectRouter(g) PROVE Still
  BY <1>6, Zenon DEF ReconcileGraph, CollectRouter, Still
<1>7. CASE Pass BY <1>7, WritesFacts, Zenon DEF Pass, Others
<1>8. CASE Misread BY <1>8, WritesFacts, Zenon DEF Misread
<1>9. CASE Environment
  BY <1>1, <1>2, <1>3, <1>4, <1>5, <1>9, Zenon DEF Environment, Others
<1> QED BY <1>1, <1>6, <1>7, <1>8, <1>9, Zenon DEF Next, Others
---------------------------------------------------------------------------
(* The shape of the state. *)

\* An idle worker has the shape of a worker.
LEMMA ShapeIdle == ASSUME worker' = Idle PROVE WorkerShape'
BY IdleIs DEF WorkerShape, ReconcileSteps, DeletionSteps

\* So has one that went on.
LEMMA ShapeOnward ==
  ASSUME NEW e, WorkerShape, worker.at # "idle", proceed(e)
  PROVE  WorkerShape'
<1>1. CASE Over(e) BY <1>1, ShapeIdle DEF Over
<1>2. CASE Onward(e) /\ ~Over(e)
  <2>1. /\ DOMAIN worker' = WorkerFields
        /\ worker'.svc = worker.svc /\ worker'.read = worker.read
        /\ worker'.failed <=> worker.failed \/ e
        /\ worker'.policyFailed <=> worker.policyFailed \/ (worker.at = "policy" /\ e)
    BY <1>2 DEF Onward
  <2>2. /\ worker.at \in ReconcileSteps \cup DeletionSteps /\ worker.svc \in Services
        /\ worker.read \in ServiceRecord \cup {Absent}
        /\ worker.at # "cleanup" => worker.read # Absent
        /\ worker.policyFailed => worker.failed
    BY DEF WorkerShape
  <2>3. /\ worker'.at # "idle"
        /\ worker'.at \in ReconcileSteps \cup DeletionSteps
        /\ worker'.at = "removeFinalizer" => ~worker.failed /\ ~e
        /\ worker'.at # "cleanup" => worker.read # Absent
    <3>1. worker.at = "cleanup" => worker'.at \in DeletionSteps \ {"deleteBinding"} BY <1>2, StepFacts DEF DeletionSteps
    <3>2. worker.at = "cleanup" => worker'.at \notin {"deletePolicies", "cleanup"} BY <1>2, StepFacts
    <3>3. worker.at = "cleanup" => worker'.at = "removeFinalizer" BY <3>1, <3>2 DEF DeletionSteps
    <3> QED BY <1>2, <2>2, <3>3, StepFacts
  <2> QED BY <2>1, <2>2, <2>3 DEF WorkerShape
<1> QED BY <1>1, <1>2, StepFacts

\* Every step keeps the worker's shape.
LEMMA WorkerShapeNext ==
  ASSUME Shape, Next
  PROVE  WorkerShape'
<1>0. WorkerShape /\ isvc \in [Services -> ServiceRecord \cup {Absent}] BY DEF Shape
<1>1. CASE Still BY <1>0, <1>1 DEF Still, WorkerShape
<1>2. CASE Writes
  <2>1. worker.at # "idle" BY <1>2 DEF Writes, WriteSteps
  <2> QED BY <1>0, <1>2, <2>1, ShapeOnward DEF Writes
<1>3. ASSUME NEW s \in Services, Reconcile(s) PROVE WorkerShape'
  <2>1. isvc[s] \in ServiceRecord \cup {Absent} BY <1>0
  <2>2. CASE worker' = Idle BY <2>2, ShapeIdle
  <2> QED BY <1>3, <2>1, <2>2, ReconcileFacts DEF WorkerShape, Live, ReconcileSteps, DeletionSteps
<1>4. ASSUME NEW s \in Services, DeleteService(s) PROVE WorkerShape'
  <2>1. worker' = worker \/ (worker.svc = s /\ worker' = [worker EXCEPT !.stale = TRUE]) BY <1>4, Zenon DEF DeleteService
  <2>2. CASE worker' = worker BY <1>0, <2>2 DEF WorkerShape
  <2>3. CASE worker.svc = s /\ worker' = [worker EXCEPT !.stale = TRUE]
    <3>1. worker.at # "idle" BY <1>0, <2>3, IdleIs, NameAssumption DEF WorkerShape
    <3> QED BY <1>0, <2>3, <3>1 DEF WorkerShape, WorkerFields
  <2> QED BY <2>1, <2>2, <2>3
<1>5. ASSUME NEW s \in Services, NEW spec, CreateService(s, spec) \/ UpdateService(s, spec) PROVE WorkerShape'
  <2>1. worker' = worker BY <1>5, Zenon DEF CreateService, UpdateService
  <2> QED BY <1>0, <2>1 DEF WorkerShape
<1>6. CASE AddFinalizer
  <2>1. worker.at # "idle" BY <1>6 DEF AddFinalizer
  <2>2. worker' = Idle \/ proceed(FALSE) BY <1>6, Zenon DEF AddFinalizer
  <2> QED BY <1>0, <2>1, <2>2, ShapeIdle, ShapeOnward, Zenon
<1>7. CASE ReconcileClusterRoleBinding \/ DeleteClusterRoleBinding \/ RemoveFinalizer
  <2>1. worker.at # "idle" BY <1>7, Zenon DEF ReconcileClusterRoleBinding, DeleteClusterRoleBinding, RemoveFinalizer
  <2>2. proceed(FALSE) BY <1>7, Zenon DEF ReconcileClusterRoleBinding, DeleteClusterRoleBinding, RemoveFinalizer
  <2> QED BY <1>0, <2>1, <2>2, ShapeOnward, Zenon
<1>8. CASE CallFails
  <2>1. worker.at # "idle" BY <1>8 DEF CallFails
  <2>2. worker' = Idle \/ proceed(TRUE) BY <1>8, Zenon DEF CallFails
  <2> QED BY <1>0, <2>1, <2>2, ShapeIdle, ShapeOnward, Zenon
<1>9. CASE Restart BY <1>9, ShapeIdle DEF Restart
<1>10. ASSUME NEW a, DeleteBinding(a) PROVE WorkerShape'
  <2>1. worker' = worker BY <1>10, Zenon DEF DeleteBinding
  <2> QED BY <1>0, <2>1 DEF WorkerShape
<1> QED BY <1>1, <1>2, <1>3, <1>4, <1>5, <1>6, <1>7, <1>8, <1>9, <1>10, KindsOfSteps, Zenon DEF Others

\* What a step does to the services.
LEMMA ServicesNext ==
  ASSUME Shape, Next
  PROVE  /\ isvc' \in [Services -> ServiceRecord \cup {Absent}]
         /\ DOMAIN unnoticed' = {"lost", "stray", "misread"}
         /\ \A s \in Services : s \notin queue' => isvc'[s] = isvc[s]
<1> DEFINE Fine == /\ isvc' \in [Services -> ServiceRecord \cup {Absent}]
                   /\ \A s \in Services : s \notin queue' => isvc'[s] = isvc[s]
           Noted == DOMAIN unnoticed' = {"lost", "stray", "misread"}
<1>0. isvc \in [Services -> ServiceRecord \cup {Absent}] /\ DOMAIN unnoticed = {"lost", "stray", "misread"} BY DEF Shape
<1>1. ASSUME UNCHANGED isvc PROVE Fine BY <1>0, <1>1
<1>2. ASSUME UNCHANGED unnoticed PROVE Noted BY <1>0, <1>2
<1>3. CASE Still BY <1>1, <1>2, <1>3 DEF Still
<1> USE <1>0
<1>4. ASSUME NEW s \in Services, Reconcile(s) PROVE Fine /\ Noted
  <2>1. UNCHANGED isvc /\ unnoticed' = [unnoticed EXCEPT !.misread = @ \ {s}] BY <1>4, Zenon DEF Reconcile
  <2> QED BY <1>1, <2>1
<1>5. ASSUME NEW s \in Services, DeleteService(s) PROVE Fine /\ Noted
  <2>1. s \in queue' /\ Live(s) BY <1>5, Zenon DEF DeleteService, gone
  <2>2. isvc' = [isvc EXCEPT ![s].deleting = TRUE] \/ isvc' = [isvc EXCEPT ![s] = Absent] BY <1>5, Zenon DEF DeleteService, gone
  <2>3. Noted BY <1>5 DEF DeleteService
  <2>4. isvc[s] \in ServiceRecord BY <2>1 DEF Live
  <2>5. [isvc[s] EXCEPT !.deleting = TRUE] \in ServiceRecord BY <2>4, Zenon DEF ServiceRecord
  <2> QED BY <2>1, <2>2, <2>3, <2>5, Zenon
<1>6. ASSUME NEW s \in Services, NEW spec \in Specs[s], CreateService(s, spec) PROVE Fine /\ Noted
  <2>1. s \in queue' /\ isvc' = [isvc EXCEPT ![s] = [spec |-> spec, finalizer |-> FALSE, deleting |-> FALSE]] /\ UNCHANGED unnoticed
    BY <1>6, Zenon DEF CreateService
  <2>2. [spec |-> spec, finalizer |-> FALSE, deleting |-> FALSE] \in ServiceRecord BY DEF ServiceRecord
  <2> QED BY <1>2, <2>1, <2>2
<1>7. ASSUME NEW s \in Services, NEW spec \in Specs[s], UpdateService(s, spec) PROVE Fine /\ Noted
  <2>1. /\ s \in queue' /\ Live(s) /\ isvc' = [isvc EXCEPT ![s].spec = spec]
        /\ unnoticed' = [unnoticed EXCEPT !.stray = @ \cup strays(s, spec)]
    BY <1>7, Zenon DEF UpdateService
  <2>2. isvc[s] \in ServiceRecord BY <2>1 DEF Live
  <2>3. [isvc[s] EXCEPT !.spec = spec] \in ServiceRecord BY <2>2 DEF ServiceRecord
  <2>4. Fine BY <2>1, <2>3
  <2>5. Noted BY <2>1
  <2> QED BY <2>4, <2>5
<1>8. CASE AddFinalizer
  <2>1. UNCHANGED unnoticed BY <1>8, Zenon DEF AddFinalizer
  <2>2. CASE UNCHANGED isvc BY <1>1, <1>2, <2>1, <2>2
  <2>3. CASE ~UNCHANGED isvc
    <3>1. /\ isvc[worker.svc] = worker.read /\ worker.svc \in queue' /\ worker.at = "finalizer"
          /\ isvc' = [isvc EXCEPT ![worker.svc].finalizer = TRUE]
      BY <1>8, <2>3, Zenon DEF AddFinalizer
    <3>2. worker.svc \in Services /\ worker.read \in ServiceRecord BY <3>1 DEF Shape, WorkerShape
    <3>3. [isvc[worker.svc] EXCEPT !.finalizer = TRUE] \in ServiceRecord BY <3>1, <3>2, Zenon DEF ServiceRecord
    <3> QED BY <1>2, <2>1, <3>1, <3>2, <3>3
  <2> QED BY <2>2, <2>3
<1>9. CASE ReconcileClusterRoleBinding BY <1>1, <1>9 DEF ReconcileClusterRoleBinding
<1>10. CASE DeleteClusterRoleBinding BY <1>1, <1>10 DEF DeleteClusterRoleBinding
<1>11. CASE RemoveFinalizer
  <2>1. UNCHANGED unnoticed /\ isvc' = [isvc EXCEPT ![worker.svc] = Absent] /\ worker.svc \in queue'
    BY <1>11, Zenon DEF RemoveFinalizer, gone
  <2> QED BY <1>2, <2>1, Zenon
<1>12. CASE CallFails BY <1>1, <1>2, <1>12 DEF CallFails
<1>13. CASE Restart BY <1>1, <1>13 DEF Restart
<1>14. ASSUME NEW a, DeleteBinding(a) PROVE Fine /\ Noted BY <1>1, <1>14 DEF DeleteBinding
<1>15. CASE Writes BY <1>1, <1>15 DEF Writes
<1> QED BY <1>3, <1>4, <1>5, <1>6, <1>7, <1>8, <1>9, <1>10, <1>11, <1>12, <1>13, <1>14, <1>15, KindsOfSteps, Zenon DEF Others
---------------------------------------------------------------------------
(* The objects. *)

\* A write of the controller: never over another owner's object.
Written(old, new) ==
  \/ new = old
  \/ /\ old.owner # "foreign"
     /\ new = NoObject \/ (new.owner \in {"isvc", "former"} /\ new = [owner |-> new.owner, content |-> new.content])

\* Another owner's policy was created where there was none.
Taken(o, old, new) == o = "predictorPolicy" /\ old = NoObject /\ new.owner = "foreign"

\* What a step may do to the objects: what is another's is kept, and the service
\* hears of what changes.
ObjectsStep ==
  /\ ObjectShape'
  /\ \A s \in Services : \A o \in ObjectNames : object[s][o].owner = "foreign" => object'[s][o] = object[s][o]
  /\ \A s \in Services : s \notin queue' =>
       \A o \in ObjectNames : object'[s][o] = object[s][o] \/ Taken(o, object[s][o], object'[s][o])

\* An object has an owner, and only an object has one.
LEMMA OwnerFacts ==
  /\ NoObject.owner = "none"
  /\ \A r : Object(r) => (r = NoObject <=> r.owner = "none") /\ r.owner \in Owners \cup {"none"}
BY DEF NoObject, Object, Owners

\* Whatever the controller writes has the shape of an object.
LEMMA WrittenFacts ==
  ASSUME NEW old, NEW new, Object(old), Written(old, new)
  PROVE  /\ Object(new)
         /\ old.owner = "foreign" => new = old
         /\ new.owner = "foreign" => old.owner = "foreign"
         /\ new # old => \E r \in {old, new} : r # NoObject /\ r.owner # "foreign"
BY OwnerFacts DEF Object, Written, Owners

\* A write is noticed.
LEMMA PutFacts ==
  ASSUME NEW s \in Services, NEW objects, ObjectShape, put(s, objects),
         objects = [o \in ObjectNames |-> objects[o]],
         \A o \in ObjectNames : Written(object[s][o], objects[o])
  PROVE  ObjectsStep
<1>1. object' = [object EXCEPT ![s] = objects] BY Zenon DEF put
<1>2. queue' = queue \cup UNION {notify(s, object[s][o], objects[o]) : o \in ObjectNames} BY Zenon DEF put
<1>3. DOMAIN object = Services BY DEF ObjectShape
<1>4. object'[s] = objects BY <1>1, <1>3
<1>5. \A t \in Services : t # s => object'[t] = object[t] BY <1>1, <1>3
<1>6. \A o \in ObjectNames : Object(object[s][o]) /\ (object[s][o].owner = "foreign" => o = "predictorPolicy") BY Zenon DEF ObjectShape
<1>7. ASSUME NEW o \in ObjectNames
      PROVE  /\ Object(objects[o])
             /\ objects[o].owner = "foreign" => o = "predictorPolicy"
             /\ object[s][o].owner = "foreign" => objects[o] = object[s][o]
             /\ objects[o] # object[s][o] => \E r \in {object[s][o], objects[o]} : r # NoObject /\ r.owner # "foreign"
  <2>1. Object(object[s][o]) /\ Written(object[s][o], objects[o]) BY <1>6
  <2> QED BY <1>6, <2>1, WrittenFacts
<1>8. \A t \in Services : \A o \in ObjectNames : object[t][o].owner = "foreign" => object'[t][o] = object[t][o]
  BY <1>4, <1>5, <1>7
<1>9. ASSUME s \notin queue', NEW o \in ObjectNames PROVE objects[o] = object[s][o]
  <2>1. notify(s, object[s][o], objects[o]) = {} \/ notify(s, object[s][o], objects[o]) = {s} BY Zenon DEF notify
  <2>2. s \notin notify(s, object[s][o], objects[o]) BY <1>2, <1>9, Zenon
  <2>3. notify(s, object[s][o], objects[o]) # {s} BY <2>2
  <2> SUFFICES ASSUME objects[o] # object[s][o] PROVE FALSE OBVIOUS
  <2>4. \E r \in {object[s][o], objects[o]} : r # NoObject /\ r.owner # "foreign" BY <1>7
  <2> QED BY <2>3, <2>4, Zenon DEF notify
<1>10. object' = [t \in Services |-> [o \in ObjectNames |-> object'[t][o]]]
  <2>1. DOMAIN object' = Services /\ object' = [t \in Services |-> object'[t]] BY <1>1, <1>3, Zenon
  <2>2. \A t \in Services : t # s => object[t] = [o \in ObjectNames |-> object[t][o]] BY DEF ObjectShape
  <2>3. \A t \in Services : object'[t] = [o \in ObjectNames |-> object'[t][o]] BY <1>4, <1>5, <2>2, Zenon
  <2> QED BY <2>1, <2>3, SMT
<1>11. \A t \in Services : \A o \in ObjectNames :
         Object(object'[t][o]) /\ (object'[t][o].owner = "foreign" => o = "predictorPolicy")
  <2>1. \A t \in Services : t # s => \A o \in ObjectNames :
          Object(object[t][o]) /\ (object[t][o].owner = "foreign" => o = "predictorPolicy")
    BY Zenon DEF ObjectShape
  <2> QED BY <1>4, <1>5, <1>7, <2>1, SMT
<1>12. ObjectShape' BY <1>10, <1>11, Zenon DEF ObjectShape, Object
<1> QED BY <1>4, <1>5, <1>8, <1>9, <1>12, Zenon DEF ObjectsStep
\* What a pass takes for its own is not another's.
LEMMA OwnedFacts ==
  ASSUME NEW s, NEW r, isOwnedByInferenceService(s, r)
  PROVE  r # NoObject /\ r.owner \in {"isvc", "former"}
BY DEF isOwnedByInferenceService

\* The helpers of the sub-reconcilers write as the controller may.
LEMMA HelperFacts ==
  ASSUME NEW s, NEW old, NEW content, Object(old)
  PROVE  /\ mayWrite(s, old) => Written(old, [owner |-> owner, content |-> content])
         /\ Written(old, deleteOwnedNetworkPolicy(s, old))
         /\ old.owner # "foreign" => Written(old, processDelta(old, content))
<1>1. owner \in {"isvc", "former"} BY DEF owner
<1>2. \A x : Written(old, old) /\ (old.owner # "foreign" => Written(old, NoObject)) BY Zenon DEF Written
<1>3. old.owner # "foreign" => Written(old, [owner |-> owner, content |-> content]) BY <1>1 DEF Written
<1>4. mayWrite(s, old) => old.owner # "foreign" BY OwnedFacts, OwnerFacts DEF mayWrite
<1>5. isOwnedByInferenceService(s, old) => old.owner # "foreign" BY OwnedFacts
<1>6. Written(old, deleteOwnedNetworkPolicy(s, old)) BY <1>2, <1>5, Zenon DEF deleteOwnedNetworkPolicy
<1>7. ASSUME old # NoObject, old.owner # "foreign" PROVE Written(old, [old EXCEPT !.content = content])
  <2>1. old.owner \in {"isvc", "former"} /\ old = [owner |-> old.owner, content |-> old.content] BY <1>7 DEF Object, Owners
  <2> QED BY <2>1 DEF Written
<1>8. old.owner # "foreign" => Written(old, processDelta(old, content)) BY <1>2, <1>3, <1>7, Zenon DEF processDelta
<1> QED BY <1>3, <1>4, <1>6, <1>8, Zenon

\* The objects of the service, as the pass finds them.
LEMMA FoundObjects ==
  ASSUME NEW s \in Services, ObjectShape
  PROVE  /\ object[s] = [o \in ObjectNames |-> object[s][o]]
         /\ \A o \in ObjectNames : Object(object[s][o]) /\ (object[s][o].owner = "foreign" => o = "predictorPolicy")
BY DEF ObjectShape

\* A write of one object.
LEMMA PutOne ==
  ASSUME NEW s \in Services, NEW o \in ObjectNames, NEW new, ObjectShape,
         put(s, [object[s] EXCEPT ![o] = new]), Written(object[s][o], new)
  PROVE  ObjectsStep
<1> DEFINE objects == [object[s] EXCEPT ![o] = new]
<1>1. DOMAIN object[s] = ObjectNames BY FoundObjects, Zenon
<1>2. objects = [x \in ObjectNames |-> objects[x]] BY <1>1
<1>3. \A x \in ObjectNames : objects[x] = IF x = o THEN new ELSE object[s][x] BY <1>1
<1>4. \A x \in ObjectNames : Written(object[s][x], objects[x]) BY <1>3, Zenon DEF Written
<1>5. put(s, objects) OBVIOUS
<1> HIDE DEF objects
<1> QED BY <1>2, <1>4, <1>5, PutFacts

\* A write of nothing.
LEMMA PutNone ==
  ASSUME NEW s \in Services, ObjectShape, put(s, object[s])
  PROVE  ObjectsStep
<1>1. \A x \in ObjectNames : Written(object[s][x], object[s][x]) BY Zenon DEF Written
<1> QED BY <1>1, FoundObjects, PutFacts, Zenon

\* A write of the two policies.
LEMMA PutTwo ==
  ASSUME NEW s \in Services, NEW p, NEW t, ObjectShape,
         put(s, [object[s] EXCEPT !["predictorPolicy"] = p, !["transformerPolicy"] = t]),
         Written(object[s]["predictorPolicy"], p), Written(object[s]["transformerPolicy"], t)
  PROVE  ObjectsStep
<1> DEFINE objects == [object[s] EXCEPT !["predictorPolicy"] = p, !["transformerPolicy"] = t]
<1>1. DOMAIN object[s] = ObjectNames BY FoundObjects, Zenon
<1>2. objects = [x \in ObjectNames |-> objects[x]] BY <1>1
<1>3. \A x \in ObjectNames : objects[x] = IF x = "transformerPolicy" THEN t ELSE IF x = "predictorPolicy" THEN p ELSE object[s][x]
  BY <1>1 DEF ObjectNames
<1>4. \A x \in ObjectNames : Written(object[s][x], objects[x]) BY <1>3, Zenon DEF Written
<1>5. put(s, objects) OBVIOUS
<1> HIDE DEF objects
<1> QED BY <1>2, <1>4, <1>5, PutFacts

\* The policies are written as the controller may.
LEMMA PolicyStep ==
  ASSUME NEW m \in BOOLEAN, Shape, ReconcileNetworkPolicies(m)
  PROVE  ObjectsStep
<1> DEFINE s == worker.svc
           spec == worker.read.spec
           found == FindSupportingRuntimeForISvc(spec, m)
           components == {"predictor"} \cup IF hasTransformer(s, spec) THEN {"transformer"} ELSE {}
           refused == {c \in components : ~mayWrite(s, object[s][policyName(c)])}
           new(c) == IF c \in refused THEN object[s][policyName(c)]
                     ELSE IF c \in components THEN [owner |-> owner, content |-> desiredNetworkPolicy(s, spec, c, found)]
                     ELSE deleteOwnedNetworkPolicy(s, object[s][policyName(c)])
<1>0. worker.at = "policy" BY DEF ReconcileNetworkPolicies
<1>1. ObjectShape /\ s \in Services BY <1>0 DEF Shape, WorkerShape
<1>2. put(s, [object[s] EXCEPT !["predictorPolicy"] = new("predictor"), !["transformerPolicy"] = new("transformer")])
  BY Zenon DEF ReconcileNetworkPolicies
<1>3. policyName("predictor") = "predictorPolicy" /\ policyName("transformer") = "transformerPolicy" BY DEF policyName
<1>4. "predictorPolicy" \in ObjectNames /\ "transformerPolicy" \in ObjectNames BY DEF ObjectNames
<1>5. ASSUME NEW c \in {"predictor", "transformer"} PROVE Written(object[s][policyName(c)], new(c))
  <2>1. policyName(c) \in ObjectNames BY <1>3, <1>4
  <2>2. Object(object[s][policyName(c)]) BY <1>1, <2>1, FoundObjects, Zenon
  <2>3. CASE c \in refused BY <2>3, Zenon DEF Written
  <2>4. CASE c \notin refused /\ c \in components
    <3>1. mayWrite(s, object[s][policyName(c)]) BY <2>4, Zenon
    <3> QED BY <2>2, <2>4, <3>1, HelperFacts, Zenon
  <2>5. CASE c \notin refused /\ c \notin components BY <2>2, <2>5, HelperFacts, Zenon
  <2> QED BY <2>3, <2>4, <2>5
<1>6. Written(object[s]["predictorPolicy"], new("predictor")) BY <1>3, <1>5, Zenon
<1>7. Written(object[s]["transformerPolicy"], new("transformer")) BY <1>3, <1>5, Zenon
<1> HIDE DEF new, s
<1> QED BY <1>1, <1>2, <1>6, <1>7, PutTwo, Zenon
\* So are the Route and the objects for the metrics, and the policies of a deleted service are removed.
LEMMA OtherWrites ==
  ASSUME NEW m \in BOOLEAN, Shape,
         \/ ReconcileRoute \/ ReconcileMetricsService(m) \/ ReconcileServiceMonitor(m) \/ ReconcileDashboard(m)
         \/ DeleteNetworkPolicies
  PROVE  ObjectsStep
<1> DEFINE s == worker.svc
<1>0. worker.at # "idle" BY Zenon DEF ReconcileRoute, ReconcileMetricsService, ReconcileServiceMonitor, ReconcileDashboard, DeleteNetworkPolicies
<1>1. ObjectShape /\ s \in Services BY <1>0 DEF Shape, WorkerShape
<1>2. \A o \in ObjectNames : Object(object[s][o]) BY <1>1, FoundObjects, Zenon
<1>3. \A o \in ObjectNames : o # "predictorPolicy" => object[s][o].owner # "foreign" BY <1>1, FoundObjects, Zenon
<1>4. /\ "route" \in ObjectNames /\ "metrics" \in ObjectNames /\ "monitor" \in ObjectNames /\ "dashboard" \in ObjectNames
      /\ "predictorPolicy" \in ObjectNames /\ "transformerPolicy" \in ObjectNames
  BY DEF ObjectNames
<1>5. "route" # "predictorPolicy" /\ "metrics" # "predictorPolicy" /\ "monitor" # "predictorPolicy" /\ "dashboard" # "predictorPolicy"
  OBVIOUS
<1>6. \A o \in ObjectNames : o # "predictorPolicy" => \A c : Written(object[s][o], processDelta(object[s][o], c))
  BY <1>2, <1>3, HelperFacts, Zenon
<1>7. \A o \in ObjectNames : Written(object[s][o], object[s][o]) BY Zenon DEF Written
<1>8. DOMAIN object[s] = ObjectNames BY <1>1, FoundObjects, Zenon
<1>9. CASE ReconcileRoute
  <2> DEFINE spec == worker.read.spec
             old == object[s]["route"]
             gated == networkPolicyFailed(worker)
             error == ~gated /\ routeError(s, spec)
             new == IF gated THEN IF spec.visibility # "exposed" /\ isOwnedByInferenceService(s, old) THEN NoObject ELSE old
                    ELSE IF error THEN old
                    ELSE processDelta(old, desiredRoute(s, spec))
  <2>1. put(s, [object[s] EXCEPT !["route"] = new]) BY <1>9, Zenon DEF ReconcileRoute
  <2>2. Written(old, NoObject) BY <1>3, <1>4, <1>5, Zenon DEF Written
  <2>3. Written(old, new) BY <1>4, <1>5, <1>6, <1>7, <2>2, Zenon
  <2> HIDE DEF new, s
  <2> QED BY <1>1, <1>4, <2>1, <2>3, PutOne, Zenon
<1>10. CASE ReconcileMetricsService(m)
  <2> DEFINE found == FindSupportingRuntimeForISvc(worker.read.spec, m)
             error == found.result = "error" \/ found.port = "malformed"
             port == IF found.port = "none" THEN Absent ELSE found.port
  <2>1. put(s, IF error THEN object[s] ELSE [object[s] EXCEPT !["metrics"] = processDelta(@, port)]) BY <1>10, Zenon DEF ReconcileMetricsService
  <2>2. CASE error BY <1>1, <2>1, <2>2, PutNone, Zenon
  <2>3. CASE ~error
    <3>1. Written(object[s]["metrics"], processDelta(object[s]["metrics"], port)) BY <1>4, <1>5, <1>6, Zenon
    <3>2. put(s, [object[s] EXCEPT !["metrics"] = processDelta(object[s]["metrics"], port)]) BY <2>1, <2>3, Zenon
    <3> HIDE DEF s, port
    <3> QED BY <1>1, <1>4, <3>1, <3>2, PutOne, Zenon
  <2> QED BY <2>2, <2>3
<1>11. CASE ReconcileServiceMonitor(m)
  <2> DEFINE found == FindSupportingRuntimeForISvc(worker.read.spec, m)
             error == found.result = "error"
             path == IF found.result = "nil" THEN Absent ELSE found.path
  <2>1. put(s, IF error THEN object[s] ELSE [object[s] EXCEPT !["monitor"] = processDelta(@, path)]) BY <1>11, Zenon DEF ReconcileServiceMonitor
  <2>2. CASE error BY <1>1, <2>1, <2>2, PutNone, Zenon
  <2>3. CASE ~error
    <3>1. Written(object[s]["monitor"], processDelta(object[s]["monitor"], path)) BY <1>4, <1>5, <1>6, Zenon
    <3>2. put(s, [object[s] EXCEPT !["monitor"] = processDelta(object[s]["monitor"], path)]) BY <2>1, <2>3, Zenon
    <3> HIDE DEF s, path
    <3> QED BY <1>1, <1>4, <3>1, <3>2, PutOne, Zenon
  <2> QED BY <2>2, <2>3
<1>12. CASE ReconcileDashboard(m)
  <2> DEFINE spec == worker.read.spec
             found == FindSupportingRuntimeForISvc(spec, m)
             error == spec.model = "unformatted" \/ (spec.model = "named" /\ found.result = "error")
             kind == found.kind
  <2>1. put(s, IF error THEN object[s] ELSE [object[s] EXCEPT !["dashboard"] = processDelta(@, kind)]) BY <1>12, Zenon DEF ReconcileDashboard
  <2>2. CASE error BY <1>1, <2>1, <2>2, PutNone, Zenon
  <2>3. CASE ~error
    <3>1. Written(object[s]["dashboard"], processDelta(object[s]["dashboard"], kind)) BY <1>4, <1>5, <1>6, Zenon
    <3>2. put(s, [object[s] EXCEPT !["dashboard"] = processDelta(object[s]["dashboard"], kind)]) BY <2>1, <2>3, Zenon
    <3> HIDE DEF s, kind
    <3> QED BY <1>1, <1>4, <3>1, <3>2, PutOne, Zenon
  <2> QED BY <2>2, <2>3
<1>13. CASE DeleteNetworkPolicies
  <2> DEFINE p == deleteOwnedNetworkPolicy(s, object[s]["predictorPolicy"])
             t == deleteOwnedNetworkPolicy(s, object[s]["transformerPolicy"])
  <2>1. put(s, [object[s] EXCEPT !["predictorPolicy"] = p, !["transformerPolicy"] = t]) BY <1>8, <1>13, <1>4 DEF DeleteNetworkPolicies
  <2>2. Written(object[s]["predictorPolicy"], p) /\ Written(object[s]["transformerPolicy"], t) BY <1>2, <1>4, HelperFacts, Zenon
  <2> HIDE DEF p, t, s
  <2> QED BY <1>1, <2>1, <2>2, PutTwo, Zenon
<1> QED BY <1>9, <1>10, <1>11, <1>12, <1>13

\* A step that leaves the objects alone.
LEMMA NoWrite == ASSUME ObjectShape, UNCHANGED object PROVE ObjectsStep
<1>1. ObjectShape' BY DEF ObjectShape
<1> QED BY <1>1, Zenon DEF ObjectsStep

\* All objects of a service are written, and the service hears of it.
LEMMA WriteAll ==
  ASSUME NEW s \in Services, NEW f, ObjectShape, s \in queue',
         f = [o \in ObjectNames |-> f[o]],
         object' = [t \in Services |-> IF t = s THEN f ELSE object[t]],
         \A o \in ObjectNames : Written(object[s][o], f[o])
  PROVE  ObjectsStep
<1>1. object'[s] = f /\ \A t \in Services : t # s => object'[t] = object[t] OBVIOUS
<1>2. object' = [t \in Services |-> object'[t]] OBVIOUS
<1>3. ASSUME NEW o \in ObjectNames
      PROVE  /\ Object(f[o]) /\ (f[o].owner = "foreign" => o = "predictorPolicy")
             /\ object[s][o].owner = "foreign" => f[o] = object[s][o]
  <2>1. Object(object[s][o]) /\ (object[s][o].owner = "foreign" => o = "predictorPolicy") /\ Written(object[s][o], f[o]) BY FoundObjects, Zenon
  <2> QED BY <2>1, WrittenFacts
<1>4. \A t \in Services : \A o \in ObjectNames : Object(object[t][o]) /\ (object[t][o].owner = "foreign" => o = "predictorPolicy")
  BY Zenon DEF ObjectShape
<1>5. \A t \in Services : object'[t] = [o \in ObjectNames |-> object'[t][o]]
  <2>1. \A t \in Services : object[t] = [o \in ObjectNames |-> object[t][o]] BY DEF ObjectShape
  <2> QED BY <1>1, <2>1, Zenon
<1>6. \A t \in Services : \A o \in ObjectNames :
         Object(object'[t][o]) /\ (object'[t][o].owner = "foreign" => o = "predictorPolicy")
  BY <1>1, <1>3, <1>4, Zenon
<1>7. ObjectShape'
  <2>1. object' = [t \in Services |-> [o \in ObjectNames |-> object'[t][o]]] BY <1>2, <1>5, Zenon
  <2> QED BY <1>6, <2>1, Zenon DEF ObjectShape, Object
<1> QED BY <1>1, <1>3, <1>7, Zenon DEF ObjectsStep

\* A service that goes leaves its objects to the garbage collector.
LEMMA GoneObjects ==
  ASSUME NEW s \in Services, Shape, gone(s)
  PROVE  ObjectsStep
<1> DEFINE f == [o \in ObjectNames |-> formerly(object[s][o])]
<1>1. s \in queue' /\ object' = [object EXCEPT ![s] = [o \in ObjectNames |-> formerly(object[s][o])]] BY Zenon DEF gone
<1>2. \A o \in ObjectNames : f[o] = formerly(object[s][o]) OBVIOUS
<1>3. f = [o \in ObjectNames |-> f[o]] OBVIOUS
<1>4. ObjectShape /\ DOMAIN object = Services BY DEF Shape, ObjectShape
<1>5. ASSUME NEW o \in ObjectNames PROVE Written(object[s][o], formerly(object[s][o]))
  <2>1. Object(object[s][o]) BY <1>4, FoundObjects
  <2>2. CASE object[s][o].owner = "isvc"
    <3>1. object[s][o] = [owner |-> "isvc", content |-> object[s][o].content] BY <2>1, <2>2, OwnerFacts DEF Object
    <3>2. formerly(object[s][o]) = [owner |-> "former", content |-> object[s][o].content] BY <3>1 DEF formerly
    <3> QED BY <2>2, <3>2 DEF Written
  <2> QED BY <2>2, Zenon DEF formerly, Written
<1>6. \A o \in ObjectNames : Written(object[s][o], f[o]) BY <1>2, <1>5, Zenon
<1>7. object' = [t \in Services |-> IF t = s THEN f ELSE object[t]] BY <1>1, <1>4, Zenon
<1> HIDE DEF f
<1> QED BY <1>1, <1>3, <1>4, <1>6, <1>7, WriteAll, Zenon

\* The garbage collector removes only those.
LEMMA CollectObjects ==
  ASSUME NEW s \in Services, Shape, Collect(s)
  PROVE  ObjectsStep
<1> DEFINE kept(r) == IF r.owner = "former" THEN NoObject ELSE r
           f == [o \in ObjectNames |-> kept(object[s][o])]
<1>1. s \in queue' /\ object' = [object EXCEPT ![s] = [o \in ObjectNames |-> kept(object[s][o])]] BY Zenon DEF Collect
<1>2. \A o \in ObjectNames : f[o] = kept(object[s][o]) OBVIOUS
<1>3. f = [o \in ObjectNames |-> f[o]] OBVIOUS
<1>4. ObjectShape /\ DOMAIN object = Services BY DEF Shape, ObjectShape
<1>5. \A r : Written(r, kept(r)) BY DEF Written
<1>6. \A o \in ObjectNames : Written(object[s][o], f[o]) BY <1>2, <1>5, Zenon
<1>7. object' = [t \in Services |-> IF t = s THEN f ELSE object[t]] BY <1>1, <1>4, Zenon
<1> HIDE DEF f, kept
<1> QED BY <1>1, <1>3, <1>4, <1>6, <1>7, WriteAll, Zenon

\* The last service of the namespace takes all policies with it.
LEMMA OrphanObjects ==
  ASSUME Shape, DeleteResourcesIfNoIsvcExists
  PROVE  ObjectsStep
<1> DEFINE orphans(s) == {o \in {"predictorPolicy", "transformerPolicy"} : hasInferenceServiceOwner(object[s][o])}
<1>0. ObjectShape BY DEF Shape
<1>1. CASE UNCHANGED object BY <1>0, <1>1, NoWrite
<1>2. CASE ~UNCHANGED object
  <2>1. /\ object' = [s \in Services |-> [o \in ObjectNames |-> IF o \in orphans(s) THEN NoObject ELSE object[s][o]]]
        /\ queue' = queue \cup {s \in Services : orphans(s) # {}}
    BY <1>2, Zenon DEF DeleteResourcesIfNoIsvcExists
  <2>2. \A s \in Services : \A o \in ObjectNames : object'[s][o] = IF o \in orphans(s) THEN NoObject ELSE object[s][o] BY <2>1
  <2>3. object' = [s \in Services |-> [o \in ObjectNames |-> object'[s][o]]] BY <2>1
  <2>4. \A s \in Services : \A o \in ObjectNames : o \in orphans(s) => object[s][o].owner # "foreign" BY DEF hasInferenceServiceOwner
  <2>5. \A s \in Services : \A o \in ObjectNames : Object(object[s][o]) /\ (object[s][o].owner = "foreign" => o = "predictorPolicy")
    BY <1>0, Zenon DEF ObjectShape
  <2>6. Object(NoObject) /\ NoObject.owner # "foreign" BY DEF Object, NoObject
  <2>7. ObjectShape' 
    <3>1. \A s \in Services : \A o \in ObjectNames : Object(object'[s][o]) /\ (object'[s][o].owner = "foreign" => o = "predictorPolicy")
      BY <2>2, <2>5, <2>6, Zenon
    <3> QED BY <2>3, <3>1, Zenon DEF ObjectShape, Object
  <2>8. \A s \in Services : s \notin queue' => \A o \in ObjectNames : o \notin orphans(s) BY <2>1, Zenon
  <2> HIDE DEF orphans
  <2> QED BY <2>2, <2>4, <2>7, <2>8, Zenon DEF ObjectsStep
<1> QED BY <1>1, <1>2

\* A user creates a policy, or deletes an object.
LEMMA UserObjects ==
  ASSUME NEW s \in Services, Shape,
         CreateForeignPolicy(s) \/ \E o \in ObjectNames : DeleteObject(s, o)
  PROVE  ObjectsStep
<1>0. ObjectShape BY DEF Shape
<1>1. CASE CreateForeignPolicy(s)
  <2> DEFINE p == [owner |-> "foreign", content |-> "other"]
  <2>1. object' = [object EXCEPT ![s]["predictorPolicy"] = p] /\ object[s]["predictorPolicy"] = NoObject
    BY <1>1, Zenon DEF CreateForeignPolicy
  <2>2. DOMAIN object = Services /\ DOMAIN object[s] = ObjectNames BY <1>0 DEF ObjectShape
  <2>3. \A t \in Services : \A o \in ObjectNames : t # s \/ o # "predictorPolicy" => object'[t][o] = object[t][o]
    BY <2>1, <2>2 DEF ObjectNames
  <2>4. object'[s]["predictorPolicy"] = p BY <2>1, <2>2 DEF ObjectNames
  <2>5. Object(p) /\ p.owner = "foreign" BY DEF Object, Owners
  <2>6. NoObject.owner # "foreign" BY OwnerFacts
  <2>7. object' = [t \in Services |-> [o \in ObjectNames |-> object'[t][o]]]
    <3>1. object' = [t \in Services |-> object'[t]] BY <2>1, <2>2, Zenon
    <3>2. \A t \in Services : t # s => object'[t] = object[t] BY <2>1, <2>2
    <3>3. object'[s] = [object[s] EXCEPT !["predictorPolicy"] = p] BY <2>1, <2>2
    <3>4. object'[s] = [o \in ObjectNames |-> object'[s][o]] BY <2>2, <3>3, Zenon
    <3>5. \A t \in Services : object[t] = [o \in ObjectNames |-> object[t][o]] BY <1>0 DEF ObjectShape
    <3>6. \A t \in Services : object'[t] = [o \in ObjectNames |-> object'[t][o]] BY <3>2, <3>4, <3>5, Zenon
    <3> QED BY <3>1, <3>6, SMT
  <2> HIDE DEF p
  <2>8. \A t \in Services : \A o \in ObjectNames : Object(object'[t][o]) /\ (object'[t][o].owner = "foreign" => o = "predictorPolicy")
    <3>1. \A t \in Services : \A o \in ObjectNames : Object(object[t][o]) /\ (object[t][o].owner = "foreign" => o = "predictorPolicy")
      BY <1>0, Zenon DEF ObjectShape
    <3> QED BY <2>3, <2>4, <2>5, <3>1
  <2>9. ObjectShape' BY <2>7, <2>8, Zenon DEF ObjectShape, Object
  <2> QED BY <2>1, <2>3, <2>4, <2>5, <2>6, <2>9 DEF ObjectsStep, Taken
<1>2. ASSUME NEW o \in ObjectNames, DeleteObject(s, o) PROVE ObjectsStep
  <2>1. object[s][o].owner # "foreign" /\ put(s, [object[s] EXCEPT ![o] = NoObject]) BY <1>2, Zenon DEF DeleteObject
  <2>2. Written(object[s][o], NoObject) BY <2>1 DEF Written
  <2> QED BY <1>0, <2>1, <2>2, PutOne
<1> QED BY <1>1, <1>2
\* Every step writes as it may.
LEMMA ObjectsNext == ASSUME Shape, Next PROVE ObjectsStep
<1>0. ObjectShape BY DEF Shape
<1>1. ASSUME NEW s \in Services, Reconcile(s) \/ Requeue(s) PROVE UNCHANGED object
  BY <1>1, Zenon DEF Reconcile, Requeue
<1>2. ASSUME NEW g \in Graphs, ReconcileGraph(g) \/ CollectRouter(g) PROVE UNCHANGED object
  BY <1>2, Zenon DEF ReconcileGraph, CollectRouter
<1>3. CASE Pass
  <2>1. CASE AddFinalizer \/ ReconcileClusterRoleBinding \/ DeleteClusterRoleBinding
    <3>1. UNCHANGED object BY <2>1, Zenon DEF AddFinalizer, ReconcileClusterRoleBinding, DeleteClusterRoleBinding
    <3> QED BY <1>0, <3>1, NoWrite
  <2>2. CASE RemoveFinalizer
    <3>1. worker.svc \in Services BY <2>2 DEF RemoveFinalizer, Shape, WorkerShape
    <3>2. gone(worker.svc) BY <2>2, Zenon DEF RemoveFinalizer
    <3> QED BY <3>1, <3>2, GoneObjects
  <2>3. CASE ReconcileNetworkPolicies(FALSE) BY <2>3, PolicyStep, Zenon
  <2>4. CASE DeleteResourcesIfNoIsvcExists BY <2>4, OrphanObjects
  <2> QED BY <1>3, <2>1, <2>2, <2>3, <2>4, OtherWrites, Zenon DEF Pass
<1>4. CASE Misread BY <1>4, PolicyStep, OtherWrites, Zenon DEF Misread
<1>5. ASSUME NEW s \in Services, NEW spec, CreateService(s, spec) \/ UpdateService(s, spec) PROVE UNCHANGED object
  BY <1>5, Zenon DEF CreateService, UpdateService
<1>6. ASSUME NEW s \in Services, DeleteService(s) PROVE ObjectsStep
  <2>1. UNCHANGED object \/ gone(s) BY <1>6, Zenon DEF DeleteService
  <2> QED BY <1>0, <2>1, NoWrite, GoneObjects
<1>7. ASSUME NEW s \in Services, NEW new, ChangeBackends(s, new) PROVE UNCHANGED object BY <1>7, Zenon DEF ChangeBackends
<1>8. ASSUME NEW new, ChangeRuntime(new) PROVE UNCHANGED object BY <1>8, Zenon DEF ChangeRuntime
<1>9. ASSUME NEW g \in Graphs, NEW new, ChangeGraph(g, new) PROVE UNCHANGED object BY <1>9, Zenon DEF ChangeGraph
<1>10. ASSUME NEW a, DeleteBinding(a) PROVE UNCHANGED object BY <1>10, Zenon DEF DeleteBinding
<1>11. CASE CallFails \/ Restart
  <2>1. UNCHANGED object BY <1>11, Zenon DEF CallFails, Restart
  <2> QED BY <1>0, <2>1, NoWrite
<1>12. CASE Environment
  BY <1>0, <1>5, <1>6, <1>7, <1>8, <1>9, <1>10, <1>11, <1>12, NoWrite, UserObjects, Zenon DEF Environment
<1> QED BY <1>0, <1>1, <1>2, <1>3, <1>4, <1>12, NoWrite, CollectObjects, Zenon DEF Next

\* A user changes a graph.
Regraphed == \E g \in Graphs : \E new \in GraphSpecs \cup {Absent} : ChangeGraph(g, new)

\* A service hears of its backing Services and, while it is there, of the runtime.
LEMMA BackendsNext ==
  ASSUME Shape, Next
  PROVE  /\ DOMAIN backend' = Services
         /\ \A s \in Services : s \notin queue' => backend'[s] = backend[s]
         /\ \A s \in Services : s \notin queue' /\ isvc[s] # Absent => runtime' = runtime
         /\ UNCHANGED graph \/ Regraphed
<1> DEFINE Fine == /\ DOMAIN backend' = Services
                   /\ \A s \in Services : s \notin queue' => backend'[s] = backend[s]
                   /\ \A s \in Services : s \notin queue' /\ isvc[s] # Absent => runtime' = runtime
                   /\ UNCHANGED graph \/ Regraphed
<1>0. DOMAIN backend = Services BY DEF Shape
<1>1. ASSUME UNCHANGED <<backend, runtime, graph>> PROVE Fine BY <1>0, <1>1
<1>2. ASSUME NEW s \in Services, gone(s), UNCHANGED <<runtime, graph>> PROVE Fine
  <2>1. s \in queue' /\ backend' = [backend EXCEPT ![s] = [b \in BackendNames |-> formerly(backend[s][b])]] BY <1>2, Zenon DEF gone
  <2> QED BY <1>0, <1>2, <2>1
<1>3. ASSUME NEW s \in Services, Reconcile(s) \/ Requeue(s) \/ Collect(s) PROVE Fine
  <2>1. CASE Reconcile(s) \/ Requeue(s) BY <1>1, <2>1, Zenon DEF Reconcile, Requeue, cluster
  <2>2. CASE Collect(s)
    <3>1. s \in queue' /\ UNCHANGED <<runtime, graph>> BY <2>2, Zenon DEF Collect
    <3>2. backend' = [backend EXCEPT ![s] = [b \in BackendNames |-> IF backend[s][b].owner = "former" THEN NoObject ELSE backend[s][b]]]
      BY <2>2, Zenon DEF Collect
    <3> QED BY <1>0, <3>1, <3>2
  <2> QED BY <1>3, <2>1, <2>2
<1>4. ASSUME NEW g \in Graphs, ReconcileGraph(g) \/ CollectRouter(g) PROVE Fine
  BY <1>1, <1>4, Zenon DEF ReconcileGraph, CollectRouter
<1>5. ASSUME Pass PROVE Fine
  <2>1. CASE RemoveFinalizer
    <3>1. worker.svc \in Services BY <2>1 DEF RemoveFinalizer, Shape, WorkerShape
    <3>2. gone(worker.svc) /\ UNCHANGED <<runtime, graph>> BY <2>1, Zenon DEF RemoveFinalizer
    <3> QED BY <1>2, <3>1, <3>2
  <2>2. CASE AddFinalizer \/ ReconcileClusterRoleBinding \/ DeleteClusterRoleBinding \/ DeleteNetworkPolicies
    BY <1>1, <2>2, Zenon DEF AddFinalizer, ReconcileClusterRoleBinding, DeleteClusterRoleBinding, DeleteNetworkPolicies, cluster
  <2>3. CASE DeleteResourcesIfNoIsvcExists BY <1>1, <2>3, Zenon DEF DeleteResourcesIfNoIsvcExists, cluster
  <2>4. CASE ReconcileNetworkPolicies(FALSE) BY <1>1, <2>4, Zenon DEF ReconcileNetworkPolicies, cluster
  <2>5. CASE ReconcileRoute BY <1>1, <2>5, Zenon DEF ReconcileRoute, cluster
  <2>6. CASE ReconcileMetricsService(FALSE) BY <1>1, <2>6, Zenon DEF ReconcileMetricsService, cluster
  <2>7. CASE ReconcileServiceMonitor(FALSE) BY <1>1, <2>7, Zenon DEF ReconcileServiceMonitor, cluster
  <2>8. CASE ReconcileDashboard(FALSE) BY <1>1, <2>8, Zenon DEF ReconcileDashboard, cluster
  <2> QED BY <1>5, <2>1, <2>2, <2>3, <2>4, <2>5, <2>6, <2>7, <2>8, Zenon DEF Pass
<1>6. ASSUME Misread PROVE Fine
  <2>1. CASE ReconcileNetworkPolicies(TRUE) BY <1>1, <2>1, Zenon DEF ReconcileNetworkPolicies, cluster
  <2>2. CASE ReconcileMetricsService(TRUE) BY <1>1, <2>2, Zenon DEF ReconcileMetricsService, cluster
  <2>3. CASE ReconcileServiceMonitor(TRUE) BY <1>1, <2>3, Zenon DEF ReconcileServiceMonitor, cluster
  <2>4. CASE ReconcileDashboard(TRUE) BY <1>1, <2>4, Zenon DEF ReconcileDashboard, cluster
  <2> QED BY <1>6, <2>1, <2>2, <2>3, <2>4, Zenon DEF Misread
<1>7. ASSUME NEW s \in Services, NEW spec, CreateService(s, spec) \/ UpdateService(s, spec) PROVE Fine
  BY <1>1, <1>7, Zenon DEF CreateService, UpdateService, cluster
<1>8. ASSUME NEW s \in Services, DeleteService(s) PROVE Fine
  <2>1. UNCHANGED <<runtime, graph>> /\ (UNCHANGED backend \/ gone(s)) BY <1>8, Zenon DEF DeleteService
  <2> QED BY <1>1, <1>2, <2>1
<1>9. ASSUME NEW s \in Services, NEW new, ChangeBackends(s, new) PROVE Fine
  <2>1. s \in queue' /\ UNCHANGED <<runtime, graph>> /\ backend' = [backend EXCEPT ![s] = backendsOf(new)] BY <1>9, Zenon DEF ChangeBackends
  <2> QED BY <1>0, <2>1
<1>10. ASSUME NEW new, ChangeRuntime(new) PROVE Fine
  <2>1. UNCHANGED <<backend, graph>> /\ queue' = queue \cup {s \in Services : isvc[s] # Absent} BY <1>10, Zenon DEF ChangeRuntime
  <2> QED BY <1>0, <2>1
<1>11. ASSUME NEW g \in Graphs, NEW new \in GraphSpecs \cup {Absent}, ChangeGraph(g, new) PROVE Fine
  <2>1. UNCHANGED <<backend, runtime>> BY <1>11, Zenon DEF ChangeGraph
  <2>2. Regraphed BY <1>11, Zenon DEF Regraphed
  <2> QED BY <1>0, <2>1, <2>2
<1>12. ASSUME NEW s \in Services, NEW o \in ObjectNames, CreateForeignPolicy(s) \/ DeleteObject(s, o) PROVE Fine
  BY <1>1, <1>12, Zenon DEF CreateForeignPolicy, DeleteObject, cluster
<1>13. ASSUME NEW a, DeleteBinding(a) PROVE Fine BY <1>1, <1>13, Zenon DEF DeleteBinding, cluster
<1>14. ASSUME CallFails \/ Restart PROVE Fine BY <1>1, <1>14, Zenon DEF CallFails, Restart, cluster
<1>15. ASSUME NEW s \in Services, CreateForeignPolicy(s) PROVE Fine BY <1>1, <1>15, Zenon DEF CreateForeignPolicy, cluster
<1> HIDE DEF Fine
<1>16. ASSUME Environment PROVE Fine
  BY <1>7, <1>8, <1>9, <1>10, <1>11, <1>12, <1>13, <1>14, <1>15, <1>16, Zenon DEF Environment
<1>17. Fine BY <1>3, <1>4, <1>5, <1>6, <1>16, Zenon DEF Next
<1> QED BY <1>17 DEF Fine

\* The state keeps its shape.
LEMMA ShapeNext == ASSUME Shape, [Next]_vars PROVE Shape'
<1>0. DOMAIN graph = Graphs BY DEF Shape
<1>1. CASE Next
  <2>1. UNCHANGED graph \/ \E g \in Graphs : \E new : graph' = [graph EXCEPT ![g] = new] BY <1>1, BackendsNext, Zenon DEF Regraphed, ChangeGraph
  <2>2. DOMAIN graph' = Graphs BY <1>0, <2>1
  <2> QED BY <1>1, <2>2, WorkerShapeNext, ServicesNext, ObjectsNext, BackendsNext, Zenon DEF Shape, ObjectsStep
<1>2. CASE UNCHANGED vars
  <2>1. UNCHANGED <<isvc, object, backend, graph, unnoticed, worker>> BY <1>2, Zenon DEF vars
  <2>2. ObjectShape' BY <2>1, NoWrite DEF Shape, ObjectsStep
  <2>3. WorkerShape' BY <2>1 DEF Shape, WorkerShape
  <2> QED BY <2>1, <2>2, <2>3 DEF Shape
<1> QED BY <1>1, <1>2
---------------------------------------------------------------------------
(* The pass and the service it has read. *)

\* A running pass has a service; an idle worker has none.
LEMMA WorkerFacts ==
  ASSUME WorkerShape
  PROVE  /\ worker.at = "idle" => worker.svc = Absent /\ worker.svc \notin Services /\ ~worker.stale /\ ~worker.blocked /\ ~worker.failed
         /\ worker.at # "idle" => worker.svc \in Services /\ worker.at \in ReconcileSteps \cup DeletionSteps
BY IdleIs, NameAssumption DEF WorkerShape

\* When the pass goes on, what it has read stays as current as it was.
LEMMA ReadOnward ==
  ASSUME NEW e, WorkerShape, ReadInv, worker.at # "idle", proceed(e), UNCHANGED isvc, queue \subseteq queue',
         worker.at # "finalizer" \/ worker.read.finalizer
  PROVE  ReadInv'
<1>1. CASE worker' = Idle BY <1>1, IdleIs, NameAssumption DEF ReadInv, ReconcileSteps, DeletionSteps
<1>2. CASE worker' # Idle
  <2>1. Onward(e) BY <1>2, StepFacts DEF Over
  <2>2. worker'.svc = worker.svc /\ worker'.read = worker.read /\ worker'.stale = worker.stale BY <2>1 DEF Onward
  <2>3. /\ worker.at \in ReconcileSteps => worker'.at \in ReconcileSteps \ {"finalizer"}
        /\ worker.at \in DeletionSteps => worker'.at \in DeletionSteps
    BY <1>2, StepFacts DEF Over
  <2>4. worker.at \in ReconcileSteps \cup DeletionSteps BY DEF WorkerShape
  <2>5. ReconcileSteps \cap DeletionSteps = {} /\ "finalizer" \notin DeletionSteps BY DEF ReconcileSteps, DeletionSteps
  <2> QED BY <2>2, <2>3, <2>4, <2>5 DEF ReadInv, Live
<1> QED BY <1>1, <1>2

\* Every step keeps what the pass has read current, or queues the service.
LEMMA ReadNext == ASSUME Shape, ReadInv, Next PROVE ReadInv'
<1>0. WorkerShape /\ isvc \in [Services -> ServiceRecord \cup {Absent}] BY DEF Shape
<1>1. CASE Still BY <1>1 DEF Still, ReadInv, Live
<1>2. CASE Writes
  <2>1. worker.at # "idle" /\ worker.at # "finalizer" BY <1>2 DEF Writes, WriteSteps
  <2> QED BY <1>0, <1>2, <2>1, ReadOnward DEF Writes
<1>3. ASSUME NEW s \in Services, Reconcile(s) PROVE ReadInv'
  <2>1. UNCHANGED isvc /\ queue' = queue \ {s} BY <1>3, ReconcileFacts
  <2>2. CASE worker' = Idle BY <2>1, <2>2, IdleIs, NameAssumption DEF ReadInv, ReconcileSteps, DeletionSteps
  <2> QED BY <1>3, <2>1, <2>2, ReconcileFacts DEF ReadInv, ReconcileSteps, DeletionSteps, Live
<1>4. ASSUME NEW s \in Services, DeleteService(s) PROVE ReadInv'
  <2>1. Live(s) /\ s \in queue' /\ queue \subseteq queue' BY <1>4, Zenon DEF DeleteService, gone
  <2>2. isvc[s] \in ServiceRecord BY <1>0, <2>1 DEF Live
  <2>3. CASE isvc[s].finalizer
    <3>1. isvc' = [isvc EXCEPT ![s].deleting = TRUE] /\ worker' = worker BY <1>4, <2>3, Zenon DEF DeleteService
    <3>2. /\ \A t \in Services : t # s => isvc'[t] = isvc[t]
          /\ isvc'[s] # Absent /\ isvc'[s].deleting /\ isvc'[s].finalizer
      BY <1>0, <2>2, <2>3, <3>1, NameAssumption, Zenon DEF ServiceRecord
    <3> QED BY <1>0, <2>1, <3>1, <3>2, WorkerFacts DEF ReadInv, Live, ReconcileSteps, DeletionSteps
  <2>4. CASE ~isvc[s].finalizer
    <3>1. isvc' = [isvc EXCEPT ![s] = Absent] BY <1>4, <2>4, Zenon DEF DeleteService, gone
    <3>2. isvc'[s] = Absent /\ \A t \in Services : t # s => isvc'[t] = isvc[t] BY <1>0, <3>1
    <3>3. CASE worker.svc # s
      <4>1. worker' = worker BY <1>4, <3>3, Zenon DEF DeleteService
      <4> QED BY <1>0, <2>1, <3>2, <3>3, <4>1, WorkerFacts DEF ReadInv, Live, ReconcileSteps, DeletionSteps
    <3>4. CASE worker.svc = s
      <4>1. worker' = [worker EXCEPT !.stale = TRUE] BY <1>4, <2>4, <3>4, Zenon DEF DeleteService
      <4>2. worker'.at = worker.at /\ worker'.svc = s /\ worker'.read = worker.read /\ worker'.stale
        BY <1>0, <3>4, <4>1 DEF WorkerShape, WorkerFields
      <4>3. worker.at \notin ReconcileSteps \ {"finalizer"} /\ ~(worker.at = "finalizer" /\ worker.read.finalizer)
        BY <2>4, <3>4, Zenon DEF ReadInv
      <4>4. ~(worker.at \in DeletionSteps /\ worker.read # Absent) BY <2>1, <3>4 DEF ReadInv, Live
      <4> QED BY <2>1, <3>2, <3>4, <4>2, <4>3, <4>4 DEF ReadInv, Live
    <3> QED BY <3>3, <3>4
  <2> QED BY <2>3, <2>4
<1>5. ASSUME NEW s \in Services, NEW spec \in Specs[s], CreateService(s, spec) PROVE ReadInv'
  <2>1. /\ isvc[s] = Absent /\ isvc' = [isvc EXCEPT ![s] = [spec |-> spec, finalizer |-> FALSE, deleting |-> FALSE]]
        /\ s \in queue' /\ queue \subseteq queue' /\ worker' = worker
    BY <1>5, Zenon DEF CreateService
  <2>2. ~isvc'[s].deleting /\ \A t \in Services : t # s => isvc'[t] = isvc[t] BY <1>0, <2>1
  <2> QED BY <1>0, <2>1, <2>2, WorkerFacts DEF ReadInv, Live, ReconcileSteps, DeletionSteps
<1>6. ASSUME NEW s \in Services, NEW spec \in Specs[s], UpdateService(s, spec) PROVE ReadInv'
  <2>1. Live(s) /\ isvc' = [isvc EXCEPT ![s].spec = spec] /\ s \in queue' /\ queue \subseteq queue' /\ worker' = worker
    BY <1>6, Zenon DEF UpdateService
  <2>2. isvc[s] \in ServiceRecord BY <1>0, <2>1 DEF Live
  <2>3. /\ \A t \in Services : t # s => isvc'[t] = isvc[t]
        /\ isvc'[s] # Absent /\ isvc'[s].deleting = isvc[s].deleting /\ isvc'[s].finalizer = isvc[s].finalizer
    BY <1>0, <2>1, <2>2, NameAssumption DEF ServiceRecord
  <2> QED BY <1>0, <2>1, <2>3, WorkerFacts DEF ReadInv, Live, ReconcileSteps, DeletionSteps
<1>7. CASE AddFinalizer
  <2>1. worker.at = "finalizer" /\ queue \subseteq queue' BY <1>7, Zenon DEF AddFinalizer
  <2>2. worker.svc \in Services /\ worker.read \in ServiceRecord BY <1>0, <2>1 DEF WorkerShape
  <2>3. CASE worker.read.finalizer
    <3>1. UNCHANGED isvc /\ proceed(FALSE) BY <1>7, <2>3, Zenon DEF AddFinalizer
    <3> QED BY <1>0, <2>1, <2>3, <3>1, ReadOnward, Zenon
  <2>4. CASE worker' = Idle /\ UNCHANGED isvc BY <2>4, IdleIs, NameAssumption DEF ReadInv, ReconcileSteps, DeletionSteps
  <2>5. CASE ~worker.read.finalizer /\ ~(worker' = Idle /\ UNCHANGED isvc)
    <3>1. /\ isvc[worker.svc] = worker.read /\ ~worker.stale /\ worker.svc \in queue'
          /\ isvc' = [isvc EXCEPT ![worker.svc].finalizer = TRUE] /\ proceed(FALSE)
      BY <1>7, <2>5, Zenon DEF AddFinalizer
    <3>2. /\ \A t \in Services : t # worker.svc => isvc'[t] = isvc[t]
          /\ isvc'[worker.svc] # Absent /\ isvc'[worker.svc].finalizer
      BY <1>0, <2>2, <3>1, NameAssumption, Zenon DEF ServiceRecord
    <3>3. /\ worker'.at = "binding" /\ worker'.svc = worker.svc /\ worker'.stale = worker.stale
      BY <1>0, <2>1, <3>1, StepFacts, NextIs, Zenon DEF Onward
    <3> QED BY <2>1, <2>2, <3>1, <3>2, <3>3 DEF ReadInv, Live, ReconcileSteps, DeletionSteps
  <2> QED BY <2>3, <2>4, <2>5
<1>8. CASE ReconcileClusterRoleBinding \/ DeleteClusterRoleBinding
  <2>1. worker.at \in {"binding", "deleteBinding"} /\ UNCHANGED <<isvc, queue>> /\ proceed(FALSE)
    BY <1>8, Zenon DEF ReconcileClusterRoleBinding, DeleteClusterRoleBinding
  <2>2. worker.at # "idle" /\ worker.at # "finalizer" BY <2>1
  <2> QED BY <1>0, <2>1, <2>2, ReadOnward, Zenon
<1>9. CASE RemoveFinalizer
  <2>1. worker.at = "removeFinalizer" /\ isvc' = [isvc EXCEPT ![worker.svc] = Absent] /\ proceed(FALSE) BY <1>9, Zenon DEF RemoveFinalizer, gone
  <2>2. worker' = Idle BY <2>1, NextIs, Zenon DEF proceed, ends
  <2>3. \A t \in Services : isvc'[t] = isvc[t] \/ isvc'[t] = Absent BY <1>0, <2>1
  <2> QED BY <2>2, <2>3, IdleIs, NameAssumption DEF ReadInv, ReconcileSteps, DeletionSteps
<1>10. CASE CallFails
  <2>1. worker.at # "idle" /\ UNCHANGED isvc /\ queue \subseteq queue' BY <1>10, Zenon DEF CallFails
  <2>2. CASE worker' = Idle BY <2>1, <2>2, IdleIs, NameAssumption DEF ReadInv, ReconcileSteps, DeletionSteps
  <2>3. CASE worker' # Idle
    <3>1. worker.at # "finalizer" /\ proceed(TRUE) BY <1>10, <2>3, Zenon DEF CallFails
    <3> QED BY <1>0, <2>1, <3>1, ReadOnward, Zenon
  <2> QED BY <2>2, <2>3
<1>11. CASE Restart
  <2>1. worker' = Idle /\ UNCHANGED isvc BY <1>11, Zenon DEF Restart
  <2> QED BY <2>1, IdleIs, NameAssumption DEF ReadInv, ReconcileSteps, DeletionSteps
<1>12. ASSUME NEW a, DeleteBinding(a) PROVE ReadInv'
  <2>1. UNCHANGED <<isvc, worker, queue>> BY <1>12, Zenon DEF DeleteBinding
  <2> QED BY <2>1 DEF ReadInv, Live
<1> QED BY <1>1, <1>2, <1>3, <1>4, <1>5, <1>6, <1>7, <1>8, <1>9, <1>10, <1>11, <1>12, KindsOfSteps, Zenon DEF Others
---------------------------------------------------------------------------
(* The queue and the step of the pass. *)

\* A service that is there leaves the queue when its pass starts.
LEMMA QueueNext ==
  ASSUME Shape, Next, NEW s \in Services, isvc[s] # Absent, s \in queue, s \notin queue'
  PROVE  Reconcile(s)
<1>1. CASE Still BY <1>1 DEF Still
<1>2. CASE Writes BY <1>2 DEF Writes
<1>3. ASSUME NEW t \in Services, Reconcile(t) PROVE Reconcile(s)
  <2>1. queue' = queue \ {t} BY <1>3, ReconcileFacts
  <2>2. t = s BY <2>1
  <2> QED BY <1>3, <2>2
<1>4. ASSUME NEW t \in Services, DeleteService(t) PROVE FALSE BY <1>4, Zenon DEF DeleteService, gone
<1>5. ASSUME NEW t \in Services, NEW spec, CreateService(t, spec) \/ UpdateService(t, spec) PROVE FALSE
  BY <1>5, Zenon DEF CreateService, UpdateService
<1>6. CASE AddFinalizer BY <1>6, Zenon DEF AddFinalizer
<1>7. CASE ReconcileClusterRoleBinding \/ DeleteClusterRoleBinding \/ RemoveFinalizer
  BY <1>7, Zenon DEF ReconcileClusterRoleBinding, DeleteClusterRoleBinding, RemoveFinalizer, gone
<1>8. CASE CallFails BY <1>8, Zenon DEF CallFails
<1>9. CASE Restart BY <1>9, Zenon DEF Restart
<1>10. ASSUME NEW a, DeleteBinding(a) PROVE FALSE BY <1>10, Zenon DEF DeleteBinding
<1> QED BY <1>1, <1>2, <1>3, <1>4, <1>5, <1>6, <1>7, <1>8, <1>9, <1>10, KindsOfSteps, Zenon DEF Others

\* Its pass goes on step by step while the service is not queued again.
LEMMA PassNext ==
  ASSUME Shape, Next, NEW s \in Services, isvc[s] # Absent, s \notin queue', worker.svc = s, worker.at \in ReconcileSteps
  PROVE  \/ worker'.svc = s /\ worker'.at = worker.at /\ worker'.failed = worker.failed
         \/ worker.at = "finalizer" /\ worker'.svc = s /\ worker'.at = "binding" /\ proceed(FALSE)
         \/ worker.at = "binding" /\ ReconcileClusterRoleBinding
         \/ Writes
<1>0. WorkerShape BY DEF Shape
<1>1. CASE Still BY <1>1, Zenon DEF Still
<1>2. ASSUME NEW t \in Services, Reconcile(t) PROVE FALSE BY <1>2, ReconcileFacts DEF ReconcileSteps
<1>3. ASSUME NEW t \in Services, DeleteService(t) PROVE worker'.svc = s /\ worker'.at = worker.at /\ worker'.failed = worker.failed
  <2>1. worker' = worker \/ worker' = [worker EXCEPT !.stale = TRUE] BY <1>3, Zenon DEF DeleteService
  <2> QED BY <1>0, <2>1 DEF WorkerShape, WorkerFields
<1>4. ASSUME NEW t \in Services, NEW spec, CreateService(t, spec) \/ UpdateService(t, spec) PROVE worker' = worker
  BY <1>4, Zenon DEF CreateService, UpdateService
<1>5. CASE AddFinalizer
  <2>1. worker.at = "finalizer" /\ proceed(FALSE) BY <1>5, Zenon DEF AddFinalizer
  <2>2. Onward(FALSE) BY <1>0, <2>1, StepFacts, Zenon
  <2>3. worker'.svc = s /\ worker'.at = "binding" BY <2>1, <2>2, NextIs DEF Onward
  <2> QED BY <2>1, <2>3, Zenon
<1>6. CASE ReconcileClusterRoleBinding BY <1>6, Zenon DEF ReconcileClusterRoleBinding
<1>7. ASSUME DeleteClusterRoleBinding \/ RemoveFinalizer PROVE FALSE
  BY <1>7, Zenon DEF DeleteClusterRoleBinding, RemoveFinalizer, ReconcileSteps
<1>8. ASSUME CallFails PROVE FALSE BY <1>8, Zenon DEF CallFails
<1>9. ASSUME Restart PROVE FALSE BY <1>9, Zenon DEF Restart
<1>10. ASSUME NEW a, DeleteBinding(a) PROVE worker' = worker BY <1>10, Zenon DEF DeleteBinding
<1> QED BY <1>1, <1>2, <1>3, <1>4, <1>5, <1>6, <1>7, <1>8, <1>9, <1>10, KindsOfSteps, Zenon DEF Others

---------------------------------------------------------------------------
(* The bindings. *)

\* An account has a name.
LEMMA AccountFacts ==
  ASSUME NEW spec
  PROVE  accountOf(spec) # "" /\ (spec.account # "" => accountOf(spec) = spec.account)
BY Zenon DEF accountOf

\* No pass takes a binding from a service that uses it.
LEMMA BindingKept ==
  ASSUME Shape, Next, NEW s \in Services, Live(s), authIsTrue(isvc[s].spec),
         accountOf(isvc[s].spec) \in binding \cup unnoticed.lost
  PROVE  accountOf(isvc[s].spec) \in binding' \cup unnoticed'.lost
<1> DEFINE a == accountOf(isvc[s].spec)
<1>0. DOMAIN unnoticed = {"lost", "stray", "misread"} BY DEF Shape
<1>a. a # "" BY AccountFacts, Zenon
<1>b. \A x : x = a => s \in getExistingIsvcsWithTheSameSAandAuthEnabled(x) BY DEF getExistingIsvcsWithTheSameSAandAuthEnabled
<1> HIDE DEF a
<1>u. ASSUME UNCHANGED binding, unnoticed'.lost = unnoticed.lost PROVE a \in binding' \cup unnoticed'.lost BY <1>u DEF a
<1>1. CASE Still BY <1>1, <1>u DEF Still, a
<1>2. CASE Writes BY <1>2, <1>u DEF Writes, a
<1>3. ASSUME NEW t \in Services, Reconcile(t) PROVE a \in binding' \cup unnoticed'.lost
  <2>1. UNCHANGED binding /\ unnoticed' = [unnoticed EXCEPT !.misread = @ \ {t}] BY <1>3, Zenon DEF Reconcile
  <2>2. unnoticed'.lost = unnoticed.lost BY <1>0, <2>1
  <2> QED BY <1>u, <2>1, <2>2
<1>4. ASSUME NEW t \in Services, DeleteService(t) PROVE a \in binding' \cup unnoticed'.lost
  <2>1. /\ UNCHANGED binding
        /\ \/ unnoticed' = unnoticed
           \/ unnoticed' = [unnoticed EXCEPT !.stray = @ \cup ({accountOf(isvc[t].spec)} \cap binding)]
    BY <1>4, Zenon DEF DeleteService
  <2>2. unnoticed'.lost = unnoticed.lost BY <1>0, <2>1
  <2> QED BY <1>u, <2>1, <2>2
<1>5. ASSUME NEW t \in Services, NEW spec, CreateService(t, spec) \/ UpdateService(t, spec) PROVE a \in binding' \cup unnoticed'.lost
  <2>1. UNCHANGED binding /\ (unnoticed' = unnoticed \/ unnoticed' = [unnoticed EXCEPT !.stray = @ \cup strays(t, spec)])
    BY <1>5, Zenon DEF CreateService, UpdateService
  <2>2. unnoticed'.lost = unnoticed.lost BY <1>0, <2>1
  <2> QED BY <1>u, <2>1, <2>2
<1>6. CASE AddFinalizer \/ RemoveFinalizer \/ CallFails
  <2>1. UNCHANGED <<binding, unnoticed>> BY <1>6, Zenon DEF AddFinalizer, RemoveFinalizer, CallFails
  <2> QED BY <1>u, <2>1 DEF a
<1>7. CASE ReconcileClusterRoleBinding
  <2> DEFINE spec == worker.read.spec
  <2>1. /\ binding' = IF bindingWanted(spec) THEN binding \cup {accountOf(spec)} ELSE binding \ {spec.account}
        /\ unnoticed' = [unnoticed EXCEPT !.lost = @ \ binding', !.stray = @ \ (binding \ binding')]
    BY <1>7, Zenon DEF ReconcileClusterRoleBinding
  <2>2. unnoticed'.lost = unnoticed.lost \ binding' BY <1>0, <2>1
  <2>3. ~bindingWanted(spec) => spec.account # a
    <3>1. ~bindingWanted(spec) => accountOf(spec) # a BY <1>b, Zenon DEF bindingWanted
    <3> QED BY <1>a, <3>1, AccountFacts, Zenon
  <2> QED BY <2>1, <2>2, <2>3 DEF a
<1>8. CASE DeleteClusterRoleBinding
  <2> DEFINE account == accountOf(worker.read.spec)
  <2>1. /\ binding' = IF getExistingIsvcsWithTheSameSAandAuthEnabled(account) = {} THEN binding \ {account} ELSE binding
        /\ unnoticed' = [unnoticed EXCEPT !.stray = @ \ (binding \ binding')]
    BY <1>8, Zenon DEF DeleteClusterRoleBinding
  <2>2. unnoticed'.lost = unnoticed.lost BY <1>0, <2>1
  <2>3. getExistingIsvcsWithTheSameSAandAuthEnabled(account) = {} => account # a BY <1>b, Zenon
  <2> QED BY <2>1, <2>2, <2>3 DEF a
<1>9. CASE Restart
  <2>1. UNCHANGED binding /\ unnoticed' = [unnoticed EXCEPT !.misread = {}] BY <1>9, Zenon DEF Restart
  <2>2. unnoticed'.lost = unnoticed.lost BY <1>0, <2>1
  <2> QED BY <1>u, <2>1, <2>2 DEF a
<1>10. ASSUME NEW b, DeleteBinding(b) PROVE a \in binding' \cup unnoticed'.lost
  <2>1. binding' = binding \ {b} /\ unnoticed' = [unnoticed EXCEPT !.lost = @ \cup {b}] BY <1>10, Zenon DEF DeleteBinding
  <2>2. unnoticed'.lost = unnoticed.lost \cup {b} BY <1>0, <2>1
  <2> QED BY <2>1, <2>2 DEF a
<1> QED BY <1>1, <1>2, <1>3, <1>4, <1>5, <1>6, <1>7, <1>8, <1>9, <1>10, KindsOfSteps, Zenon DEF Others, a

\* Every step leaves a service that asks for authentication bound, or about to be.
LEMMA GrantNext == ASSUME Shape, ReadInv, GrantInv, Next PROVE GrantInv'
<1> DEFINE Early == {"finalizer", "binding"}
<1>1. SUFFICES ASSUME NEW s \in Services, Live(s)', authIsTrue(isvc'[s].spec), s \notin queue', ~(worker'.svc = s /\ worker'.at \in Early)
               PROVE  accountOf(isvc'[s].spec) \in binding' \cup unnoticed'.lost
  BY Zenon DEF GrantInv, authIsTrue, accountOf
<1>2. isvc'[s] = isvc[s] BY <1>1, ServicesNext
<1>3. Live(s) /\ isvc[s] # Absent BY <1>1, <1>2 DEF Live
<1>4. s \notin queue
  <2> SUFFICES ASSUME s \in queue PROVE FALSE OBVIOUS
  <2>1. Reconcile(s) BY <1>1, <1>3, QueueNext
  <2>2. worker'.svc = s /\ worker'.at = "finalizer" BY <1>3, <2>1, ReconcileFacts DEF Live
  <2> QED BY <1>1, <2>2
<1>5. CASE ~(worker.svc = s /\ worker.at \in Early)
  <2>1. accountOf(isvc[s].spec) \in binding \cup unnoticed.lost BY <1>1, <1>2, <1>3, <1>4, <1>5, Zenon DEF GrantInv
  <2> QED BY <1>1, <1>2, <1>3, <2>1, BindingKept
<1>6. CASE worker.svc = s /\ worker.at \in Early
  <2>1. worker.at \in ReconcileSteps /\ worker.at # "idle" BY <1>6 DEF ReconcileSteps
  <2>2. worker.at \notin WriteSteps BY <1>6 DEF WriteSteps
  <2>3. worker.at = "binding" /\ ReconcileClusterRoleBinding BY <1>1, <1>3, <1>6, <2>1, <2>2, PassNext, Zenon DEF Writes
  <2>4. worker.read.spec = isvc[s].spec BY <1>3, <1>4, <1>6, <2>1 DEF ReadInv
  <2>5. bindingWanted(worker.read.spec) BY <1>1, <1>2, <2>4 DEF bindingWanted
  <2>6. accountOf(worker.read.spec) \in binding' BY <2>3, <2>5 DEF ReconcileClusterRoleBinding
  <2> QED BY <1>2, <2>4, <2>6
<1> QED BY <1>5, <1>6
\* The service may still remove its binding in a pass.
EarlyOf(t) == worker.svc = t /\ worker.at \in {"finalizer", "binding"}

\* A service goes on covering a binding as long as its spec stays and its cleanup does not
\* pass the binding.
LEMMA CoversFrame ==
  ASSUME NEW t, NEW a, Covers(t, a),
         isvc'[t] # Absent, isvc'[t].spec = isvc[t].spec, isvc'[t].deleting = isvc[t].deleting,
         Unbound(t)' => Unbound(t),
         ~isvc[t].deleting /\ (t \in queue \/ EarlyOf(t)) => t \in queue' \/ EarlyOf(t)'
  PROVE  Covers(t, a)'
<1>1. isvc[t] # Absent /\ accountOf(isvc[t].spec) = a BY Zenon DEF Covers
<1>2. accountOf(isvc'[t].spec) = a BY <1>1
<1>3. CASE isvc[t].deleting
  <2>1. ~Unbound(t) BY <1>3, Zenon DEF Covers
  <2> QED BY <1>2, <1>3, <2>1, Zenon DEF Covers
<1>4. CASE ~isvc[t].deleting
  <2>1. authIsTrue(isvc[t].spec) \/ (isvc[t].spec.account = a /\ (t \in queue \/ EarlyOf(t))) BY <1>4, Zenon DEF Covers, EarlyOf
  <2>2. authIsTrue(isvc'[t].spec) \/ (isvc'[t].spec.account = a /\ (t \in queue' \/ EarlyOf(t)')) BY <1>4, <2>1
  <2> QED BY <1>2, <1>4, <2>2, Zenon DEF Covers, EarlyOf
<1> QED BY <1>3, <1>4

\* A service that asks for authentication covers its binding.
LEMMA UserCovers ==
  ASSUME NEW t, NEW a, isvc'[t] # Absent, ~isvc'[t].deleting, authIsTrue(isvc'[t].spec), accountOf(isvc'[t].spec) = a
  PROVE  Covers(t, a)'
BY Zenon DEF Covers

\* A pass that ends or goes on does not pass the binding, except in its deletion.
LEMMA UnboundOnward ==
  ASSUME NEW e, NEW t \in Services, WorkerShape, worker.at # "idle", worker.at # "deleteBinding" \/ e, proceed(e)
  PROVE  Unbound(t)' => Unbound(t)
<1>1. CASE worker' = Idle BY <1>1, IdleIs, NameAssumption DEF Unbound
<1>2. CASE worker' # Idle
  <2>1. Onward(e) BY <1>2, StepFacts DEF Over
  <2>2. worker'.svc = worker.svc /\ worker'.read = worker.read /\ (worker'.failed <=> worker.failed \/ e) BY <2>1 DEF Onward
  <2>3. /\ worker'.at = "deletePolicies" => worker.at = "deleteBinding"
        /\ worker'.at = "cleanup" => worker.at = "deletePolicies"
        /\ worker'.at = "removeFinalizer" => worker.at = "cleanup"
    BY <1>2, StepFacts DEF Over
  <2> QED BY <2>2, <2>3 DEF Unbound
<1> QED BY <1>1, <1>2

\* The update of a spec: the binding is covered, or known to be stray.
LEMMA UpdateCovers ==
  ASSUME Shape, NEW s \in Services, NEW spec \in Specs[s], UpdateService(s, spec), NEW a, Covers(s, a),
         a \in binding \/ worker.svc = s
  PROVE  a \in unnoticed'.stray \/ Covers(s, a)'
<1>0. isvc \in [Services -> ServiceRecord \cup {Absent}] /\ DOMAIN unnoticed = {"lost", "stray", "misread"} BY DEF Shape
<1>1. /\ Live(s) /\ isvc' = [isvc EXCEPT ![s].spec = spec] /\ s \in queue'
      /\ unnoticed' = [unnoticed EXCEPT !.stray = @ \cup strays(s, spec)]
  BY Zenon DEF UpdateService
<1>2. isvc[s] \in ServiceRecord BY <1>0, <1>1 DEF Live
<1>3. isvc'[s] # Absent /\ isvc'[s].spec = spec /\ isvc'[s].deleting = isvc[s].deleting BY <1>0, <1>1, <1>2, NameAssumption DEF ServiceRecord
<1>4. strays(s, spec) \subseteq unnoticed'.stray BY <1>0, <1>1
<1>5. accountOf(isvc[s].spec) = a BY Zenon DEF Covers
<1>6. CASE accountOf(spec) # a \/ (spec.account = "" /\ ~authIsTrue(spec))
  <2>1. a \in strays(s, spec) BY <1>5, <1>6, Zenon DEF strays
  <2> QED BY <1>4, <2>1
<1>7. CASE accountOf(spec) = a /\ ~(spec.account = "" /\ ~authIsTrue(spec))
  <2>1. authIsTrue(spec) \/ spec.account = a BY <1>7, AccountFacts, Zenon
  <2>2. ~isvc'[s].deleting BY <1>1, <1>3 DEF Live
  <2> QED BY <1>1, <1>3, <1>7, <2>1, <2>2, Zenon DEF Covers
<1> QED BY <1>6, <1>7, Zenon

\* The binding step keeps bindings covered, and covers the one it makes.
LEMMA BindingStepCovers ==
  ASSUME Shape, ReadInv, BoundInv, AskedInv, ReconcileClusterRoleBinding
  PROVE  BoundInv'
<1> DEFINE spec == worker.read.spec
           s == worker.svc
<1>0. DOMAIN unnoticed = {"lost", "stray", "misread"} /\ WorkerShape BY DEF Shape
<1>1. /\ worker.at = "binding" /\ UNCHANGED <<isvc, queue>> /\ proceed(FALSE)
      /\ binding' = IF bindingWanted(spec) THEN binding \cup {accountOf(spec)} ELSE binding \ {spec.account}
      /\ unnoticed' = [unnoticed EXCEPT !.lost = @ \ binding', !.stray = @ \ (binding \ binding')]
  BY Zenon DEF ReconcileClusterRoleBinding
<1>2. unnoticed'.stray = unnoticed.stray \ (binding \ binding') BY <1>0, <1>1
<1>3. s \in Services BY <1>0, <1>1 DEF WorkerShape
<1>4. worker'.svc = s /\ worker'.at = "policy" /\ ~EarlyOf(s)'
  <2>1. Onward(FALSE) BY <1>0, <1>1, StepFacts, Zenon
  <2>2. worker'.svc = s /\ worker'.at = "policy" BY <1>1, <2>1, NextIs DEF Onward
  <2> QED BY <2>2 DEF EarlyOf
<1>5. isvc[s] # Absent /\ ~worker.stale BY <1>1 DEF ReadInv, ReconcileSteps
<1>6. \A t \in Services : Unbound(t)' => Unbound(t) BY <1>0, <1>1, UnboundOnward, Zenon
<1>7. ASSUME NEW a, getExistingIsvcsWithTheSameSAandAuthEnabled(a) # {} PROVE \E t \in Services : Covers(t, a)'
  <2>1. PICK t \in Services : Live(t) /\ authIsTrue(isvc[t].spec) /\ accountOf(isvc[t].spec) = a
    BY <1>7 DEF getExistingIsvcsWithTheSameSAandAuthEnabled
  <2>2. isvc'[t] = isvc[t] BY <1>1
  <2>3. Covers(t, a)' BY <2>1, <2>2, UserCovers DEF Live
  <2> QED BY <2>3
<1>8. ASSUME NEW t \in Services, NEW a \in binding', Covers(t, a) PROVE \E u \in Services : Covers(u, a)'
  <2>1. isvc[t] # Absent /\ accountOf(isvc[t].spec) = a BY <1>8, Zenon DEF Covers
  <2>2. isvc'[t] = isvc[t] BY <1>1
  <2>3. CASE t # s \/ isvc[t].deleting \/ t \in queue
    <3>1. ~isvc[t].deleting /\ (t \in queue \/ EarlyOf(t)) => t \in queue' BY <1>1, <2>3 DEF EarlyOf
    <3>2. Covers(t, a)' BY <1>6, <1>8, <2>1, <2>2, <3>1, CoversFrame
    <3> QED BY <3>2
  <2>4. CASE t = s /\ ~isvc[t].deleting /\ t \notin queue
    <3>1. Live(s) BY <2>1, <2>4 DEF Live
    <3>2. spec = isvc[s].spec BY <1>1, <2>4, <3>1 DEF ReadInv
    <3>3. CASE authIsTrue(spec)
      <4>1. Covers(t, a)' BY <2>1, <2>2, <2>4, <3>2, <3>3, UserCovers
      <4> QED BY <4>1
    <3>4. CASE ~authIsTrue(spec)
      <4>1. spec.account = a BY <1>8, <2>4, <3>2, <3>4, Zenon DEF Covers
      <4>2. bindingWanted(spec) BY <1>1, <1>8, <4>1
      <4>3. getExistingIsvcsWithTheSameSAandAuthEnabled(accountOf(spec)) # {} BY <3>4, <4>2, Zenon DEF bindingWanted
      <4> QED BY <1>7, <2>1, <2>4, <3>2, <4>3
    <3> QED BY <3>3, <3>4
  <2> QED BY <2>3, <2>4
<1>9. ASSUME NEW a \in binding' \ unnoticed'.stray PROVE \E t \in Services : Covers(t, a)'
  <2>1. a \notin unnoticed.stray BY <1>2, <1>9
  <2>2. CASE a \in binding
    <3>1. PICK t \in Services : Covers(t, a) BY <2>1, <2>2, Zenon DEF BoundInv
    <3> QED BY <1>8, <1>9, <3>1
  <2>3. CASE a \notin binding
    <3>1. bindingWanted(spec) /\ a = accountOf(spec) BY <1>1, <1>9, <2>3
    <3>2. CASE authIsTrue(spec)
      <4>1. Covers(s, a) BY <1>1, <1>5, <2>1, <3>1, <3>2 DEF AskedInv
      <4> QED BY <1>3, <1>8, <1>9, <4>1
    <3>3. CASE ~authIsTrue(spec)
      <4>1. getExistingIsvcsWithTheSameSAandAuthEnabled(a) # {} BY <3>1, <3>3, Zenon DEF bindingWanted
      <4> QED BY <1>7, <4>1
    <3> QED BY <3>2, <3>3
  <2> QED BY <2>2, <2>3
<1> QED BY <1>9, Zenon DEF BoundInv

\* So does the deletion of a binding.
LEMMA DeleteBindingCovers ==
  ASSUME Shape, ReadInv, BoundInv, DeleteClusterRoleBinding
  PROVE  BoundInv'
<1> DEFINE account == accountOf(worker.read.spec)
           s == worker.svc
<1>0. DOMAIN unnoticed = {"lost", "stray", "misread"} /\ WorkerShape BY DEF Shape
<1>1. /\ worker.at = "deleteBinding" /\ UNCHANGED <<isvc, queue>> /\ proceed(FALSE)
      /\ binding' = IF getExistingIsvcsWithTheSameSAandAuthEnabled(account) = {} THEN binding \ {account} ELSE binding
      /\ unnoticed' = [unnoticed EXCEPT !.stray = @ \ (binding \ binding')]
  BY Zenon DEF DeleteClusterRoleBinding
<1>2. unnoticed'.stray = unnoticed.stray \ (binding \ binding') BY <1>0, <1>1
<1>3. s \in Services /\ worker.read # Absent BY <1>0, <1>1 DEF WorkerShape
<1>4. worker.read = isvc[s] /\ worker.read.deleting BY <1>1, <1>3 DEF ReadInv, DeletionSteps
<1>5. worker'.svc = s
  <2>1. Onward(FALSE) BY <1>0, <1>1, StepFacts, Zenon
  <2> QED BY <2>1 DEF Onward
<1>6. \A t \in Services : ~EarlyOf(t) BY <1>1 DEF EarlyOf
<1>7. SUFFICES ASSUME NEW a \in binding' \ unnoticed'.stray PROVE \E t \in Services : Covers(t, a)' BY Zenon DEF BoundInv
<1>8. a \in binding \ unnoticed.stray BY <1>1, <1>2, <1>7
<1>9. PICK t \in Services : Covers(t, a) BY <1>8, Zenon DEF BoundInv
<1>10. isvc[t] # Absent /\ accountOf(isvc[t].spec) = a /\ isvc'[t] = isvc[t] BY <1>1, <1>9, Zenon DEF Covers
<1>11. CASE t # s
  <2>1. ~Unbound(t)' BY <1>5, <1>11 DEF Unbound
  <2>2. Covers(t, a)' BY <1>1, <1>6, <1>9, <1>10, <2>1, CoversFrame
  <2> QED BY <2>2
<1>12. CASE t = s
  <2>1. a = account BY <1>4, <1>10, <1>12
  <2>2. getExistingIsvcsWithTheSameSAandAuthEnabled(a) # {} BY <1>1, <1>7, <2>1
  <2>3. PICK u \in Services : Live(u) /\ authIsTrue(isvc[u].spec) /\ accountOf(isvc[u].spec) = a
    BY <2>2 DEF getExistingIsvcsWithTheSameSAandAuthEnabled
  <2>4. isvc'[u] = isvc[u] BY <1>1
  <2>5. Covers(u, a)' BY <2>3, <2>4, UserCovers DEF Live
  <2> QED BY <2>5
<1> QED BY <1>11, <1>12
\* A step that binds no account and forgets no stray one keeps the bindings covered, if
\* it keeps every service that covers one covering it.
LEMMA BoundFrame ==
  ASSUME BoundInv, binding' \subseteq binding, unnoticed.stray \subseteq unnoticed'.stray,
         \A a \in binding' \ unnoticed'.stray : \A t \in Services : Covers(t, a) => Covers(t, a)'
  PROVE  BoundInv'
<1>1. ASSUME NEW a \in binding' \ unnoticed'.stray PROVE \E t \in Services : Covers(t, a)'
  <2>1. PICK t \in Services : Covers(t, a) BY DEF BoundInv
  <2> QED BY <2>1
<1> QED BY <1>1, Zenon DEF BoundInv

\* Every step keeps every binding covered, or knows that it is stray.
LEMMA BoundNext == ASSUME Shape, ReadInv, BoundInv, AskedInv, Next PROVE BoundInv'
<1>0. /\ WorkerShape /\ isvc \in [Services -> ServiceRecord \cup {Absent}]
      /\ DOMAIN unnoticed = {"lost", "stray", "misread"}
  BY DEF Shape
<1>a. ASSUME NEW t \in Services, NEW a, Covers(t, a) PROVE isvc[t] # Absent BY <1>a, Zenon DEF Covers
<1>1. CASE Still
  <2>1. UNCHANGED <<isvc, binding, unnoticed, worker>> /\ queue \subseteq queue' BY <1>1 DEF Still
  <2>2. \A t \in Services : (Unbound(t)' <=> Unbound(t)) /\ (EarlyOf(t)' <=> EarlyOf(t)) BY <2>1 DEF Unbound, EarlyOf
  <2>3. ASSUME NEW a, NEW t \in Services, Covers(t, a) PROVE Covers(t, a)' BY <1>a, <2>1, <2>2, <2>3, CoversFrame
  <2> QED BY <2>1, <2>3, BoundFrame
<1>2. CASE Writes
  <2>1. /\ worker.at \in WriteSteps /\ UNCHANGED <<isvc, binding>> /\ queue \subseteq queue'
        /\ unnoticed'.stray = unnoticed.stray
    BY <1>2 DEF Writes
  <2>2. PICK e \in BOOLEAN : proceed(e) BY <1>2 DEF Writes
  <2>3. worker.at # "idle" /\ worker.at # "deleteBinding" /\ \A t \in Services : ~EarlyOf(t) BY <2>1 DEF WriteSteps, EarlyOf
  <2>4. \A t \in Services : Unbound(t)' => Unbound(t) BY <1>0, <2>2, <2>3, UnboundOnward
  <2>5. ASSUME NEW a, NEW t \in Services, Covers(t, a) PROVE Covers(t, a)' BY <1>a, <2>1, <2>3, <2>4, <2>5, CoversFrame, Zenon
  <2> QED BY <2>1, <2>5, BoundFrame
<1>3. ASSUME NEW s \in Services, Reconcile(s) PROVE BoundInv'
  <2>1. worker.at = "idle" /\ queue' = queue \ {s} /\ UNCHANGED <<isvc, binding>> BY <1>3, ReconcileFacts
  <2>2. unnoticed' = [unnoticed EXCEPT !.misread = @ \ {s}] BY <1>3, Zenon DEF Reconcile
  <2>3. unnoticed'.stray = unnoticed.stray BY <1>0, <2>2
  <2>4. \A t \in Services : ~EarlyOf(t) BY <2>1 DEF EarlyOf
  <2>5. \A t \in Services : ~Unbound(t)' BY <1>3, ReconcileFacts, IdleIs DEF Unbound
  <2>6. isvc[s] # Absent /\ ~isvc[s].deleting => EarlyOf(s)' BY <1>3, ReconcileFacts DEF EarlyOf, Live
  <2>7. ASSUME NEW a, NEW t \in Services, Covers(t, a) PROVE Covers(t, a)'
    <3>1. isvc[t] # Absent BY <1>a, <2>7
    <3>2. ~isvc[t].deleting /\ (t \in queue \/ EarlyOf(t)) => t \in queue' \/ EarlyOf(t)' BY <2>1, <2>4, <2>6, <3>1
    <3> QED BY <2>1, <2>5, <2>7, <3>1, <3>2, CoversFrame
  <2> QED BY <2>1, <2>3, <2>7, BoundFrame
<1>4. ASSUME NEW s \in Services, DeleteService(s) PROVE BoundInv'
  <2>1. Live(s) /\ s \in queue' /\ queue \subseteq queue' /\ UNCHANGED binding BY <1>4, Zenon DEF DeleteService, gone
  <2>2. isvc[s] \in ServiceRecord /\ ~isvc[s].deleting BY <1>0, <2>1 DEF Live
  <2>3. worker'.at = worker.at /\ worker'.svc = worker.svc /\ worker'.read = worker.read /\ worker'.failed = worker.failed
    <3>1. worker' = worker \/ worker' = [worker EXCEPT !.stale = TRUE] BY <1>4, Zenon DEF DeleteService
    <3> QED BY <1>0, <3>1 DEF WorkerShape, WorkerFields
  <2>4. \A t \in Services : (Unbound(t)' <=> Unbound(t)) /\ (EarlyOf(t)' <=> EarlyOf(t)) BY <2>3 DEF Unbound, EarlyOf
  <2>5. CASE isvc[s].finalizer
    <3>1. isvc' = [isvc EXCEPT ![s].deleting = TRUE] /\ unnoticed' = unnoticed BY <1>4, <2>5, Zenon DEF DeleteService
    <3>2. /\ \A t \in Services : t # s => isvc'[t] = isvc[t]
          /\ isvc'[s] # Absent /\ isvc'[s].spec = isvc[s].spec /\ isvc'[s].deleting
      BY <1>0, <2>2, <3>1, NameAssumption, Zenon DEF ServiceRecord
    <3>3. ~Unbound(s)' BY <2>2, <2>4 DEF Unbound, ReadInv, DeletionSteps
    <3>4. ASSUME NEW a, NEW t \in Services, Covers(t, a) PROVE Covers(t, a)'
      <4>1. CASE t # s BY <1>a, <2>1, <2>4, <3>2, <3>4, <4>1, CoversFrame, Zenon
      <4>2. CASE t = s
        <5>1. accountOf(isvc'[s].spec) = a BY <3>2, <3>4, <4>2, Zenon DEF Covers
        <5> QED BY <3>2, <3>3, <4>2, <5>1, Zenon DEF Covers
      <4> QED BY <4>1, <4>2
    <3> QED BY <2>1, <3>1, <3>4, BoundFrame
  <2>6. CASE ~isvc[s].finalizer
    <3>1. /\ isvc' = [isvc EXCEPT ![s] = Absent]
          /\ unnoticed' = [unnoticed EXCEPT !.stray = @ \cup ({accountOf(isvc[s].spec)} \cap binding)]
      BY <1>4, <2>6, Zenon DEF DeleteService, gone
    <3>2. \A t \in Services : t # s => isvc'[t] = isvc[t] BY <1>0, <3>1
    <3>3. unnoticed'.stray = unnoticed.stray \cup ({accountOf(isvc[s].spec)} \cap binding) BY <1>0, <3>1
    <3>4. ASSUME NEW a \in binding' \ unnoticed'.stray, NEW t \in Services, Covers(t, a) PROVE Covers(t, a)'
      <4>1. accountOf(isvc[t].spec) = a BY <3>4, Zenon DEF Covers
      <4>2. t # s BY <2>1, <3>3, <3>4, <4>1
      <4> QED BY <1>a, <2>1, <2>4, <3>2, <3>4, <4>2, CoversFrame
    <3> QED BY <2>1, <3>3, <3>4, BoundFrame
  <2> QED BY <2>5, <2>6
<1>5. ASSUME NEW s \in Services, NEW spec \in Specs[s], CreateService(s, spec) PROVE BoundInv'
  <2>1. /\ isvc[s] = Absent /\ isvc' = [isvc EXCEPT ![s] = [spec |-> spec, finalizer |-> FALSE, deleting |-> FALSE]]
        /\ queue \subseteq queue' /\ UNCHANGED <<binding, worker, unnoticed>>
    BY <1>5, Zenon DEF CreateService
  <2>2. \A t \in Services : (Unbound(t)' <=> Unbound(t)) /\ (EarlyOf(t)' <=> EarlyOf(t)) BY <2>1 DEF Unbound, EarlyOf
  <2>3. \A t \in Services : t # s => isvc'[t] = isvc[t] BY <1>0, <2>1
  <2>4. ASSUME NEW a, NEW t \in Services, Covers(t, a) PROVE Covers(t, a)' BY <1>a, <2>1, <2>2, <2>3, <2>4, CoversFrame, Zenon
  <2> QED BY <2>1, <2>4, BoundFrame, Zenon
<1>6. ASSUME NEW s \in Services, NEW spec \in Specs[s], UpdateService(s, spec) PROVE BoundInv'
  <2>1. /\ isvc' = [isvc EXCEPT ![s].spec = spec] /\ queue \subseteq queue' /\ UNCHANGED <<binding, worker>>
        /\ unnoticed' = [unnoticed EXCEPT !.stray = @ \cup strays(s, spec)]
    BY <1>6, Zenon DEF UpdateService
  <2>2. \A t \in Services : (Unbound(t)' <=> Unbound(t)) /\ (EarlyOf(t)' <=> EarlyOf(t)) BY <2>1 DEF Unbound, EarlyOf
  <2>3. \A t \in Services : t # s => isvc'[t] = isvc[t] BY <1>0, <2>1
  <2>4. unnoticed.stray \subseteq unnoticed'.stray BY <1>0, <2>1
  <2>5. ASSUME NEW a \in binding' \ unnoticed'.stray, NEW t \in Services, Covers(t, a) PROVE Covers(t, a)'
    <3>1. CASE t # s BY <1>a, <2>1, <2>2, <2>3, <2>5, <3>1, CoversFrame
    <3>2. CASE t = s BY <1>6, <2>1, <2>5, <3>2, UpdateCovers
    <3> QED BY <3>1, <3>2
  <2> QED BY <2>1, <2>4, <2>5, BoundFrame
<1>7. CASE AddFinalizer
  <2>1. worker.at = "finalizer" /\ queue \subseteq queue' /\ UNCHANGED <<binding, unnoticed>> BY <1>7, Zenon DEF AddFinalizer
  <2>2. worker.svc \in Services /\ worker.read \in ServiceRecord BY <1>0, <2>1 DEF WorkerShape
  <2>3. \/ worker' = Idle /\ worker.svc \in queue'
        \/ worker'.at = "binding" /\ worker'.svc = worker.svc
    <3>1. (worker' = Idle /\ worker.svc \in queue') \/ proceed(FALSE) BY <1>7, Zenon DEF AddFinalizer
    <3> QED BY <1>0, <2>1, <3>1, StepFacts, NextIs, Zenon DEF Onward
  <2>4. \A t \in Services : isvc[t] # Absent => isvc'[t] # Absent /\ isvc'[t].spec = isvc[t].spec /\ isvc'[t].deleting = isvc[t].deleting
    <3>1. CASE UNCHANGED isvc BY <3>1
    <3>2. CASE ~UNCHANGED isvc
      <4>1. isvc[worker.svc] = worker.read /\ isvc' = [isvc EXCEPT ![worker.svc].finalizer = TRUE] BY <1>7, <3>2, Zenon DEF AddFinalizer
      <4>2. \A t \in Services : t # worker.svc => isvc'[t] = isvc[t] BY <1>0, <4>1
      <4>3. /\ isvc'[worker.svc] # Absent /\ isvc'[worker.svc].spec = isvc[worker.svc].spec
            /\ isvc'[worker.svc].deleting = isvc[worker.svc].deleting
        BY <1>0, <2>2, <4>1, NameAssumption, Zenon DEF ServiceRecord
      <4> QED BY <4>2, <4>3
    <3> QED BY <3>1, <3>2
  <2>5. \A t \in Services : ~Unbound(t)' /\ (EarlyOf(t) => t \in queue' \/ EarlyOf(t)') BY <2>3, IdleIs DEF Unbound, EarlyOf
  <2>6. ASSUME NEW a, NEW t \in Services, Covers(t, a) PROVE Covers(t, a)'
    <3>1. isvc[t] # Absent BY <1>a, <2>6
    <3> QED BY <2>1, <2>4, <2>5, <2>6, <3>1, CoversFrame
  <2> QED BY <2>1, <2>6, BoundFrame
<1>8. CASE ReconcileClusterRoleBinding BY <1>8, BindingStepCovers
<1>9. CASE DeleteClusterRoleBinding BY <1>9, DeleteBindingCovers
<1>10. CASE RemoveFinalizer
  <2>1. worker.at = "removeFinalizer" /\ isvc' = [isvc EXCEPT ![worker.svc] = Absent] /\ proceed(FALSE) /\ UNCHANGED <<binding, unnoticed>>
        /\ queue \subseteq queue'
    BY <1>10, Zenon DEF RemoveFinalizer, gone
  <2>2. worker' = Idle BY <2>1, NextIs, Zenon DEF proceed, ends
  <2>3. worker.svc \in Services /\ worker.read # Absent /\ ~worker.failed BY <1>0, <2>1 DEF WorkerShape
  <2>4. isvc[worker.svc].deleting /\ Unbound(worker.svc) BY <2>1, <2>3 DEF ReadInv, DeletionSteps, Unbound
  <2>5. \A t \in Services : ~Unbound(t)' /\ ~EarlyOf(t) BY <2>1, <2>2, IdleIs DEF Unbound, EarlyOf
  <2>6. ASSUME NEW a, NEW t \in Services, Covers(t, a) PROVE Covers(t, a)'
    <3>1. t # worker.svc BY <2>4, <2>6, Zenon DEF Covers
    <3>2. isvc'[t] = isvc[t] BY <1>0, <2>1, <3>1
    <3> QED BY <1>a, <2>1, <2>5, <2>6, <3>2, CoversFrame
  <2> QED BY <2>1, <2>6, BoundFrame
<1>11. CASE CallFails
  <2>1. worker.at # "idle" /\ queue' = queue \cup {worker.svc} /\ UNCHANGED <<isvc, binding, unnoticed>> BY <1>11, Zenon DEF CallFails
  <2>2. worker' = Idle \/ proceed(TRUE) BY <1>11, Zenon DEF CallFails
  <2>3. \A t \in Services : Unbound(t)' => Unbound(t)
    <3>1. CASE worker' = Idle BY <3>1, IdleIs DEF Unbound
    <3> QED BY <1>0, <2>1, <2>2, <3>1, UnboundOnward, Zenon
  <2>4. \A t \in Services : EarlyOf(t) => t \in queue' BY <2>1 DEF EarlyOf
  <2>5. ASSUME NEW a, NEW t \in Services, Covers(t, a) PROVE Covers(t, a)'
    <3>1. t \in queue => t \in queue' BY <2>1
    <3> QED BY <1>a, <2>1, <2>3, <2>4, <2>5, <3>1, CoversFrame
  <2> QED BY <2>1, <2>5, BoundFrame
<1>12. CASE Restart
  <2>1. worker' = Idle /\ UNCHANGED <<isvc, binding>> /\ unnoticed' = [unnoticed EXCEPT !.misread = {}] BY <1>12, Zenon DEF Restart
  <2>2. \A t \in Services : isvc[t] # Absent => t \in queue' BY <1>12, Zenon DEF Restart
  <2>3. unnoticed'.stray = unnoticed.stray BY <1>0, <2>1
  <2>4. \A t \in Services : ~Unbound(t)' BY <2>1, IdleIs DEF Unbound
  <2>5. ASSUME NEW a, NEW t \in Services, Covers(t, a) PROVE Covers(t, a)' BY <1>a, <2>1, <2>2, <2>4, <2>5, CoversFrame
  <2> QED BY <2>1, <2>3, <2>5, BoundFrame
<1>13. ASSUME NEW b, DeleteBinding(b) PROVE BoundInv'
  <2>1. /\ binding' = binding \ {b} /\ unnoticed' = [unnoticed EXCEPT !.lost = @ \cup {b}] /\ UNCHANGED <<isvc, queue, worker>>
    BY <1>13, Zenon DEF DeleteBinding
  <2>2. unnoticed'.stray = unnoticed.stray BY <1>0, <2>1
  <2>3. \A t \in Services : (Unbound(t)' <=> Unbound(t)) /\ (EarlyOf(t)' <=> EarlyOf(t)) BY <2>1 DEF Unbound, EarlyOf
  <2>4. ASSUME NEW a, NEW t \in Services, Covers(t, a) PROVE Covers(t, a)' BY <1>a, <2>1, <2>3, <2>4, CoversFrame
  <2> QED BY <2>1, <2>2, <2>4, BoundFrame
<1> QED BY <1>1, <1>2, <1>3, <1>4, <1>5, <1>6, <1>7, <1>8, <1>9, <1>10, <1>11, <1>12, <1>13, KindsOfSteps, Zenon DEF Others
\* Every step keeps the binding that a pass is about to make covered, or knows that it is stray.
LEMMA AskedNext == ASSUME Shape, ReadInv, AskedInv, Next PROVE AskedInv'
<1>1. SUFFICES ASSUME NEW s, NEW a, worker'.svc = s, accountOf(worker'.read.spec) = a, isvc'[s] # Absent,
                      worker'.at \in {"finalizer", "binding"}, authIsTrue(worker'.read.spec), ~worker'.stale
               PROVE  a \in unnoticed'.stray \/ Covers(s, a)'
  <2>1. PICK s : s = worker'.svc OBVIOUS
  <2>2. PICK a : a = accountOf(worker'.read.spec) OBVIOUS
  <2>3. worker'.at \in {"finalizer", "binding"} /\ authIsTrue(worker'.read.spec) /\ isvc'[s] # Absent /\ ~worker'.stale
          => a \in unnoticed'.stray \/ Covers(s, a)'
    BY <1>1, <2>1, <2>2, Zenon
  <2> QED BY <2>1, <2>2, <2>3, Zenon DEF AskedInv, Covers
<1>0. /\ WorkerShape /\ isvc \in [Services -> ServiceRecord \cup {Absent}]
      /\ DOMAIN unnoticed = {"lost", "stray", "misread"}
  BY DEF Shape
<1>2. worker' # Idle BY <1>1, IdleIs
<1>3. ASSUME worker.svc = s, worker.read = worker'.read, worker.at \in {"finalizer", "binding"}, ~worker.stale, isvc[s] # Absent
      PROVE  a \in unnoticed.stray \/ Covers(s, a)
  BY <1>1, <1>3 DEF AskedInv
<1>4. ASSUME worker' = worker, UNCHANGED isvc, queue \subseteq queue', unnoticed.stray \subseteq unnoticed'.stray
      PROVE  a \in unnoticed'.stray \/ Covers(s, a)'
  <2>1. a \in unnoticed.stray \/ Covers(s, a) BY <1>1, <1>3, <1>4, Zenon
  <2>2. (Unbound(s)' <=> Unbound(s)) /\ (EarlyOf(s)' <=> EarlyOf(s)) BY <1>4 DEF Unbound, EarlyOf
  <2> QED BY <1>1, <1>4, <2>1, <2>2, CoversFrame
<1>5. ASSUME NEW e, worker.at # "idle", worker.at # "finalizer", proceed(e) PROVE FALSE
  <2>1. Onward(e) BY <1>0, <1>2, <1>5, StepFacts DEF Over
  <2>2. worker'.at # "finalizer" /\ (worker'.at = "binding" => worker.at = "finalizer")
    BY <1>0, <1>2, <1>5, StepFacts DEF Over, WorkerShape, ReconcileSteps, DeletionSteps
  <2> QED BY <1>1, <1>5, <2>2
<1>6. CASE Still BY <1>4, <1>6 DEF Still
<1>7. ASSUME Writes PROVE FALSE
  <2>1. worker.at # "idle" /\ worker.at # "finalizer" BY <1>7 DEF Writes, WriteSteps
  <2> QED BY <1>5, <1>7, <2>1 DEF Writes
<1>8. ASSUME NEW t \in Services, Reconcile(t) PROVE Covers(s, a)'
  <2>1. worker'.svc = t /\ worker'.read = isvc[t] /\ worker'.at = "finalizer" /\ Live(t) /\ UNCHANGED isvc
    BY <1>1, <1>2, <1>8, ReconcileFacts
  <2> QED BY <1>1, <2>1, UserCovers DEF Live
<1>9. ASSUME NEW t \in Services, DeleteService(t) PROVE a \in unnoticed'.stray \/ Covers(s, a)'
  <2>1. Live(t) /\ queue \subseteq queue' BY <1>9, Zenon DEF DeleteService, gone
  <2>2. isvc[t] \in ServiceRecord BY <1>0, <2>1 DEF Live
  <2>3. worker'.at = worker.at /\ worker'.svc = worker.svc /\ worker'.read = worker.read /\ worker'.failed = worker.failed
        /\ (worker.stale => worker'.stale)
    <3>1. worker' = worker \/ worker' = [worker EXCEPT !.stale = TRUE] BY <1>9, Zenon DEF DeleteService
    <3> QED BY <1>0, <3>1 DEF WorkerShape, WorkerFields
  <2>4. (Unbound(s)' <=> Unbound(s)) /\ (EarlyOf(s)' <=> EarlyOf(s)) BY <2>3 DEF Unbound, EarlyOf
  <2>5. ~Unbound(s)' BY <1>1 DEF Unbound
  <2>6. unnoticed.stray \subseteq unnoticed'.stray
    <3>1. unnoticed' = unnoticed \/ unnoticed' = [unnoticed EXCEPT !.stray = @ \cup ({accountOf(isvc[t].spec)} \cap binding)]
      BY <1>9, Zenon DEF DeleteService
    <3> QED BY <1>0, <3>1
  <2>7. isvc' = [isvc EXCEPT ![t].deleting = TRUE] \/ isvc' = [isvc EXCEPT ![t] = Absent] BY <1>9, Zenon DEF DeleteService, gone
  <2>8. CASE t # s
    <3>0. s \in Services BY <1>0, <1>1, <2>3, Zenon DEF WorkerShape
    <3>1. isvc'[s] = isvc[s] BY <1>0, <2>7, <2>8, <3>0
    <3>2. a \in unnoticed.stray \/ Covers(s, a) BY <1>1, <1>3, <2>3, <3>1, Zenon
    <3> QED BY <1>1, <2>1, <2>4, <2>6, <3>1, <3>2, CoversFrame, Zenon
  <2>9. CASE t = s
    <3>1. isvc'[s].spec = isvc[s].spec /\ isvc'[s].deleting BY <1>0, <1>1, <2>2, <2>7, <2>9 DEF ServiceRecord
    <3>2. isvc[s] # Absent BY <2>1, <2>9 DEF Live
    <3>3. a \in unnoticed.stray \/ Covers(s, a) BY <1>1, <1>3, <2>3, <3>2, Zenon
    <3>4. Covers(s, a) => accountOf(isvc'[s].spec) = a BY <3>1, Zenon DEF Covers
    <3>5. Covers(s, a) => Covers(s, a)' BY <1>1, <2>5, <3>1, <3>4, Zenon DEF Covers
    <3> QED BY <2>6, <3>3, <3>5
  <2> QED BY <2>8, <2>9
<1>10. ASSUME NEW t \in Services, NEW spec \in Specs[t], CreateService(t, spec) PROVE a \in unnoticed'.stray \/ Covers(s, a)'
  <2>1. /\ isvc[t] = Absent /\ isvc' = [isvc EXCEPT ![t] = [spec |-> spec, finalizer |-> FALSE, deleting |-> FALSE]]
        /\ queue \subseteq queue' /\ UNCHANGED <<worker, unnoticed>>
    BY <1>10, Zenon DEF CreateService
  <2>2. isvc[s] # Absent BY <1>1, <2>1 DEF ReadInv, ReconcileSteps
  <2>3. isvc'[s] = isvc[s]
    <3>1. t # s BY <2>1, <2>2, Zenon
    <3>2. s \in Services BY <1>0, <1>1, <2>1, Zenon DEF WorkerShape
    <3> QED BY <1>0, <2>1, <3>1, <3>2
  <2>4. a \in unnoticed.stray \/ Covers(s, a) BY <1>1, <1>3, <2>1, <2>2, Zenon
  <2>5. (Unbound(s)' <=> Unbound(s)) /\ (EarlyOf(s)' <=> EarlyOf(s)) BY <2>1 DEF Unbound, EarlyOf
  <2> QED BY <1>1, <2>1, <2>3, <2>4, <2>5, CoversFrame, Zenon
<1>11. ASSUME NEW t \in Services, NEW spec \in Specs[t], UpdateService(t, spec) PROVE a \in unnoticed'.stray \/ Covers(s, a)'
  <2>1. /\ Live(t) /\ isvc' = [isvc EXCEPT ![t].spec = spec] /\ queue \subseteq queue' /\ UNCHANGED worker
        /\ unnoticed' = [unnoticed EXCEPT !.stray = @ \cup strays(t, spec)]
    BY <1>11, Zenon DEF UpdateService
  <2>2. unnoticed.stray \subseteq unnoticed'.stray BY <1>0, <2>1
  <2>3. CASE t # s
    <3>1. s \in Services BY <1>0, <1>1, <2>1 DEF WorkerShape
    <3>2. isvc'[s] = isvc[s] BY <1>0, <2>1, <2>3, <3>1
    <3>3. a \in unnoticed.stray \/ Covers(s, a) BY <1>1, <1>3, <2>1, <3>2
    <3>4. (Unbound(s)' <=> Unbound(s)) /\ (EarlyOf(s)' <=> EarlyOf(s)) BY <2>1 DEF Unbound, EarlyOf
    <3> QED BY <1>1, <2>1, <2>2, <3>2, <3>3, <3>4, CoversFrame, Zenon
  <2>4. CASE t = s
    <3>1. a \in unnoticed.stray \/ Covers(s, a) BY <1>1, <1>3, <2>1, <2>4 DEF Live
    <3> QED BY <1>1, <1>11, <2>1, <2>2, <2>4, <3>1, UpdateCovers
  <2> QED BY <2>3, <2>4
<1>12. CASE AddFinalizer
  <2>1. worker.at = "finalizer" /\ proceed(FALSE) /\ queue \subseteq queue' /\ UNCHANGED unnoticed BY <1>2, <1>12, Zenon DEF AddFinalizer
  <2>2. /\ worker'.svc = worker.svc /\ worker'.read = worker.read /\ worker'.stale = worker.stale
    <3>1. Onward(FALSE) BY <1>0, <2>1, StepFacts, Zenon
    <3> QED BY <3>1 DEF Onward
  <2>3. s \in Services /\ worker.read \in ServiceRecord BY <1>0, <1>1, <2>1, <2>2 DEF WorkerShape
  <2>4. isvc[s] # Absent /\ isvc'[s].spec = isvc[s].spec /\ isvc'[s].deleting = isvc[s].deleting
    <3>1. CASE UNCHANGED isvc BY <1>1, <3>1
    <3>2. CASE ~UNCHANGED isvc
      <4>1. isvc[s] = worker.read /\ isvc' = [isvc EXCEPT ![s].finalizer = TRUE] BY <1>1, <1>12, <2>2, <3>2, Zenon DEF AddFinalizer
      <4> QED BY <1>0, <2>3, <4>1, NameAssumption DEF ServiceRecord
    <3> QED BY <3>1, <3>2
  <2>5. a \in unnoticed.stray \/ Covers(s, a) BY <1>1, <1>3, <2>1, <2>2, <2>4
  <2>6. ~Unbound(s)' /\ EarlyOf(s)' BY <1>1 DEF Unbound, EarlyOf
  <2> QED BY <1>1, <2>1, <2>4, <2>5, <2>6, CoversFrame, Zenon
<1>13. ASSUME ReconcileClusterRoleBinding \/ DeleteClusterRoleBinding \/ RemoveFinalizer PROVE FALSE
  <2>1. worker.at \in {"binding", "deleteBinding", "removeFinalizer"} /\ proceed(FALSE)
    BY <1>13, Zenon DEF ReconcileClusterRoleBinding, DeleteClusterRoleBinding, RemoveFinalizer
  <2>2. worker.at # "idle" /\ worker.at # "finalizer" BY <2>1
  <2> QED BY <1>5, <2>1, <2>2, Zenon
<1>14. ASSUME CallFails PROVE FALSE
  <2>1. worker.at # "idle" /\ worker.at # "finalizer" /\ proceed(TRUE) BY <1>2, <1>14, Zenon DEF CallFails
  <2> QED BY <1>5, <2>1, Zenon
<1>15. ASSUME Restart PROVE FALSE BY <1>2, <1>15, Zenon DEF Restart
<1>16. ASSUME NEW b, DeleteBinding(b) PROVE a \in unnoticed'.stray \/ Covers(s, a)'
  <2>1. unnoticed' = [unnoticed EXCEPT !.lost = @ \cup {b}] /\ UNCHANGED <<isvc, queue, worker>> BY <1>16, Zenon DEF DeleteBinding
  <2>2. unnoticed'.stray = unnoticed.stray BY <1>0, <2>1
  <2> QED BY <1>4, <2>1, <2>2
<1> QED BY <1>6, <1>7, <1>8, <1>9, <1>10, <1>11, <1>12, <1>13, <1>14, <1>15, <1>16, KindsOfSteps, Zenon DEF Others
---------------------------------------------------------------------------
(* The invariant. *)

\* The invariant holds at the first start.
LEMMA InvInit == Init => Inv
<1> SUFFICES ASSUME Init PROVE Inv OBVIOUS
<1>1. PICK e \in Existing :
        /\ isvc = [s \in Services |-> IF e[s] = Absent THEN Absent ELSE [spec |-> e[s].spec, finalizer |-> FALSE, deleting |-> FALSE]]
        /\ backend = [s \in Services |-> IF e[s] = Absent THEN [b \in BackendNames |-> NoObject] ELSE backendsOf(e[s].backends)]
        /\ queue = {s \in Services : e[s] # Absent}
  BY Zenon DEF Init
<1>2. /\ object = [s \in Services |-> [o \in ObjectNames |-> NoObject]] /\ binding = {} /\ graph = [g \in Graphs |-> Absent]
      /\ worker = Idle /\ unnoticed = [lost |-> {}, stray |-> {}, misread |-> {}]
  BY Zenon DEF Init
<1>3. isvc \in [Services -> ServiceRecord \cup {Absent}]
  <2>1. ASSUME NEW s \in Services, e[s] # Absent PROVE [spec |-> e[s].spec, finalizer |-> FALSE, deleting |-> FALSE] \in ServiceRecord
    <3>1. e[s].spec \in Specs[s] BY <2>1, StartAssumption, Zenon
    <3> QED BY <3>1, Zenon DEF ServiceRecord
  <2> QED BY <1>1, <2>1, Zenon
<1>4. ObjectShape
  <2>1. \A s \in Services : \A o \in ObjectNames : object[s][o] = NoObject BY <1>2
  <2>2. NoObject.owner # "foreign" /\ Object(NoObject) BY OwnerFacts DEF Object
  <2>3. object = [s \in Services |-> [o \in ObjectNames |-> object[s][o]]] BY <1>2
  <2> QED BY <2>1, <2>2, <2>3, Zenon DEF ObjectShape
<1>5. /\ worker.at = "idle" /\ worker.svc = Absent /\ worker.read = Absent
      /\ ~worker.failed /\ ~worker.policyFailed /\ ~worker.stale /\ ~worker.blocked
  BY <1>2, IdleIs
<1>6. WorkerShape BY <1>2, <1>5, IdleIs DEF WorkerShape
<1>7. Shape
  <2>1. DOMAIN backend = Services /\ DOMAIN graph = Graphs BY <1>1, <1>2
  <2>2. DOMAIN unnoticed = {"lost", "stray", "misread"} BY <1>2
  <2> QED BY <1>3, <1>4, <1>6, <2>1, <2>2 DEF Shape
<1>8. \A s \in Services : isvc[s] # Absent => s \in queue /\ ~isvc[s].deleting BY <1>1
<1>9. ReadInv BY <1>5, <1>8 DEF ReadInv, ReconcileSteps, DeletionSteps
<1>10. AskedInv BY <1>5 DEF AskedInv
<1>11. GrantInv BY <1>8, Zenon DEF GrantInv, Live
<1>12. BoundInv BY <1>2 DEF BoundInv
<1> QED BY <1>7, <1>9, <1>10, <1>11, <1>12 DEF Inv

\* Every step keeps it.
LEMMA InvNext == Inv /\ [Next]_vars => Inv'
<1> SUFFICES ASSUME Inv, [Next]_vars PROVE Inv' OBVIOUS
<1>0. Shape /\ ReadInv /\ GrantInv /\ BoundInv /\ AskedInv BY DEF Inv
<1>1. Shape' BY <1>0, ShapeNext
<1>2. CASE Next
  <2>1. ReadInv' BY <1>0, <1>2, ReadNext, Zenon
  <2>2. GrantInv' /\ BoundInv' /\ AskedInv' BY <1>0, <1>2, GrantNext, BoundNext, AskedNext, Zenon
  <2> QED BY <1>1, <2>1, <2>2 DEF Inv
<1>3. CASE UNCHANGED vars
  <2>0. UNCHANGED <<isvc, binding, queue, worker, unnoticed>> BY <1>3, Zenon DEF vars
  <2>1. ReadInv' BY <1>0, <2>0 DEF ReadInv, Live
  <2>2. GrantInv' BY <1>0, <2>0 DEF GrantInv, Live
  <2>3. \A t, a : Covers(t, a)' <=> Covers(t, a) BY <2>0 DEF Covers, Unbound
  <2>4. BoundInv' BY <1>0, <2>0, <2>3 DEF BoundInv
  <2>5. AskedInv' BY <1>0, <2>0 DEF AskedInv, Covers, Unbound
  <2> QED BY <1>1, <2>1, <2>2, <2>4, <2>5 DEF Inv
<1> QED BY <1>2, <1>3


---------------------------------------------------------------------------
(* The properties. *)

\* At all times a pass works for the service it has read or for one that is queued again, and
\* whatever binding is missing or in excess is accounted for by a request in the queue or by
\* the step of the running pass.
THEOREM InvariantHolds == Spec => []Inv
<1>1. Init => Inv BY InvInit
<1>2. Inv /\ [Next]_vars => Inv' BY InvNext
<1> QED BY <1>1, <1>2, PTL DEF Spec

\* At rest an account is bound exactly if a service that asks for authentication runs under it,
\* for any number of services that share and leave accounts.
THEOREM DelegationFollowsItsUse == Spec => []DelegationFollowsUse
<1>1. Inv => DelegationGranted
  <2> SUFFICES ASSUME Inv, NEW s \in Services, Settled(s), authIsTrue(isvc[s].spec)
               PROVE  accountOf(isvc[s].spec) \in binding \cup unnoticed.lost
    BY Zenon DEF DelegationGranted
  <2> QED BY Zenon DEF Inv, GrantInv, Settled, Quiet
<1>2. Inv => DelegationRevoked
  <2> SUFFICES ASSUME Inv, \A s \in Services : Quiet(s) /\ (isvc[s] = Absent \/ Live(s)), NEW a \in binding \ unnoticed.stray
               PROVE  getExistingIsvcsWithTheSameSAandAuthEnabled(a) # {}
    BY Zenon DEF DelegationRevoked
  <2>1. PICK t \in Services : Covers(t, a) BY Zenon DEF Inv, BoundInv
  <2>2. Live(t) /\ t \notin queue /\ worker.svc # t BY <2>1 DEF Covers, Quiet
  <2>3. authIsTrue(isvc[t].spec) /\ accountOf(isvc[t].spec) = a BY <2>1, <2>2, Zenon DEF Covers, Live
  <2>4. t \in getExistingIsvcsWithTheSameSAandAuthEnabled(a) BY <2>2, <2>3, Zenon DEF getExistingIsvcsWithTheSameSAandAuthEnabled
  <2> QED BY <2>4
<1>3. Inv => DelegationFollowsUse BY <1>1, <1>2 DEF DelegationFollowsUse
<1> QED BY <1>3, InvariantHolds, PTL
=============================================================================
