----------------------- MODULE InferencePolicyProofs -----------------------
(***************************************************************************)
(* The NetworkPolicies and the Route of a service, for any number of       *)
(* services, graphs and backing Services, on top of the invariant that     *)
(* InferenceServicesProofs shows of the pass: another's policy is left     *)
(* alone and keeps the service from being exposed, the finalizer goes only *)
(* after the policies, and at rest the policies are current and admit the  *)
(* router to what the Route leads to.                                      *)
(*                                                                         *)
(* Policies and Routes are wrong now and then: the spec, a backing Service *)
(* a graph or the runtime has changed and no pass has seen it yet.  The    *)
(* invariant says of every service that its policies (its Route, and what  *)
(* the policies admit of it) are what its state of now implies unless it   *)
(* is in the queue, is to be retried, or the running pass has not come to  *)
(* that step; at rest none of these is the case.                           *)
(*                                                                         *)
(* A step preserves this in one of two ways.  Either it leaves everything  *)
(* the desired object depends on (GoodFrame, RouteFrame) and the object;   *)
(* the desired objects are therefore restated as functions of just that.   *)
(* Or it is the step of the pass that writes the object (PolicyGood,       *)
(* RouteGiven).  Everything else queues the service.                       *)
(***************************************************************************)
EXTENDS InferenceServicesProofs

BlockInv ==
  worker.blocked =>
    /\ object[worker.svc]["predictorPolicy"].owner = "foreign"
    /\ worker.at \in {"route", "metrics", "monitor", "dashboard"} => worker.policyFailed

\* The cleanup of the service has removed what it is there to remove.
CleanInv ==
  (worker.at = "cleanup" /\ worker.read # Absent /\ ~worker.failed) \/ worker.at = "removeFinalizer" =>
    \A c \in Components : object[worker.svc][policyName(c)].owner # "isvc"


\* The policies of a service are what they should be.
Good(s) ==
  LET spec == isvc[s].spec
      found == FindSupportingRuntimeForISvc(spec, FALSE)
  IN  \A c \in Components :
        LET policy == object[s][policyName(c)]
        IN  IF c = "predictor" \/ hasTransformer(s, spec)
            THEN policy # NoObject /\ (owned(policy) => policy.content = desiredNetworkPolicy(s, spec, c, found))
            ELSE ~owned(policy)

PolicyInv ==
  \A s \in Services :
    Live(s) /\ s \notin unnoticed.misread /\ s \notin queue
      /\ ~(worker.svc = s /\ worker.at \in {"finalizer", "binding", "policy"}) => Good(s)

desiredRouter(s, c) ==
  IF routed(s, isvc[s].spec, c) THEN serviceTargetPorts(s, listComponentServices(s, c), rawAuthEnabled(isvc[s].spec)) ELSE {}

Admitting(s) ==
  \A c \in Components :
    c = "predictor" \/ hasTransformer(s, isvc[s].spec) =>
      owned(object[s][policyName(c)]) /\ object[s][policyName(c)].content.router = desiredRouter(s, c)

RouteGood(s) ==
  owned(object[s]["route"]) =>
    /\ isvc[s].spec.visibility = "exposed"
    /\ ~routeError(s, isvc[s].spec)
    /\ object[s]["route"].content = desiredRoute(s, isvc[s].spec)

Pending(s, steps) == s \in queue \/ s \in retry \/ (worker.svc = s /\ (worker.failed \/ worker.at \in steps))

RouteInv ==
  \A s \in Services : Live(s) =>
    /\ Pending(s, {"finalizer", "binding", "policy"}) \/ Admitting(s)
    /\ Pending(s, {"finalizer", "binding", "policy", "route"}) \/ RouteGood(s)

---------------------------------------------------------------------------
(* Another's policy in the way, and the cleanup of the policies. *)

\* A pass that another's policy blocks knows so from its policy step on.
LEMMA BlockOnward ==
  ASSUME NEW e, WorkerShape, BlockInv, ObjectsStep, worker.at # "idle", proceed(e),
         worker.at = "policy" /\ worker.blocked => e
  PROVE  BlockInv'
<1>1. CASE worker' = Idle BY <1>1, IdleIs DEF BlockInv
<1>2. CASE worker' # Idle
  <2>1. Onward(e) BY <1>2, StepFacts DEF Over
  <2>2. /\ worker'.svc = worker.svc /\ worker'.blocked = worker.blocked /\ worker'.at = next[worker.at]
        /\ worker'.policyFailed <=> worker.policyFailed \/ (worker.at = "policy" /\ e)
    BY <2>1 DEF Onward
  <2>3. worker.svc \in Services /\ worker.at \in ReconcileSteps \cup DeletionSteps BY DEF WorkerShape
  <2>4. object[worker.svc]["predictorPolicy"].owner = "foreign" => object'[worker.svc]["predictorPolicy"] = object[worker.svc]["predictorPolicy"]
    BY <2>3 DEF ObjectsStep, ObjectNames
  <2>5. worker'.at \in {"route", "metrics", "monitor", "dashboard"} => worker.at \in {"policy", "route", "metrics", "monitor"}
    BY <2>2, <2>3, NextIs DEF ReconcileSteps, DeletionSteps
  <2> QED BY <2>2, <2>4, <2>5 DEF BlockInv
<1> QED BY <1>1, <1>2

\* Another's policy is never written: the policy step fails.
LEMMA PolicyRefused ==
  ASSUME NEW m \in BOOLEAN, ReconcileNetworkPolicies(m)
  PROVE  \E e \in BOOLEAN : proceed(e) /\ (object[worker.svc]["predictorPolicy"].owner = "foreign" => e)
<1> DEFINE s == worker.svc
           spec == worker.read.spec
           components == {"predictor"} \cup IF hasTransformer(s, spec) THEN {"transformer"} ELSE {}
           refused == {c \in components : ~mayWrite(s, object[s][policyName(c)])}
<1>1. proceed(refused # {}) BY Zenon DEF ReconcileNetworkPolicies
<1>2. ASSUME object[s]["predictorPolicy"].owner = "foreign" PROVE refused # {}
  <2>1. policyName("predictor") = "predictorPolicy" BY DEF policyName
  <2>2. ~mayWrite(s, object[s]["predictorPolicy"]) BY <1>2, OwnedFacts, OwnerFacts DEF mayWrite
  <2>3. "predictor" \in refused BY <2>1, <2>2, Zenon
  <2> QED BY <2>3
<1>3. (refused # {}) \in BOOLEAN OBVIOUS
<1> HIDE DEF refused
<1> QED BY <1>1, <1>2, <1>3, Zenon

\* Every step keeps another's policy, and a blocked pass blocked.
LEMMA BlockNext == ASSUME Shape, BlockInv, Next PROVE BlockInv'
<1>0. WorkerShape BY DEF Shape
<1>a. ObjectsStep BY ObjectsNext
<1>b. \A s \in Services : object[s]["predictorPolicy"].owner = "foreign" => object'[s]["predictorPolicy"] = object[s]["predictorPolicy"]
  BY <1>a DEF ObjectsStep, ObjectNames
<1>c. worker.blocked => worker.svc \in Services BY <1>0, WorkerFacts
<1>d. ASSUME worker' = worker PROVE BlockInv' BY <1>b, <1>c, <1>d DEF BlockInv
<1>e. ASSUME worker' = Idle PROVE BlockInv' BY <1>e, IdleIs DEF BlockInv
<1>1. CASE Still BY <1>1, <1>d DEF Still
<1>2. CASE Writes
  <2>1. worker.at # "idle" BY <1>2 DEF Writes, WriteSteps
  <2>2. CASE worker.at # "policy" BY <1>0, <1>2, <1>a, <2>1, <2>2, BlockOnward DEF Writes
  <2>3. CASE worker.at = "policy"
    <3>1. PICK m \in BOOLEAN : ReconcileNetworkPolicies(m) BY <1>2, <2>3 DEF Writes
    <3>2. PICK e \in BOOLEAN : proceed(e) /\ (object[worker.svc]["predictorPolicy"].owner = "foreign" => e) BY <3>1, PolicyRefused
    <3> QED BY <1>0, <1>a, <2>1, <3>2, BlockOnward DEF BlockInv
  <2> QED BY <2>2, <2>3
<1>3. ASSUME NEW s \in Services, Reconcile(s) PROVE BlockInv'
  BY <1>3, <1>e, ReconcileFacts DEF BlockInv
<1>4. ASSUME NEW s \in Services, DeleteService(s) PROVE BlockInv'
  <2>1. worker' = worker \/ worker' = [worker EXCEPT !.stale = TRUE] BY <1>4, Zenon DEF DeleteService
  <2>2. worker'.at = worker.at /\ worker'.svc = worker.svc /\ worker'.blocked = worker.blocked /\ worker'.policyFailed = worker.policyFailed
    BY <1>0, <2>1 DEF WorkerShape, WorkerFields
  <2> QED BY <1>b, <1>c, <2>2 DEF BlockInv
<1>5. ASSUME NEW s \in Services, NEW spec \in Specs[s], CreateService(s, spec) \/ UpdateService(s, spec) PROVE BlockInv'
  BY <1>5, <1>d, Zenon DEF CreateService, UpdateService
<1>6. CASE AddFinalizer
  <2>1. worker.at = "finalizer" /\ (worker' = Idle \/ proceed(FALSE)) BY <1>6, Zenon DEF AddFinalizer
  <2> QED BY <1>0, <1>a, <1>e, <2>1, BlockOnward, Zenon
<1>7. CASE ReconcileClusterRoleBinding \/ DeleteClusterRoleBinding \/ RemoveFinalizer
  <2>1. worker.at \in {"binding", "deleteBinding", "removeFinalizer"} /\ proceed(FALSE)
    BY <1>7, Zenon DEF ReconcileClusterRoleBinding, DeleteClusterRoleBinding, RemoveFinalizer
  <2>2. worker.at # "idle" /\ worker.at # "policy" BY <2>1
  <2> QED BY <1>0, <1>a, <2>1, <2>2, BlockOnward, Zenon
<1>8. CASE CallFails
  <2>1. worker.at # "idle" /\ (worker' = Idle \/ proceed(TRUE)) BY <1>8, Zenon DEF CallFails
  <2> QED BY <1>0, <1>a, <1>e, <2>1, BlockOnward, Zenon
<1>9. CASE Restart BY <1>9, <1>e, Zenon DEF Restart
<1>10. ASSUME NEW a, DeleteBinding(a) PROVE BlockInv' BY <1>10, <1>d, Zenon DEF DeleteBinding
<1> QED BY <1>1, <1>2, <1>3, <1>4, <1>5, <1>6, <1>7, <1>8, <1>9, <1>10, KindsOfSteps, Zenon DEF Others
PolicyNames == {"predictorPolicy", "transformerPolicy"}

\* No policy is made for a service.
Unmade == \A s \in Services : \A o \in PolicyNames : object'[s][o] = object[s][o] \/ object'[s][o].owner # "isvc"

\* What a write of objects leaves.
LEMMA PutIs ==
  ASSUME NEW s \in Services, NEW objects, ObjectShape, put(s, objects)
  PROVE  object'[s] = objects /\ \A t \in Services : t # s => object'[t] = object[t]
<1>1. object' = [object EXCEPT ![s] = objects] BY Zenon DEF put
<1>2. DOMAIN object = Services BY DEF ObjectShape
<1> QED BY <1>1, <1>2

\* The deletion of a service's policies leaves none that it owns.
LEMMA DeletedPolicies ==
  ASSUME Shape, ReadInv, DeleteNetworkPolicies
  PROVE  \A c \in Components : object'[worker.svc][policyName(c)].owner # "isvc"
<1> DEFINE s == worker.svc
           objects == [object[s] EXCEPT !["predictorPolicy"] = deleteOwnedNetworkPolicy(s, @),
                                        !["transformerPolicy"] = deleteOwnedNetworkPolicy(s, @)]
<1>0. worker.at = "deletePolicies" BY DEF DeleteNetworkPolicies
<1>1. ObjectShape /\ s \in Services /\ worker.read # Absent BY <1>0 DEF Shape, WorkerShape
<1>2. ~worker.stale BY <1>0, <1>1 DEF ReadInv, DeletionSteps
<1>3. put(s, objects) BY Zenon DEF DeleteNetworkPolicies
<1>4. DOMAIN object[s] = ObjectNames BY <1>1, FoundObjects, Zenon
<1>5. /\ objects["predictorPolicy"] = deleteOwnedNetworkPolicy(s, object[s]["predictorPolicy"])
      /\ objects["transformerPolicy"] = deleteOwnedNetworkPolicy(s, object[s]["transformerPolicy"])
  BY <1>4 DEF ObjectNames
<1>6. ASSUME NEW r PROVE deleteOwnedNetworkPolicy(s, r).owner # "isvc"
  BY <1>2, OwnerFacts DEF deleteOwnedNetworkPolicy, isOwnedByInferenceService
<1> HIDE DEF objects
<1>7. object'[s] = objects BY <1>1, <1>3, PutIs
<1> QED BY <1>5, <1>6, <1>7 DEF policyName, Components

\* Only the policy step makes policies.
LEMMA UnmadeNext ==
  ASSUME Shape, Next, worker.at \in {"cleanup", "removeFinalizer"}
  PROVE  Unmade
<1>0. ObjectShape /\ DOMAIN object = Services /\ worker.svc \in Services BY DEF Shape, ObjectShape, WorkerShape
<1>n. NoObject.owner # "isvc" BY OwnerFacts
<1>a. ASSUME UNCHANGED object PROVE Unmade BY <1>a DEF Unmade
<1>b. ASSUME NEW s \in Services, gone(s) PROVE Unmade
  <2>1. object' = [object EXCEPT ![s] = [o \in ObjectNames |-> formerly(object[s][o])]] BY <1>b, Zenon DEF gone
  <2>2. \A t \in Services : t # s => object'[t] = object[t] BY <1>0, <2>1
  <2>3. \A o \in PolicyNames : object'[s][o] = formerly(object[s][o]) BY <1>0, <2>1 DEF PolicyNames, ObjectNames
  <2>4. \A o \in PolicyNames : object[s][o].owner = "isvc" => formerly(object[s][o]).owner # "isvc"
    <3> SUFFICES ASSUME NEW o \in PolicyNames, object[s][o].owner = "isvc" PROVE formerly(object[s][o]).owner # "isvc" OBVIOUS
    <3>1. Object(object[s][o]) BY <1>0, FoundObjects DEF PolicyNames, ObjectNames
    <3>2. object[s][o] = [owner |-> "isvc", content |-> object[s][o].content] BY <3>1, OwnerFacts DEF Object
    <3>3. formerly(object[s][o]) = [owner |-> "former", content |-> object[s][o].content] BY <3>2 DEF formerly
    <3> QED BY <3>3
  <2>5. \A o \in PolicyNames : object[s][o].owner # "isvc" => formerly(object[s][o]) = object[s][o] BY Zenon DEF formerly
  <2> QED BY <2>2, <2>3, <2>4, <2>5, Zenon DEF Unmade
<1>1. ASSUME NEW s \in Services, Reconcile(s) \/ Requeue(s) PROVE Unmade BY <1>1, <1>a, Zenon DEF Reconcile, Requeue
<1>2. ASSUME NEW s \in Services, Collect(s) PROVE Unmade
  <2>1. object' = [object EXCEPT ![s] = [o \in ObjectNames |-> IF object[s][o].owner = "former" THEN NoObject ELSE object[s][o]]]
    BY <1>2, Zenon DEF Collect
  <2>2. \A t \in Services : t # s => object'[t] = object[t] BY <1>0, <2>1
  <2>3. \A o \in PolicyNames : object'[s][o] = object[s][o] \/ object'[s][o] = NoObject BY <1>0, <2>1 DEF PolicyNames, ObjectNames
  <2> QED BY <1>n, <2>2, <2>3, Zenon DEF Unmade
<1>3. ASSUME NEW g \in Graphs, ReconcileGraph(g) \/ CollectRouter(g) PROVE Unmade BY <1>3, <1>a, Zenon DEF ReconcileGraph, CollectRouter
<1>4. ASSUME DeleteResourcesIfNoIsvcExists PROVE Unmade
  <2> DEFINE orphans(s) == {o \in {"predictorPolicy", "transformerPolicy"} : hasInferenceServiceOwner(object[s][o])}
  <2>1. \/ UNCHANGED object
        \/ object' = [s \in Services |-> [o \in ObjectNames |-> IF o \in orphans(s) THEN NoObject ELSE object[s][o]]]
    BY <1>4, Zenon DEF DeleteResourcesIfNoIsvcExists
  <2> HIDE DEF orphans
  <2>2. CASE object' = [s \in Services |-> [o \in ObjectNames |-> IF o \in orphans(s) THEN NoObject ELSE object[s][o]]]
    <3>1. \A s \in Services : \A o \in PolicyNames : object'[s][o] = object[s][o] \/ object'[s][o] = NoObject
      BY <2>2 DEF PolicyNames, ObjectNames
    <3> QED BY <1>n, <3>1, Zenon DEF Unmade
  <2> QED BY <1>a, <2>1, <2>2
<1>5. ASSUME Pass PROVE Unmade
  <2>1. DeleteResourcesIfNoIsvcExists \/ RemoveFinalizer
    BY <1>5, Zenon DEF Pass, AddFinalizer, ReconcileClusterRoleBinding, ReconcileNetworkPolicies, ReconcileRoute, ReconcileMetricsService,
             ReconcileServiceMonitor, ReconcileDashboard, DeleteClusterRoleBinding, DeleteNetworkPolicies
  <2> QED BY <1>0, <1>4, <1>b, <2>1, Zenon DEF RemoveFinalizer
<1>6. ASSUME Misread PROVE FALSE
  BY <1>6, Zenon DEF Misread, ReconcileNetworkPolicies, ReconcileMetricsService, ReconcileServiceMonitor, ReconcileDashboard
<1>7. ASSUME NEW s \in Services, NEW spec, CreateService(s, spec) \/ UpdateService(s, spec) PROVE Unmade
  BY <1>7, <1>a, Zenon DEF CreateService, UpdateService
<1>8. ASSUME NEW s \in Services, DeleteService(s) PROVE Unmade BY <1>8, <1>a, <1>b, Zenon DEF DeleteService
<1>9. ASSUME NEW s \in Services, NEW new, ChangeBackends(s, new) PROVE Unmade BY <1>9, <1>a, Zenon DEF ChangeBackends
<1>10. ASSUME NEW new, ChangeRuntime(new) PROVE Unmade BY <1>10, <1>a, Zenon DEF ChangeRuntime
<1>11. ASSUME NEW g \in Graphs, NEW new, ChangeGraph(g, new) PROVE Unmade BY <1>11, <1>a, Zenon DEF ChangeGraph
<1>12. ASSUME NEW s \in Services, CreateForeignPolicy(s) PROVE Unmade
  <2>1. object' = [object EXCEPT ![s]["predictorPolicy"] = [owner |-> "foreign", content |-> "other"]] BY <1>12, Zenon DEF CreateForeignPolicy
  <2>2. DOMAIN object[s] = ObjectNames BY <1>0, FoundObjects
  <2>3. \A t \in Services : t # s => object'[t] = object[t] BY <1>0, <2>1
  <2>4. \A o \in PolicyNames : object'[s][o] = object[s][o] \/ object'[s][o].owner = "foreign" BY <1>0, <2>1, <2>2 DEF PolicyNames, ObjectNames
  <2> QED BY <2>3, <2>4 DEF Unmade
<1>13. ASSUME NEW s \in Services, NEW o \in ObjectNames, DeleteObject(s, o) PROVE Unmade
  <2>1. put(s, [object[s] EXCEPT ![o] = NoObject]) BY <1>13, Zenon DEF DeleteObject
  <2>2. object'[s] = [object[s] EXCEPT ![o] = NoObject] /\ \A t \in Services : t # s => object'[t] = object[t] BY <1>0, <2>1, PutIs
  <2>3. DOMAIN object[s] = ObjectNames BY <1>0, FoundObjects
  <2>4. \A x \in PolicyNames : object'[s][x] = object[s][x] \/ object'[s][x] = NoObject BY <2>2, <2>3 DEF PolicyNames, ObjectNames
  <2> QED BY <1>n, <2>2, <2>4, Zenon DEF Unmade
<1>14. ASSUME NEW a, DeleteBinding(a) PROVE Unmade BY <1>14, <1>a, Zenon DEF DeleteBinding
<1>15. ASSUME CallFails \/ Restart PROVE Unmade BY <1>15, <1>a, Zenon DEF CallFails, Restart
<1>16. ASSUME Environment PROVE Unmade
  BY <1>7, <1>8, <1>9, <1>10, <1>11, <1>12, <1>13, <1>14, <1>15, <1>16, Zenon DEF Environment
<1> QED BY <1>1, <1>2, <1>3, <1>5, <1>6, <1>16, Zenon DEF Next

\* Every step keeps a cleaned-up service clean.
LEMMA CleanNext == ASSUME Shape, ReadInv, CleanInv, Next PROVE CleanInv'
<1> DEFINE Clean(w) == (w.at = "cleanup" /\ w.read # Absent /\ ~w.failed) \/ w.at = "removeFinalizer"
<1>0. WorkerShape BY DEF Shape
<1>1. SUFFICES ASSUME Clean(worker)' PROVE \A c \in Components : object'[worker'.svc][policyName(c)].owner # "isvc"
  BY Zenon DEF CleanInv, policyName
<1>2. worker'.at \in {"cleanup", "removeFinalizer"} BY <1>1
<1>3. worker' # Idle BY <1>2, IdleIs
<1>4. ASSUME worker'.svc = worker.svc, Clean(worker) PROVE \A c \in Components : object'[worker'.svc][policyName(c)].owner # "isvc"
  <2>1. worker.at \in {"cleanup", "removeFinalizer"} BY <1>4
  <2>2. Unmade BY <2>1, UnmadeNext
  <2>3. worker.svc \in Services BY <1>0, <2>1 DEF WorkerShape
  <2>4. \A c \in Components : policyName(c) \in PolicyNames BY DEF policyName, PolicyNames
  <2>5. \A c \in Components : object[worker.svc][policyName(c)].owner # "isvc" BY <1>4, Zenon DEF CleanInv
  <2> QED BY <1>4, <2>2, <2>3, <2>4, <2>5, Zenon DEF Unmade
<1>5. ASSUME NEW e, worker.at # "idle", proceed(e), worker.at = "deletePolicies" => e \/ DeleteNetworkPolicies
      PROVE  \A c \in Components : object'[worker'.svc][policyName(c)].owner # "isvc"
  <2>1. Onward(e) BY <1>0, <1>3, <1>5, StepFacts DEF Over
  <2>2. worker'.svc = worker.svc /\ worker'.read = worker.read /\ (worker'.failed <=> worker.failed \/ e) BY <2>1 DEF Onward
  <2>3. CASE worker'.at = "removeFinalizer"
    <3>1. worker.at = "cleanup" /\ ~worker.failed /\ worker.read # Absent BY <1>0, <1>3, <1>5, <2>3, StepFacts DEF Over
    <3> QED BY <1>4, <2>2, <3>1
  <2>4. CASE worker'.at = "cleanup"
    <3>1. worker.at = "deletePolicies" BY <1>0, <1>3, <1>5, <2>4, StepFacts DEF Over
    <3>2. DeleteNetworkPolicies BY <1>1, <1>5, <2>2, <2>4, <3>1
    <3> QED BY <2>2, <3>2, DeletedPolicies
  <2> QED BY <1>2, <2>3, <2>4
<1>6. CASE Still BY <1>1, <1>4, <1>6 DEF Still
<1>7. CASE Writes
  <2>1. worker.at # "idle" BY <1>7 DEF Writes, WriteSteps
  <2> QED BY <1>5, <1>7, <2>1 DEF Writes
<1>8. ASSUME NEW s \in Services, Reconcile(s) PROVE FALSE BY <1>1, <1>3, <1>8, ReconcileFacts
<1>9. ASSUME NEW s \in Services, DeleteService(s) PROVE \A c \in Components : object'[worker'.svc][policyName(c)].owner # "isvc"
  <2>1. worker' = worker \/ worker' = [worker EXCEPT !.stale = TRUE] BY <1>9, Zenon DEF DeleteService
  <2>2. worker'.at = worker.at /\ worker'.svc = worker.svc /\ worker'.read = worker.read /\ worker'.failed = worker.failed
    BY <1>0, <2>1 DEF WorkerShape, WorkerFields
  <2> QED BY <1>1, <1>4, <2>2
<1>10. ASSUME NEW s \in Services, NEW spec \in Specs[s], CreateService(s, spec) \/ UpdateService(s, spec)
       PROVE  \A c \in Components : object'[worker'.svc][policyName(c)].owner # "isvc"
  <2>1. worker' = worker BY <1>10, Zenon DEF CreateService, UpdateService
  <2> QED BY <1>1, <1>4, <2>1
<1>11. ASSUME AddFinalizer \/ ReconcileClusterRoleBinding \/ DeleteClusterRoleBinding \/ RemoveFinalizer
       PROVE  \A c \in Components : object'[worker'.svc][policyName(c)].owner # "isvc"
  <2>1. worker.at \in {"finalizer", "binding", "deleteBinding", "removeFinalizer"} /\ proceed(FALSE)
    BY <1>3, <1>11, Zenon DEF AddFinalizer, ReconcileClusterRoleBinding, DeleteClusterRoleBinding, RemoveFinalizer
  <2>2. worker.at # "idle" /\ worker.at # "deletePolicies" BY <2>1
  <2> QED BY <1>5, <2>1, <2>2, Zenon
<1>12. ASSUME CallFails PROVE \A c \in Components : object'[worker'.svc][policyName(c)].owner # "isvc"
  <2>1. worker.at # "idle" /\ proceed(TRUE) BY <1>3, <1>12, Zenon DEF CallFails
  <2> QED BY <1>5, <2>1, Zenon
<1>13. ASSUME Restart PROVE FALSE BY <1>3, <1>13, Zenon DEF Restart
<1>14. ASSUME NEW a, DeleteBinding(a) PROVE \A c \in Components : object'[worker'.svc][policyName(c)].owner # "isvc"
  <2>1. worker' = worker BY <1>14, Zenon DEF DeleteBinding
  <2> QED BY <1>1, <1>4, <2>1
<1> QED BY <1>6, <1>7, <1>8, <1>9, <1>10, <1>11, <1>12, <1>13, <1>14, KindsOfSteps, Zenon DEF Others
---------------------------------------------------------------------------
(* What a step may never do. *)

\* No Route is made or changed.
Unrouted ==
  \A s \in Services : \/ object'[s]["route"] = object[s]["route"]
                      \/ object'[s]["route"] = NoObject
                      \/ object'[s]["route"].owner = "former"

\* A write of other objects leaves the Route.
LEMMA PutUnrouted ==
  ASSUME NEW s \in Services, NEW objects, ObjectShape, put(s, objects),
         objects["route"] = object[s]["route"] \/ objects["route"] = NoObject
  PROVE  Unrouted
BY PutIs, Zenon DEF Unrouted

\* A blocked pass makes no Route, and no one else does.
LEMMA UnroutedNext ==
  ASSUME Shape, BlockInv, Next, worker.blocked
  PROVE  Unrouted
<1>0. ObjectShape /\ DOMAIN object = Services /\ WorkerShape BY DEF Shape, ObjectShape
<1>s. worker.svc \in Services BY <1>0, WorkerFacts
<1>d. \A s \in Services : DOMAIN object[s] = ObjectNames BY <1>0, FoundObjects
<1>a. ASSUME UNCHANGED object PROVE Unrouted BY <1>a DEF Unrouted
<1>b. ASSUME NEW s \in Services, gone(s) PROVE Unrouted
  <2>1. object' = [object EXCEPT ![s] = [o \in ObjectNames |-> formerly(object[s][o])]] BY <1>b, Zenon DEF gone
  <2>2. \A t \in Services : t # s => object'[t] = object[t] BY <1>0, <2>1
  <2>3. object'[s]["route"] = formerly(object[s]["route"]) BY <1>0, <2>1 DEF ObjectNames
  <2>4. ASSUME object[s]["route"].owner = "isvc" PROVE formerly(object[s]["route"]).owner = "former"
    <3>1. Object(object[s]["route"]) BY <1>0, FoundObjects, Zenon DEF ObjectNames
    <3>2. object[s]["route"] = [owner |-> "isvc", content |-> object[s]["route"].content] BY <2>4, <3>1, OwnerFacts DEF Object
    <3>3. formerly(object[s]["route"]) = [owner |-> "former", content |-> object[s]["route"].content] BY <3>2 DEF formerly
    <3> QED BY <3>3
  <2>5. object[s]["route"].owner # "isvc" => formerly(object[s]["route"]) = object[s]["route"] BY Zenon DEF formerly
  <2> QED BY <2>2, <2>3, <2>4, <2>5, Zenon DEF Unrouted
<1>c. ASSUME NEW o \in ObjectNames, o # "route", NEW x, put(worker.svc, [object[worker.svc] EXCEPT ![o] = x]) PROVE Unrouted
  <2>1. [object[worker.svc] EXCEPT ![o] = x]["route"] = object[worker.svc]["route"] BY <1>s, <1>d, <1>c DEF ObjectNames
  <2> QED BY <1>0, <1>s, <1>c, <2>1, PutUnrouted, Zenon
<1>e. ASSUME put(worker.svc, object[worker.svc]) PROVE Unrouted BY <1>0, <1>s, <1>e, PutUnrouted, Zenon
<1>o. /\ "metrics" \in ObjectNames /\ "metrics" # "route" /\ "monitor" \in ObjectNames /\ "monitor" # "route"
      /\ "dashboard" \in ObjectNames /\ "dashboard" # "route"
  BY DEF ObjectNames
<1>1. ASSUME NEW s \in Services, Reconcile(s) \/ Requeue(s) PROVE Unrouted BY <1>1, <1>a, Zenon DEF Reconcile, Requeue
<1>2. ASSUME NEW s \in Services, Collect(s) PROVE Unrouted
  <2>1. object' = [object EXCEPT ![s] = [o \in ObjectNames |-> IF object[s][o].owner = "former" THEN NoObject ELSE object[s][o]]]
    BY <1>2, Zenon DEF Collect
  <2>2. \A t \in Services : t # s => object'[t] = object[t] BY <1>0, <2>1
  <2>3. object'[s]["route"] = object[s]["route"] \/ object'[s]["route"] = NoObject BY <1>0, <2>1 DEF ObjectNames
  <2> QED BY <2>2, <2>3, Zenon DEF Unrouted
<1>3. ASSUME NEW g \in Graphs, ReconcileGraph(g) \/ CollectRouter(g) PROVE Unrouted BY <1>3, <1>a, Zenon DEF ReconcileGraph, CollectRouter
<1>4. ASSUME DeleteResourcesIfNoIsvcExists PROVE Unrouted
  <2> DEFINE orphans(s) == {o \in {"predictorPolicy", "transformerPolicy"} : hasInferenceServiceOwner(object[s][o])}
  <2>1. \/ UNCHANGED object
        \/ object' = [s \in Services |-> [o \in ObjectNames |-> IF o \in orphans(s) THEN NoObject ELSE object[s][o]]]
    BY <1>4, Zenon DEF DeleteResourcesIfNoIsvcExists
  <2> HIDE DEF orphans
  <2>2. CASE object' = [s \in Services |-> [o \in ObjectNames |-> IF o \in orphans(s) THEN NoObject ELSE object[s][o]]]
    <3>1. \A s \in Services : object'[s]["route"] = object[s]["route"] \/ object'[s]["route"] = NoObject BY <2>2 DEF ObjectNames
    <3> QED BY <3>1, Zenon DEF Unrouted
  <2> QED BY <1>a, <2>1, <2>2
<1>5. ASSUME ReconcileRoute PROVE Unrouted
  <2>1. worker.at = "route" BY <1>5, Zenon DEF ReconcileRoute
  <2>2. networkPolicyFailed(worker) BY <2>1 DEF BlockInv, networkPolicyFailed
  <2>3. put(worker.svc, [object[worker.svc] EXCEPT !["route"] = NoObject]) \/ put(worker.svc, [object[worker.svc] EXCEPT !["route"] = object[worker.svc]["route"]])
    BY <1>5, <2>2, Zenon DEF ReconcileRoute
  <2>4. /\ [object[worker.svc] EXCEPT !["route"] = NoObject]["route"] = NoObject
        /\ [object[worker.svc] EXCEPT !["route"] = object[worker.svc]["route"]]["route"] = object[worker.svc]["route"]
    BY <1>s, <1>d DEF ObjectNames
  <2> QED BY <1>0, <1>s, <2>3, <2>4, PutUnrouted, Zenon
<1>6. ASSUME NEW m \in BOOLEAN, ReconcileNetworkPolicies(m) PROVE Unrouted
  <2>1. \E x, y : put(worker.svc, [object[worker.svc] EXCEPT !["predictorPolicy"] = x, !["transformerPolicy"] = y])
    BY <1>6, Zenon DEF ReconcileNetworkPolicies
  <2>2. \A x, y : [object[worker.svc] EXCEPT !["predictorPolicy"] = x, !["transformerPolicy"] = y]["route"] = object[worker.svc]["route"]
    BY <1>s, <1>d DEF ObjectNames
  <2> QED BY <1>0, <1>s, <2>1, <2>2, PutUnrouted, Zenon
<1>7. ASSUME DeleteNetworkPolicies PROVE Unrouted
  <2>1. put(worker.svc, [object[worker.svc] EXCEPT !["predictorPolicy"] = deleteOwnedNetworkPolicy(worker.svc, @),
                                                  !["transformerPolicy"] = deleteOwnedNetworkPolicy(worker.svc, @)])
    BY <1>7, Zenon DEF DeleteNetworkPolicies
  <2>2. [object[worker.svc] EXCEPT !["predictorPolicy"] = deleteOwnedNetworkPolicy(worker.svc, @),
                                   !["transformerPolicy"] = deleteOwnedNetworkPolicy(worker.svc, @)]["route"] = object[worker.svc]["route"]
    BY <1>s, <1>d DEF ObjectNames
  <2> QED BY <1>0, <1>s, <2>1, <2>2, PutUnrouted, Zenon
<1>8. ASSUME NEW m \in BOOLEAN, ReconcileMetricsService(m) PROVE Unrouted
  <2>1. put(worker.svc, object[worker.svc]) \/ \E x : put(worker.svc, [object[worker.svc] EXCEPT !["metrics"] = x])
    BY <1>8, Zenon DEF ReconcileMetricsService
  <2> QED BY <1>c, <1>e, <1>o, <2>1, Zenon
<1>9. ASSUME NEW m \in BOOLEAN, ReconcileServiceMonitor(m) PROVE Unrouted
  <2>1. put(worker.svc, object[worker.svc]) \/ \E x : put(worker.svc, [object[worker.svc] EXCEPT !["monitor"] = x])
    BY <1>9, Zenon DEF ReconcileServiceMonitor
  <2> QED BY <1>c, <1>e, <1>o, <2>1, Zenon
<1>10. ASSUME NEW m \in BOOLEAN, ReconcileDashboard(m) PROVE Unrouted
  <2>1. put(worker.svc, object[worker.svc]) \/ \E x : put(worker.svc, [object[worker.svc] EXCEPT !["dashboard"] = x])
    BY <1>10, Zenon DEF ReconcileDashboard
  <2> QED BY <1>c, <1>e, <1>o, <2>1, Zenon
<1>11. ASSUME AddFinalizer \/ ReconcileClusterRoleBinding \/ DeleteClusterRoleBinding PROVE Unrouted
  BY <1>11, <1>a, Zenon DEF AddFinalizer, ReconcileClusterRoleBinding, DeleteClusterRoleBinding
<1>12. ASSUME RemoveFinalizer PROVE Unrouted BY <1>12, <1>b, <1>s, Zenon DEF RemoveFinalizer
<1>13. ASSUME NEW s \in Services, NEW spec, CreateService(s, spec) \/ UpdateService(s, spec) PROVE Unrouted
  BY <1>13, <1>a, Zenon DEF CreateService, UpdateService
<1>14. ASSUME NEW s \in Services, DeleteService(s) PROVE Unrouted BY <1>14, <1>a, <1>b, Zenon DEF DeleteService
<1>15. ASSUME NEW s \in Services, NEW new, ChangeBackends(s, new) PROVE Unrouted BY <1>15, <1>a, Zenon DEF ChangeBackends
<1>16. ASSUME NEW new, ChangeRuntime(new) PROVE Unrouted BY <1>16, <1>a, Zenon DEF ChangeRuntime
<1>17. ASSUME NEW g \in Graphs, NEW new, ChangeGraph(g, new) PROVE Unrouted BY <1>17, <1>a, Zenon DEF ChangeGraph
<1>18. ASSUME NEW s \in Services, CreateForeignPolicy(s) PROVE Unrouted
  <2>1. object' = [object EXCEPT ![s]["predictorPolicy"] = [owner |-> "foreign", content |-> "other"]] BY <1>18, Zenon DEF CreateForeignPolicy
  <2>2. \A t \in Services : t # s => object'[t] = object[t] BY <1>0, <2>1
  <2>3. object'[s]["route"] = object[s]["route"] BY <1>0, <1>d, <2>1 DEF ObjectNames
  <2> QED BY <2>2, <2>3, Zenon DEF Unrouted
<1>19. ASSUME NEW s \in Services, NEW o \in ObjectNames, DeleteObject(s, o) PROVE Unrouted
  <2>1. put(s, [object[s] EXCEPT ![o] = NoObject]) BY <1>19, Zenon DEF DeleteObject
  <2>2. [object[s] EXCEPT ![o] = NoObject]["route"] \in {object[s]["route"], NoObject} BY <1>d DEF ObjectNames
  <2> QED BY <1>0, <2>1, <2>2, PutUnrouted, Zenon
<1>20. ASSUME NEW a, DeleteBinding(a) PROVE Unrouted BY <1>20, <1>a, Zenon DEF DeleteBinding
<1>21. ASSUME CallFails \/ Restart PROVE Unrouted BY <1>21, <1>a, Zenon DEF CallFails, Restart
<1>22. ASSUME Environment PROVE Unrouted
  BY <1>13, <1>14, <1>15, <1>16, <1>17, <1>18, <1>19, <1>20, <1>21, <1>22, Zenon DEF Environment
<1>23. ASSUME Pass PROVE Unrouted
  <2>1. TRUE \in BOOLEAN /\ FALSE \in BOOLEAN OBVIOUS
  <2> QED BY <1>4, <1>5, <1>6, <1>7, <1>8, <1>9, <1>10, <1>11, <1>12, <1>23, <2>1, Zenon DEF Pass
<1>24. ASSUME Misread PROVE Unrouted
  <2>1. TRUE \in BOOLEAN OBVIOUS
  <2> QED BY <1>6, <1>8, <1>9, <1>10, <1>24, <2>1, Zenon DEF Misread
<1> QED BY <1>1, <1>2, <1>3, <1>22, <1>23, <1>24, Zenon DEF Next
\* Only the end of a cleanup takes away a service with the finalizer.
LEMMA GoneNext ==
  ASSUME Shape, Next, NEW s \in Services, isvc[s] # Absent, isvc[s].finalizer, isvc'[s] = Absent
  PROVE  worker.at = "removeFinalizer" /\ worker.svc = s
<1>0. WorkerShape /\ isvc \in [Services -> ServiceRecord \cup {Absent}] BY DEF Shape
<1>1. isvc[s] \in ServiceRecord BY <1>0
<1>2. ASSUME UNCHANGED isvc PROVE FALSE BY <1>2
<1>3. CASE Still BY <1>2, <1>3 DEF Still
<1>4. CASE Writes BY <1>2, <1>4 DEF Writes
<1>5. ASSUME NEW t \in Services, Reconcile(t) PROVE FALSE BY <1>2, <1>5, ReconcileFacts, Zenon
<1>6. ASSUME NEW t \in Services, DeleteService(t) PROVE FALSE
  <2>1. \/ isvc[t].finalizer /\ isvc' = [isvc EXCEPT ![t].deleting = TRUE]
        \/ ~isvc[t].finalizer /\ isvc' = [isvc EXCEPT ![t] = Absent]
    BY <1>6, Zenon DEF DeleteService, gone
  <2>2. CASE ~isvc[t].finalizer /\ isvc' = [isvc EXCEPT ![t] = Absent] BY <1>0, <2>2
  <2>3. CASE isvc' = [isvc EXCEPT ![t].deleting = TRUE]
    <3>1. [isvc[s] EXCEPT !.deleting = TRUE] \in ServiceRecord BY <1>1, Zenon DEF ServiceRecord
    <3>2. isvc'[s] = isvc[s] \/ isvc'[s] = [isvc[s] EXCEPT !.deleting = TRUE] BY <1>0, <2>3
    <3> QED BY <1>1, <3>1, <3>2, NameAssumption, Zenon
  <2> QED BY <2>1, <2>2, <2>3
<1>7. ASSUME NEW t \in Services, NEW spec \in Specs[t], CreateService(t, spec) \/ UpdateService(t, spec) PROVE FALSE
  <2>1. \/ isvc[t] = Absent /\ isvc' = [isvc EXCEPT ![t] = [spec |-> spec, finalizer |-> FALSE, deleting |-> FALSE]]
        \/ isvc' = [isvc EXCEPT ![t].spec = spec]
    BY <1>7, Zenon DEF CreateService, UpdateService
  <2>2. CASE isvc[t] = Absent /\ isvc' = [isvc EXCEPT ![t] = [spec |-> spec, finalizer |-> FALSE, deleting |-> FALSE]] BY <1>0, <2>2
  <2>3. CASE isvc' = [isvc EXCEPT ![t].spec = spec]
    <3>1. s = t => [isvc[s] EXCEPT !.spec = spec] \in ServiceRecord BY <1>1 DEF ServiceRecord
    <3>2. isvc'[s] = isvc[s] \/ (s = t /\ isvc'[s] = [isvc[s] EXCEPT !.spec = spec]) BY <1>0, <2>3
    <3> QED BY <1>1, <3>1, <3>2, NameAssumption
  <2> QED BY <2>1, <2>2, <2>3
<1>8. ASSUME AddFinalizer PROVE FALSE
  <2>1. UNCHANGED isvc \/ isvc' = [isvc EXCEPT ![worker.svc].finalizer = TRUE] BY <1>8, Zenon DEF AddFinalizer
  <2>2. CASE isvc' = [isvc EXCEPT ![worker.svc].finalizer = TRUE]
    <3>1. [isvc[s] EXCEPT !.finalizer = TRUE] \in ServiceRecord BY <1>1, Zenon DEF ServiceRecord
    <3>2. isvc'[s] = isvc[s] \/ isvc'[s] = [isvc[s] EXCEPT !.finalizer = TRUE] BY <1>0, <2>2
    <3> QED BY <1>1, <3>1, <3>2, NameAssumption, Zenon
  <2> QED BY <1>2, <2>1, <2>2
<1>9. CASE RemoveFinalizer
  <2>1. worker.at = "removeFinalizer" /\ isvc' = [isvc EXCEPT ![worker.svc] = Absent] BY <1>9, Zenon DEF RemoveFinalizer, gone
  <2> QED BY <1>0, <2>1
<1>10. ASSUME ReconcileClusterRoleBinding \/ DeleteClusterRoleBinding \/ CallFails \/ Restart PROVE FALSE
  BY <1>2, <1>10, Zenon DEF ReconcileClusterRoleBinding, DeleteClusterRoleBinding, CallFails, Restart
<1>11. ASSUME NEW a, DeleteBinding(a) PROVE FALSE BY <1>2, <1>11, Zenon DEF DeleteBinding
<1> QED BY <1>3, <1>4, <1>5, <1>6, <1>7, <1>8, <1>9, <1>10, <1>11, KindsOfSteps, Zenon DEF Others
\* What the finalizer is there for has been done when it is removed.
LEMMA GuardNext ==
  ASSUME Inv, CleanInv, Next, NEW s \in Services, isvc[s] # Absent, isvc[s].finalizer, isvc'[s] = Absent
  PROVE  /\ \A c \in Components : object[s][policyName(c)].owner # "isvc"
         /\ accountOf(isvc[s].spec) \in binding \ unnoticed.stray
              => \E t \in Services \ {s} : isvc[t] # Absent /\ accountOf(isvc[t].spec) = accountOf(isvc[s].spec)
<1>0. Shape /\ WorkerShape /\ ReadInv /\ BoundInv BY DEF Inv, Shape
<1>1. worker.at = "removeFinalizer" /\ worker.svc = s BY <1>0, GoneNext
<1>2. worker.read # Absent /\ ~worker.failed BY <1>0, <1>1 DEF WorkerShape
<1>3. isvc[s].deleting BY <1>0, <1>1, <1>2 DEF ReadInv, DeletionSteps
<1>4. \A a : ~Covers(s, a) BY <1>1, <1>2, <1>3 DEF Covers, Unbound
<1>5. ASSUME accountOf(isvc[s].spec) \in binding \ unnoticed.stray
      PROVE  \E t \in Services \ {s} : isvc[t] # Absent /\ accountOf(isvc[t].spec) = accountOf(isvc[s].spec)
  <2>1. PICK t \in Services : Covers(t, accountOf(isvc[s].spec)) BY <1>0, <1>5, Zenon DEF BoundInv
  <2>2. t # s BY <1>4, <2>1
  <2>3. isvc[t] # Absent /\ accountOf(isvc[t].spec) = accountOf(isvc[s].spec) BY <2>1, Zenon DEF Covers
  <2> QED BY <2>2, <2>3
<1> QED BY <1>0, <1>1, <1>5 DEF CleanInv

---------------------------------------------------------------------------
(* The policies.  What a pass writes depends on the service's spec, on its backing Services,
   on the runtime, on its metrics Service and on the graphs: the operators of the
   reconciler, as functions of these. *)

\* Whose objects are the service's own.
OwnerOf(s) == IF worker.svc = s /\ worker.stale THEN "former" ELSE "isvc"

ListOf(own, be, c) == {b \in BackendNames : componentOf(b) = c /\ be[b] # NoObject /\ be[b].owner = own}
PortsOf(be, bs, auth) == {<<b, setRouteTargetPort(auth, be[b].ports)>> : b \in {x \in bs : be[x].ports # {}}}
TransformerOf(own, be, spec) == spec.transformer \/ ListOf(own, be, "transformer") # {}
RoutedOf(own, be, spec, c) ==
  spec.visibility = "exposed"
    /\ ((IF ListOf(own, be, "transformer") # {} THEN "transformer" ELSE "predictor") = c \/ (c = "predictor" /\ spec.canary # <<>>))
RouterOf(own, be, spec, c) == IF RoutedOf(own, be, spec, c) THEN PortsOf(be, ListOf(own, be, c), rawAuthEnabled(spec)) ELSE {}

\* What a step of a graph admits.
StepOf(s, own, be, spec, c, step) ==
  IF step.url # Absent
  THEN IF /\ step.url.svc = s /\ step.url.backend \in ListOf(own, be, c)
          /\ be[step.url.backend] # NoObject /\ step.url.port \in be[step.url.backend].ports
       THEN {<<step.url.backend, step.url.port>>} ELSE {}
  ELSE IF step.name = s /\ c = graphTargetComponent(spec)
  THEN PortsOf(be, graphTargetServices(spec, ListOf(own, be, c)), rawAuthEnabled(spec)) ELSE {}
GraphOf(s, own, be, spec, c, g) ==
  IF g # Absent /\ g.raw
  THEN UNION {StepOf(s, own, be, spec, c, step) : step \in {x \in g.steps : x.name \in {s, Absent}}} ELSE {}

\* A service's own backing Services and their ports.
LEMMA OwnBackends ==
  ASSUME NEW s, NEW own, NEW be, own = OwnerOf(s), be = backend[s]
  PROVE  /\ \A c : listComponentServices(s, c) = ListOf(own, be, c)
         /\ \A bs, auth : serviceTargetPorts(s, bs, auth) = PortsOf(be, bs, auth)
         /\ \A spec : hasTransformer(s, spec) <=> TransformerOf(own, be, spec)
         /\ \A spec, c : routed(s, spec, c) <=> RoutedOf(own, be, spec, c)
<1>1. \A c : listComponentServices(s, c) = ListOf(own, be, c)
  BY DEF listComponentServices, ListOf, isOwnedByInferenceService, OwnerOf
<1>2. \A bs, auth : serviceTargetPorts(s, bs, auth) = PortsOf(be, bs, auth) BY DEF serviceTargetPorts, PortsOf
<1>3. \A spec : hasTransformer(s, spec) <=> TransformerOf(own, be, spec) BY <1>1 DEF hasTransformer, TransformerOf
<1>4. \A spec, c : routed(s, spec, c) <=> RoutedOf(own, be, spec, c) BY <1>1 DEF routed, routeComponent, RoutedOf
<1> QED BY <1>1, <1>2, <1>3, <1>4

\* What the graphs admit.
LEMMA OwnGraphs ==
  ASSUME NEW s, NEW own, NEW be, NEW spec, NEW c, own = OwnerOf(s), be = backend[s]
  PROVE  graphIngressRules(s, spec, c) = [g \in Graphs |-> GraphOf(s, own, be, spec, c, graph[g])]
<1> DEFINE ports(step) ==
             IF step.url # Absent
             THEN IF step.url.svc = s /\ step.url.backend \in listComponentServices(s, c) /\ resolves(step.url)
                  THEN {<<step.url.backend, step.url.port>>} ELSE {}
             ELSE IF step.name = s /\ c = graphTargetComponent(spec)
             THEN serviceTargetPorts(s, graphTargetServices(spec, listComponentServices(s, c)), rawAuthEnabled(spec)) ELSE {}
           rule(g) == IF graph[g] # Absent /\ graph[g].raw
                      THEN UNION {ports(step) : step \in {x \in graph[g].steps : x.name \in {s, Absent}}} ELSE {}
<1>1. graphIngressRules(s, spec, c) = [g \in Graphs |-> rule(g)] BY Zenon DEF graphIngressRules
<1>2. \A step : ports(step) = StepOf(s, own, be, spec, c, step)
  <2> SUFFICES ASSUME NEW step PROVE ports(step) = StepOf(s, own, be, spec, c, step) BY Zenon
  <2>1. step.url.svc = s => (resolves(step.url) <=> be[step.url.backend] # NoObject /\ step.url.port \in be[step.url.backend].ports)
    BY DEF resolves
  <2>2. listComponentServices(s, c) = ListOf(own, be, c) /\ \A bs, auth : serviceTargetPorts(s, bs, auth) = PortsOf(be, bs, auth)
    BY OwnBackends
  <2>3. CASE step.url = Absent BY <2>2, <2>3, Zenon DEF StepOf
  <2>4. CASE step.url # Absent /\ step.url.svc = s BY <2>1, <2>2, <2>4, Zenon DEF StepOf
  <2>5. CASE step.url # Absent /\ step.url.svc # s BY <2>5, Zenon DEF StepOf
  <2> QED BY <2>3, <2>4, <2>5
<1> HIDE DEF ports
<1>3. \A g \in Graphs : rule(g) = GraphOf(s, own, be, spec, c, graph[g]) BY <1>2, Zenon DEF GraphOf
<1> HIDE DEF rule
<1> QED BY <1>1, <1>3
FoundOf(rt, spec) ==
  LET empty(result) == [result |-> result, port |-> "none", path |-> "none", kind |-> "unsupported"]
  IN  IF spec.model \in {"none", "unformatted"} THEN empty("nil")
      ELSE IF rt = Absent \/ (spec.model = "auto" /\ ~rt.autoSelect) THEN empty("error")
      ELSE [result |-> "found", port |-> rt.port, path |-> rt.path, kind |-> rt.kind]
MetricsOf(own, m, found) ==
  IF found.port \in {"none", "malformed"} THEN "none" ELSE IF m # NoObject /\ m.owner = own THEN m.content ELSE found.port
PolicyOf(own, be, m, rules, spec, c, found) ==
  LET callers == {x \in {"transformer", "explainer"} :
                    (x = "transformer" /\ ListOf(own, be, "transformer") # {}) \/ (x = "explainer" /\ spec.explainer)}
      ports == PortsOf(be, ListOf(own, be, c), rawAuthEnabled(spec))
      called == c = "predictor" /\ callers # {} /\ ports # {}
      entry == spec.visibility = "cluster-local" /\ c = graphTargetComponent(spec)
  IN  [router |-> RouterOf(own, be, spec, c),
       local |-> IF entry THEN PortsOf(be, graphTargetServices(spec, ListOf(own, be, c)), rawAuthEnabled(spec)) ELSE {},
       callers |-> IF called THEN callers ELSE {},
       callerPorts |-> IF called THEN ports ELSE {},
       graphs |-> rules,
       metrics |-> MetricsOf(own, m, found),
       multiNode |-> c = "predictor" /\ spec.multiNode]
GoodOf(own, be, rt, m, p, t, rules, spec) ==
  \A c \in Components :
    LET policy == IF c = "predictor" THEN p ELSE t
    IN  IF c = "predictor" \/ TransformerOf(own, be, spec)
        THEN policy # NoObject /\ (owned(policy) => policy.content = PolicyOf(own, be, m, rules[c], spec, c, FoundOf(rt, spec)))
        ELSE ~owned(policy)

\* The policy of a component.
LEMMA OwnPolicy ==
  ASSUME NEW s, NEW own, NEW be, NEW spec, NEW c, NEW found, own = OwnerOf(s), be = backend[s]
  PROVE  desiredNetworkPolicy(s, spec, c, found)
           = PolicyOf(own, be, object[s]["metrics"], graphIngressRules(s, spec, c), spec, c, found)
<1>1. (IF routed(s, spec, c) THEN serviceTargetPorts(s, listComponentServices(s, c), rawAuthEnabled(spec)) ELSE {})
        = RouterOf(own, be, spec, c)
  BY OwnBackends DEF RouterOf
<1>2. metricsPorts(s, found) = MetricsOf(own, object[s]["metrics"], found)
  BY DEF metricsPorts, MetricsOf, isOwnedByInferenceService, OwnerOf
<1>3. \A x : listComponentServices(s, x) = ListOf(own, be, x) BY OwnBackends
<1>4. \A bs, auth : serviceTargetPorts(s, bs, auth) = PortsOf(be, bs, auth) BY OwnBackends
<1> QED BY <1>1, <1>2, <1>3, <1>4, Zenon DEF desiredNetworkPolicy, PolicyOf

\* The policies of a service depend on nothing else.
GoodDepends(s, own, be, rt, m, p, t, rules, spec) ==
  /\ own = OwnerOf(s) /\ be = backend[s] /\ rt = runtime /\ spec = isvc[s].spec
  /\ m = object[s]["metrics"] /\ p = object[s]["predictorPolicy"] /\ t = object[s]["transformerPolicy"]
  /\ \A c \in Components : rules[c] = [g \in Graphs |-> GraphOf(s, own, be, spec, c, graph[g])]
  => (Good(s) <=> GoodOf(own, be, rt, m, p, t, rules, spec))

GoodIs == \A s, own, be, rt, m, p, t, rules, spec : GoodDepends(s, own, be, rt, m, p, t, rules, spec)

\* So it is in every state.
LEMMA GoodHolds == GoodIs /\ GoodIs'
<1>1. GoodIs
  <2>a. SUFFICES ASSUME NEW s, NEW own, NEW be, NEW rt, NEW m, NEW p, NEW t, NEW rules, NEW spec
                 PROVE  GoodDepends(s, own, be, rt, m, p, t, rules, spec)
    BY Zenon DEF GoodIs
  <2> SUFFICES ASSUME own = OwnerOf(s), be = backend[s], rt = runtime, spec = isvc[s].spec,
                      m = object[s]["metrics"], p = object[s]["predictorPolicy"], t = object[s]["transformerPolicy"],
                      \A c \in Components : rules[c] = [g \in Graphs |-> GraphOf(s, own, be, spec, c, graph[g])]
               PROVE  Good(s) <=> GoodOf(own, be, rt, m, p, t, rules, spec)
    BY Zenon DEF GoodDepends
  <2>1. FindSupportingRuntimeForISvc(spec, FALSE) = FoundOf(rt, spec) BY DEF FindSupportingRuntimeForISvc, FoundOf
  <2>2. \A c \in Components : desiredNetworkPolicy(s, spec, c, FoundOf(rt, spec)) = PolicyOf(own, be, m, rules[c], spec, c, FoundOf(rt, spec))
    <3> SUFFICES ASSUME NEW c \in Components
                 PROVE  desiredNetworkPolicy(s, spec, c, FoundOf(rt, spec)) = PolicyOf(own, be, m, rules[c], spec, c, FoundOf(rt, spec))
      BY Zenon
    <3>1. graphIngressRules(s, spec, c) = rules[c] BY OwnGraphs
    <3>2. desiredNetworkPolicy(s, spec, c, FoundOf(rt, spec))
            = PolicyOf(own, be, object[s]["metrics"], graphIngressRules(s, spec, c), spec, c, FoundOf(rt, spec))
      BY OwnPolicy
    <3> QED BY <3>1, <3>2, Zenon
  <2>3. hasTransformer(s, spec) <=> TransformerOf(own, be, spec) BY OwnBackends, Zenon
  <2>4. \A c \in Components : object[s][policyName(c)] = IF c = "predictor" THEN p ELSE t BY DEF policyName
  <2> DEFINE policy(c) == IF c = "predictor" THEN p ELSE t
             Right(c) == IF c = "predictor" \/ hasTransformer(s, spec)
                         THEN policy(c) # NoObject
                              /\ (owned(policy(c)) => policy(c).content = desiredNetworkPolicy(s, spec, c, FindSupportingRuntimeForISvc(spec, FALSE)))
                         ELSE ~owned(policy(c))
             RightOf(c) == IF c = "predictor" \/ TransformerOf(own, be, spec)
                           THEN policy(c) # NoObject
                                /\ (owned(policy(c)) => policy(c).content = PolicyOf(own, be, m, rules[c], spec, c, FoundOf(rt, spec)))
                           ELSE ~owned(policy(c))
  <2>5. Good(s) <=> \A c \in Components : Right(c) BY <2>4, Zenon DEF Good
  <2>6. GoodOf(own, be, rt, m, p, t, rules, spec) <=> \A c \in Components : RightOf(c) BY Zenon DEF GoodOf
  <2>7. \A c \in Components : Right(c) <=> RightOf(c) BY <2>1, <2>2, <2>3, Zenon
  <2> HIDE DEF Right, RightOf
  <2> QED BY <2>5, <2>6, <2>7, Zenon
<1> QED BY <1>1, PTL
\* A graph that is not about the service admits nothing to it.
LEMMA GraphUntold ==
  ASSUME NEW s \in Services, NEW own, NEW be, NEW spec, NEW c, NEW g, be = backend[s],
         s \notin inferenceGraphInferenceServiceRequests(g)
  PROVE  GraphOf(s, own, be, spec, c, g) = {}
<1>1. CASE g = Absent BY <1>1 DEF GraphOf
<1>2. CASE g # Absent
  <2>1. \A step \in g.steps : /\ step.name # s
                              /\ ~(step.name = Absent /\ step.url # Absent /\ step.url.svc = s /\ resolves(step.url))
    BY <1>2 DEF inferenceGraphInferenceServiceRequests
  <2>2. ASSUME NEW step \in {x \in g.steps : x.name \in {s, Absent}} PROVE StepOf(s, own, be, spec, c, step) = {}
    <3>1. step.name = Absent /\ step.name # s BY <2>1, <2>2, NameAssumption
    <3>2. ~(step.url # Absent /\ step.url.svc = s /\ resolves(step.url)) BY <2>1, <2>2, <3>1
    <3>3. step.url.svc = s => (resolves(step.url) <=> be[step.url.backend] # NoObject /\ step.url.port \in be[step.url.backend].ports)
      BY DEF resolves
    <3> QED BY <3>1, <3>2, <3>3, Zenon DEF StepOf
  <2>3. UNION {StepOf(s, own, be, spec, c, step) : step \in {x \in g.steps : x.name \in {s, Absent}}} = {} BY <2>2
  <2> QED BY <2>3, Zenon DEF GraphOf
<1> QED BY <1>1, <1>2

\* A service hears of the graphs that admit something to it.
LEMMA GraphsNext ==
  ASSUME Shape, Next, NEW s \in Services, s \notin queue', NEW own, NEW be, NEW spec, NEW c, be = backend[s], NEW h \in Graphs
  PROVE  GraphOf(s, own, be, spec, c, graph'[h]) = GraphOf(s, own, be, spec, c, graph[h])
<1>0. DOMAIN graph = Graphs BY DEF Shape
<1>1. CASE UNCHANGED graph BY <1>1
<1>2. ASSUME NEW g \in Graphs, NEW new, ChangeGraph(g, new)
      PROVE  GraphOf(s, own, be, spec, c, graph'[h]) = GraphOf(s, own, be, spec, c, graph[h])
  <2>1. graph' = [graph EXCEPT ![g] = new] /\ queue' = queue \cup graphTargets(graph[g], new) BY <1>2, Zenon DEF ChangeGraph
  <2>2. CASE h # g BY <1>0, <2>1, <2>2
  <2>3. CASE h = g
    <3>1. graph'[h] = new BY <1>0, <2>1, <2>3
    <3>2. s \notin inferenceGraphInferenceServiceRequests(graph[h]) /\ s \notin inferenceGraphInferenceServiceRequests(new)
      BY <2>1, <2>3 DEF graphTargets
    <3>3. GraphOf(s, own, be, spec, c, graph[h]) = {} BY <3>2, GraphUntold
    <3>4. GraphOf(s, own, be, spec, c, new) = {} BY <3>2, GraphUntold, Zenon
    <3> QED BY <3>1, <3>3, <3>4, Zenon
  <2> QED BY <2>2, <2>3
<1> QED BY <1>1, <1>2, BackendsNext, Zenon DEF Regraphed

\* As long as all that stays, the policies stay what they should be.
LEMMA GoodSame ==
  ASSUME NEW s, isvc'[s] = isvc[s], backend'[s] = backend[s], runtime' = runtime, OwnerOf(s)' = OwnerOf(s),
         \A own, be, spec, c : be = backend[s] => \A g \in Graphs :
           GraphOf(s, own, be, spec, c, graph'[g]) = GraphOf(s, own, be, spec, c, graph[g]),
         object'[s]["metrics"] = object[s]["metrics"],
         object'[s]["predictorPolicy"] = object[s]["predictorPolicy"],
         object'[s]["transformerPolicy"] = object[s]["transformerPolicy"]
  PROVE  Good(s)' <=> Good(s)
<1>3. PICK own, be, rt, spec : own = OwnerOf(s) /\ be = backend[s] /\ rt = runtime /\ spec = isvc[s].spec BY Zenon
<1>4. PICK m, p, t : m = object[s]["metrics"] /\ p = object[s]["predictorPolicy"] /\ t = object[s]["transformerPolicy"] BY Zenon
<1>5. PICK rules : rules = [c \in Components |-> [g \in Graphs |-> GraphOf(s, own, be, spec, c, graph[g])]] BY Zenon
<1>6. \A c \in Components : rules[c] = [g \in Graphs |-> GraphOf(s, own, be, spec, c, graph[g])] BY <1>5
<1>7. \A c \in Components : rules[c] = [g \in Graphs |-> GraphOf(s, own, be, spec, c, graph'[g])]
  <2> SUFFICES ASSUME NEW c \in Components PROVE rules[c] = [g \in Graphs |-> GraphOf(s, own, be, spec, c, graph'[g])] OBVIOUS
  <2>1. \A g \in Graphs : GraphOf(s, own, be, spec, c, graph'[g]) = GraphOf(s, own, be, spec, c, graph[g]) BY <1>3, SMT
  <2> QED BY <1>6, <2>1, Zenon
<1>8. Good(s) <=> GoodOf(own, be, rt, m, p, t, rules, spec)
  <2>1. GoodDepends(s, own, be, rt, m, p, t, rules, spec) BY GoodHolds, Zenon DEF GoodIs
  <2> QED BY <1>3, <1>4, <1>6, <2>1, Zenon DEF GoodDepends
<1>9. Good(s)' <=> GoodOf(own, be, rt, m, p, t, rules, spec)
  <2>1. GoodDepends(s, own, be, rt, m, p, t, rules, spec)' BY GoodHolds, Zenon DEF GoodIs
  <2>2. own = OwnerOf(s)' /\ be = backend'[s] /\ rt = runtime' /\ spec = isvc'[s].spec BY <1>3
  <2>3. m = object'[s]["metrics"] /\ p = object'[s]["predictorPolicy"] /\ t = object'[s]["transformerPolicy"] BY <1>4
  <2> QED BY <1>7, <2>1, <2>2, <2>3, Zenon DEF GoodDepends
<1> QED BY <1>8, <1>9, Zenon
\* The policies of a service that hears of nothing stay what they should be.
LEMMA GoodFrame ==
  ASSUME Shape, Next, NEW s \in Services, s \notin queue', isvc[s] # Absent, OwnerOf(s)' = OwnerOf(s),
         object'[s]["metrics"] = object[s]["metrics"],
         object'[s]["predictorPolicy"] = object[s]["predictorPolicy"],
         object'[s]["transformerPolicy"] = object[s]["transformerPolicy"]
  PROVE  Good(s)' <=> Good(s)
<1>1. isvc'[s] = isvc[s] BY ServicesNext, Zenon
<1>2. backend'[s] = backend[s] /\ runtime' = runtime BY BackendsNext
<1>3. \A own, be, spec, c : be = backend[s] => \A g \in Graphs :
        GraphOf(s, own, be, spec, c, graph'[g]) = GraphOf(s, own, be, spec, c, graph[g])
  BY GraphsNext
<1> QED BY <1>1, <1>2, <1>3, GoodSame, Zenon

\* A reading of the runtime that failed is remembered until the service's next pass.
LEMMA MisreadNext ==
  ASSUME Shape, Next, NEW s \in Services, isvc[s] # Absent, s \notin queue, s \notin queue', s \in unnoticed.misread
  PROVE  s \in unnoticed'.misread
<1>0. DOMAIN unnoticed = {"lost", "stray", "misread"} BY DEF Shape
<1>1. CASE Still BY <1>1 DEF Still
<1>2. CASE Writes BY <1>2, Zenon DEF Writes
<1>3. ASSUME NEW t \in Services, Reconcile(t) PROVE s \in unnoticed'.misread
  <2>1. t \in queue /\ unnoticed' = [unnoticed EXCEPT !.misread = @ \ {t}] BY <1>3, Zenon DEF Reconcile
  <2> QED BY <1>0, <2>1
<1>4. ASSUME NEW t \in Services, DeleteService(t) PROVE s \in unnoticed'.misread
  <2>1. unnoticed' = unnoticed \/ unnoticed' = [unnoticed EXCEPT !.stray = @ \cup ({accountOf(isvc[t].spec)} \cap binding)]
    BY <1>4, Zenon DEF DeleteService
  <2> QED BY <1>0, <2>1
<1>5. ASSUME NEW t \in Services, NEW spec, CreateService(t, spec) \/ UpdateService(t, spec) PROVE s \in unnoticed'.misread
  <2>1. unnoticed' = unnoticed \/ unnoticed' = [unnoticed EXCEPT !.stray = @ \cup strays(t, spec)] BY <1>5, Zenon DEF CreateService, UpdateService
  <2> QED BY <1>0, <2>1
<1>6. CASE AddFinalizer \/ RemoveFinalizer \/ CallFails BY <1>6, Zenon DEF AddFinalizer, RemoveFinalizer, CallFails
<1>7. CASE ReconcileClusterRoleBinding
  <2>1. unnoticed' = [unnoticed EXCEPT !.lost = @ \ binding', !.stray = @ \ (binding \ binding')] BY <1>7, Zenon DEF ReconcileClusterRoleBinding
  <2> QED BY <1>0, <2>1
<1>8. CASE DeleteClusterRoleBinding
  <2>1. unnoticed' = [unnoticed EXCEPT !.stray = @ \ (binding \ binding')] BY <1>8, Zenon DEF DeleteClusterRoleBinding
  <2> QED BY <1>0, <2>1
<1>9. ASSUME Restart PROVE FALSE BY <1>9, Zenon DEF Restart
<1>10. ASSUME NEW a, DeleteBinding(a) PROVE s \in unnoticed'.misread
  <2>1. unnoticed' = [unnoticed EXCEPT !.lost = @ \cup {a}] BY <1>10, Zenon DEF DeleteBinding
  <2> QED BY <1>0, <2>1
<1> QED BY <1>1, <1>2, <1>3, <1>4, <1>5, <1>6, <1>7, <1>8, <1>9, <1>10, KindsOfSteps, Zenon DEF Others

\* What a policy step finds, when the service does not hear of what it writes: another's
\* policy, which fails the step, or the policy it would write.
LEMMA PolicyFound ==
  ASSUME Shape, NEW s \in Services, worker.svc = s, ~worker.stale, worker.read.spec = isvc[s].spec,
         NEW m \in BOOLEAN, ReconcileNetworkPolicies(m), s \notin queue'
  PROVE  LET spec == isvc[s].spec
             policy(c) == object[s][policyName(c)]
         IN  \E e \in BOOLEAN :
               /\ proceed(e)
               /\ \A c \in Components :
                    IF c = "predictor" \/ hasTransformer(s, spec)
                    THEN \/ e /\ policy(c) # NoObject /\ ~owned(policy(c))
                         \/ policy(c) = [owner |-> "isvc", content |-> desiredNetworkPolicy(s, spec, c, FindSupportingRuntimeForISvc(spec, m))]
                    ELSE ~owned(policy(c))
<1> DEFINE spec == isvc[s].spec
           found == FindSupportingRuntimeForISvc(spec, m)
           components == {"predictor"} \cup IF hasTransformer(s, spec) THEN {"transformer"} ELSE {}
           refused == {c \in components : ~mayWrite(s, object[s][policyName(c)])}
           new(c) == IF c \in refused THEN object[s][policyName(c)]
                     ELSE IF c \in components THEN [owner |-> owner, content |-> desiredNetworkPolicy(s, spec, c, found)]
                     ELSE deleteOwnedNetworkPolicy(s, object[s][policyName(c)])
           objects == [object[s] EXCEPT !["predictorPolicy"] = new("predictor"), !["transformerPolicy"] = new("transformer")]
<1>0. ObjectShape BY DEF Shape
<1>1. put(s, objects) /\ proceed(refused # {}) BY Zenon DEF ReconcileNetworkPolicies
<1>2. owner = "isvc" BY DEF owner
<1>3. \A r : isOwnedByInferenceService(s, r) <=> r # NoObject /\ r.owner = "isvc" BY DEF isOwnedByInferenceService
<1>4. policyName("predictor") = "predictorPolicy" /\ policyName("transformer") = "transformerPolicy" BY DEF policyName
<1>5. object'[s]["predictorPolicy"] = new("predictor") /\ object'[s]["transformerPolicy"] = new("transformer")
  <2> HIDE DEF new
  <2>1. object'[s] = objects BY <1>0, <1>1, PutIs, Zenon
  <2>2. DOMAIN object[s] = ObjectNames BY <1>0, FoundObjects, Zenon
  <2> QED BY <2>1, <2>2 DEF ObjectNames
<1>6. ObjectsStep BY PolicyStep, Zenon
<1>7. /\ object'[s]["predictorPolicy"] = object[s]["predictorPolicy"] \/ Taken("predictorPolicy", object[s]["predictorPolicy"], object'[s]["predictorPolicy"])
      /\ object'[s]["transformerPolicy"] = object[s]["transformerPolicy"]
  BY <1>6 DEF ObjectsStep, Taken, ObjectNames
<1>9. \A c \in Components : new(c) = object[s][policyName(c)]
  <2>1. new("transformer") = object[s]["transformerPolicy"] BY <1>5, <1>7, Zenon
  <2>2. ASSUME object[s]["predictorPolicy"] = NoObject PROVE new("predictor").owner # "foreign"
    <3>1. "predictor" \in components /\ "predictor" \notin refused BY <1>4, <2>2 DEF mayWrite
    <3>2. new("predictor") = [owner |-> owner, content |-> desiredNetworkPolicy(s, spec, "predictor", found)] BY <3>1, Zenon
    <3> HIDE DEF new
    <3> QED BY <1>2, <3>2
  <2>3. new("predictor") = object[s]["predictorPolicy"] BY <1>5, <1>7, <2>2, Zenon DEF Taken
  <2> HIDE DEF new
  <2> QED BY <1>4, <2>1, <2>3 DEF Components
<1>10. ASSUME NEW c \in Components, c \in components
       PROVE  LET policy == object[s][policyName(c)]
              IN  \/ refused # {} /\ policy # NoObject /\ ~owned(policy)
                  \/ policy = [owner |-> "isvc", content |-> desiredNetworkPolicy(s, spec, c, found)]
  <2>1. CASE c \in refused
    <3>1. ~mayWrite(s, object[s][policyName(c)]) /\ refused # {} BY <2>1, Zenon
    <3> HIDE DEF refused
    <3> QED BY <1>3, <3>1, Zenon DEF mayWrite, owned
  <2>2. CASE c \notin refused
    <3>1. new(c) = [owner |-> owner, content |-> desiredNetworkPolicy(s, spec, c, found)] BY <1>10, <2>2, Zenon
    <3> QED BY <1>2, <1>9, <3>1, Zenon
  <2> QED BY <2>1, <2>2, Zenon
<1>11. ASSUME NEW c \in Components, c \notin components PROVE ~owned(object[s][policyName(c)])
  <2>1. deleteOwnedNetworkPolicy(s, object[s][policyName(c)]) = object[s][policyName(c)]
    <3>1. c \notin refused BY <1>11
    <3> QED BY <1>9, <1>11, <3>1, Zenon
  <2>2. ~(object[s][policyName(c)] # NoObject /\ object[s][policyName(c)].owner = "isvc") BY <1>3, <2>1, Zenon DEF deleteOwnedNetworkPolicy
  <2>3. NoObject.owner # "isvc" BY OwnerFacts
  <2> QED BY <2>2, <2>3, Zenon DEF owned
<1>12. \A c \in Components : c \in components <=> c = "predictor" \/ hasTransformer(s, spec) BY DEF Components
<1>13. (refused # {}) \in BOOLEAN BY Zenon
<1> HIDE DEF new, components, refused
<1> QED BY <1>1, <1>10, <1>11, <1>12, <1>13, Zenon

\* The policies it would write are what they should be.
LEMMA PolicyGood ==
  ASSUME Shape, NEW s \in Services, worker.svc = s, ~worker.stale, worker.read.spec = isvc[s].spec,
         ReconcileNetworkPolicies(FALSE), s \notin queue'
  PROVE  Good(s)
<1> DEFINE spec == isvc[s].spec
           desired(c) == desiredNetworkPolicy(s, spec, c, FindSupportingRuntimeForISvc(spec, FALSE))
           policy(c) == object[s][policyName(c)]
<1>1. \A c \in Components :
        IF c = "predictor" \/ hasTransformer(s, spec)
        THEN (policy(c) # NoObject /\ ~owned(policy(c))) \/ policy(c) = [owner |-> "isvc", content |-> desired(c)]
        ELSE ~owned(policy(c))
  BY PolicyFound, Zenon
<1>2. \A x : [owner |-> "isvc", content |-> x].content = x /\ [owner |-> "isvc", content |-> x] # NoObject BY DEF NoObject
<1>3. \A c \in Components : policy(c) = [owner |-> "isvc", content |-> desired(c)] => policy(c).content = desired(c) /\ policy(c) # NoObject
  BY <1>2, Zenon
<1> QED BY <1>1, <1>3, Zenon DEF Good

\* Every step leaves the policies of a service as they should be, or the service pending.
LEMMA PolicyNext == ASSUME Shape, ReadInv, PolicyInv, Next PROVE PolicyInv'
<1> DEFINE Early == {"finalizer", "binding", "policy"}
<1>1. SUFFICES ASSUME NEW s \in Services, Live(s)', s \notin unnoticed'.misread, s \notin queue', ~(worker'.svc = s /\ worker'.at \in Early)
               PROVE  Good(s)'
  BY Zenon DEF PolicyInv
<1>0. WorkerShape BY DEF Shape
<1>2. isvc'[s] = isvc[s] BY <1>1, ServicesNext
<1>3. Live(s) /\ isvc[s] # Absent BY <1>1, <1>2 DEF Live
<1>4. s \notin queue
  <2> SUFFICES ASSUME s \in queue PROVE FALSE OBVIOUS
  <2>1. Reconcile(s) BY <1>1, <1>3, QueueNext
  <2>2. worker'.svc = s /\ worker'.at = "finalizer" BY <1>3, <2>1, ReconcileFacts DEF Live
  <2> QED BY <1>1, <2>2
<1>5. s \notin unnoticed.misread BY <1>1, <1>3, <1>4, MisreadNext
<1>6. OwnerOf(s) = "isvc" /\ OwnerOf(s)' = "isvc"
  <2>1. ReadInv' BY ReadNext
  <2>2. ~(worker.svc = s /\ worker.stale) BY <1>4 DEF ReadInv
  <2>3. ~(worker'.svc = s /\ worker'.stale) BY <1>1, <2>1 DEF ReadInv
  <2> QED BY <2>2, <2>3 DEF OwnerOf
<1>7. ASSUME Good(s) PROVE Good(s)'
  <2>1. object[s]["predictorPolicy"] # NoObject
    <3>1. "predictor" \in Components /\ policyName("predictor") = "predictorPolicy" BY DEF Components, policyName
    <3> QED BY <1>7, <3>1, Zenon DEF Good
  <2>2. ObjectsStep BY ObjectsNext
  <2>3. \A o \in ObjectNames : object'[s][o] = object[s][o]
    <3>1. \A o \in ObjectNames : object'[s][o] = object[s][o] \/ Taken(o, object[s][o], object'[s][o]) BY <1>1, <2>2, Zenon DEF ObjectsStep
    <3>2. \A o \in ObjectNames : ~Taken(o, object[s][o], object'[s][o]) BY <2>1, Zenon DEF Taken
    <3> QED BY <3>1, <3>2
  <2> QED BY <1>1, <1>3, <1>6, <1>7, <2>3, GoodFrame DEF ObjectNames
<1>8. CASE ~(worker.svc = s /\ worker.at \in Early)
  <2>1. Good(s) BY <1>3, <1>4, <1>5, <1>8, Zenon DEF PolicyInv
  <2> QED BY <1>7, <2>1
<1>9. CASE worker.svc = s /\ worker.at \in Early
  <2>1. worker.at \in ReconcileSteps /\ worker.at # "idle" BY <1>9 DEF ReconcileSteps
  <2>2. ~ReconcileClusterRoleBinding
    <3> SUFFICES ASSUME ReconcileClusterRoleBinding PROVE FALSE OBVIOUS
    <3>1. worker.at = "binding" /\ proceed(FALSE) BY Zenon DEF ReconcileClusterRoleBinding
    <3>2. Onward(FALSE) BY <1>0, <2>1, <3>1, StepFacts, Zenon
    <3>3. worker'.svc = s /\ worker'.at = "policy" BY <1>9, <3>1, <3>2, NextIs DEF Onward
    <3> QED BY <1>1, <3>3
  <2>3. Writes BY <1>1, <1>3, <1>9, <2>1, <2>2, PassNext, Zenon
  <2>4. worker.at = "policy" BY <1>9, <2>3 DEF Writes, WriteSteps
  <2>5. PICK m \in BOOLEAN : ReconcileNetworkPolicies(m) BY <2>3, <2>4 DEF Writes
  <2>6. m = FALSE
    <3> SUFFICES ASSUME m = TRUE PROVE FALSE BY <2>5, Zenon
    <3>1. lookup(TRUE) BY <2>5, Zenon DEF ReconcileNetworkPolicies
    <3>2. unnoticed' = [unnoticed EXCEPT !.misread = @ \cup {worker.svc}] BY <3>1 DEF lookup
    <3>3. DOMAIN unnoticed = {"lost", "stray", "misread"} BY DEF Shape
    <3>4. worker.svc \in unnoticed'.misread BY <3>2, <3>3
    <3> QED BY <1>1, <1>9, <3>4
  <2>7. worker.read.spec = isvc[s].spec /\ ~worker.stale BY <1>3, <1>4, <1>9, <2>1 DEF ReadInv
  <2>8. ReconcileNetworkPolicies(FALSE) BY <2>5, <2>6, Zenon
  <2>9. Good(s) BY <1>1, <1>9, <2>7, <2>8, PolicyGood, Zenon
  <2> QED BY <1>7, <2>9
<1> QED BY <1>8, <1>9
---------------------------------------------------------------------------
(* The Route. *)

TargetOf(be) ==
  IF be["transformer"] # NoObject THEN "transformer"
  ELSE IF be["predictor"] # NoObject THEN "predictor"
  ELSE IF be["canary"] # NoObject THEN "canary"
  ELSE Absent
RouteErrorOf(be, spec) ==
  /\ spec.visibility = "exposed"
  /\ \/ TargetOf(be) = Absent
     \/ be[TargetOf(be)].ports = {}
     \/ spec.canary # <<>> /\ (Sum(spec.canary) > 100 \/ be["canary"] = NoObject)
RouteOf(be, spec) ==
  IF spec.visibility # "exposed" THEN Absent
  ELSE [to |-> TargetOf(be),
        port |-> setRouteTargetPort(rawAuthEnabled(spec), be[TargetOf(be)].ports),
        numeric |-> spec.canary # <<>>,
        reencrypt |-> rawAuthEnabled(spec),
        weight |-> 100 - Sum(spec.canary),
        canaries |-> spec.canary]
RouteGoodOf(be, r, spec) ==
  owned(r) => spec.visibility = "exposed" /\ ~RouteErrorOf(be, spec) /\ r.content = RouteOf(be, spec)
AdmittingOf(own, be, p, t, spec) ==
  \A c \in Components :
    c = "predictor" \/ TransformerOf(own, be, spec) =>
      LET policy == IF c = "predictor" THEN p ELSE t
      IN  owned(policy) /\ policy.content.router = RouterOf(own, be, spec, c)

\* The Route, and what of the policies is about it, depend on nothing else.
RouteDepends(s, own, be, p, t, r, spec) ==
  /\ own = OwnerOf(s) /\ be = backend[s] /\ spec = isvc[s].spec
  /\ p = object[s]["predictorPolicy"] /\ t = object[s]["transformerPolicy"] /\ r = object[s]["route"]
  => (RouteGood(s) <=> RouteGoodOf(be, r, spec)) /\ (Admitting(s) <=> AdmittingOf(own, be, p, t, spec))

RouteIs == \A s, own, be, p, t, r, spec : RouteDepends(s, own, be, p, t, r, spec)

\* So it is in every state.
LEMMA RouteHolds == RouteIs /\ RouteIs'
<1>1. RouteIs
  <2>a. SUFFICES ASSUME NEW s, NEW own, NEW be, NEW p, NEW t, NEW r, NEW spec
                 PROVE  RouteDepends(s, own, be, p, t, r, spec)
    BY Zenon DEF RouteIs
  <2> SUFFICES ASSUME own = OwnerOf(s), be = backend[s], spec = isvc[s].spec,
                      p = object[s]["predictorPolicy"], t = object[s]["transformerPolicy"], r = object[s]["route"]
               PROVE  (RouteGood(s) <=> RouteGoodOf(be, r, spec)) /\ (Admitting(s) <=> AdmittingOf(own, be, p, t, spec))
    BY Zenon DEF RouteDepends
  <2>1. routeTarget(s) = TargetOf(be) BY DEF routeTarget, TargetOf
  <2>2. routeError(s, spec) <=> RouteErrorOf(be, spec) BY <2>1, Zenon DEF routeError, RouteErrorOf
  <2>3. desiredRoute(s, spec) = RouteOf(be, spec) BY <2>1, Zenon DEF desiredRoute, RouteOf
  <2>4. RouteGood(s) <=> RouteGoodOf(be, r, spec) BY <2>2, <2>3, Zenon DEF RouteGood, RouteGoodOf
  <2>5. \A c : desiredRouter(s, c) = RouterOf(own, be, spec, c)
    <3>1. \A c : listComponentServices(s, c) = ListOf(own, be, c) BY OwnBackends, Zenon
    <3>2. \A bs, auth : serviceTargetPorts(s, bs, auth) = PortsOf(be, bs, auth) BY OwnBackends
    <3>3. \A c : routed(s, spec, c) <=> RoutedOf(own, be, spec, c) BY OwnBackends, Zenon
    <3> QED BY <3>1, <3>2, <3>3, Zenon DEF desiredRouter, RouterOf
  <2>6. hasTransformer(s, spec) <=> TransformerOf(own, be, spec) BY OwnBackends, Zenon
  <2>7. \A c \in Components : object[s][policyName(c)] = IF c = "predictor" THEN p ELSE t BY DEF policyName
  <2> DEFINE policy(c) == IF c = "predictor" THEN p ELSE t
             Right(c) == c = "predictor" \/ hasTransformer(s, spec) => owned(policy(c)) /\ policy(c).content.router = desiredRouter(s, c)
             RightOf(c) == c = "predictor" \/ TransformerOf(own, be, spec)
                             => owned(policy(c)) /\ policy(c).content.router = RouterOf(own, be, spec, c)
  <2>8. Admitting(s) <=> \A c \in Components : Right(c) BY <2>7, Zenon DEF Admitting
  <2>9. AdmittingOf(own, be, p, t, spec) <=> \A c \in Components : RightOf(c) BY Zenon DEF AdmittingOf
  <2>10. \A c \in Components : Right(c) <=> RightOf(c) BY <2>5, <2>6, Zenon
  <2> HIDE DEF Right, RightOf
  <2> QED BY <2>4, <2>8, <2>9, <2>10, Zenon
<1> QED BY <1>1, PTL

\* As long as that stays, the Route stays what it should be, and admitted.
LEMMA RouteSame ==
  ASSUME NEW s, isvc'[s] = isvc[s], backend'[s] = backend[s], OwnerOf(s)' = OwnerOf(s)
  PROVE  /\ object'[s]["route"] = object[s]["route"] => (RouteGood(s)' <=> RouteGood(s))
         /\ /\ object'[s]["predictorPolicy"] = object[s]["predictorPolicy"]
            /\ object'[s]["transformerPolicy"] = object[s]["transformerPolicy"]
            => (Admitting(s)' <=> Admitting(s))
<1>3. PICK own, be, spec : own = OwnerOf(s) /\ be = backend[s] /\ spec = isvc[s].spec BY Zenon
<1>4. PICK p, t, r : p = object[s]["predictorPolicy"] /\ t = object[s]["transformerPolicy"] /\ r = object[s]["route"] BY Zenon
<1>5. PICK q, u, v : q = object'[s]["predictorPolicy"] /\ u = object'[s]["transformerPolicy"] /\ v = object'[s]["route"] BY Zenon
<1>6. (RouteGood(s) <=> RouteGoodOf(be, r, spec)) /\ (Admitting(s) <=> AdmittingOf(own, be, p, t, spec))
  <2>1. RouteDepends(s, own, be, p, t, r, spec) BY RouteHolds, Zenon DEF RouteIs
  <2> QED BY <1>3, <1>4, <2>1, Zenon DEF RouteDepends
<1>7. (RouteGood(s)' <=> RouteGoodOf(be, v, spec)) /\ (Admitting(s)' <=> AdmittingOf(own, be, q, u, spec))
  <2>1. RouteDepends(s, own, be, q, u, v, spec)' BY RouteHolds, Zenon DEF RouteIs
  <2>2. own = OwnerOf(s)' /\ be = backend'[s] /\ spec = isvc'[s].spec BY <1>3
  <2> QED BY <1>5, <2>1, <2>2, Zenon DEF RouteDepends
<1> QED BY <1>4, <1>5, <1>6, <1>7

\* The Route of a service that hears of nothing stays what it should be, and admitted.
LEMMA RouteFrame ==
  ASSUME Shape, Next, NEW s \in Services, s \notin queue', isvc[s] # Absent, OwnerOf(s)' = OwnerOf(s)
  PROVE  /\ object'[s]["route"] = object[s]["route"] => (RouteGood(s)' <=> RouteGood(s))
         /\ /\ object'[s]["predictorPolicy"] = object[s]["predictorPolicy"]
            /\ object'[s]["transformerPolicy"] = object[s]["transformerPolicy"]
            => (Admitting(s)' <=> Admitting(s))
<1>1. isvc'[s] = isvc[s] BY ServicesNext
<1>2. backend'[s] = backend[s] BY BackendsNext
<1> QED BY <1>1, <1>2, RouteSame

\* A policy step that does not fail leaves the router admitted.
LEMMA PolicyAdmits ==
  ASSUME Shape, NEW s \in Services, worker.svc = s, ~worker.stale, worker.read.spec = isvc[s].spec,
         NEW m \in BOOLEAN, ReconcileNetworkPolicies(m), s \notin queue'
  PROVE  \E e \in BOOLEAN : proceed(e) /\ (e \/ Admitting(s))
<1> DEFINE spec == isvc[s].spec
           desired(c) == desiredNetworkPolicy(s, spec, c, FindSupportingRuntimeForISvc(spec, m))
           policy(c) == object[s][policyName(c)]
<1>1. PICK e \in BOOLEAN :
        /\ proceed(e)
        /\ \A c \in Components :
             IF c = "predictor" \/ hasTransformer(s, spec)
             THEN \/ e /\ policy(c) # NoObject /\ ~owned(policy(c))
                  \/ policy(c) = [owner |-> "isvc", content |-> desired(c)]
             ELSE ~owned(policy(c))
  BY PolicyFound, Zenon
<1>2. ASSUME ~e PROVE Admitting(s)
  <2>1. \A c \in Components : c = "predictor" \/ hasTransformer(s, spec) => policy(c) = [owner |-> "isvc", content |-> desired(c)]
    BY <1>1, <1>2, Zenon
  <2>2. \A x : [owner |-> "isvc", content |-> x].content = x /\ owned([owner |-> "isvc", content |-> x]) BY DEF owned
  <2>3. \A c : desired(c).router = desiredRouter(s, c) BY Zenon DEF desiredNetworkPolicy, desiredRouter
  <2>4. ASSUME NEW c \in Components, policy(c) = [owner |-> "isvc", content |-> desired(c)]
        PROVE  owned(policy(c)) /\ policy(c).content.router = desiredRouter(s, c)
    BY <2>2, <2>3, <2>4, Zenon
  <2> QED BY <2>1, <2>4, Zenon DEF Admitting
<1> QED BY <1>1, <1>2
\* A Route step that does not fail, in a pass that did not, leaves the Route as it should be.
LEMMA RouteGiven ==
  ASSUME Shape, NEW s \in Services, worker.svc = s, worker.read.spec = isvc[s].spec, ReconcileRoute, s \notin queue'
  PROVE  \E e \in BOOLEAN : proceed(e) /\ (e \/ worker.failed \/ RouteGood(s))
<1> DEFINE spec == isvc[s].spec
           old == object[s]["route"]
           gated == networkPolicyFailed(worker)
           error == ~gated /\ routeError(s, spec)
           new == IF gated THEN IF spec.visibility # "exposed" /\ isOwnedByInferenceService(s, old) THEN NoObject ELSE old
                  ELSE IF error THEN old
                  ELSE processDelta(old, desiredRoute(s, spec))
<1>0. ObjectShape /\ WorkerShape BY DEF Shape
<1>1. put(s, [object[s] EXCEPT !["route"] = new]) /\ proceed(error) /\ worker.at = "route" BY Zenon DEF ReconcileRoute
<1>2. error \in BOOLEAN BY Zenon
<1>3. ASSUME ~error, ~worker.failed PROVE RouteGood(s)
  <2>1. ~gated BY <1>0, <1>3, Zenon DEF WorkerShape, networkPolicyFailed
  <2>2. ~routeError(s, spec) BY <1>3, <2>1, Zenon
  <2>3. new = processDelta(old, desiredRoute(s, spec)) BY <1>3, <2>1, Zenon
  <2>4. object'[s]["route"] = new
    <3> HIDE DEF new
    <3>1. object'[s] = [object[s] EXCEPT !["route"] = new] BY <1>0, <1>1, PutIs, Zenon
    <3>2. DOMAIN object[s] = ObjectNames BY <1>0, FoundObjects, Zenon
    <3> QED BY <3>1, <3>2 DEF ObjectNames
  <2>5. object'[s]["route"] = old
    <3>1. ObjectsStep BY <1>1, OtherWrites, Zenon
    <3>2. "route" \in ObjectNames /\ ~Taken("route", object[s]["route"], object'[s]["route"]) BY DEF ObjectNames, Taken
    <3> QED BY <3>1, <3>2, Zenon DEF ObjectsStep
  <2>6. processDelta(old, desiredRoute(s, spec)) = old BY <2>3, <2>4, <2>5, Zenon
  <2>7. Object(old) BY <1>0, FoundObjects, Zenon DEF ObjectNames
  <2>8. ASSUME owned(old)
        PROVE  spec.visibility = "exposed" /\ old.content = desiredRoute(s, spec)
    <3>1. old # NoObject BY <2>8, OwnerFacts DEF owned
    <3>2. desiredRoute(s, spec) # Absent BY <2>6, <3>1, Zenon DEF processDelta
    <3>3. spec.visibility = "exposed" BY <3>2, Zenon DEF desiredRoute
    <3>4. [old EXCEPT !.content = desiredRoute(s, spec)] = old BY <2>6, <3>1, <3>2, Zenon DEF processDelta
    <3>5. old = [owner |-> old.owner, content |-> old.content] BY <2>7, <3>1, Zenon DEF Object
    <3>6. \A o, c, d : [[owner |-> o, content |-> c] EXCEPT !.content = d].content = d OBVIOUS
    <3>7. old.content = desiredRoute(s, spec) BY <3>4, <3>5, <3>6
    <3> QED BY <3>3, <3>7, Zenon
  <2> QED BY <2>2, <2>8, Zenon DEF RouteGood
<1> QED BY <1>1, <1>2, <1>3, Zenon

\* A service whose pass was rejected is retried, or its pass starts.
LEMMA RetryNext ==
  ASSUME Shape, Next, NEW s \in Services, isvc[s] # Absent, s \notin queue, s \notin queue', s \in retry
  PROVE  s \in retry'
<1>0. WorkerShape BY DEF Shape
<1>a. ASSUME NEW e, worker.at # "idle", proceed(e) PROVE s \in retry'
  <2>1. Over(e) \/ Onward(e) BY <1>0, <1>a, StepFacts
  <2> QED BY <2>1 DEF Over, Onward
<1>1. CASE Still BY <1>1 DEF Still
<1>2. CASE Writes
  <2>1. worker.at # "idle" /\ \E e \in BOOLEAN : proceed(e) BY <1>2 DEF Writes, WriteSteps
  <2> QED BY <1>a, <2>1, Zenon
<1>3. ASSUME NEW t \in Services, Reconcile(t) PROVE s \in retry'
  <2>1. t \in queue /\ retry' = retry \ {t} BY <1>3, Zenon DEF Reconcile
  <2> QED BY <2>1
<1>4. ASSUME NEW t \in Services, DeleteService(t) PROVE s \in retry' BY <1>4, Zenon DEF DeleteService
<1>5. ASSUME NEW t \in Services, NEW spec, CreateService(t, spec) \/ UpdateService(t, spec) PROVE s \in retry'
  BY <1>5, Zenon DEF CreateService, UpdateService
<1>6. CASE AddFinalizer
  <2>1. worker.at # "idle" /\ (proceed(FALSE) \/ UNCHANGED retry) BY <1>6, Zenon DEF AddFinalizer
  <2> QED BY <1>a, <2>1, Zenon
<1>7. CASE ReconcileClusterRoleBinding \/ DeleteClusterRoleBinding \/ RemoveFinalizer
  <2>1. worker.at \in {"binding", "deleteBinding", "removeFinalizer"} /\ proceed(FALSE)
    BY <1>7, Zenon DEF ReconcileClusterRoleBinding, DeleteClusterRoleBinding, RemoveFinalizer
  <2>2. worker.at # "idle" BY <2>1
  <2> QED BY <1>a, <2>1, <2>2, Zenon
<1>8. CASE CallFails
  <2>1. worker.at # "idle" /\ (proceed(TRUE) \/ UNCHANGED retry) BY <1>8, Zenon DEF CallFails
  <2> QED BY <1>a, <2>1, Zenon
<1>9. ASSUME Restart PROVE FALSE BY <1>9, Zenon DEF Restart
<1>10. ASSUME NEW a, DeleteBinding(a) PROVE s \in retry' BY <1>10, Zenon DEF DeleteBinding
<1> QED BY <1>1, <1>2, <1>3, <1>4, <1>5, <1>6, <1>7, <1>8, <1>9, <1>10, KindsOfSteps, Zenon DEF Others
\* What a step finds of a service for which nothing is pending afterwards.
LEMMA UnpendingNext ==
  ASSUME Shape, ReadInv, Next, NEW s \in Services, Live(s)', NEW steps,
         {"finalizer", "binding", "policy"} \subseteq steps, steps \subseteq {"finalizer", "binding", "policy", "route"},
         ~Pending(s, steps)'
  PROVE  /\ Live(s) /\ isvc[s] # Absent /\ s \notin queue /\ s \notin queue'
         /\ OwnerOf(s) = "isvc" /\ OwnerOf(s)' = "isvc"
         /\ \/ ~Pending(s, steps)
            \/ /\ Writes /\ worker.svc = s /\ worker.at \in steps \cap {"policy", "route"}
               /\ worker.read.spec = isvc[s].spec /\ ~worker.stale /\ ~worker.failed
               /\ \A e \in BOOLEAN : proceed(e) => ~e /\ worker'.svc = s /\ worker'.at = next[worker.at]
<1>0. WorkerShape BY DEF Shape
<1>1. s \notin queue' /\ s \notin retry' /\ ~(worker'.svc = s /\ (worker'.failed \/ worker'.at \in steps)) BY DEF Pending
<1>2. isvc'[s] = isvc[s] BY <1>1, ServicesNext
<1>3. Live(s) /\ isvc[s] # Absent BY <1>2 DEF Live
<1>4. s \notin queue
  <2> SUFFICES ASSUME s \in queue PROVE FALSE OBVIOUS
  <2>1. Reconcile(s) BY <1>1, <1>3, QueueNext
  <2>2. worker'.svc = s /\ worker'.at = "finalizer" BY <1>3, <2>1, ReconcileFacts DEF Live
  <2> QED BY <1>1, <2>2
<1>5. OwnerOf(s) = "isvc" /\ OwnerOf(s)' = "isvc"
  <2>1. ReadInv' BY ReadNext
  <2>2. ~(worker.svc = s /\ worker.stale) BY <1>4, Zenon DEF ReadInv
  <2>3. ~(worker'.svc = s /\ worker'.stale) BY <1>1, <2>1, Zenon DEF ReadInv
  <2> QED BY <2>2, <2>3 DEF OwnerOf
<1>6. s \notin retry BY <1>1, <1>3, <1>4, RetryNext
<1>7. ASSUME Pending(s, steps)
      PROVE  /\ Writes /\ worker.svc = s /\ worker.at \in steps \cap {"policy", "route"}
             /\ worker.read.spec = isvc[s].spec /\ ~worker.stale /\ ~worker.failed
             /\ \A e \in BOOLEAN : proceed(e) => ~e /\ worker'.svc = s /\ worker'.at = next[worker.at]
  <2>1. worker.svc = s /\ (worker.failed \/ worker.at \in steps) BY <1>4, <1>6, <1>7 DEF Pending
  <2>2. worker.at # "idle" BY <1>0, <2>1, WorkerFacts
  <2>3. worker.at \in ReconcileSteps /\ worker.read.spec = isvc[s].spec /\ ~worker.stale BY <1>3, <1>4, <2>1, <2>2, Zenon DEF ReadInv
  <2>4. ASSUME NEW e, proceed(e) PROVE ~worker.failed /\ ~e /\ worker'.svc = s /\ worker'.at = next[worker.at] /\ worker.at \in steps
    <3>1. CASE Over(e) /\ worker.at \in {"dashboard", "cleanup", "removeFinalizer"}
      <4>1. ~worker.failed BY <1>1, <2>1, <3>1 DEF Over
      <4> QED BY <2>1, <3>1, <4>1
    <3>2. CASE Onward(e) BY <1>1, <2>1, <3>2 DEF Onward
    <3> QED BY <1>0, <2>2, <2>4, <3>1, <3>2, StepFacts, Zenon
  <2>5. ~(worker'.svc = s /\ worker'.at = worker.at /\ worker'.failed = worker.failed) BY <1>1, <2>1
  <2>6. ~(worker'.svc = s /\ worker'.at = "binding") BY <1>1
  <2>7. ~(worker.at = "binding" /\ ReconcileClusterRoleBinding)
    <3> SUFFICES ASSUME worker.at = "binding", ReconcileClusterRoleBinding PROVE FALSE OBVIOUS
    <3>1. proceed(FALSE) BY Zenon DEF ReconcileClusterRoleBinding
    <3>2. worker'.svc = s /\ worker'.at = "policy" BY <2>4, <3>1, NextIs, Zenon
    <3> QED BY <1>1, <3>2
  <2>8. Writes BY <1>1, <1>3, <2>1, <2>3, <2>5, <2>6, <2>7, PassNext, Zenon
  <2>9. PICK e \in BOOLEAN : proceed(e) BY <2>8 DEF Writes
  <2>10. worker.at \in steps /\ ~worker.failed BY <2>4, <2>9, Zenon
  <2>11. worker.at \in steps \cap {"policy", "route"} BY <2>8, <2>10 DEF Writes, WriteSteps
  <2> QED BY <2>1, <2>3, <2>4, <2>8, <2>10, <2>11, Zenon
<1> QED BY <1>1, <1>3, <1>4, <1>5, <1>7, Zenon

\* Every step leaves the Route of a service as it should be and admitted, or the service pending.
LEMMA RouteNext == ASSUME Shape, ReadInv, RouteInv, Next PROVE RouteInv'
<1> DEFINE Policies == {"finalizer", "binding", "policy"}
           Exposure == {"finalizer", "binding", "policy", "route"}
<1>0. ObjectsStep BY ObjectsNext
<1>1. ASSUME NEW s \in Services, Live(s)', ~Pending(s, Policies)' PROVE Admitting(s)'
  <2>1. /\ Live(s) /\ isvc[s] # Absent /\ s \notin queue /\ s \notin queue'
        /\ OwnerOf(s) = "isvc" /\ OwnerOf(s)' = "isvc"
        /\ \/ ~Pending(s, Policies)
           \/ /\ Writes /\ worker.svc = s /\ worker.at \in Policies \cap {"policy", "route"}
              /\ worker.read.spec = isvc[s].spec /\ ~worker.stale /\ ~worker.failed
              /\ \A e \in BOOLEAN : proceed(e) => ~e /\ worker'.svc = s /\ worker'.at = next[worker.at]
    <3>1. Policies \subseteq Policies /\ Policies \subseteq Exposure OBVIOUS
    <3> QED BY <1>1, <3>1, UnpendingNext, Zenon
  <2>2. Admitting(s)
    <3>1. CASE ~Pending(s, Policies) BY <2>1, <3>1, Zenon DEF RouteInv
    <3>2. CASE Pending(s, Policies)
      <4>1. worker.at = "policy" /\ Writes BY <2>1, <3>2
      <4>2. PICK m \in BOOLEAN : ReconcileNetworkPolicies(m) BY <4>1, Zenon DEF Writes
      <4>3. \E e \in BOOLEAN : proceed(e) /\ (e \/ Admitting(s)) BY <2>1, <3>2, <4>2, PolicyAdmits, Zenon
      <4> QED BY <2>1, <3>2, <4>3, Zenon
    <3> QED BY <3>1, <3>2
  <2>3. object[s]["predictorPolicy"] # NoObject
    <3>1. "predictor" \in Components /\ policyName("predictor") = "predictorPolicy" BY DEF Components, policyName
    <3>2. object[s]["predictorPolicy"].owner = "isvc" BY <2>2, <3>1, Zenon DEF Admitting, owned
    <3> QED BY <3>2, OwnerFacts
  <2>4. \A o \in ObjectNames : object'[s][o] = object[s][o]
    <3>1. \A o \in ObjectNames : object'[s][o] = object[s][o] \/ Taken(o, object[s][o], object'[s][o]) BY <1>0, <2>1, Zenon DEF ObjectsStep
    <3>2. \A o \in ObjectNames : ~Taken(o, object[s][o], object'[s][o]) BY <2>3, Zenon DEF Taken
    <3> QED BY <3>1, <3>2
  <2>5. object'[s]["predictorPolicy"] = object[s]["predictorPolicy"] /\ object'[s]["transformerPolicy"] = object[s]["transformerPolicy"]
    BY <2>4 DEF ObjectNames
  <2>6. OwnerOf(s)' = OwnerOf(s) BY <2>1
  <2> QED BY <2>1, <2>2, <2>5, <2>6, RouteFrame, Zenon
<1>2. ASSUME NEW s \in Services, Live(s)', ~Pending(s, Exposure)' PROVE RouteGood(s)'
  <2>1. /\ Live(s) /\ isvc[s] # Absent /\ s \notin queue /\ s \notin queue'
        /\ OwnerOf(s) = "isvc" /\ OwnerOf(s)' = "isvc"
        /\ \/ ~Pending(s, Exposure)
           \/ /\ Writes /\ worker.svc = s /\ worker.at \in Exposure \cap {"policy", "route"}
              /\ worker.read.spec = isvc[s].spec /\ ~worker.stale /\ ~worker.failed
              /\ \A e \in BOOLEAN : proceed(e) => ~e /\ worker'.svc = s /\ worker'.at = next[worker.at]
    <3>1. Policies \subseteq Exposure /\ Exposure \subseteq Exposure OBVIOUS
    <3> QED BY <1>2, <3>1, UnpendingNext, Zenon
  <2>2. RouteGood(s)
    <3>1. CASE ~Pending(s, Exposure) BY <2>1, <3>1, Zenon DEF RouteInv
    <3>2. CASE Pending(s, Exposure)
      <4>1. Writes /\ worker.svc = s /\ worker.at \in {"policy", "route"} /\ ~worker.failed /\ worker.read.spec = isvc[s].spec BY <2>1, <3>2
      <4>2. PICK e \in BOOLEAN : proceed(e) BY <4>1 DEF Writes
      <4>3. worker'.svc = s /\ worker'.at = next[worker.at] BY <2>1, <3>2, <4>2, Zenon
      <4>4. worker.at # "policy" BY <1>2, <4>3, NextIs DEF Pending
      <4>5. ReconcileRoute BY <4>1, <4>4 DEF Writes
      <4>6. \E f \in BOOLEAN : proceed(f) /\ (f \/ worker.failed \/ RouteGood(s)) BY <2>1, <4>1, <4>5, RouteGiven, Zenon
      <4> QED BY <2>1, <3>2, <4>6, Zenon
    <3> QED BY <3>1, <3>2
  <2>3. object'[s]["route"] = object[s]["route"]
    <3>1. "route" \in ObjectNames /\ ~Taken("route", object[s]["route"], object'[s]["route"]) BY DEF ObjectNames, Taken
    <3> QED BY <1>0, <2>1, <3>1, Zenon DEF ObjectsStep
  <2>4. OwnerOf(s)' = OwnerOf(s) BY <2>1
  <2> QED BY <2>1, <2>2, <2>3, <2>4, RouteFrame, Zenon
<1> HIDE DEF Policies, Exposure
<1> QED BY <1>1, <1>2, Zenon DEF RouteInv, Policies, Exposure
---------------------------------------------------------------------------
(* The invariant. *)

RestInv == BlockInv /\ CleanInv /\ PolicyInv /\ RouteInv

\* At the first start every service is in the queue.
LEMMA RestInit == Init => RestInv
<1> SUFFICES ASSUME Init PROVE RestInv OBVIOUS
<1>1. PICK e \in Existing :
        /\ isvc = [s \in Services |-> IF e[s] = Absent THEN Absent ELSE [spec |-> e[s].spec, finalizer |-> FALSE, deleting |-> FALSE]]
        /\ queue = {s \in Services : e[s] # Absent}
  BY Zenon DEF Init
<1>2. \A s \in Services : Live(s) => s \in queue BY <1>1 DEF Live
<1>3. worker = Idle BY Zenon DEF Init
<1>4. worker.at = "idle" /\ ~worker.blocked BY <1>3, IdleIs
<1>5. BlockInv /\ CleanInv BY <1>4 DEF BlockInv, CleanInv
<1>6. PolicyInv /\ RouteInv BY <1>2, Zenon DEF PolicyInv, RouteInv, Pending
<1> QED BY <1>5, <1>6 DEF RestInv

\* Every step keeps it.
LEMMA RestNext == Inv /\ RestInv /\ [Next]_vars => RestInv'
<1> SUFFICES ASSUME Inv, RestInv, [Next]_vars PROVE RestInv' OBVIOUS
<1>0. Shape /\ ReadInv /\ BlockInv /\ CleanInv /\ PolicyInv /\ RouteInv BY DEF Inv, RestInv
<1>1. CASE Next BY <1>0, <1>1, BlockNext, CleanNext, PolicyNext, RouteNext, Zenon DEF RestInv
<1>2. CASE UNCHANGED vars
  <2>0. UNCHANGED <<isvc, object, backend, runtime, graph, queue, retry, worker, unnoticed>> BY <1>2, Zenon DEF vars
  <2>1. \A s : OwnerOf(s)' = OwnerOf(s) BY <2>0 DEF OwnerOf
  <2>2. ASSUME NEW s PROVE Good(s)' <=> Good(s)
    <3>1. isvc'[s] = isvc[s] /\ backend'[s] = backend[s] /\ object'[s] = object[s] BY <2>0
    <3> QED BY <2>0, <2>1, <3>1, GoodSame
  <2>3. ASSUME NEW s PROVE (RouteGood(s)' <=> RouteGood(s)) /\ (Admitting(s)' <=> Admitting(s))
    <3>1. isvc'[s] = isvc[s] /\ backend'[s] = backend[s] /\ object'[s] = object[s] BY <2>0
    <3> QED BY <2>1, <3>1, RouteSame
  <2>4. \A s : Live(s)' <=> Live(s) BY <2>0 DEF Live
  <2>5. PolicyInv' BY <1>0, <2>0, <2>2, <2>4, Zenon DEF PolicyInv
  <2>6. \A s, steps : Pending(s, steps)' <=> Pending(s, steps) BY <2>0 DEF Pending
  <2>7. RouteInv' BY <1>0, <2>3, <2>4, <2>6, Zenon DEF RouteInv
  <2>8. BlockInv' /\ CleanInv' BY <1>0, <2>0 DEF BlockInv, CleanInv
  <2> QED BY <2>5, <2>7, <2>8 DEF RestInv
<1> QED BY <1>1, <1>2
---------------------------------------------------------------------------
(* The properties. *)

\* At all times a policy or a Route that is not what it should be is accounted for by a request
\* in the queue, a retry or the step of the running pass.
THEOREM RestInvariantHolds == Spec => []RestInv
<1>1. Init => RestInv BY RestInit
<1>2. Inv /\ RestInv /\ [Next]_vars => RestInv' BY RestNext
<1> QED BY <1>1, <1>2, InvariantHolds, PTL DEF Spec

\* Whenever nothing is pending for a service, its policies say what its spec, its backing
\* Services, the graphs and the runtime imply, for any number of services and graphs.
THEOREM PoliciesAreCurrent == Spec => []PoliciesCurrent
<1>1. RestInv => PoliciesCurrent
  <2> SUFFICES ASSUME RestInv, NEW s \in Services, Settled(s), s \notin unnoticed.misread PROVE Good(s)
    BY Zenon DEF PoliciesCurrent, Good
  <2> QED BY Zenon DEF RestInv, PolicyInv, Settled, Quiet
<1> QED BY <1>1, RestInvariantHolds, PTL

\* What the Route of a settled service leads to is what its policies admit.
LEMMA Admitted ==
  ASSUME NEW s \in Services, NEW b, worker.svc # s, RouteGood(s), Admitting(s), owned(object[s]["route"]),
         \A x \in BackendNames : backend[s][x] = NoObject \/ owned(backend[s][x]),
         b \in BackendNames, backend[s][b] # NoObject, backend[s][b].ports # {},
         b = routeTarget(s) \/ (b = "canary" /\ isvc[s].spec.canary # <<>>)
  PROVE  LET policy == object[s][policyName(componentOf(b))]
         IN  policy # NoObject /\ <<b, setRouteTargetPort(rawAuthEnabled(isvc[s].spec), backend[s][b].ports)>> \in policy.content.router
<1> DEFINE c == componentOf(b)
           spec == isvc[s].spec
<1>1. \A x \in BackendNames : isOwnedByInferenceService(s, backend[s][x]) <=> backend[s][x] # NoObject
  BY OwnerFacts DEF isOwnedByInferenceService, owned
<1>2. c \in Components BY DEF componentOf, Components
<1>3. b \in listComponentServices(s, c) BY <1>1 DEF listComponentServices
<1>4. c = "transformer" => hasTransformer(s, spec) BY <1>3 DEF hasTransformer
<1>5. c = "predictor" \/ hasTransformer(s, spec) BY <1>2, <1>4 DEF Components
<1>6. owned(object[s][policyName(c)]) /\ object[s][policyName(c)].content.router = desiredRouter(s, c) BY <1>2, <1>5, Zenon DEF Admitting
<1>7. object[s][policyName(c)] # NoObject BY <1>6, OwnerFacts DEF owned
<1>8. routed(s, spec, c)
  <2>1. spec.visibility = "exposed" BY DEF RouteGood
  <2>2. CASE b = "canary" /\ spec.canary # <<>>
    <3>1. c = "predictor" BY <2>2 DEF componentOf
    <3> QED BY <2>1, <2>2, <3>1 DEF routed
  <2>3. CASE b = routeTarget(s)
    <3>1. CASE backend[s]["transformer"] # NoObject
      <4>1. b = "transformer" BY <2>3, <3>1, Zenon DEF routeTarget
      <4>2. c = "transformer" BY <4>1 DEF componentOf
      <4>3. routeComponent(s) = "transformer" BY <1>3, <4>2 DEF routeComponent
      <4> QED BY <2>1, <4>2, <4>3 DEF routed
    <3>2. CASE backend[s]["transformer"] = NoObject
      <4>1. b # "transformer" BY <3>2
      <4>2. c = "predictor" BY <4>1 DEF componentOf
      <4>3. listComponentServices(s, "transformer") = {}
        <5>1. \A x \in BackendNames : componentOf(x) = "transformer" => x = "transformer" BY DEF componentOf
        <5> QED BY <1>1, <3>2, <5>1 DEF listComponentServices
      <4>4. routeComponent(s) = "predictor" BY <4>3 DEF routeComponent
      <4> QED BY <2>1, <4>2, <4>4 DEF routed
    <3> QED BY <3>1, <3>2
  <2> QED BY <2>2, <2>3
<1>9. desiredRouter(s, c) = serviceTargetPorts(s, listComponentServices(s, c), rawAuthEnabled(spec)) BY <1>8 DEF desiredRouter
<1>10. <<b, setRouteTargetPort(rawAuthEnabled(spec), backend[s][b].ports)>> \in serviceTargetPorts(s, listComponentServices(s, c), rawAuthEnabled(spec))
  BY <1>3 DEF serviceTargetPorts
<1> QED BY <1>6, <1>7, <1>9, <1>10, Zenon

\* Whenever nothing is pending for an exposed service, the router may reach every backend of its
\* Route, for any number of services and any backing Services.
THEOREM RouterIsAdmitted == Spec => []RouterAdmitted
<1>1. RestInv => RouterAdmitted
  <2> SUFFICES ASSUME RestInv PROVE RouterAdmitted OBVIOUS
  <2>1. ASSUME NEW s \in Services, Settled(s), s \notin retry, owned(object[s]["route"]),
               \A b \in BackendNames : backend[s][b] = NoObject \/ owned(backend[s][b])
        PROVE  LET route == object[s]["route"]
                   admits(b, p) == object[s][policyName(componentOf(b))] # NoObject
                                   /\ <<b, p>> \in object[s][policyName(componentOf(b))].content.router
               IN  /\ admits(route.content.to, route.content.port)
                   /\ route.content.canaries # <<>> /\ backend[s]["canary"].ports # {} =>
                        admits("canary", setRouteTargetPort(rawAuthEnabled(isvc[s].spec), backend[s]["canary"].ports))
    <3> DEFINE spec == isvc[s].spec
    <3>1. Live(s) /\ s \notin queue /\ worker.svc # s BY <2>1 DEF Settled, Quiet
    <3>2. Admitting(s) /\ RouteGood(s) BY <2>1, <3>1, Zenon DEF RestInv, RouteInv, Pending
    <3>3. spec.visibility = "exposed" /\ ~routeError(s, spec) /\ object[s]["route"].content = desiredRoute(s, spec) BY <2>1, <3>2, Zenon DEF RouteGood
    <3>4. /\ object[s]["route"].content.to = routeTarget(s)
          /\ object[s]["route"].content.port = setRouteTargetPort(rawAuthEnabled(spec), backend[s][routeTarget(s)].ports)
          /\ object[s]["route"].content.canaries = spec.canary
      BY <3>3 DEF desiredRoute
    <3>5. routeTarget(s) # Absent /\ backend[s][routeTarget(s)].ports # {} BY <3>3 DEF routeError
    <3>6. routeTarget(s) \in BackendNames /\ backend[s][routeTarget(s)] # NoObject BY <3>5 DEF routeTarget, BackendNames
    <3>7. spec.canary # <<>> => backend[s]["canary"] # NoObject BY <3>3, Zenon DEF routeError
    <3>8. "canary" \in BackendNames BY DEF BackendNames
    <3>9. LET b == routeTarget(s)
              policy == object[s][policyName(componentOf(b))]
          IN  policy # NoObject /\ <<b, setRouteTargetPort(rawAuthEnabled(spec), backend[s][b].ports)>> \in policy.content.router
      BY <2>1, <3>1, <3>2, <3>5, <3>6, Admitted, Zenon
    <3>10. ASSUME spec.canary # <<>>, backend[s]["canary"].ports # {}
           PROVE  LET policy == object[s][policyName(componentOf("canary"))]
                  IN  policy # NoObject /\ <<"canary", setRouteTargetPort(rawAuthEnabled(spec), backend[s]["canary"].ports)>> \in policy.content.router
      BY <2>1, <3>1, <3>2, <3>7, <3>8, <3>10, Admitted, Zenon
    <3> QED BY <3>4, <3>9, <3>10, Zenon
  <2> QED BY <2>1, Zenon DEF RouterAdmitted
<1> QED BY <1>1, RestInvariantHolds, PTL

\* No step changes another owner's policy, and none exposes a service that it blocks.
THEOREM ForeignPoliciesAreRespected == Spec => ForeignPolicyRespected
<1> DEFINE Kept == \A s \in Services : object[s]["predictorPolicy"].owner = "foreign"
                     => object'[s]["predictorPolicy"] = object[s]["predictorPolicy"]
           Waits == \A s \in Services : worker.svc = s /\ worker.blocked /\ object'[s]["route"] # object[s]["route"]
                      => object'[s]["route"] = NoObject \/ object'[s]["route"].owner = "former"
<1>1. Inv /\ RestInv /\ [Next]_vars => [Kept]_vars
  <2> SUFFICES ASSUME Inv, RestInv, Next PROVE Kept BY Zenon
  <2>1. ObjectsStep BY ObjectsNext, Zenon DEF Inv
  <2> QED BY <2>1 DEF ObjectsStep, ObjectNames
<1>2. Inv /\ RestInv /\ [Next]_vars => [Waits]_vars
  <2> SUFFICES ASSUME Inv, RestInv, Next PROVE Waits BY Zenon
  <2>1. worker.blocked => Unrouted BY UnroutedNext, Zenon DEF Inv, RestInv
  <2> QED BY <2>1, Zenon DEF Unrouted
<1>3. Spec => [][Kept]_vars BY <1>1, InvariantHolds, RestInvariantHolds, PTL DEF Spec
<1>4. Spec => [][Waits]_vars BY <1>2, InvariantHolds, RestInvariantHolds, PTL DEF Spec
<1> QED BY <1>3, <1>4, PTL DEF ForeignPolicyRespected, ForeignPolicyKept, ExposureWaitsForPolicy

\* A service with the finalizer goes only after its policies, and leaves no binding that no one
\* will remove.
THEOREM FinalizerDoesGuard == Spec => FinalizerGuards
<1> DEFINE Guarded == \A s \in Services : isvc[s] # Absent /\ isvc[s].finalizer /\ isvc'[s] = Absent
                        => /\ \A c \in Components : object[s][policyName(c)].owner # "isvc"
                           /\ accountOf(isvc[s].spec) \in binding \ unnoticed.stray
                                => \E t \in Services \ {s} : isvc[t] # Absent /\ accountOf(isvc[t].spec) = accountOf(isvc[s].spec)
<1>1. Inv /\ RestInv /\ [Next]_vars => [Guarded]_vars
  <2> SUFFICES ASSUME Inv, RestInv, Next PROVE Guarded BY Zenon
  <2> QED BY GuardNext, Zenon DEF RestInv
<1>2. Spec => [][Guarded]_vars BY <1>1, InvariantHolds, RestInvariantHolds, PTL DEF Spec
<1> QED BY <1>2, PTL DEF FinalizerGuards
=============================================================================
