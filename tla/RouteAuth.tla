------------------------------ MODULE RouteAuth ------------------------------
(***************************************************************************)
(* The LLMInferenceService controller (serving/llm/llm_inferenceservice_   *)
(* controller.go) and its two authentication sub-reconcilers.  A service   *)
(* with security.opendatahub.io/enable-auth "false" gets an anonymous      *)
(* AuthPolicy on each of its HTTPRoutes; a service with authentication     *)
(* removes them.  Services may share a route, and members of a routing     *)
(* group that disagree are warned about.  One worker drains the queue of   *)
(* service names; each step handles one route, as the loop of the code     *)
(* does, so that users and the garbage collector act in between.           *)
(***************************************************************************)
EXTENDS Naturals, FiniteSets, Sequences

CONSTANTS
  Services,      \* names of LLMInferenceServices, of one namespace and group
  Routes,        \* names of HTTPRoutes
  DefaultRoute,  \* [Services -> Routes]: GetHTTPRouteName
  Specs,         \* the LLMInferenceServices users write
  BaseRefs,      \* the route references the base configuration may hold
  Absent,        \* no such object
  MaxChanges     \* bound on changes in the cluster and on failed calls

RouteLists == Seq(Routes)

\* A service: authentication, force-stopped, its route references, whether
\* it has a base configuration, and its deletion timestamp.
ServiceRecord ==
  [auth : BOOLEAN, stopped : BOOLEAN, refs : RouteLists, based : BOOLEAN, deleting : BOOLEAN]

\* An anonymous AuthPolicy: the service named by its owner reference and its
\* name label, whether that service is the one that exists now, not opted out
\* of management, and what a user did to its spec.
PolicyRecord ==
  [owner : Services \cup {Absent}, former : BOOLEAN, managed : BOOLEAN, edit : {"none", "changed", "added"}]

ASSUME RouteAssumption ==
  /\ DefaultRoute \in [Services -> Routes]
  /\ Specs \subseteq ServiceRecord /\ \A spec \in Specs : ~spec.deleting
  /\ BaseRefs \subseteq RouteLists
ASSUME AbsentAssumption == Absent \notin ServiceRecord \cup PolicyRecord \cup RouteLists \cup Services
ASSUME BoundAssumption == MaxChanges \in Nat

VARIABLES
  service,   \* [Services -> ServiceRecord or Absent]
  config,    \* the base configuration's route references, or Absent
  routes,    \* the HTTPRoutes that exist
  policy,    \* [Routes -> PolicyRecord or Absent]
  queue,     \* services waiting to be reconciled
  worker,    \* the service being reconciled and the routes still to handle
  warned,    \* the mismatches reported: pairs of sets of services
  changes,   \* changes and failures so far
  missed     \* routes that lost their reason in a way no watch reports

cluster == <<service, config, routes>>
vars == <<cluster, policy, queue, worker, warned, changes, missed>>

Idle == [at |-> "idle", svc |-> Absent, todo |-> << >>, auth |-> FALSE, former |-> FALSE, failed |-> FALSE]

Workers ==
  [at : {"idle", "reconcile", "posture", "delete"}, svc : Services \cup {Absent}, todo : RouteLists,
   auth : BOOLEAN, former : BOOLEAN, failed : BOOLEAN]

TypeOK ==
  /\ service \in [Services -> ServiceRecord \cup {Absent}]
  /\ config \in RouteLists \cup {Absent}
  /\ routes \subseteq Routes
  /\ policy \in [Routes -> PolicyRecord \cup {Absent}]
  /\ queue \subseteq Services
  /\ worker \in Workers
  /\ IF worker.at = "idle" THEN worker = Idle ELSE worker.svc \in Services
  /\ worker.at \in {"reconcile", "delete"} => worker.todo # << >>
  /\ warned \subseteq (SUBSET Services) \X (SUBSET Services)
  /\ changes \in 0..MaxChanges
  /\ missed \subseteq Routes

Live == {s \in Services : service[s] # Absent /\ ~service[s].deleting}

getHTTPRouteNames(s, refs) == IF refs # << >> THEN refs ELSE <<DefaultRoute[s]>>

\* MergeSpecs: the service's own references take precedence.
mergedRefs(svc) == IF svc.refs = << >> /\ svc.based /\ config # Absent THEN config ELSE svc.refs

routesOf(s) ==
  LET names == getHTTPRouteNames(s, mergedRefs(service[s])) IN {names[i] : i \in 1..Len(names)}

\* Mutant: a change of a policy reaches every service.
FindLLMServiceFromAuthPolicy_all(ap) == IF ap # Absent /\ ap.managed THEN Services ELSE {}

\* The AuthPolicy watch: updates and deletions of managed policies reach the
\* service that owns them.
FindLLMServiceFromAuthPolicy(ap) ==
  IF ap # Absent /\ ap.managed /\ ap.owner # Absent THEN {ap.owner} ELSE {}

Change == changes < MaxChanges /\ changes' = changes + 1

---------------------------------------------------------------------------
(* Reconcile. *)

Init ==
  /\ service \in [Services -> Specs \cup {Absent}]
  /\ config \in BaseRefs
  /\ routes = Routes
  /\ policy = [r \in Routes |-> Absent]
  /\ queue = Live
  /\ worker = Idle
  /\ warned = {}
  /\ changes = 0
  /\ missed = {}

\* Mutant: the sub-reconcilers get the service without its base configuration.
Reconcile_unmerged(s) ==
  /\ worker.at = "idle"
  /\ s \in queue
  /\ queue' = queue \ {s}
  /\ worker' =
       IF service[s] = Absent \/ service[s].stopped THEN Idle
       ELSE [Idle EXCEPT !.at = IF service[s].deleting THEN "delete" ELSE "reconcile", !.svc = s,
               !.auth = service[s].auth, !.todo = getHTTPRouteNames(s, service[s].refs)]
  /\ UNCHANGED <<cluster, policy, warned, changes, missed>>

\* Get the service.  Deletion looks at its own references; otherwise the base
\* configuration must exist, and a stopped service is left alone.
Reconcile(s) ==
  /\ worker.at = "idle"
  /\ s \in queue
  /\ LET svc == service[s]
         at(step, refs) == [Idle EXCEPT !.at = step, !.svc = s, !.auth = svc.auth,
                                        !.todo = getHTTPRouteNames(s, refs)]
     IN  \/ /\ svc = Absent
            /\ queue' = queue \ {s}
            /\ worker' = Idle
         \/ /\ svc # Absent
            /\ svc.deleting
            /\ queue' = queue \ {s}
            /\ worker' = at("delete", svc.refs)
         \/ /\ svc # Absent
            /\ ~svc.deleting
            /\ svc.based /\ config = Absent
            /\ UNCHANGED <<queue, worker>>
         \/ /\ svc # Absent
            /\ ~svc.deleting
            /\ ~(svc.based /\ config = Absent)
            /\ queue' = queue \ {s}
            /\ worker' = IF svc.stopped THEN Idle ELSE at("reconcile", mergedRefs(svc))
  /\ UNCHANGED <<cluster, policy, warned, changes, missed>>

\* The comparator sees the name label but not what a user added.
upToDate(ap, s) == ap.owner = s /\ ap.edit \in {"none", "added"}

anonymous(s) == [owner |-> s, former |-> worker.former, managed |-> TRUE, edit |-> "none"]

optedOut(ap) == ap # Absent /\ ~ap.managed

\* The policy of r becomes ap; neither a creation nor the removal of a policy
\* opted out of management is reported.
store(r, ap) ==
  /\ policy' = [policy EXCEPT ![r] = ap]
  /\ queue' = queue \cup IF policy[r] = Absent \/ ap = policy[r] THEN {}
                         ELSE FindLLMServiceFromAuthPolicy(policy[r]) \cup FindLLMServiceFromAuthPolicy(ap)
  /\ missed' = IF ap = Absent /\ optedOut(policy[r]) THEN missed \cup {r} ELSE missed

\* With authentication a policy is removed, without it is created or updated.
httpRouteAuthPolicyProcessDelta(r, s) ==
  store(r, IF worker.auth THEN Absent
           ELSE IF policy[r] # Absent /\ upToDate(policy[r], s) THEN policy[r] ELSE anonymous(s))

\* One route of the loop.  A policy opted out of management is skipped; a
\* missing route is an error, which ends the loop but not the pass.
reconcileHTTPRouteAuthpolicy ==
  LET r == Head(worker.todo)
      skip == optedOut(policy[r])
      missing == ~skip /\ ~worker.auth /\ r \notin routes
  IN  /\ worker.at = "reconcile"
      /\ \/ /\ missing
            /\ worker' = [worker EXCEPT !.at = "posture", !.failed = TRUE]
            /\ UNCHANGED <<policy, queue, missed>>
         \/ /\ ~missing
            /\ worker' = [worker EXCEPT !.todo = Tail(@), !.at = IF Len(worker.todo) = 1 THEN "posture" ELSE @]
            /\ IF skip THEN UNCHANGED <<policy, queue, missed>>
               ELSE httpRouteAuthPolicyProcessDelta(r, worker.svc)
      /\ UNCHANGED <<cluster, warned, changes>>

\* The members of the group that authenticate, and those that do not.
mismatch == <<{s \in Live : service[s].auth}, {s \in Live : ~service[s].auth}>>

\* Mutant: only a member without authentication looks at the others.
reconcilePosture_anonymousOnly ==
  /\ worker.at = "posture"
  /\ warned' = IF worker.auth \/ {} \in {mismatch[1], mismatch[2]} THEN warned ELSE warned \cup {mismatch}
  /\ worker' = Idle
  /\ queue' = IF worker.failed THEN queue \cup {worker.svc} ELSE queue
  /\ UNCHANGED <<cluster, policy, changes, missed>>

\* The posture check runs whether or not the policies failed; an error of
\* the pass queues the service again.
reconcilePosture ==
  /\ worker.at = "posture"
  /\ warned' = IF {} \in {mismatch[1], mismatch[2]} THEN warned ELSE warned \cup {mismatch}
  /\ worker' = Idle
  /\ queue' = IF worker.failed THEN queue \cup {worker.svc} ELSE queue
  /\ UNCHANGED <<cluster, policy, changes, missed>>

\* onDeletion removes the policies of the routes, managed or not.
deleteHTTPRouteAuthPolicies ==
  /\ worker.at = "delete"
  /\ worker' = IF Len(worker.todo) = 1 THEN Idle ELSE [worker EXCEPT !.todo = Tail(@)]
  /\ store(Head(worker.todo), Absent)
  /\ UNCHANGED <<cluster, warned, changes>>

\* A call to the API server fails: the error ends the pass.
CallFails ==
  /\ worker.at # "idle"
  /\ Change
  /\ worker' = Idle
  /\ queue' = queue \cup {worker.svc}
  /\ UNCHANGED <<cluster, policy, warned, missed>>

existing == {s \in Services : service[s] # Absent}

Restart ==
  /\ Change
  /\ queue' = existing
  /\ worker' = Idle
  /\ UNCHANGED <<cluster, policy, warned, missed>>

---------------------------------------------------------------------------
(* Changes in the cluster. *)

CreateService(s, svc) ==
  /\ Change
  /\ service[s] = Absent
  /\ service' = [service EXCEPT ![s] = svc]
  /\ queue' = queue \cup {s}
  /\ UNCHANGED <<config, routes, policy, worker, warned, missed>>

\* The policies of routes a service no longer refers to, and those of a
\* service stopped meanwhile, are not looked at again.
UpdateService(s, svc) ==
  /\ Change
  /\ s \in Live
  /\ service[s] # svc
  /\ service' = [service EXCEPT ![s] = svc]
  /\ UNCHANGED <<config, routes, policy, worker, warned>>
  /\ queue' = queue \cup {s}
  /\ missed' = missed \cup (routesOf(s) \ routesOf(s)') \cup IF svc.stopped THEN routesOf(s)' ELSE {}

\* A deletion; another controller's finalizer keeps the object for a while.
DeleteService(s) ==
  /\ Change
  /\ s \in Live
  /\ service' = [service EXCEPT ![s].deleting = TRUE]
  /\ queue' = queue \cup {s}
  /\ UNCHANGED <<config, routes, policy, worker, warned, missed>>

\* The object is gone; owner references to it dangle.
ServiceGone(s) ==
  /\ service[s] # Absent
  /\ service[s].deleting
  /\ service' = [service EXCEPT ![s] = Absent]
  /\ policy' = [r \in Routes |-> IF policy[r] # Absent /\ policy[r].owner = s
                                THEN [policy[r] EXCEPT !.former = TRUE] ELSE policy[r]]
  /\ worker' = IF worker.svc = s THEN [worker EXCEPT !.former = TRUE] ELSE worker
  /\ queue' = queue \cup {s}
  /\ UNCHANGED <<config, routes, warned, changes, missed>>

\* The garbage collector removes what a deleted service owned.
Collect(r) ==
  /\ policy[r] # Absent
  /\ policy[r].former
  /\ store(r, Absent)
  /\ UNCHANGED <<cluster, worker, warned, changes>>

\* Configurations are not watched.
ChangeConfig(refs) ==
  /\ Change
  /\ config # refs
  /\ config' = refs
  /\ UNCHANGED <<service, routes, policy, worker, warned, queue>>
  /\ missed' = missed \cup UNION {(routesOf(s) \cup routesOf(s)') : s \in {t \in Live : service[t].based}}

\* HTTPRoutes are not watched.
ChangeRoute(r) ==
  /\ Change
  /\ routes' = (routes \cup {r}) \ (routes \cap {r})
  /\ UNCHANGED <<service, config, policy, queue, worker, warned, missed>>

\* A user edits a policy, or opts it out of management or back in.  Only its
\* owner is told, not the other services of the route, which skipped it.
EditPolicy(r, edit) ==
  LET new == IF edit = "toggle" THEN [policy[r] EXCEPT !.managed = ~@] ELSE [policy[r] EXCEPT !.edit = edit]
  IN  /\ Change
      /\ policy[r] # Absent
      /\ policy' = [policy EXCEPT ![r] = new]
      /\ queue' = queue \cup FindLLMServiceFromAuthPolicy(new)
      /\ missed' = IF edit = "toggle" /\ \E s \in Live \ {policy[r].owner} : r \in routesOf(s)
                   THEN missed \cup {r} ELSE missed
      /\ UNCHANGED <<cluster, worker, warned>>

DeletePolicy(r) ==
  /\ Change
  /\ policy[r] # Absent
  /\ policy' = [policy EXCEPT ![r] = Absent]
  /\ queue' = queue \cup FindLLMServiceFromAuthPolicy(policy[r])
  /\ missed' = IF policy[r].managed THEN missed ELSE missed \cup {r}
  /\ UNCHANGED <<cluster, worker, warned>>

\* Authorino and Kuadrant changes queue every service.
globalResync ==
  /\ Change
  /\ queue' = queue \cup existing
  /\ UNCHANGED <<cluster, policy, worker, warned, missed>>

Environment ==
  \/ \E s \in Services : DeleteService(s) \/ \E svc \in Specs : CreateService(s, svc) \/ UpdateService(s, svc)
  \/ \E refs \in BaseRefs \cup {Absent} : ChangeConfig(refs)
  \/ \E r \in Routes : ChangeRoute(r) \/ DeletePolicy(r)
  \/ \E r \in Routes, edit \in {"changed", "added", "toggle"} : EditPolicy(r, edit)
  \/ globalResync
  \/ CallFails
  \/ Restart

Worker ==
  \/ \E s \in Services : Reconcile(s)
  \/ reconcileHTTPRouteAuthpolicy
  \/ reconcilePosture
  \/ deleteHTTPRouteAuthPolicies

Cluster == (\E s \in Services : ServiceGone(s)) \/ (\E r \in Routes : Collect(r))

Next == Worker \/ Cluster \/ Environment

Spec == Init /\ [][Next]_vars

\* The worker, the other finalizers' controllers and the garbage collector
\* keep running, and the queue is first in first out.
FairSpec == Spec /\ WF_vars(Worker) /\ WF_vars(Cluster) /\ \A s \in Services : SF_vars(Reconcile(s))

---------------------------------------------------------------------------
(* Properties. *)

Running == {s \in Live : ~service[s].stopped}
Anonymous(r) == {s \in Running : ~service[s].auth /\ r \in routesOf(s)}

Quiet ==
  /\ queue = {}
  /\ worker.at = "idle"
  /\ \A s \in Services : service[s] = Absent \/ ~service[s].deleting
  /\ \A r \in Routes : policy[r] = Absent \/ ~policy[r].former

\* When the controller has nothing left to do, a route of a running service
\* without authentication carries an anonymous policy, even when a service
\* with authentication shares the route and has removed the policy.
AnonymousServed ==
  Quiet => \A r \in Routes \ missed :
    Anonymous(r) # {} => /\ policy[r] # Absent
                         /\ policy[r].managed => policy[r].edit # "changed"

\* When the controller has nothing left to do, a managed anonymous policy is
\* there for a running service that asks for it: none outlives the switch of
\* its service back to authentication, or its service.
AuthenticationRestored ==
  Quiet => \A r \in Routes \ missed :
    (policy[r] # Absent /\ policy[r].managed) => Anonymous(r) # {}

\* At rest, a route is anonymous exactly if a running service without
\* authentication uses it, whichever services shared it on the way.
PoliciesFollowAuth == AnonymousServed /\ AuthenticationRestored

\* When the controller has nothing left to do and every member of the group
\* runs, members that disagree about authentication have been reported.
MismatchReported ==
  (Quiet /\ Running = Live /\ mismatch[1] # {} /\ mismatch[2] # {}) =>
    \E w \in warned : mismatch[1] \subseteq w[1] /\ mismatch[2] \subseteq w[2]

\* Two running services without authentication on one route replace each
\* other's policy for ever, and a missing route or configuration is retried.
Contended ==
  \/ \E r \in Routes : Cardinality(Anonymous(r)) > 1
  \/ \E s \in Live : service[s].based /\ config = Absent
  \/ \E s \in Running : ~service[s].auth /\ ~(routesOf(s) \subseteq routes)

\* Once the cluster stops changing the worker comes to rest unless services
\* contend: a service with authentication and one without that share a route
\* do not keep undoing each other's work.
ComesToRest == <>[](Quiet \/ Contended)

=============================================================================
