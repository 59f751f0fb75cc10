---------------------------- MODULE GridProvider ----------------------------
(***************************************************************************)
(* The reconciler that publishes one LLMInferenceService to Grid           *)
(* (internal/controller/serving/llm/grid_controller.go).  For every        *)
(* attached and configured Gateway it keeps a Role, a RoleBinding, an      *)
(* optional NetworkPolicy and a cluster-scoped InferenceProvider; a        *)
(* finalizer on the service is what holds the service until they are gone. *)
(*                                                                         *)
(* One request key, so one worker: a reconcile is a sequence of steps, one *)
(* per API call or group of calls, and everything else in the cluster      *)
(* (users, administrators, the garbage collector, the informers) moves     *)
(* between any two of them.                                                *)
(*                                                                         *)
(* Abstractions.                                                           *)
(*  - svcs is the history of the service object: svcs[i] is the object at  *)
(*    resourceVersion i, the last entry is the stored one, and the         *)
(*    informer cache holds svcs[seen].  uid 0 is "no such object".         *)
(*  - pair[g] is everything outside the service's own metadata that        *)
(*    decides whether (service, g) is published: namespace label, stop     *)
(*    annotation, reported attachment, Gateway annotation, credential, EPP *)
(*    metrics Service.  Those are never written, so it stands for what the *)
(*    readers return: once per reconcile, and again in the two stages that *)
(*    look up the EPP metrics Service.                                     *)
(*  - the name of a resource is made of the service UID, the Gateway       *)
(*    identity (UID included) and the kind: a record of those three.       *)
(***************************************************************************)
EXTENDS Naturals, Sequences, FiniteSets

CONSTANTS
    Gateways,         \* Gateway identities (namespace, name and UID)
    MaxIncarnations,  \* how often a service of this name may be created
    MaxIds,           \* UIDs given to the objects stored under one name
    MaxEvents,        \* bound on what users, administrators and faults do
    StaleReads,       \* may a read through the informer cache be outdated?
    PairChoices,      \* publication states the environment chooses from
    AdminKinds,       \* kinds of resource administrators interfere with
    AllowRelabel,     \* may an administrator edit ownership in place?
    None              \* no resource, no Gateway

ASSUME GatewaysAssumption == IsFiniteSet(Gateways)
ASSUME BoundsAssumption == MaxIncarnations \in Nat \ {0} /\ MaxIds \in Nat /\ MaxEvents \in Nat
ASSUME ChoicesAssumption ==
    PairChoices \subseteq {"off", "invalid", "badCred", "plain", "metrics"}
ASSUME SwitchAssumption == StaleReads \in BOOLEAN /\ AllowRelabel \in BOOLEAN

VARIABLES
    svcs, seen,   \* the service: stored history, and how far the cache is
    born,         \* services of this name created so far
    pair,         \* publication state of each Gateway, as readers see it
    res, cache,   \* the generated resources: stored, and as cached
    queued,       \* the request key is in the work queue
    pc,           \* where the worker is
    rd,           \* the worker's copy of the service
    plan,         \* desiredPublications' verdict per Gateway
    objects,      \* resources cleanupExcept listed
    todo,         \* those it has not asked to delete yet
    cur,          \* the resource between its live Get and its Delete
    cleanupErr,   \* cleanupExcept collected an error
    complete,     \* cleanupExcept confirmed every deletion
    failed,       \* reconcileErrors is not empty
    left, at,     \* publications still to do, and the current one
    events        \* how many bounded events have happened

worker == <<pc, rd, plan, objects, todo, cur, cleanupErr, complete, failed, left, at>>
vars == <<svcs, seen, born, pair, res, cache, queued, worker, events>>

-----------------------------------------------------------------------------
(* Data.                                                                   *)

Finalizers == {"grid", "other"}
AccessKinds == {"role", "binding", "policy"}
Kinds == AccessKinds \cup {"provider"}
Published == {"plain", "metrics"}
PairStates == {"off", "invalid", "badCred"} \cup Published
Sources == {"none", "us", "other"}

Services == [uid : 0..MaxIncarnations, deleting : BOOLEAN, fins : SUBSET Finalizers]
NoService == [uid |-> 0, deleting |-> FALSE, fins |-> {}]

Keys == [uid : 1..MaxIncarnations, gw : Gateways, kind : Kinds]
Key(u, g, k) == [uid |-> u, gw |-> g, kind |-> k]

\* src: whose annotations the object carries; id: its own UID; term: it has a
\* deletionTimestamp; val: what the spec publishes.
Objects == [src : Sources, id : 0..MaxIds, term : BOOLEAN, val : Published]
NoObject == [src |-> "none", id |-> 0, term |-> FALSE, val |-> "plain"]

Live == svcs[Len(svcs)]
Cached == svcs[seen]

\* The first UID no copy of the object under this name still remembers.
FreshIds(k) ==
    LET used == {res[k].id, cache[k].id, cur.id}
    IN  {i \in (1..MaxIds) \ used : \A j \in 1..(i - 1) : j \in used}

gridOwned(k, u) == k.uid = u /\ res[k].src = "us"

keep == {g \in Gateways : plan[g] \in Published}

-----------------------------------------------------------------------------
Init ==
    /\ svcs = <<[uid |-> 1, deleting |-> FALSE, fins |-> {}]>>
    /\ seen = 1 /\ born = 1
    /\ pair = [g \in Gateways |-> "off"]
    /\ res = [k \in Keys |-> NoObject]
    /\ cache = [k \in Keys |-> NoObject]
    /\ queued = TRUE
    /\ pc = "idle"
    /\ rd = [uid |-> 0, deleting |-> FALSE, fins |-> {}, rv |-> 0]
    /\ plan = [g \in Gateways |-> "off"]
    /\ objects = {} /\ todo = {}
    /\ cur = [key |-> None, id |-> 0]
    /\ cleanupErr = FALSE /\ complete = FALSE /\ failed = FALSE
    /\ left = {} /\ at = None
    /\ events = 0

-----------------------------------------------------------------------------
(* The environment.                                                        *)

Event == events < MaxEvents /\ events' = events + 1

Store(s) == svcs' = Append(svcs, s)

\* The API server drops a deleted object once its last finalizer is gone.
Settle(s) == IF s.deleting /\ s.fins = {} THEN NoService ELSE s

SvcCreate ==
    /\ Event
    /\ Live.uid = 0 /\ born < MaxIncarnations
    /\ born' = born + 1
    /\ Store([uid |-> born + 1, deleting |-> FALSE, fins |-> {}])
    /\ UNCHANGED <<seen, pair, res, cache, queued, worker>>

SvcDelete ==
    /\ Event
    /\ Live.uid # 0 /\ ~Live.deleting
    /\ Store(Settle([Live EXCEPT !.deleting = TRUE]))
    /\ UNCHANGED <<seen, born, pair, res, cache, queued, worker>>

\* Another controller adds its finalizer, or removes it when it is done.
OtherFinalizer ==
    /\ Event
    /\ Live.uid # 0
    /\ \/ /\ "other" \notin Live.fins /\ ~Live.deleting
          /\ Store([Live EXCEPT !.fins = @ \cup {"other"}])
       \/ /\ "other" \in Live.fins
          /\ Store(Settle([Live EXCEPT !.fins = @ \ {"other"}]))
    /\ UNCHANGED <<seen, born, pair, res, cache, queued, worker>>

\* Secrets are not watched: a change of the credential alone raises no event.
CredentialOnly(old, new) ==
    \/ old \in Published /\ new = "badCred"
    \/ old = "badCred" /\ new \in Published

\* Watches on Namespace, ServiceAccount, config, Gateway and owned Services
\* enqueue every cached service.
PairChange(g, v) ==
    /\ Event
    /\ v # pair[g]
    /\ pair' = [pair EXCEPT ![g] = v]
    /\ queued' = (queued \/ (Cached.uid # 0 /\ ~CredentialOnly(pair[g], v)))
    /\ UNCHANGED <<svcs, seen, born, res, cache, worker>>

\* An administrator stores an object of another source under this name,
\* deleting what was there.
AdminReplace(k) ==
    /\ Event
    /\ k.uid <= born
    /\ \E id \in FreshIds(k) :
          res' = [res EXCEPT ![k] = [src |-> "other", id |-> id, term |-> FALSE, val |-> "plain"]]
    /\ UNCHANGED <<svcs, seen, born, pair, cache, queued, worker>>

AdminDelete(k) ==
    /\ Event
    /\ res[k].src # "none"
    /\ res' = [res EXCEPT ![k] = NoObject]
    /\ UNCHANGED <<svcs, seen, born, pair, cache, queued, worker>>

\* An administrator rewrites the source annotations of an object in place.  Not
\* between CleanupGet and CleanupDelete of that object: the precondition of the
\* deletion names the UID alone, so it would delete what is foreign by then.
AdminRelabel(k) ==
    /\ AllowRelabel /\ cur.key # k
    /\ Event
    /\ res[k].src = "us"
    /\ res' = [res EXCEPT ![k].src = "other"]
    /\ UNCHANGED <<svcs, seen, born, pair, cache, queued, worker>>

\* The holder of a foreign finalizer lets a terminating object go.
FinishDeletion(k) ==
    /\ res[k].term
    /\ res' = [res EXCEPT ![k] = NoObject]
    /\ UNCHANGED <<svcs, seen, born, pair, cache, queued, worker, events>>

\* The controller reference on Role, RoleBinding and NetworkPolicy lets the
\* garbage collector remove them once the service is gone.
GarbageCollect(k) ==
    /\ k.kind # "provider" /\ res[k].src = "us" /\ Live.uid # k.uid
    /\ res' = [res EXCEPT ![k] = NoObject]
    /\ UNCHANGED <<svcs, seen, born, pair, cache, queued, worker, events>>

\* The informers, one for services and one for each kind of resource: the
\* cache moves on and the event handlers enqueue the key.
SyncService ==
    /\ seen < Len(svcs)
    /\ seen' = seen + 1
    /\ queued' = TRUE
    /\ UNCHANGED <<svcs, born, pair, res, cache, worker, events>>

SyncResources(kind) ==
    LET changed == {k \in Keys : k.kind = kind /\ cache[k] # res[k]}
    IN  /\ changed # {}
        /\ cache' = [k \in Keys |-> IF k \in changed THEN res[k] ELSE cache[k]]
        /\ queued' = (queued \/ \E k \in changed : cache[k].src = "us" \/ res[k].src = "us")
        /\ UNCHANGED <<svcs, seen, born, pair, res, worker, events>>

Deliver == SyncService \/ \E kind \in Kinds : SyncResources(kind)

\* With StaleReads = FALSE the informers deliver before anything else happens.
Delivered == StaleReads \/ (seen = Len(svcs) /\ cache = res)

Environment ==
    \/ SvcCreate \/ SvcDelete \/ OtherFinalizer
    \/ \E g \in Gateways, v \in PairChoices : PairChange(g, v)
    \/ \E k \in Keys : k.kind \in AdminKinds /\ (AdminReplace(k) \/ AdminDelete(k) \/ AdminRelabel(k))
    \/ \E k \in Keys : FinishDeletion(k) \/ GarbageCollect(k)

-----------------------------------------------------------------------------
(* The worker: one Reconcile.                                              *)

cluster == <<svcs, seen, born, pair, res, cache>>

\* Fault: the patch is sent without the optimistic lock.
PatchAcceptedNoLock == TRUE

\* The optimistic lock of MergeFromWithOptimisticLock.
PatchAccepted == rd.rv = Len(svcs)

\* The request goes back to the queue and the worker is free.
Return(requeue) ==
    /\ pc' = "idle"
    /\ queued' = (queued \/ requeue)
    /\ rd' = [uid |-> 0, deleting |-> FALSE, fins |-> {}, rv |-> 0]
    /\ plan' = [g \in Gateways |-> "off"]
    /\ objects' = {} /\ todo' = {} /\ cur' = [key |-> None, id |-> 0]
    /\ cleanupErr' = FALSE /\ complete' = FALSE /\ failed' = FALSE
    /\ left' = {} /\ at' = None

ReadService ==
    /\ pc = "idle" /\ queued
    /\ queued' = FALSE
    /\ IF Cached.uid = 0
         THEN UNCHANGED <<pc, rd>>
         ELSE /\ pc' = "plan"
              /\ rd' = [uid |-> Cached.uid, deleting |-> Cached.deleting,
                        fins |-> Cached.fins, rv |-> seen]
    /\ UNCHANGED <<cluster, plan, objects, todo, cur, cleanupErr, complete, failed, left, at, events>>

desiredPublications ==
    /\ pc = "plan"
    /\ plan' = [g \in Gateways |-> IF rd.deleting THEN "off" ELSE pair[g]]
    /\ failed' = (\E g \in Gateways : plan'[g] = "invalid")
    /\ pc' = "finalizer"
    /\ UNCHANGED <<cluster, queued, rd, objects, todo, cur, cleanupErr, complete, left, at, events>>

\* Fault: one publication does not count.
NeedsFinalizerOffByOne == Cardinality(keep) > 1 /\ "grid" \notin rd.fins

\* The reconcile is about to publish a service that is not held yet.
NeedsFinalizer == keep # {} /\ "grid" \notin rd.fins

AddFinalizer ==
    /\ pc = "finalizer"
    /\ IF ~NeedsFinalizer
         THEN /\ pc' = "cleanup"
              /\ UNCHANGED <<svcs, queued, rd, plan, objects, todo, cur, cleanupErr, complete, failed, left, at>>
         ELSE IF PatchAccepted
         THEN /\ Store([uid |-> rd.uid, deleting |-> rd.deleting, fins |-> rd.fins \cup {"grid"}])
              /\ rd' = [rd EXCEPT !.fins = @ \cup {"grid"}, !.rv = Len(svcs) + 1]
              /\ pc' = "cleanup"
              /\ UNCHANGED <<queued, plan, objects, todo, cur, cleanupErr, complete, failed, left, at>>
         ELSE Return(TRUE) /\ UNCHANGED svcs
    /\ UNCHANGED <<seen, born, pair, res, cache, events>>

\* Fault: Roles are not listed.
RevokedNoRoles == {k \in Keys : gridOwned(k, rd.uid) /\ k.gw \notin keep /\ k.kind # "role"}

\* What cleanupExcept lists: everything of this service outside the keep set.
Revoked == {k \in Keys : gridOwned(k, rd.uid) /\ k.gw \notin keep}

CleanupList ==
    /\ pc = "cleanup"
    /\ IF "grid" \in rd.fins
         THEN /\ objects' = Revoked
              /\ todo' = objects'
              /\ pc' = "get"
              /\ UNCHANGED <<complete, left>>
         ELSE /\ complete' = TRUE
              /\ left' = keep
              /\ pc' = "publish"
              /\ UNCHANGED <<objects, todo>>
    /\ UNCHANGED <<cluster, queued, rd, plan, cur, cleanupErr, failed, at, events>>

\* Deletions are requested policies first, then bindings, roles, providers.
DeleteRank(kind) == CASE kind = "policy" -> 1 [] kind = "binding" -> 2
                      [] kind = "role" -> 3 [] kind = "provider" -> 4

CleanupGet(k) ==
    /\ pc = "get"
    /\ k \in todo /\ \A j \in todo : DeleteRank(k.kind) <= DeleteRank(j.kind)
    /\ todo' = todo \ {k}
    /\ IF gridOwned(k, rd.uid)
         THEN pc' = "delete" /\ cur' = [key |-> k, id |-> res[k].id] /\ UNCHANGED cleanupErr
         ELSE cleanupErr' = (cleanupErr \/ res[k].src # "none") /\ UNCHANGED <<pc, cur>>
    /\ UNCHANGED <<cluster, queued, rd, plan, objects, complete, failed, left, at, events>>

\* A delete accepted by the API server: gone at once, or terminating while
\* somebody else's finalizer holds the object.
Deleted(k) ==
    \/ res' = [res EXCEPT ![k] = NoObject]
    \/ res' = [res EXCEPT ![k].term = TRUE]

\* The UID precondition of DeleteOptions.
SameObject(k, id) == res[k].id = id

CleanupDelete ==
    /\ pc = "delete"
    /\ IF res[cur.key].src = "none"
         THEN UNCHANGED <<res, cleanupErr>>
         ELSE IF SameObject(cur.key, cur.id)
         THEN Deleted(cur.key) /\ UNCHANGED cleanupErr
         ELSE cleanupErr' = TRUE /\ UNCHANGED res
    /\ cur' = [key |-> None, id |-> 0]
    /\ pc' = "get"
    /\ UNCHANGED <<svcs, seen, born, pair, cache, queued, rd, plan, objects, todo, complete, failed, left, at, events>>

\* Fault: a requested deletion counts as done.
ConfirmedRequested == \A k \in objects : res[k].src = "none" \/ res[k].term

\* Whether every listed resource is really gone.
ConfirmedAbsent == \A k \in objects : res[k].src = "none"

CleanupConfirm ==
    /\ pc = "get" /\ todo = {}
    /\ IF cleanupErr
         THEN Return(TRUE)
         ELSE /\ complete' = ConfirmedAbsent
              /\ left' = keep
              /\ pc' = "publish"
              /\ objects' = {}
              /\ UNCHANGED <<queued, rd, plan, todo, cur, cleanupErr, failed, at>>
    /\ UNCHANGED <<cluster, events>>

NextPublication(g) ==
    /\ pc = "publish" /\ g \in left
    /\ left' = left \ {g} /\ at' = g
    /\ pc' = "role"
    /\ UNCHANGED <<cluster, queued, rd, plan, objects, todo, cur, cleanupErr, complete, failed, events>>

\* The publication goes on to its next resource, or fails and the loop takes
\* the next publication.
StageDone(next) == pc' = next /\ UNCHANGED failed
StageFailed == pc' = "publish" /\ failed' = TRUE

\* Fault: the mutate function does not look at the source annotations.
MayWriteForeign(o) == ~o.term

\* What the mutate function of CreateOrUpdate accepts in the copy it was given.
MayWrite(o) == o.src = "us" /\ ~o.term

\* controllerutil.CreateOrUpdate on the resource k of the current publication:
\* read the cache, then create, update under the resourceVersion read, or do
\* nothing when nothing differs.
CreateOrUpdate(k, val, next) ==
    /\ \/ /\ cache[k].src = "none" /\ res[k].src = "none"
          /\ \E id \in FreshIds(k) :
                res' = [res EXCEPT ![k] = [src |-> "us", id |-> id, term |-> FALSE, val |-> val]]
          /\ StageDone(next)
       \/ /\ cache[k].src = "none" /\ res[k].src # "none"
          /\ UNCHANGED res /\ StageFailed
       \/ /\ cache[k].src # "none" /\ ~MayWrite(cache[k])
          /\ UNCHANGED res /\ StageFailed
       \/ /\ cache[k].src # "none" /\ MayWrite(cache[k]) /\ cache[k].val = val
          /\ UNCHANGED res /\ StageDone(next)
       \/ /\ cache[k].src # "none" /\ MayWrite(cache[k]) /\ cache[k].val # val
          /\ IF cache[k] = res[k]
               THEN res' = [res EXCEPT ![k].val = val] /\ StageDone(next)
               ELSE UNCHANGED res /\ StageFailed

\* deleteOwned: the cached copy decides, the UID precondition protects.
deleteOwned(k, next) ==
    /\ IF cache[k].src # "us" \/ res[k].src = "none"
         THEN UNCHANGED res /\ StageDone(next)
         ELSE IF SameObject(k, cache[k].id)
         THEN Deleted(k) /\ StageDone(next)
         ELSE UNCHANGED res /\ StageFailed

stageVars == <<svcs, seen, born, pair, cache, queued, rd, plan, objects, todo, cur,
               cleanupErr, complete, left, at, events>>

ReconcileRole ==
    /\ pc = "role"
    /\ CreateOrUpdate(Key(rd.uid, at, "role"), "plain", "binding")
    /\ UNCHANGED stageVars

ReconcileBinding ==
    /\ pc = "binding"
    /\ CreateOrUpdate(Key(rd.uid, at, "binding"), "plain", "policy")
    /\ UNCHANGED stageVars

\* eppMetricsService reads the Service again: what it finds is the contents at
\* planning time, or what a change of the Service has made of it since.
EppMetrics(g) == {plan[g], pair[g]} \cap Published

reconcileMetricsAccess ==
    /\ pc = "policy"
    /\ LET k == Key(rd.uid, at, "policy")
       IN  \E found \in EppMetrics(at) :
              IF found = "metrics" THEN CreateOrUpdate(k, "plain", "provider")
                                   ELSE deleteOwned(k, "provider")
    /\ UNCHANGED stageVars

reconcileProvider ==
    /\ pc = "provider"
    /\ \E found \in EppMetrics(at) : CreateOrUpdate(Key(rd.uid, at, "provider"), found, "publish")
    /\ UNCHANGED stageVars

\* Publish errors, resources still terminating, rejected credentials and the
\* minute-by-minute recheck of accepted ones all bring the key back.
MustRequeue ==
    \/ failed
    \/ ~complete
    \/ \E g \in Gateways : plan[g] = "badCred"
    \/ keep # {}

\* Whether the reconcile may let the service go.
MayUnfinalize == keep = {} /\ complete /\ "grid" \in rd.fins

RemoveFinalizer ==
    /\ pc = "publish" /\ left = {}
    /\ IF ~MayUnfinalize
         THEN Return(MustRequeue) /\ UNCHANGED svcs
         ELSE IF PatchAccepted
         THEN /\ Store(Settle([uid |-> rd.uid, deleting |-> rd.deleting, fins |-> rd.fins \ {"grid"}]))
              /\ Return(MustRequeue)
         ELSE Return(TRUE) /\ UNCHANGED svcs
    /\ UNCHANGED <<seen, born, pair, res, cache, events>>

Reconcile ==
    \/ ReadService \/ desiredPublications \/ AddFinalizer
    \/ CleanupList \/ (\E k \in Keys : CleanupGet(k)) \/ CleanupDelete \/ CleanupConfirm
    \/ (\E g \in Gateways : NextPublication(g))
    \/ ReconcileRole \/ ReconcileBinding \/ reconcileMetricsAccess \/ reconcileProvider
    \/ RemoveFinalizer

-----------------------------------------------------------------------------
(* Failures.                                                               *)

\* An API call fails.  Cleanup goes on to the next resource and publishing to
\* the next Gateway; anywhere else Reconcile returns the error.
ApiError ==
    /\ Event
    /\ \/ /\ \/ pc = "plan"
             \/ pc = "finalizer" /\ NeedsFinalizer
             \/ pc = "cleanup" /\ "grid" \in rd.fins
             \/ pc = "get" /\ todo = {}
             \/ pc = "publish" /\ left = {} /\ MayUnfinalize
          /\ Return(TRUE)
       \/ /\ pc = "get"
          /\ \E k \in todo : todo' = todo \ {k}
          /\ cleanupErr' = TRUE
          /\ UNCHANGED <<pc, queued, rd, plan, objects, cur, complete, failed, left, at>>
       \/ /\ pc = "delete"
          /\ cleanupErr' = TRUE /\ pc' = "get" /\ cur' = [key |-> None, id |-> 0]
          /\ UNCHANGED <<queued, rd, plan, objects, todo, complete, failed, left, at>>
       \/ /\ pc \in Kinds
          /\ StageFailed
          /\ UNCHANGED <<queued, rd, plan, objects, todo, cur, cleanupErr, complete, left, at>>
    /\ UNCHANGED cluster

\* The manager restarts: the worker's state is lost, the informers list again
\* and enqueue what they find.
Restart ==
    /\ Event
    /\ Return(TRUE)
    /\ seen' = Len(svcs) /\ cache' = res
    /\ UNCHANGED <<svcs, born, pair, res>>

Next == Deliver \/ (Delivered /\ (Environment \/ Reconcile \/ ApiError \/ Restart))

\* The work queue hands out a queued key, the API server and the informers
\* make progress, and holders of foreign finalizers finish.
Fairness ==
    /\ WF_vars(Delivered /\ Reconcile)
    /\ WF_vars(SyncService)
    /\ \A kind \in Kinds : WF_vars(SyncResources(kind))
    /\ \A k \in Keys : WF_vars(Delivered /\ FinishDeletion(k)) /\ WF_vars(Delivered /\ GarbageCollect(k))

Spec == Init /\ [][Next]_vars
FairSpec == Spec /\ Fairness

-----------------------------------------------------------------------------
(* Properties.                                                             *)

ClusterTypeOK ==
    /\ svcs \in Seq(Services) /\ Len(svcs) > 0
    /\ seen \in 1..Len(svcs)
    /\ born \in 1..MaxIncarnations
    /\ pair \in [Gateways -> PairStates]
    /\ res \in [Keys -> Objects] /\ cache \in [Keys -> Objects]
    /\ queued \in BOOLEAN
    /\ events \in 0..MaxEvents

WorkerTypeOK ==
    /\ pc \in {"idle", "plan", "finalizer", "cleanup", "get", "delete", "publish"} \cup Kinds
    /\ rd \in [uid : 0..MaxIncarnations, deleting : BOOLEAN, fins : SUBSET Finalizers, rv : Nat]
    /\ plan \in [Gateways -> PairStates]
    /\ objects \in SUBSET Keys /\ todo \in SUBSET objects
    /\ cur \in [key : objects \cup {None}, id : 0..MaxIds]
    /\ cleanupErr \in BOOLEAN /\ complete \in BOOLEAN /\ failed \in BOOLEAN
    /\ left \in SUBSET keep /\ at \in Gateways \cup {None}

StageTypeOK ==
    /\ pc # "idle" => rd.uid # 0
    /\ IF pc = "delete" THEN cur.key \in objects ELSE cur = [key |-> None, id |-> 0]
    /\ pc \in Kinds => at \in keep
    /\ pc \notin Kinds \cup {"publish"} => left = {}

\* Every variable stays in its range, and what a stage of the reconcile relies
\* on is there: a service was read, a resource or a Gateway is being handled.
TypeOK == ClusterTypeOK /\ WorkerTypeOK /\ StageTypeOK

\* docs/grid-inference-providers.md:97: "A finalizer on the
\* LLMInferenceService holds its deletion until all of them are gone."  A
\* generated resource exists only while the stored service is the one that
\* generated it and carries the finalizer.
HeldByFinalizer ==
    \A k \in Keys : res[k].src = "us" => Live.uid = k.uid /\ "grid" \in Live.fins

\* docs/grid-inference-providers.md:112: the controller "never overwrites or
\* deletes a resource whose annotations name another source", whatever
\* replaced the resource between a read and a write of the reconcile.
ForeignUntouched ==
    [][Reconcile => \A k \in Keys : res[k].src = "other" => res'[k] = res[k]]_vars

\* cleanupExcept's confirmation: the patch that removes the finalizer is only
\* accepted when no resource of that service is left, not even a terminating
\* one, however old the copy the reconcile started from.
FinalizerRemovedLast ==
    [][("grid" \in Live.fins /\ ~("grid" \in Live'.fins))
          => \A k \in Keys : k.uid = Live.uid => res'[k].src # "us"]_vars

\* setFinalizer: "prevents overwriting finalizers added concurrently by other
\* controllers".  A step of the reconcile never adds or drops another
\* controller's finalizer, and never brings a deleted service back.
OtherFinalizersKept ==
    [][Reconcile =>
          /\ ("other" \in Live'.fins) = ("other" \in Live.fins)
          /\ Live'.uid \in {Live.uid, 0}
          /\ Live.deleting /\ Live'.uid # 0 => Live'.deleting]_vars

\* What makes the properties above inductive.  The worker's copy is a version
\* of the service that was stored once;
CopyIsVersion ==
    pc # "idle" =>
        /\ rd.rv \in 1..Len(svcs)
        /\ svcs[rd.rv] = [uid |-> rd.uid, deleting |-> rd.deleting, fins |-> rd.fins]

\* nothing is published for a copy without the finalizer;
PublishesHeld ==
    pc \in {"cleanup", "get", "delete", "publish"} \cup Kinds /\ keep # {} => "grid" \in rd.fins

\* while cleanup runs, its list covers every resource to be revoked, and once
\* it is complete nothing of a service without publications is left;
CleanupCovers ==
    /\ pc \in {"get", "delete"} => Revoked \subseteq objects
    /\ pc = "publish" /\ complete /\ "grid" \in rd.fins /\ keep = {} => Revoked = {}

\* and, if reads are fresh, the finalizer in the worker's copy is still there.
CopyHeld ==
    ~StaleReads /\ pc # "idle" /\ "grid" \in rd.fins => Live.uid = rd.uid /\ "grid" \in Live.fins

\* Without in-place edits, a UID tells whose object it is: what was ours when
\* it was read, live or cached, is ours as long as the UID is the same.
IdsIdentify ==
    /\ \A k \in Keys : \A o \in {res[k], cache[k]} : (o.src = "none") <=> (o.id = 0)
    /\ \A k \in Keys : cache[k].src = "us" /\ cache[k].id = res[k].id => res[k].src = "us"
    /\ pc = "delete" => cur.id # 0 /\ (cur.id = res[cur.key].id => res[cur.key].src = "us")

NoForeign(u, g) == \A k \in Keys : k.uid = u /\ k.gw = g => res[k].src # "other"
Eligible == Live.uid # 0 /\ ~Live.deleting
UpToDate(g) ==
    /\ Live.uid # 0
    /\ \A kind \in {"role", "binding"} :
          LET o == res[Key(Live.uid, g, kind)] IN o.src = "us" /\ ~o.term
    /\ LET o == res[Key(Live.uid, g, "policy")]
       IN  IF pair[g] = "metrics" THEN o.src = "us" /\ ~o.term ELSE o.src = "none"
    /\ LET o == res[Key(Live.uid, g, "provider")]
       IN  o.src = "us" /\ ~o.term /\ o.val = pair[g]

\* "A pair is published when all of the following hold": a pair that stays
\* publishable and unobstructed ends up published with its current contents
\* and stays so, whatever happens to the other Gateways and although a
\* credential change raises no event.
EventuallyPublished ==
    \A g \in Gateways :
        <>[](Eligible /\ pair[g] \in Published /\ NoForeign(Live.uid, g)) => <>[]UpToDate(g)

\* "Revoking a pair deletes its provider, Role, RoleBinding, and
\* NetworkPolicy": a pair that stays unpublishable keeps no resource.
EventuallyRevoked ==
    \A g \in Gateways :
        <>[](~Eligible \/ pair[g] \notin Published)
          => <>[](\A k \in Keys : k.uid = Live.uid /\ k.gw = g => res[k].src # "us")

\* The finalizer never blocks a deletion for good: once no other controller
\* holds it, a deleted service goes away.
DeletionCompletes ==
    <>[](Live.uid # 0 => "other" \notin Live.fins)
      => (Live.deleting ~> Live.uid = 0)

\* Under fair scheduling a pair ends up published or revoked as the service,
\* the Gateway and the credential ask, and a deletion completes: no sequence
\* of failing calls, restarts and interferences leaves the reconciler stuck.
PublicationsConverge == EventuallyPublished /\ EventuallyRevoked /\ DeletionCompletes

=============================================================================
