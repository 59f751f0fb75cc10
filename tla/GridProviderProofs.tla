------------------------- MODULE GridProviderProofs -------------------------
(* Proofs about GridProvider, for every value of its constants.            *)
EXTENDS GridProvider, TLAPS

USE BoundsAssumption, ChoicesAssumption, SwitchAssumption

\* Storing a version appends it: it becomes the stored object and the older
\* versions stay what they were.
LEMMA StoreFacts ==
    ASSUME svcs \in Seq(Services), Len(svcs) > 0, NEW s \in Services, Store(s)
    PROVE  /\ svcs' \in Seq(Services) /\ Len(svcs') = Len(svcs) + 1
           /\ Live' = s
           /\ \A i \in 1..Len(svcs) : svcs'[i] = svcs[i]
BY DEF Store, Live

\* The stored object and the cached one are services.
LEMMA LiveTyped ==
    ASSUME svcs \in Seq(Services), Len(svcs) > 0, seen \in 1..Len(svcs)
    PROVE  Live \in Services /\ Cached \in Services
BY DEF Live, Cached

\* Settle returns a service, and keeps one that still has a finalizer.
LEMMA SettleFacts ==
    ASSUME NEW s \in Services
    PROVE  /\ Settle(s) \in Services
           /\ s.fins # {} => Settle(s) = s
           /\ Settle(s).uid \in {s.uid, 0}
           /\ Settle(s) = s \/ (Settle(s).uid = 0 /\ Settle(s).fins = {} /\ ~Settle(s).deleting)
           /\ Settle(s).fins = s.fins
BY DEF Settle, Services, NoService, Finalizers

\* A UID handed out is in range and is a new one.
LEMMA FreshIdsTyped == \A k : FreshIds(k) \subseteq 1..MaxIds
BY DEF FreshIds

\* The initial state is well typed.
LEMMA TypeInit == Init => TypeOK
<1> SUFFICES ASSUME Init PROVE TypeOK OBVIOUS
<1>1. svcs \in Seq(Services) /\ Len(svcs) = 1
  BY DEF Init, Services, Finalizers
<1>2. NoObject \in Objects
  BY DEF NoObject, Objects, Sources, Published
<1>3. ClusterTypeOK
  BY <1>1, <1>2 DEF Init, ClusterTypeOK, PairStates
<1>4. WorkerTypeOK
  <2>1. rd \in [uid : 0..MaxIncarnations, deleting : BOOLEAN, fins : SUBSET Finalizers, rv : Nat]
    BY DEF Init
  <2>2. plan \in [Gateways -> PairStates] BY DEF Init, PairStates
  <2>3. objects \in SUBSET Keys /\ todo \in SUBSET objects BY DEF Init
  <2>4. cur \in [key : objects \cup {None}, id : 0..MaxIds] BY DEF Init
  <2>5. left \in SUBSET keep /\ at \in Gateways \cup {None} BY DEF Init
  <2> QED BY <2>1, <2>2, <2>3, <2>4, <2>5, Zenon DEF Init, WorkerTypeOK
<1>5. StageTypeOK
  BY DEF Init, StageTypeOK, Kinds, AccessKinds
<1> QED BY <1>3, <1>4, <1>5 DEF TypeOK

\* Steps that leave the worker alone leave its types alone.
LEMMA WorkerUnmoved ==
    ASSUME WorkerTypeOK, StageTypeOK, UNCHANGED worker
    PROVE  WorkerTypeOK' /\ StageTypeOK'
BY DEF WorkerTypeOK, StageTypeOK, worker, keep

\* A worker that returned is in its initial state.
LEMMA ReturnFacts ==
    ASSUME NEW r \in BOOLEAN, queued \in BOOLEAN, Return(r)
    PROVE  WorkerTypeOK' /\ StageTypeOK' /\ queued' \in BOOLEAN /\ pc' = "idle"
<1>1. rd' \in [uid : 0..MaxIncarnations, deleting : BOOLEAN, fins : SUBSET Finalizers, rv : Nat]
  BY DEF Return
<1>2. plan' \in [Gateways -> PairStates]
  BY DEF Return, PairStates
<1>3. cur' \in [key : objects' \cup {None}, id : 0..MaxIds]
  BY DEF Return
<1>4. left' \in SUBSET keep' /\ at' \in Gateways \cup {None}
  BY DEF Return
<1>5. WorkerTypeOK'
  BY <1>1, <1>2, <1>3, <1>4, Zenon DEF Return, WorkerTypeOK
<1> QED BY <1>5 DEF Return, StageTypeOK, Kinds, AccessKinds

\* Writing one resource keeps the resources typed.
LEMMA ResTyped ==
    ASSUME res \in [Keys -> Objects], NEW k \in Keys
    PROVE  /\ \A o \in Objects : [res EXCEPT ![k] = o] \in [Keys -> Objects]
           /\ [res EXCEPT ![k] = NoObject] \in [Keys -> Objects]
           /\ \A s \in Sources : [res EXCEPT ![k].src = s] \in [Keys -> Objects]
           /\ [res EXCEPT ![k].term = TRUE] \in [Keys -> Objects]
           /\ \A v \in Published : [res EXCEPT ![k].val = v] \in [Keys -> Objects]
<1>1. NoObject \in Objects BY DEF NoObject, Objects, Sources, Published
<1>2. res[k] \in Objects OBVIOUS
<1>3. \A s \in Sources : [res[k] EXCEPT !.src = s] \in Objects BY <1>2 DEF Objects
<1>4. [res[k] EXCEPT !.term = TRUE] \in Objects BY <1>2, Zenon DEF Objects
<1>5. \A v \in Published : [res[k] EXCEPT !.val = v] \in Objects BY <1>2 DEF Objects
<1> QED BY <1>1, <1>3, <1>4, <1>5

\* Users, administrators and the garbage collector keep the types.
LEMMA TypeEnvironment ==
    ASSUME TypeOK, Environment
    PROVE  TypeOK'
<1> USE DEF TypeOK
<1>0. Live \in Services /\ Cached \in Services
  BY LiveTyped DEF ClusterTypeOK
<1>1. CASE SvcCreate
  <2>a. born < MaxIncarnations /\ born \in 1..MaxIncarnations BY <1>1, Zenon DEF SvcCreate, ClusterTypeOK
  <2>b. born + 1 \in 0..MaxIncarnations BY <2>a, BoundsAssumption, SMT
  <2>1. [uid |-> born + 1, deleting |-> FALSE, fins |-> {}] \in Services BY <2>b, SMT DEF Services
  <2> QED BY <1>1, <2>1, StoreFacts, WorkerUnmoved DEF SvcCreate, ClusterTypeOK, Event
<1>2. CASE SvcDelete
  <2>1. [Live EXCEPT !.deleting = TRUE] \in Services BY <1>0, Zenon DEF Services
  <2> QED BY <1>2, <2>1, SettleFacts, StoreFacts, WorkerUnmoved DEF SvcDelete, ClusterTypeOK, Event
<1>3. CASE OtherFinalizer
  <2>1. /\ [Live EXCEPT !.fins = @ \cup {"other"}] \in Services
        /\ [Live EXCEPT !.fins = @ \ {"other"}] \in Services
    BY <1>0 DEF Services, Finalizers
  <2> QED BY <1>3, <2>1, SettleFacts, StoreFacts, WorkerUnmoved, SMTT(30) DEF OtherFinalizer, ClusterTypeOK, Event
<1>4. ASSUME NEW g \in Gateways, NEW v \in PairChoices, PairChange(g, v) PROVE TypeOK'
  BY <1>4, WorkerUnmoved DEF PairChange, ClusterTypeOK, Event, PairStates, Published
<1>5. ASSUME NEW k \in Keys, AdminReplace(k) \/ AdminDelete(k) \/ AdminRelabel(k) PROVE TypeOK'
  <2>0. events' \in 0..MaxEvents
    BY <1>5 DEF AdminReplace, AdminDelete, AdminRelabel, Event, ClusterTypeOK
  <2>1. CASE AdminReplace(k)
    <3>1. PICK id \in FreshIds(k) :
             res' = [res EXCEPT ![k] = [src |-> "other", id |-> id, term |-> FALSE, val |-> "plain"]]
      BY <2>1, Zenon DEF AdminReplace
    <3>2. [src |-> "other", id |-> id, term |-> FALSE, val |-> "plain"] \in Objects
      BY FreshIdsTyped DEF Objects, Sources, Published
    <3>3. res' \in [Keys -> Objects] BY <3>1, <3>2, ResTyped DEF ClusterTypeOK
    <3> QED BY <2>1, <3>3, <2>0, WorkerUnmoved DEF AdminReplace, ClusterTypeOK
  <2>2. CASE AdminDelete(k)
    <3>1. res' \in [Keys -> Objects] BY <2>2, ResTyped, Zenon DEF AdminDelete, ClusterTypeOK
    <3> QED BY <2>2, <3>1, <2>0, WorkerUnmoved DEF AdminDelete, ClusterTypeOK
  <2>3. CASE AdminRelabel(k)
    <3>1. res' \in [Keys -> Objects] BY <2>3, ResTyped, Zenon DEF AdminRelabel, ClusterTypeOK, Sources
    <3> QED BY <2>3, <3>1, <2>0, WorkerUnmoved DEF AdminRelabel, ClusterTypeOK
  <2> QED BY <1>5, <2>1, <2>2, <2>3
<1>6. ASSUME NEW k \in Keys, FinishDeletion(k) \/ GarbageCollect(k) PROVE TypeOK'
  BY <1>6, ResTyped, WorkerUnmoved, ZenonT(40) DEF FinishDeletion, GarbageCollect, ClusterTypeOK
<1> QED BY <1>1, <1>2, <1>3, <1>4, <1>5, <1>6 DEF Environment

\* The informers keep the types.
LEMMA TypeDeliver ==
    ASSUME TypeOK, Deliver
    PROVE  TypeOK'
<1> USE DEF TypeOK
<1>1. CASE SyncService
  BY <1>1, WorkerUnmoved DEF SyncService, ClusterTypeOK
<1>2. ASSUME NEW kind \in Kinds, SyncResources(kind) PROVE TypeOK'
  BY <1>2, WorkerUnmoved DEF SyncResources, ClusterTypeOK
<1> QED BY <1>1, <1>2 DEF Deliver

\* The copy of the service, with or without our finalizer, is a service.
LEMMA CopyTyped ==
    ASSUME WorkerTypeOK
    PROVE  /\ [uid |-> rd.uid, deleting |-> rd.deleting, fins |-> rd.fins \cup {"grid"}] \in Services
           /\ [uid |-> rd.uid, deleting |-> rd.deleting, fins |-> rd.fins \ {"grid"}] \in Services
           /\ [uid |-> rd.uid, deleting |-> rd.deleting, fins |-> rd.fins] \in Services
BY DEF WorkerTypeOK, Services, Finalizers

\* The resource a publishing stage works on.
LEMMA StageKey ==
    ASSUME WorkerTypeOK, StageTypeOK, NEW kind \in Kinds, pc \in Kinds
    PROVE  Key(rd.uid, at, kind) \in Keys /\ at \in Gateways /\ plan[at] \in Published /\ rd.uid # 0
<1>1. rd.uid \in 1..MaxIncarnations /\ at \in keep
  BY DEF WorkerTypeOK, StageTypeOK, Kinds, AccessKinds
<1> QED BY <1>1 DEF keep, Key, Keys

\* What CreateOrUpdate may do to the resources: create ours where nothing is
\* stored, change the contents of ours, or nothing.
LEMMA CreateOrUpdateFacts ==
    ASSUME ClusterTypeOK, NEW k \in Keys, NEW v \in Published, NEW n, CreateOrUpdate(k, v, n)
    PROVE  /\ res' \in [Keys -> Objects]
           /\ pc' \in {n, "publish"}
           /\ failed' \in {failed, TRUE}
           /\ \A j \in Keys : j # k => res'[j] = res[j]
           /\ res[k].src = "other" => res'[k] = res[k]
           /\ res'[k].src = "us" \/ res'[k] = res[k]
<1>1. CASE cache[k].src = "none" /\ res[k].src = "none"
  <2>1. PICK id \in FreshIds(k) :
           res' = [res EXCEPT ![k] = [src |-> "us", id |-> id, term |-> FALSE, val |-> v]]
    BY <1>1 DEF CreateOrUpdate
  <2>2. [src |-> "us", id |-> id, term |-> FALSE, val |-> v] \in Objects
    BY FreshIdsTyped DEF Objects, Sources
  <2>3. res' \in [Keys -> Objects] BY <2>1, <2>2, ResTyped DEF ClusterTypeOK
  <2> QED BY <1>1, <2>1, <2>3 DEF CreateOrUpdate, StageDone, ClusterTypeOK
<1>2. CASE /\ cache[k].src # "none" /\ MayWrite(cache[k]) /\ cache[k].val # v
           /\ cache[k] = res[k]
  <2>1. res' = [res EXCEPT ![k].val = v] /\ pc' = n /\ failed' = failed
    BY <1>2 DEF CreateOrUpdate, StageDone
  <2>2. res' \in [Keys -> Objects] BY <2>1, ResTyped, Zenon DEF ClusterTypeOK
  <2>3. res'[k].src = "us" /\ res[k].src = "us"
    BY <1>2, <2>1 DEF MayWrite, ClusterTypeOK, Objects
  <2> QED BY <2>1, <2>2, <2>3 DEF ClusterTypeOK
<1>3. CASE /\ ~(cache[k].src = "none" /\ res[k].src = "none")
           /\ ~(cache[k].src # "none" /\ MayWrite(cache[k]) /\ cache[k].val # v /\ cache[k] = res[k])
  BY <1>3, Zenon DEF CreateOrUpdate, StageDone, StageFailed, ClusterTypeOK
<1> QED BY <1>1, <1>2, <1>3, Zenon

\* What an accepted delete does.
LEMMA DeletedFacts ==
    ASSUME ClusterTypeOK, NEW k \in Keys, Deleted(k)
    PROVE  /\ res' \in [Keys -> Objects]
           /\ \A j \in Keys : j # k => res'[j] = res[j]
           /\ res'[k].src \in {"none", res[k].src}
<1>1. CASE res' = [res EXCEPT ![k] = NoObject]
  BY <1>1, ResTyped, Zenon DEF ClusterTypeOK, NoObject
<1>2. CASE res' = [res EXCEPT ![k].term = TRUE]
  BY <1>2, ResTyped DEF ClusterTypeOK, Objects
<1> QED BY <1>1, <1>2 DEF Deleted

\* The stages that reconcile one resource of a publication.
PublishStage == ReconcileRole \/ ReconcileBinding \/ reconcileMetricsAccess \/ reconcileProvider

\* What a publishing stage may do: the loop goes on, and at most the resource
\* of the current publication changes.
LEMMA StageFacts ==
    ASSUME TypeOK, PublishStage
    PROVE  /\ res' \in [Keys -> Objects]
           /\ pc \in Kinds /\ pc' \in {"binding", "policy", "provider", "publish"}
           /\ failed' \in {failed, TRUE}
           /\ UNCHANGED stageVars
           /\ \A j \in Keys : \/ res'[j].src \in {"none", res[j].src}
                              \/ j.uid = rd.uid /\ j.gw = at /\ res'[j].src = "us"
<1> USE DEF TypeOK
<1>0. pc \in Kinds
  BY DEF PublishStage, ReconcileRole, ReconcileBinding, reconcileMetricsAccess, reconcileProvider, Kinds, AccessKinds
<1>1. \A kind \in Kinds : Key(rd.uid, at, kind) \in Keys
  BY <1>0, StageKey
<1>2. plan[at] \in Published /\ "plain" \in Published
  BY <1>0, StageKey, "role" \in Kinds DEF Published, Kinds, AccessKinds
<1>3. \A kind \in Kinds : Key(rd.uid, at, kind).uid = rd.uid /\ Key(rd.uid, at, kind).gw = at
  BY DEF Key
<1>4. CASE ReconcileRole
  BY <1>0, <1>1, <1>2, <1>3, <1>4, CreateOrUpdateFacts, "role" \in Kinds, Zenon DEF ReconcileRole, Kinds, AccessKinds
<1>5. CASE ReconcileBinding
  BY <1>0, <1>1, <1>2, <1>3, <1>5, CreateOrUpdateFacts, "binding" \in Kinds, Zenon DEF ReconcileBinding, Kinds, AccessKinds
<1>6. CASE reconcileMetricsAccess
  <2> DEFINE k == Key(rd.uid, at, "policy")
  <2>0. k \in Keys /\ k.uid = rd.uid /\ k.gw = at
    BY <1>1, <1>3 DEF Kinds, AccessKinds
  <2> HIDE DEF k
  <2>1. CASE CreateOrUpdate(k, "plain", "provider")
    BY <1>0, <1>2, <1>6, <2>0, <2>1, CreateOrUpdateFacts, Zenon DEF reconcileMetricsAccess
  <2>2. CASE deleteOwned(k, "provider")
    <3>1. CASE UNCHANGED res
      BY <1>0, <1>6, <2>2, <3>1, Zenon DEF deleteOwned, StageDone, StageFailed, reconcileMetricsAccess, ClusterTypeOK
    <3>2. CASE Deleted(k) /\ StageDone("provider")
      BY <1>0, <1>6, <2>0, <3>2, DeletedFacts DEF StageDone, reconcileMetricsAccess
    <3> QED BY <2>2, <3>1, <3>2, Zenon DEF deleteOwned
  <2> QED BY <1>6, <2>1, <2>2, Zenon DEF reconcileMetricsAccess, k
<1>7. CASE reconcileProvider
  <2>1. PICK found \in Published : CreateOrUpdate(Key(rd.uid, at, "provider"), found, "publish")
    BY <1>7 DEF reconcileProvider, EppMetrics
  <2> QED
    BY <1>0, <1>1, <1>3, <1>7, <2>1, CreateOrUpdateFacts, "provider" \in Kinds, Zenon DEF reconcileProvider, Kinds, AccessKinds
<1> QED BY <1>4, <1>5, <1>6, <1>7, Zenon DEF PublishStage

\* The worker's steps keep the types.
LEMMA TypeReconcile ==
    ASSUME TypeOK, Reconcile
    PROVE  TypeOK'
<1> USE DEF TypeOK
<1>0. Live \in Services /\ Cached \in Services
  BY LiveTyped DEF ClusterTypeOK
<1>1. CASE ReadService
  <2>1. ClusterTypeOK' BY <1>1, Zenon DEF ReadService, ClusterTypeOK, cluster
  <2>2. rd' \in [uid : 0..MaxIncarnations, deleting : BOOLEAN, fins : SUBSET Finalizers, rv : Nat]
    <3>1. CASE Cached.uid = 0 BY <1>1, <3>1 DEF ReadService, WorkerTypeOK
    <3>2. CASE Cached.uid # 0
      BY <1>0, <1>1, <3>2 DEF ReadService, Services, ClusterTypeOK
    <3> QED BY <3>1, <3>2
  <2>3. WorkerTypeOK' BY <1>1, <2>2 DEF ReadService, WorkerTypeOK, keep, cluster
  <2>4. StageTypeOK'
    BY <1>1 DEF ReadService, StageTypeOK, WorkerTypeOK, Kinds, AccessKinds
  <2> QED BY <2>1, <2>3, <2>4
<1>2. CASE desiredPublications
  <2>1. ClusterTypeOK' BY <1>2 DEF desiredPublications, ClusterTypeOK, cluster
  <2>2. plan' \in [Gateways -> PairStates]
    BY <1>2 DEF desiredPublications, ClusterTypeOK, PairStates
  <2>3. left' \in SUBSET keep'
    BY <1>2 DEF desiredPublications, StageTypeOK, Kinds, AccessKinds
  <2>4. WorkerTypeOK'
    BY <1>2, <2>2, <2>3 DEF desiredPublications, WorkerTypeOK
  <2>5. StageTypeOK' BY <1>2 DEF desiredPublications, StageTypeOK, Kinds, AccessKinds
  <2> QED BY <2>1, <2>4, <2>5
<1>3. CASE AddFinalizer
  <2>1. CASE ~NeedsFinalizer
    BY <1>3, <2>1 DEF AddFinalizer, ClusterTypeOK, WorkerTypeOK, StageTypeOK, keep, Kinds, AccessKinds
  <2>2. CASE NeedsFinalizer /\ PatchAccepted
    <3>1. ClusterTypeOK'
      BY <1>3, <2>2, CopyTyped, StoreFacts DEF AddFinalizer, ClusterTypeOK
    <3>2. rd' = [rd EXCEPT !.fins = @ \cup {"grid"}, !.rv = Len(svcs) + 1]
      BY <1>3, <2>2 DEF AddFinalizer
    <3>3. rd' \in [uid : 0..MaxIncarnations, deleting : BOOLEAN, fins : SUBSET Finalizers, rv : Nat]
      <4>1. Len(svcs) + 1 \in Nat BY DEF ClusterTypeOK
      <4>2. rd.fins \cup {"grid"} \in SUBSET Finalizers BY DEF WorkerTypeOK, Finalizers
      <4> QED BY <3>2, <4>1, <4>2, Zenon DEF WorkerTypeOK
    <3>4. rd'.uid = rd.uid BY <3>2 DEF WorkerTypeOK
    <3>5. WorkerTypeOK' BY <1>3, <2>2, <3>3 DEF AddFinalizer, WorkerTypeOK, keep
    <3>6. StageTypeOK' BY <1>3, <2>2, <3>4 DEF AddFinalizer, StageTypeOK, Kinds, AccessKinds
    <3> QED BY <3>1, <3>5, <3>6
  <2>3. CASE NeedsFinalizer /\ ~PatchAccepted
    BY <1>3, <2>3, ReturnFacts, Zenon DEF AddFinalizer, ClusterTypeOK
  <2> QED BY <2>1, <2>2, <2>3
<1>4. CASE CleanupList
  <2>1. ClusterTypeOK' BY <1>4 DEF CleanupList, ClusterTypeOK, cluster
  <2>2. cur' \in [key : objects' \cup {None}, id : 0..MaxIds]
    BY <1>4 DEF CleanupList, StageTypeOK
  <2>3. WorkerTypeOK'
    BY <1>4, <2>2, Zenon DEF CleanupList, WorkerTypeOK, StageTypeOK, Revoked, keep, Kinds, AccessKinds
  <2>4. StageTypeOK' BY <1>4 DEF CleanupList, StageTypeOK, Kinds, AccessKinds
  <2> QED BY <2>1, <2>3, <2>4
<1>5. ASSUME NEW k \in Keys, CleanupGet(k) PROVE TypeOK'
  <2>1. ClusterTypeOK' BY <1>5 DEF CleanupGet, ClusterTypeOK, cluster
  <2>2. res[k].id \in 0..MaxIds /\ k \in objects
    BY <1>5 DEF ClusterTypeOK, Objects, CleanupGet, WorkerTypeOK
  <2>3. cur' \in [key : objects' \cup {None}, id : 0..MaxIds]
    <3>1. CASE gridOwned(k, rd.uid) BY <1>5, <2>2, <3>1 DEF CleanupGet
    <3>2. CASE ~gridOwned(k, rd.uid) BY <1>5, <3>2 DEF CleanupGet, WorkerTypeOK
    <3> QED BY <3>1, <3>2, Zenon
  <2>4. WorkerTypeOK' BY <1>5, <2>3, ZenonT(40) DEF CleanupGet, WorkerTypeOK, keep
  <2>5. StageTypeOK' BY <1>5, <2>2, SMTT(30) DEF CleanupGet, StageTypeOK, Kinds, AccessKinds
  <2> QED BY <2>1, <2>4, <2>5
<1>6. CASE CleanupDelete
  <2>1. cur.key \in Keys BY <1>6 DEF CleanupDelete, StageTypeOK, WorkerTypeOK
  <2>2. res' \in [Keys -> Objects]
    <3>1. CASE UNCHANGED res BY <3>1 DEF ClusterTypeOK
    <3>2. CASE Deleted(cur.key) BY <2>1, <3>2, DeletedFacts
    <3> QED BY <1>6, <3>1, <3>2 DEF CleanupDelete
  <2>3. ClusterTypeOK' BY <1>6, <2>2 DEF CleanupDelete, ClusterTypeOK
  <2>4. cur' \in [key : objects' \cup {None}, id : 0..MaxIds]
    <3>1. cur' = [key |-> None, id |-> 0] BY <1>6, Zenon DEF CleanupDelete
    <3>2. 0 \in 0..MaxIds BY BoundsAssumption
    <3> QED BY <3>1, <3>2, Zenon
  <2>5. WorkerTypeOK' BY <1>6, <2>4, Zenon DEF CleanupDelete, WorkerTypeOK, keep
  <2>6. StageTypeOK' BY <1>6 DEF CleanupDelete, StageTypeOK, Kinds, AccessKinds
  <2> QED BY <2>3, <2>5, <2>6
<1>7. CASE CleanupConfirm
  <2>1. CASE cleanupErr
    BY <1>7, <2>1, ReturnFacts, Zenon DEF CleanupConfirm, ClusterTypeOK, cluster
  <2>2. CASE ~cleanupErr
    <3>1. ClusterTypeOK' BY <1>7, <2>2 DEF CleanupConfirm, ClusterTypeOK, cluster
    <3>2. cur' \in [key : objects' \cup {None}, id : 0..MaxIds]
      BY <1>7, <2>2 DEF CleanupConfirm, StageTypeOK
    <3>3. complete' \in BOOLEAN BY <1>7, <2>2 DEF CleanupConfirm, ConfirmedAbsent
    <3>4. WorkerTypeOK' BY <1>7, <2>2, <3>2, <3>3 DEF CleanupConfirm, WorkerTypeOK, keep
    <3>5. StageTypeOK' BY <1>7, <2>2 DEF CleanupConfirm, StageTypeOK, Kinds, AccessKinds
    <3> QED BY <3>1, <3>4, <3>5
  <2> QED BY <2>1, <2>2
<1>8. ASSUME NEW g \in Gateways, NextPublication(g) PROVE TypeOK'
  <2>1. ClusterTypeOK' BY <1>8 DEF NextPublication, ClusterTypeOK, cluster
  <2>2. WorkerTypeOK' BY <1>8 DEF NextPublication, WorkerTypeOK, keep, Kinds, AccessKinds
  <2>3. StageTypeOK'
    BY <1>8 DEF NextPublication, StageTypeOK, WorkerTypeOK, keep, Kinds, AccessKinds
  <2> QED BY <2>1, <2>2, <2>3
<1>9. CASE PublishStage
  <2>1. ClusterTypeOK' BY <1>9, StageFacts, Zenon DEF ClusterTypeOK, stageVars
  <2>2. WorkerTypeOK' BY <1>9, StageFacts, ZenonT(40) DEF WorkerTypeOK, stageVars, keep, Kinds, AccessKinds
  <2>3. StageTypeOK' BY <1>9, StageFacts, Zenon DEF StageTypeOK, stageVars, keep, Kinds, AccessKinds
  <2> QED BY <2>1, <2>2, <2>3
<1>10. CASE RemoveFinalizer
  <2>1. WorkerTypeOK' /\ StageTypeOK' /\ queued' \in BOOLEAN
    BY <1>10, ReturnFacts, Zenon DEF RemoveFinalizer, ClusterTypeOK, WorkerTypeOK, MustRequeue
  <2>2. svcs' \in Seq(Services) /\ Len(svcs') >= Len(svcs)
    <3>1. CASE UNCHANGED svcs BY <3>1 DEF ClusterTypeOK
    <3>2. CASE Store(Settle([uid |-> rd.uid, deleting |-> rd.deleting, fins |-> rd.fins \ {"grid"}]))
      BY <3>2, CopyTyped, SettleFacts, StoreFacts, SMTT(30) DEF ClusterTypeOK
    <3> QED BY <1>10, <3>1, <3>2, Zenon DEF RemoveFinalizer
  <2>3. ClusterTypeOK' BY <1>10, <2>1, <2>2 DEF RemoveFinalizer, ClusterTypeOK
  <2> QED BY <2>1, <2>3
<1> QED BY <1>1, <1>2, <1>3, <1>4, <1>5, <1>6, <1>7, <1>8, <1>9, <1>10 DEF Reconcile, PublishStage

\* A failing call and a restart keep the types.
LEMMA TypeFailures ==
    ASSUME TypeOK, ApiError \/ Restart
    PROVE  TypeOK'
<1> USE DEF TypeOK
<1> DEFINE R == Return(TRUE)
<1>a. ASSUME ApiError, ~R
      PROVE  /\ UNCHANGED cluster /\ UNCHANGED <<queued, rd, plan, objects, complete, left, at>>
             /\ \/ /\ pc = "get" /\ pc' = pc /\ cur' = cur /\ failed' = failed
                   /\ cleanupErr' = TRUE /\ \E k \in todo : todo' = todo \ {k}
                \/ /\ pc = "delete" /\ pc' = "get" /\ cur' = [key |-> None, id |-> 0]
                   /\ cleanupErr' = TRUE /\ failed' = failed /\ todo' = todo
                \/ /\ pc \in Kinds /\ pc' = "publish" /\ failed' = TRUE
                   /\ UNCHANGED <<todo, cur, cleanupErr>>
  BY <1>a, Zenon DEF ApiError, StageFailed
<1>b. Event /\ (ApiError => UNCHANGED cluster)
  BY Zenon, Zenon DEF ApiError, Restart
<1> HIDE DEF R
<1>0. events' \in 0..MaxEvents BY <1>b DEF Event, ClusterTypeOK
<1>1. CASE Restart
  <2>1. WorkerTypeOK' /\ StageTypeOK' /\ queued' \in BOOLEAN
    BY <1>1, ReturnFacts, TRUE \in BOOLEAN, Zenon DEF Restart, ClusterTypeOK
  <2> QED BY <1>0, <1>1, <2>1 DEF Restart, ClusterTypeOK
<1>2. CASE ApiError /\ R
  <2>1. WorkerTypeOK' /\ StageTypeOK' /\ queued' \in BOOLEAN
    BY <1>2, ReturnFacts, TRUE \in BOOLEAN, Zenon DEF ClusterTypeOK, R
  <2> QED BY <1>0, <1>b, <1>2, <2>1 DEF ClusterTypeOK, cluster
<1>3. CASE ApiError /\ ~R
  <2>1. ClusterTypeOK' BY <1>0, <1>3, <1>a DEF ClusterTypeOK, cluster
  <2>2. cur' \in [key : objects' \cup {None}, id : 0..MaxIds]
    <3>1. objects' = objects /\ (cur' = cur \/ cur' = [key |-> None, id |-> 0]) BY <1>3, <1>a, Zenon
    <3>2. CASE cur' = cur BY <3>1, <3>2 DEF WorkerTypeOK
    <3>3. CASE cur' = [key |-> None, id |-> 0] BY <3>3
    <3> QED BY <3>1, <3>2, <3>3
  <2>3. WorkerTypeOK'
    BY <1>3, <1>a, <2>2, Zenon DEF WorkerTypeOK, keep, Kinds, AccessKinds
  <2>4. StageTypeOK'
    BY <1>3, <1>a, Zenon DEF StageTypeOK, Kinds, AccessKinds
  <2> QED BY <2>1, <2>3, <2>4
<1> QED BY <1>1, <1>2, <1>3

\* A step of the specification keeps the types.
LEMMA TypeNext ==
    ASSUME TypeOK, [Next]_vars
    PROVE  TypeOK'
<1>1. CASE Next
  BY <1>1, TypeDeliver, TypeEnvironment, TypeReconcile, TypeFailures DEF Next
<1>2. CASE UNCHANGED vars
  BY <1>2, WorkerUnmoved DEF TypeOK, ClusterTypeOK, vars, worker
<1> QED BY <1>1, <1>2

\* Every variable stays in its range and no stage of a reconcile runs without
\* what it needs, for any number of Gateways, incarnations and events.
THEOREM TypeCorrect == Spec => []TypeOK
<1>1. Init => TypeOK BY TypeInit
<1>2. TypeOK /\ [Next]_vars => TypeOK' BY TypeNext, Zenon
<1> QED BY <1>1, <1>2, PTL DEF Spec

-----------------------------------------------------------------------------
(* The inductive invariant behind the finalizer properties.                *)

\* What everybody else does: older versions of the service stay, nobody else
\* drops our finalizer or creates a resource in our name.
LEMMA EnvironmentFacts ==
    ASSUME TypeOK, Deliver \/ Environment
    PROVE  /\ UNCHANGED worker
           /\ \A k \in Keys : res'[k].src = "us" => res[k].src = "us"
           /\ Len(svcs') >= Len(svcs)
           /\ \A i \in 1..Len(svcs) : svcs'[i] = svcs[i]
           /\ Live.uid # 0 /\ "grid" \in Live.fins => Live'.uid = Live.uid /\ "grid" \in Live'.fins
<1> USE DEF TypeOK
<1>0. Live \in Services /\ Cached \in Services /\ Len(svcs) \in Nat
  BY LiveTyped, SMTT(30) DEF ClusterTypeOK
<1>1. CASE Deliver
  BY <1>1, SMTT(30) DEF Deliver, SyncService, SyncResources, ClusterTypeOK, worker, Live
<1>2. CASE SvcCreate
  <2>a. born < MaxIncarnations /\ born \in 1..MaxIncarnations BY <1>2, Zenon DEF SvcCreate, ClusterTypeOK
  <2>b. born + 1 \in 0..MaxIncarnations BY <2>a, BoundsAssumption, SMT
  <2>1. [uid |-> born + 1, deleting |-> FALSE, fins |-> {}] \in Services BY <2>b, SMT DEF Services
  <2>2. Live.uid = 0 /\ UNCHANGED <<res, seen, worker>>
    BY <1>2, SMTT(30) DEF SvcCreate
  <2>3. /\ Live' = [uid |-> born + 1, deleting |-> FALSE, fins |-> {}]
        /\ Len(svcs') = Len(svcs) + 1
        /\ \A i \in 1..Len(svcs) : svcs'[i] = svcs[i]
    BY <1>2, <2>1, StoreFacts DEF SvcCreate, ClusterTypeOK
  <2>4. UNCHANGED worker /\ (\A k \in Keys : res'[k].src = "us" => res[k].src = "us")
    BY <2>2, Zenon
  <2>5. Len(svcs') >= Len(svcs) BY <1>0, <2>3, SMTT(30)
  <2> HIDE DEF TypeOK
  <2> QED BY <2>2, <2>3, <2>4, <2>5, Zenon
<1>3. CASE SvcDelete
  <2> DEFINE s == [Live EXCEPT !.deleting = TRUE]
  <2>1. s \in Services /\ s.uid = Live.uid /\ s.fins = Live.fins BY <1>0, Zenon DEF Services
  <2>2. Store(Settle(s)) /\ UNCHANGED <<res, worker>> BY <1>3, SMTT(30) DEF SvcDelete
  <2> HIDE DEF s
  <2>3. Settle(s) \in Services /\ (s.fins # {} => Settle(s) = s) BY <2>1, SettleFacts, SMTT(30)
  <2> QED BY <2>1, <2>2, <2>3, StoreFacts DEF ClusterTypeOK
<1>4. CASE OtherFinalizer
  <2> DEFINE s == [Live EXCEPT !.fins = @ \cup {"other"}]
             t == [Live EXCEPT !.fins = @ \ {"other"}]
  <2>1. s \in Services /\ s.uid = Live.uid /\ s.fins = Live.fins \cup {"other"}
    BY <1>0 DEF Services, Finalizers
  <2>2. t \in Services /\ t.uid = Live.uid /\ t.fins = Live.fins \ {"other"}
    BY <1>0 DEF Services, Finalizers
  <2>3. (Store(s) \/ Store(Settle(t))) /\ UNCHANGED <<res, worker>> BY <1>4, SMTT(30) DEF OtherFinalizer
  <2> HIDE DEF s, t
  <2>4. Settle(t) \in Services /\ (t.fins # {} => Settle(t) = t) BY <2>2, SettleFacts
  <2> QED BY <2>1, <2>2, <2>3, <2>4, StoreFacts DEF ClusterTypeOK
<1>5. ASSUME NEW g \in Gateways, NEW v \in PairChoices, PairChange(g, v)
      PROVE  UNCHANGED <<svcs, res, worker>>
  BY <1>5, SMTT(30) DEF PairChange
<1>6. ASSUME NEW k \in Keys, AdminReplace(k) \/ AdminDelete(k) \/ AdminRelabel(k) \/ FinishDeletion(k) \/ GarbageCollect(k)
      PROVE  UNCHANGED <<svcs, worker>> /\ \A j \in Keys : res'[j].src = "us" => res[j].src = "us"
  <2>1. UNCHANGED <<svcs, worker>>
    BY <1>6 DEF AdminReplace, AdminDelete, AdminRelabel, FinishDeletion, GarbageCollect
  <2>2. \/ \E id : res' = [res EXCEPT ![k] = [src |-> "other", id |-> id, term |-> FALSE, val |-> "plain"]]
        \/ res' = [res EXCEPT ![k] = NoObject]
        \/ res' = [res EXCEPT ![k].src = "other"]
    BY <1>6 DEF AdminReplace, AdminDelete, AdminRelabel, FinishDeletion, GarbageCollect
  <2>3. ASSUME NEW j \in Keys, res'[j].src = "us" PROVE res[j].src = "us"
    <3>1. CASE j # k BY <2>2, <2>3, <3>1 DEF ClusterTypeOK
    <3>2. CASE j = k
      <4>1. res'[k].src # "us"
        <5>1. ASSUME NEW id, res' = [res EXCEPT ![k] = [src |-> "other", id |-> id, term |-> FALSE, val |-> "plain"]]
              PROVE  res'[k].src # "us"
          BY <5>1 DEF ClusterTypeOK
        <5>2. ASSUME res' = [res EXCEPT ![k] = NoObject] PROVE res'[k].src # "us"
          BY <5>2 DEF ClusterTypeOK, NoObject
        <5>3. ASSUME res' = [res EXCEPT ![k].src = "other"] PROVE res'[k].src # "us"
          BY <5>3, SMTT(30) DEF ClusterTypeOK, Objects
        <5> QED BY <2>2, <5>1, <5>2, <5>3
      <4> QED BY <2>3, <3>2, <4>1
    <3> QED BY <3>1, <3>2
  <2> QED BY <2>1, <2>3
<1>7. ASSUME UNCHANGED <<svcs, worker>>, \A j \in Keys : res'[j].src = "us" => res[j].src = "us"
      PROVE  /\ UNCHANGED worker
             /\ \A k \in Keys : res'[k].src = "us" => res[k].src = "us"
             /\ Len(svcs') >= Len(svcs)
             /\ \A i \in 1..Len(svcs) : svcs'[i] = svcs[i]
             /\ Live.uid # 0 /\ "grid" \in Live.fins => Live'.uid = Live.uid /\ "grid" \in Live'.fins
  BY <1>7 DEF Live, ClusterTypeOK
<1> QED BY <1>1, <1>2, <1>3, <1>4, <1>5, <1>6, <1>7 DEF Environment

\* A step of the worker that does not end the reconcile, except the first one
\* and the finalizer patch, keeps the copy and the service.
LEMMA CopySteps ==
    ASSUME TypeOK, Reconcile \/ ApiError \/ Restart
    PROVE  \/ ReadService
           \/ AddFinalizer
           \/ RemoveFinalizer
           \/ pc # "idle" /\ UNCHANGED <<svcs, rd>>
           \/ pc' = "idle" /\ UNCHANGED svcs
<1>1. CASE PublishStage
  BY <1>1, StageFacts, Zenon DEF stageVars, Kinds, AccessKinds
<1>2. CASE ApiError \/ Restart
  BY <1>2 DEF ApiError, Restart, Return, cluster, StageFailed, Kinds, AccessKinds
<1>3. CASE desiredPublications \/ CleanupList \/ (\E k \in Keys : CleanupGet(k)) \/ CleanupDelete \/ CleanupConfirm
           \/ (\E g \in Gateways : NextPublication(g))
  BY <1>3, Zenon DEF desiredPublications, CleanupList, CleanupGet, CleanupDelete, CleanupConfirm, NextPublication,
              cluster, Return
<1> QED BY <1>1, <1>2, <1>3 DEF Reconcile, PublishStage

\* The worker's copy stays a version of the service.
LEMMA CopyIsVersionNext ==
    ASSUME TypeOK, CopyIsVersion, Next
    PROVE  CopyIsVersion'
<1> USE DEF TypeOK
<1>0. Cached \in Services /\ Len(svcs) \in Nat BY LiveTyped, SMTT(30) DEF ClusterTypeOK
<1>1. CASE Deliver \/ Environment
  <2>1. /\ UNCHANGED <<pc, rd>>
        /\ Len(svcs') >= Len(svcs)
        /\ \A i \in 1..Len(svcs) : svcs'[i] = svcs[i]
    BY <1>1, EnvironmentFacts, Zenon DEF worker
  <2> HIDE DEF TypeOK
  <2>2. Len(svcs') \in Nat BY TypeNext DEF TypeOK, ClusterTypeOK
  <2>3. \A i \in 1..Len(svcs) : i \in 1..Len(svcs') BY <1>0, <2>1, <2>2, SMT
  <2> QED BY <2>1, <2>3, Zenon DEF CopyIsVersion
<1>2. CASE ReadService
  <2>1. CASE Cached.uid = 0 BY <1>2, <2>1, SMTT(30) DEF ReadService, CopyIsVersion, cluster
  <2>2. CASE Cached.uid # 0
    <3>0. svcs' = svcs BY <1>2, Zenon DEF ReadService, cluster
    <3>1. rd' = [uid |-> Cached.uid, deleting |-> Cached.deleting, fins |-> Cached.fins, rv |-> seen] /\ svcs' = svcs
      BY <1>2, <2>2, <3>0, Zenon DEF ReadService
    <3>2. Cached = [uid |-> Cached.uid, deleting |-> Cached.deleting, fins |-> Cached.fins]
      BY <1>0 DEF Services
    <3> QED BY <3>1, <3>2 DEF CopyIsVersion, Cached, ClusterTypeOK
  <2> QED BY <2>1, <2>2, SMTT(30)
<1>3. CASE AddFinalizer
  <2>1. CASE ~NeedsFinalizer BY <1>3, <2>1, SMTT(30) DEF AddFinalizer, CopyIsVersion
  <2>2. CASE NeedsFinalizer /\ PatchAccepted
    <3> DEFINE s == [uid |-> rd.uid, deleting |-> rd.deleting, fins |-> rd.fins \cup {"grid"}]
    <3>1. Store(s) /\ rd' = [rd EXCEPT !.fins = @ \cup {"grid"}, !.rv = Len(svcs) + 1]
      BY <1>3, <2>2 DEF AddFinalizer
    <3>2. rd'.uid = rd.uid /\ rd'.deleting = rd.deleting /\ rd'.fins = rd.fins \cup {"grid"} /\ rd'.rv = Len(svcs) + 1
      BY <3>1 DEF WorkerTypeOK
    <3>3. s \in Services BY CopyTyped
    <3>4. Len(svcs') = Len(svcs) + 1 /\ Live' = s BY <3>1, <3>3, StoreFacts DEF ClusterTypeOK
    <3>5. svcs'[rd'.rv] = s BY <3>2, <3>4 DEF Live
    <3> QED BY <1>0, <3>2, <3>4, <3>5 DEF CopyIsVersion
  <2>3. CASE NeedsFinalizer /\ ~PatchAccepted BY <1>3, <2>3, Zenon DEF AddFinalizer, Return, CopyIsVersion
  <2> QED BY <2>1, <2>2, <2>3
<1>4. CASE RemoveFinalizer BY <1>4, Zenon DEF RemoveFinalizer, Return, CopyIsVersion
<1>5. CASE pc # "idle" /\ UNCHANGED <<svcs, rd>> BY <1>5 DEF CopyIsVersion
<1>6. CASE pc' = "idle" BY <1>6, SMTT(30) DEF CopyIsVersion
<1> QED BY <1>1, <1>2, <1>3, <1>4, <1>5, <1>6, CopySteps DEF Next

\* An accepted patch was computed from the stored version.
LEMMA AcceptedIsLive ==
    ASSUME TypeOK, CopyIsVersion, pc # "idle", PatchAccepted
    PROVE  Live = [uid |-> rd.uid, deleting |-> rd.deleting, fins |-> rd.fins]
BY DEF CopyIsVersion, PatchAccepted, Live

\* Nothing is published for a copy without the finalizer.
LEMMA PublishesHeldNext ==
    ASSUME TypeOK, PublishesHeld, Next
    PROVE  PublishesHeld'
<1> USE DEF TypeOK
<1>1. CASE Deliver \/ Environment
  BY <1>1, EnvironmentFacts DEF PublishesHeld, worker, keep
<1>2. CASE AddFinalizer
  <2>1. CASE ~NeedsFinalizer BY <1>2, <2>1 DEF AddFinalizer, PublishesHeld, NeedsFinalizer, keep
  <2>2. CASE NeedsFinalizer /\ PatchAccepted
    <3>1. rd' = [rd EXCEPT !.fins = @ \cup {"grid"}, !.rv = Len(svcs) + 1] BY <1>2, <2>2 DEF AddFinalizer
    <3>2. "grid" \in rd'.fins BY <3>1 DEF WorkerTypeOK
    <3> QED BY <3>2 DEF PublishesHeld
  <2>3. CASE NeedsFinalizer /\ ~PatchAccepted
    BY <1>2, <2>3, SMTT(30) DEF AddFinalizer, PublishesHeld, Return, Kinds, AccessKinds
  <2> QED BY <2>1, <2>2, <2>3
<1>3. CASE PublishStage
  BY <1>3, StageFacts DEF PublishesHeld, stageVars, keep
<1>4. CASE ReadService \/ desiredPublications
  BY <1>4, ZenonT(40) DEF ReadService, desiredPublications, PublishesHeld, Kinds, AccessKinds
<1>5. CASE RemoveFinalizer \/ Restart
  BY <1>5, Zenon DEF RemoveFinalizer, Restart, Return, PublishesHeld, Kinds, AccessKinds
<1>6. CASE CleanupList \/ (\E k \in Keys : CleanupGet(k)) \/ CleanupDelete \/ (\E g \in Gateways : NextPublication(g))
  BY <1>6, ZenonT(40) DEF CleanupList, CleanupGet, CleanupDelete, NextPublication, PublishesHeld, keep
<1>7. CASE CleanupConfirm
  BY <1>7, SMTT(30) DEF CleanupConfirm, Return, PublishesHeld, keep, Kinds, AccessKinds
<1>8. CASE ApiError
  BY <1>8 DEF ApiError, Return, StageFailed, PublishesHeld, keep, Kinds, AccessKinds
<1> QED BY <1>1, <1>2, <1>3, <1>4, <1>5, <1>6, <1>7, <1>8, SMTT(30) DEF Next, Reconcile, PublishStage

\* While cleanup runs its list covers what is to be revoked; a complete cleanup
\* leaves nothing of a service without publications.
LEMMA CleanupCoversNext ==
    ASSUME TypeOK, PublishesHeld, CleanupCovers, Next
    PROVE  CleanupCovers'
<1> USE DEF TypeOK
<1>1. CASE Deliver \/ Environment
  <2>1. UNCHANGED worker /\ \A k \in Keys : res'[k].src = "us" => res[k].src = "us"
    BY <1>1, EnvironmentFacts
  <2>2. UNCHANGED <<pc, rd, plan, objects, complete>> BY <2>1 DEF worker
  <2>3. Revoked' \subseteq Revoked /\ keep' = keep
    BY <2>1, <2>2 DEF Revoked, gridOwned, keep
  <2> QED BY <2>2, <2>3, SMTT(30) DEF CleanupCovers
<1>2. CASE CleanupList
  BY <1>2, SMTT(30) DEF CleanupList, CleanupCovers, Revoked, gridOwned, keep, cluster
<1>3. ASSUME NEW k \in Keys, CleanupGet(k) PROVE CleanupCovers'
  <2>1. Revoked' = Revoked BY <1>3 DEF CleanupGet, Revoked, gridOwned, keep, cluster
  <2> QED BY <1>3, <2>1, SMTT(30) DEF CleanupGet, CleanupCovers
<1>4. CASE CleanupDelete
  <2>1. cur.key \in Keys BY <1>4 DEF CleanupDelete, StageTypeOK, WorkerTypeOK
  <2>2. \A j \in Keys : res'[j].src = "us" => res[j].src = "us"
    <3>1. CASE UNCHANGED res BY <3>1
    <3>2. CASE Deleted(cur.key)
      <4> DEFINE c == cur.key
      <4>1. c \in Keys /\ Deleted(c) BY <2>1, <3>2, SMTT(30)
      <4> HIDE DEF c
      <4>2. (\A j \in Keys : j # c => res'[j] = res[j]) /\ res'[c].src \in {"none", res[c].src}
        BY <4>1, DeletedFacts
      <4> QED BY <4>2
    <3> QED BY <1>4, <3>1, <3>2, Zenon DEF CleanupDelete
  <2>3. Revoked' \subseteq Revoked BY <1>4, <2>2, Zenon DEF CleanupDelete, Revoked, gridOwned, keep
  <2> QED BY <1>4, <2>3, Zenon DEF CleanupDelete, CleanupCovers
<1>5. CASE CleanupConfirm
  <2>1. CASE cleanupErr BY <1>5, <2>1, SMTT(30) DEF CleanupConfirm, Return, CleanupCovers
  <2>2. CASE ~cleanupErr
    <3>1. Revoked' = Revoked /\ Revoked \subseteq objects
      BY <1>5, <2>2, Zenon DEF CleanupConfirm, CleanupCovers, Revoked, gridOwned, keep, cluster
    <3>2. complete' => Revoked = {}
      BY <1>5, <2>2, <3>1, Zenon DEF CleanupConfirm, ConfirmedAbsent, Revoked, gridOwned
    <3> QED BY <1>5, <2>2, <3>1, <3>2, Zenon DEF CleanupConfirm, CleanupCovers
  <2> QED BY <2>1, <2>2, Zenon
<1>6. CASE PublishStage
  <2>1. keep # {} /\ keep' = keep /\ pc' \notin {"get", "delete"}
    BY <1>6, StageFacts, Zenon DEF StageTypeOK, stageVars, keep
  <2> QED BY <2>1 DEF CleanupCovers
<1>7. CASE ReadService \/ desiredPublications \/ RemoveFinalizer \/ Restart \/ AddFinalizer \/ (\E g \in Gateways : NextPublication(g))
  BY <1>7, ZenonT(40) DEF ReadService, desiredPublications, RemoveFinalizer, Restart, AddFinalizer, NextPublication, Return, CleanupCovers
<1>8. CASE ApiError
  <2>1. CASE pc' = "idle" BY <2>1, Zenon DEF CleanupCovers
  <2>2. CASE pc \in {"get", "delete"} /\ pc' = "get" /\ UNCHANGED <<res, rd, plan, objects>>
    BY <2>2, SMTT(30) DEF CleanupCovers, Revoked, gridOwned, keep
  <2>3. CASE pc \in Kinds /\ pc' = "publish" /\ UNCHANGED <<plan, at>>
    BY <2>3 DEF StageTypeOK, CleanupCovers, keep
  <2> QED BY <1>8, <2>1, <2>2, <2>3, Zenon DEF ApiError, Return, StageFailed, cluster
<1> QED BY <1>1, <1>2, <1>3, <1>4, <1>5, <1>6, <1>7, <1>8, Zenon DEF Next, Reconcile, PublishStage

\* If reads are fresh, the finalizer the worker relies on is still there.
LEMMA CopyHeldNext ==
    ASSUME TypeOK, CopyIsVersion, CopyHeld, Next
    PROVE  CopyHeld'
<1> USE DEF TypeOK
<1> SUFFICES ASSUME ~StaleReads PROVE CopyHeld' BY Zenon DEF CopyHeld
<1>1. CASE Deliver \/ Environment
  BY <1>1, EnvironmentFacts DEF CopyHeld, worker, StageTypeOK
<1>2. CASE Delivered /\ ReadService
  <2>1. CASE Cached.uid = 0 BY <1>2, <2>1, Zenon DEF ReadService, CopyHeld
  <2>2. CASE Cached.uid # 0
    <3>1. rd'.uid = Cached.uid /\ rd'.fins = Cached.fins /\ svcs' = svcs
      BY <1>2, <2>2 DEF ReadService, cluster
    <3>2. Cached = Live /\ Live' = Live BY <1>2, <3>1 DEF Delivered, Cached, Live
    <3> QED BY <3>1, <3>2 DEF CopyHeld
  <2> QED BY <2>1, <2>2, Zenon
<1>3. CASE AddFinalizer
  <2>1. CASE ~NeedsFinalizer
    BY <1>3, <2>1, Zenon DEF AddFinalizer, CopyHeld, Live
  <2>2. CASE NeedsFinalizer /\ PatchAccepted
    <3> DEFINE s == [uid |-> rd.uid, deleting |-> rd.deleting, fins |-> rd.fins \cup {"grid"}]
    <3>1. Store(s) /\ rd' = [rd EXCEPT !.fins = @ \cup {"grid"}, !.rv = Len(svcs) + 1]
      BY <1>3, <2>2 DEF AddFinalizer
    <3>2. rd'.uid = rd.uid BY <3>1 DEF WorkerTypeOK
    <3>3. Live' = s BY <3>1, CopyTyped, StoreFacts DEF ClusterTypeOK
    <3> QED BY <3>2, <3>3 DEF CopyHeld
  <2>3. CASE NeedsFinalizer /\ ~PatchAccepted BY <1>3, <2>3, Zenon DEF AddFinalizer, Return, CopyHeld
  <2> QED BY <2>1, <2>2, <2>3
<1>4. CASE RemoveFinalizer BY <1>4, Zenon DEF RemoveFinalizer, Return, CopyHeld
<1>5. CASE pc # "idle" /\ UNCHANGED <<svcs, rd>> BY <1>5 DEF CopyHeld, Live
<1>6. CASE pc' = "idle" BY <1>6 DEF CopyHeld
<1> QED BY <1>1, <1>2, <1>3, <1>4, <1>5, <1>6, CopySteps DEF Next

\* What a step of the worker does to the resources and to the service:
\* nothing new outside publishing, and the finalizer goes only when the
\* service has no resource left.
LEMMA WorkerFacts ==
    ASSUME TypeOK, CopyIsVersion, PublishesHeld, CleanupCovers, Reconcile \/ ApiError \/ Restart
    PROVE  /\ \A k \in Keys : res'[k].src = "us" =>
                 \/ res[k].src = "us"
                 \/ k.uid = rd.uid /\ "grid" \in rd.fins /\ pc # "idle" /\ UNCHANGED svcs
           /\ \/ Live'.uid = Live.uid /\ ("grid" \in Live.fins => "grid" \in Live'.fins)
              \/ UNCHANGED res /\ \A k \in Keys : k.uid = Live.uid => res[k].src # "us"
           /\ Reconcile => /\ ("other" \in Live'.fins) = ("other" \in Live.fins)
                           /\ Live'.uid \in {Live.uid, 0}
                           /\ Live.deleting /\ Live'.uid # 0 => Live'.deleting
<1> USE DEF TypeOK
<1>0. Live \in Services BY LiveTyped, Zenon DEF ClusterTypeOK
<1>1. CASE PublishStage
  <2>1. pc \in Kinds /\ UNCHANGED stageVars BY <1>1, StageFacts, SMTT(30)
  <2>2. pc # "idle" /\ "grid" \in rd.fins /\ UNCHANGED svcs /\ Live' = Live
    BY <2>1 DEF PublishesHeld, StageTypeOK, stageVars, Live, Kinds, AccessKinds
  <2> QED BY <1>1, <2>2, StageFacts, Zenon
<1>2. CASE CleanupDelete
  <2> DEFINE c == cur.key
  <2>1. c \in Keys BY <1>2 DEF CleanupDelete, StageTypeOK, WorkerTypeOK
  <2>2. UNCHANGED res \/ Deleted(c) BY <1>2, Zenon DEF CleanupDelete
  <2> HIDE DEF c
  <2>3. \A k \in Keys : res'[k].src = "us" => res[k].src = "us" BY <2>1, <2>2, DeletedFacts
  <2>4. Live' = Live BY <1>2, Zenon DEF CleanupDelete, Live
  <2> QED BY <2>3, <2>4, Zenon
<1>3. CASE AddFinalizer
  <2>0. UNCHANGED res BY <1>3 DEF AddFinalizer
  <2>1. CASE UNCHANGED svcs BY <2>0, <2>1, SMTT(30) DEF Live
  <2>2. CASE /\ PatchAccepted
             /\ Store([uid |-> rd.uid, deleting |-> rd.deleting, fins |-> rd.fins \cup {"grid"}])
    <3>1. Live' = [uid |-> rd.uid, deleting |-> rd.deleting, fins |-> rd.fins \cup {"grid"}]
      BY <2>2, CopyTyped, StoreFacts DEF ClusterTypeOK
    <3>2. Live = [uid |-> rd.uid, deleting |-> rd.deleting, fins |-> rd.fins]
      BY <1>3, <2>2, AcceptedIsLive DEF AddFinalizer
    <3> QED BY <2>0, <3>1, <3>2, SMTT(30)
  <2> QED BY <1>3, <2>1, <2>2, ZenonT(40) DEF AddFinalizer
<1>4. CASE RemoveFinalizer
  <2>0. UNCHANGED res BY <1>4, Zenon DEF RemoveFinalizer
  <2>1. CASE UNCHANGED svcs BY <2>0, <2>1 DEF Live
  <2>2. CASE ~UNCHANGED svcs
    <3> DEFINE s == [uid |-> rd.uid, deleting |-> rd.deleting, fins |-> rd.fins \ {"grid"}]
    <3>1. MayUnfinalize /\ PatchAccepted /\ Store(Settle(s)) /\ pc = "publish"
      BY <1>4, <2>2, ZenonT(40) DEF RemoveFinalizer
    <3>2. Live = [uid |-> rd.uid, deleting |-> rd.deleting, fins |-> rd.fins]
      BY <3>1, AcceptedIsLive, SMTT(30)
    <3>3. s \in Services /\ s.uid = rd.uid /\ s.deleting = rd.deleting /\ s.fins = rd.fins \ {"grid"}
      BY CopyTyped, SMTT(30)
    <3> HIDE DEF s
    <3>4. Settle(s) \in Services /\ Live' = Settle(s)
      BY <3>1, <3>3, SettleFacts, StoreFacts DEF ClusterTypeOK
    <3>5. Revoked = {} /\ keep = {} BY <3>1, SMTT(30) DEF MayUnfinalize, CleanupCovers
    <3>6. \A k \in Keys : k.uid = Live.uid => res[k].src # "us"
      BY <3>2, <3>5, SMTT(30) DEF Revoked, gridOwned
    <3>7. Settle(s).fins = s.fins /\ Settle(s).uid \in {s.uid, 0} /\ (Settle(s) = s \/ Settle(s).uid = 0)
      BY <3>3, SettleFacts, SMTT(30)
    <3> QED BY <2>0, <3>2, <3>3, <3>4, <3>6, <3>7
  <2> QED BY <2>1, <2>2, SMTT(30)
<1>5. CASE UNCHANGED <<svcs, res>> BY <1>5 DEF Live
<1>6. CASE ReadService \/ desiredPublications \/ CleanupList \/ (\E k \in Keys : CleanupGet(k)) \/ CleanupConfirm
           \/ (\E g \in Gateways : NextPublication(g)) \/ ApiError \/ Restart
  BY <1>5, <1>6, Zenon DEF ReadService, desiredPublications, CleanupList, CleanupGet, CleanupConfirm, NextPublication,
                    ApiError, Restart, cluster
<1> QED BY <1>1, <1>2, <1>3, <1>4, <1>6, Zenon DEF Reconcile, PublishStage

-----------------------------------------------------------------------------
(* The theorems about the finalizer.                                       *)

GridInv == TypeOK /\ CopyIsVersion /\ PublishesHeld /\ CleanupCovers

\* The part of the invariant that needs no fresh reads.
LEMMA GridInvHolds == Spec => []GridInv
<1>1. Init => GridInv
  <2>1. ASSUME Init PROVE CopyIsVersion /\ PublishesHeld /\ CleanupCovers
    BY <2>1 DEF Init, CopyIsVersion, PublishesHeld, CleanupCovers, Kinds, AccessKinds
  <2> QED BY <2>1, TypeInit, Zenon DEF GridInv
<1>2. ASSUME GridInv, [Next]_vars PROVE GridInv'
  <2>1. CASE Next
    BY <1>2, <2>1, TypeNext, CopyIsVersionNext, PublishesHeldNext, CleanupCoversNext DEF GridInv
  <2>2. CASE UNCHANGED vars
    <3>1. TypeOK' BY <1>2, TypeNext DEF GridInv
    <3>2. CopyIsVersion' /\ PublishesHeld' /\ CleanupCovers'
      BY <1>2, <2>2, Zenon DEF GridInv, vars, worker, CopyIsVersion, PublishesHeld, CleanupCovers, Revoked, gridOwned, keep
    <3> QED BY <3>1, <3>2 DEF GridInv
  <2> QED BY <1>2, <2>1, <2>2
<1> QED BY <1>1, <1>2, PTL DEF Spec

\* When reads are fresh, a generated resource exists only while the stored
\* service is the one it was generated for and carries the finalizer: deletion
\* is held until everything is gone, the cluster-scoped provider included.
THEOREM DeletionIsHeld == ASSUME ~StaleReads PROVE Spec => []HeldByFinalizer
<1> DEFINE Inv == CopyHeld /\ HeldByFinalizer
<1>1. Init => Inv
  <2> SUFFICES ASSUME Init PROVE Inv OBVIOUS
  <2>1. CopyHeld BY ZenonT(40) DEF Init, CopyHeld
  <2>2. HeldByFinalizer BY Zenon, Zenon DEF Init, HeldByFinalizer, NoObject
  <2> QED BY <2>1, <2>2
<1>2. ASSUME GridInv, Inv, [Next]_vars PROVE Inv'
  <2>0. TypeOK /\ CopyIsVersion /\ PublishesHeld /\ CleanupCovers /\ CopyHeld /\ HeldByFinalizer
    BY <1>2 DEF GridInv
  <2>1. CASE Next
    <3>1. CopyHeld' BY <2>0, <2>1, CopyHeldNext
    <3>2. \A k \in Keys : k.uid # 0 BY SMTT(30) DEF Keys
    <3>3. CASE Deliver \/ Environment
      BY <2>0, <3>1, <3>2, <3>3, EnvironmentFacts DEF HeldByFinalizer
    <3>4. CASE Reconcile \/ ApiError \/ Restart
      <4>1. ASSUME NEW k \in Keys, res'[k].src = "us" PROVE Live.uid = k.uid /\ "grid" \in Live.fins
        <5>1. CASE res[k].src = "us" BY <2>0, <5>1 DEF HeldByFinalizer
        <5>2. CASE k.uid = rd.uid /\ "grid" \in rd.fins /\ pc # "idle" BY <2>0, <5>2 DEF CopyHeld
        <5> QED BY <2>0, <3>4, <4>1, <5>1, <5>2, WorkerFacts, SMTT(30)
      <4>2. CASE Live'.uid = Live.uid /\ ("grid" \in Live.fins => "grid" \in Live'.fins)
        BY <3>1, <4>1, <4>2, SMTT(30) DEF HeldByFinalizer
      <4>3. CASE UNCHANGED res /\ \A k \in Keys : k.uid = Live.uid => res[k].src # "us"
        BY <3>1, <4>1, <4>3, SMTT(30) DEF HeldByFinalizer
      <4> QED BY <2>0, <3>4, <4>2, <4>3, WorkerFacts, ZenonT(40)
    <3> QED BY <2>1, <3>3, <3>4 DEF Next
  <2>2. CASE UNCHANGED vars
    BY <2>0, <2>2 DEF vars, worker, CopyHeld, HeldByFinalizer, Live
  <2> QED BY <1>2, <2>1, <2>2
<1>3. Inv => HeldByFinalizer OBVIOUS
<1> HIDE DEF Inv
<1> QED BY <1>1, <1>2, <1>3, GridInvHolds, PTL DEF Spec

\* The patch that removes the finalizer is accepted only when no resource of
\* the service is left, however old the copy the reconcile started from.
THEOREM FinalizerGoesLast == Spec => FinalizerRemovedLast
<1> DEFINE A == ("grid" \in Live.fins /\ ~("grid" \in Live'.fins))
                  => \A k \in Keys : k.uid = Live.uid => res'[k].src # "us"
<1>1. ASSUME GridInv, [Next]_vars PROVE [A]_vars
  <2>0. TypeOK /\ CopyIsVersion /\ PublishesHeld /\ CleanupCovers BY <1>1, SMTT(30) DEF GridInv
  <2>1. CASE Deliver \/ Environment
    <3>1. \A k \in Keys : k.uid # 0 BY SMTT(30) DEF Keys
    <3> QED BY <2>0, <2>1, <3>1, EnvironmentFacts
  <2>2. CASE Reconcile \/ ApiError \/ Restart
    BY <2>0, <2>2, WorkerFacts
  <2> QED BY <1>1, <2>1, <2>2 DEF Next
<1> HIDE DEF A
<1>2. Spec => [][A]_vars BY <1>1, GridInvHolds, PTL DEF Spec
<1> QED BY <1>2, SMTT(30) DEF A, FinalizerRemovedLast

\* No step of a reconcile adds or drops another controller's finalizer or
\* brings a deleted service back, although it patches a copy it read earlier.
THEOREM OthersFinalizersKept == Spec => OtherFinalizersKept
<1> DEFINE A == Reconcile => /\ ("other" \in Live'.fins) = ("other" \in Live.fins)
                             /\ Live'.uid \in {Live.uid, 0}
                             /\ Live.deleting /\ Live'.uid # 0 => Live'.deleting
<1>1. ASSUME GridInv, [Next]_vars PROVE [A]_vars
  BY <1>1, WorkerFacts DEF GridInv
<1> HIDE DEF A
<1>2. Spec => [][A]_vars BY <1>1, GridInvHolds, PTL DEF Spec
<1> QED BY <1>2, SMTT(30) DEF A, OtherFinalizersKept

-----------------------------------------------------------------------------
(* The theorem about resources of other sources.                           *)

\* What one step may make of a stored object: keep whose it is and its UID,
\* remove it, or store a new one under a UID no copy remembers.
SameOrFresh(k) ==
    \/ res'[k].src = res[k].src /\ res'[k].id = res[k].id
    \/ res'[k].src = "none" /\ res'[k].id = 0
    \/ res'[k].src # "none" /\ res'[k].id \in FreshIds(k)

\* An accepted delete of one object removes it or marks it.
LEMMA DeletedSame ==
    ASSUME ClusterTypeOK, NEW k \in Keys, Deleted(k)
    PROVE  \A j \in Keys : SameOrFresh(j)
<1>1. CASE res' = [res EXCEPT ![k] = NoObject]
  BY <1>1 DEF ClusterTypeOK, NoObject, SameOrFresh
<1>2. CASE res' = [res EXCEPT ![k].term = TRUE]
  BY <1>2 DEF ClusterTypeOK, Objects, SameOrFresh
<1> QED BY <1>1, <1>2, SMTT(30) DEF Deleted

\* CreateOrUpdate creates under a fresh UID and updates in place.
LEMMA CreateOrUpdateSame ==
    ASSUME ClusterTypeOK, NEW k \in Keys, NEW v, NEW n, CreateOrUpdate(k, v, n)
    PROVE  \A j \in Keys : SameOrFresh(j)
<1>1. CASE UNCHANGED res BY <1>1 DEF SameOrFresh
<1>2. CASE res' = [res EXCEPT ![k].val = v] BY <1>2, Zenon DEF ClusterTypeOK, Objects, SameOrFresh
<1>3. ASSUME NEW id \in FreshIds(k),
             res' = [res EXCEPT ![k] = [src |-> "us", id |-> id, term |-> FALSE, val |-> v]]
      PROVE  \A j \in Keys : SameOrFresh(j)
  BY <1>3, Zenon DEF ClusterTypeOK, SameOrFresh
<1> QED BY <1>1, <1>2, <1>3 DEF CreateOrUpdate

\* A publishing stage touches no object of another source: what it writes is
\* ours in the copy it read, under the same resourceVersion or UID.
LEMMA StageSame ==
    ASSUME TypeOK, IdsIdentify, PublishStage
    PROVE  /\ \A j \in Keys : SameOrFresh(j)
           /\ \A j \in Keys : res[j].src = "other" => res'[j] = res[j]
<1> USE DEF TypeOK
<1>0. pc \in Kinds BY StageFacts
<1>1. \A kind \in Kinds : Key(rd.uid, at, kind) \in Keys BY <1>0, StageKey
<1>2. plan[at] \in Published /\ "plain" \in Published
  BY <1>0, StageKey, "role" \in Kinds DEF Published, Kinds, AccessKinds
<1>3. ASSUME NEW k \in Keys, NEW v \in Published, NEW n, CreateOrUpdate(k, v, n)
      PROVE  /\ \A j \in Keys : SameOrFresh(j)
             /\ \A j \in Keys : res[j].src = "other" => res'[j] = res[j]
  BY <1>3, CreateOrUpdateSame, CreateOrUpdateFacts, ZenonT(40)
<1>4. ASSUME NEW k \in Keys, NEW n, deleteOwned(k, n)
      PROVE  /\ \A j \in Keys : SameOrFresh(j)
             /\ \A j \in Keys : res[j].src = "other" => res'[j] = res[j]
  <2>1. CASE UNCHANGED res BY <2>1, SMTT(30) DEF SameOrFresh
  <2>2. CASE Deleted(k) /\ res[k].src = "us"
    <3>1. \A j \in Keys : j # k => res'[j] = res[j] BY <2>2, DeletedFacts, Zenon
    <3> QED BY <2>2, <3>1, DeletedSame
  <2> QED BY <1>4, <2>1, <2>2, SMTT(30) DEF deleteOwned, SameObject, IdsIdentify
<1>5. CASE ReconcileRole BY <1>1, <1>2, <1>3, <1>5 DEF ReconcileRole, Kinds, AccessKinds
<1>6. CASE ReconcileBinding BY <1>1, <1>2, <1>3, <1>6, Zenon DEF ReconcileBinding, Kinds, AccessKinds
<1>7. CASE reconcileMetricsAccess
  BY <1>1, <1>2, <1>3, <1>4, <1>7 DEF reconcileMetricsAccess, Kinds, AccessKinds
<1>8. CASE reconcileProvider
  BY <1>1, <1>2, <1>3, <1>8, ZenonT(40) DEF reconcileProvider, EppMetrics, Kinds, AccessKinds
<1> QED BY <1>5, <1>6, <1>7, <1>8, SMTT(30) DEF PublishStage

\* No step of a reconcile touches an object of another source.
LEMMA ReconcileSame ==
    ASSUME TypeOK, IdsIdentify, Reconcile
    PROVE  /\ \A j \in Keys : SameOrFresh(j)
           /\ \A j \in Keys : res[j].src = "other" => res'[j] = res[j]
<1> USE DEF TypeOK
<1>1. CASE UNCHANGED res BY <1>1 DEF SameOrFresh
<1>2. CASE PublishStage BY <1>2, StageSame, SMTT(30)
<1>3. CASE CleanupDelete
  <2> DEFINE c == cur.key
  <2>1. c \in Keys BY <1>3, Zenon DEF CleanupDelete, StageTypeOK, WorkerTypeOK
  <2>2. UNCHANGED res \/ (Deleted(c) /\ res[c].src = "us")
    BY <1>3, ZenonT(40) DEF CleanupDelete, SameObject, IdsIdentify
  <2> HIDE DEF c
  <2>3. CASE Deleted(c) /\ res[c].src = "us"
    <3>1. \A j \in Keys : j # c => res'[j] = res[j] BY <2>1, <2>3, DeletedFacts
    <3> QED BY <2>1, <2>3, <3>1, DeletedSame
  <2> QED BY <1>1, <2>2, <2>3, SMTT(30)
<1>4. CASE ReadService \/ desiredPublications \/ AddFinalizer \/ RemoveFinalizer \/ CleanupList
           \/ (\E k \in Keys : CleanupGet(k)) \/ CleanupConfirm \/ (\E g \in Gateways : NextPublication(g))
  BY <1>1, <1>4, ZenonT(40) DEF ReadService, desiredPublications, AddFinalizer, RemoveFinalizer, CleanupList, CleanupGet,
                    CleanupConfirm, NextPublication, cluster
<1>5. \/ PublishStage \/ CleanupDelete
      \/ ReadService \/ desiredPublications \/ AddFinalizer \/ RemoveFinalizer \/ CleanupList
           \/ (\E k \in Keys : CleanupGet(k)) \/ CleanupConfirm \/ (\E g \in Gateways : NextPublication(g))
  BY Zenon DEF Reconcile, PublishStage
<1> QED BY <1>2, <1>3, <1>4, <1>5, Zenon

\* Without in-place edits no step changes whose an object is.
LEMMA NextSame ==
    ASSUME ~AllowRelabel, TypeOK, IdsIdentify, Next
    PROVE  \A j \in Keys : SameOrFresh(j)
<1> USE DEF TypeOK
<1>1. CASE UNCHANGED res BY <1>1, SMTT(30) DEF SameOrFresh
<1>2. ASSUME NEW k \in Keys, AdminReplace(k) \/ AdminDelete(k) \/ FinishDeletion(k) \/ GarbageCollect(k)
      PROVE  \A j \in Keys : SameOrFresh(j)
  <2>1. CASE res' = [res EXCEPT ![k] = NoObject]
    BY <2>1, SMTT(30) DEF ClusterTypeOK, NoObject, SameOrFresh
  <2>2. ASSUME NEW id \in FreshIds(k),
               res' = [res EXCEPT ![k] = [src |-> "other", id |-> id, term |-> FALSE, val |-> "plain"]]
        PROVE  \A j \in Keys : SameOrFresh(j)
    BY <2>2 DEF ClusterTypeOK, SameOrFresh
  <2> QED BY <1>2, <2>1, <2>2, SMTT(30) DEF AdminReplace, AdminDelete, FinishDeletion, GarbageCollect
<1>3. CASE Deliver BY <1>1, <1>3 DEF Deliver, SyncService, SyncResources
<1>4. CASE ApiError \/ Restart BY <1>1, <1>4, Zenon DEF ApiError, Restart, cluster
<1>5. CASE Environment
  BY <1>1, <1>2, <1>5 DEF Environment, SvcCreate, SvcDelete, OtherFinalizer, PairChange, AdminRelabel
<1> QED BY <1>3, <1>4, <1>5, ReconcileSame, SMTT(30) DEF Next

\* UIDs keep telling whose object it is.
LEMMA IdsIdentifyNext ==
    ASSUME ~AllowRelabel, TypeOK, IdsIdentify, Next
    PROVE  IdsIdentify'
<1> USE DEF TypeOK
<1>1. \A k \in Keys : SameOrFresh(k) BY NextSame, SMTT(30)
<1>2. \A k \in Keys : FreshIds(k) \subseteq 1..MaxIds /\ \A i \in FreshIds(k) : i \notin {res[k].id, cache[k].id, cur.id, 0}
  BY SMTT(30) DEF FreshIds
<1>3. \A k \in Keys : cache'[k] = cache[k] \/ (cache'[k] = res[k] /\ res' = res)
  <2>1. CASE UNCHANGED cache BY <2>1
  <2>2. CASE Restart BY <2>2, SMTT(30) DEF Restart
  <2>3. CASE Deliver BY <2>3 DEF Deliver, SyncService, SyncResources
  <2>4. CASE Environment
    BY <2>1, <2>4 DEF Environment, SvcCreate, SvcDelete, OtherFinalizer, PairChange, AdminReplace, AdminDelete,
                      AdminRelabel, FinishDeletion, GarbageCollect
  <2>5. CASE PublishStage BY <2>5, StageFacts, ZenonT(40) DEF stageVars
  <2>6. CASE ReadService \/ desiredPublications \/ AddFinalizer \/ RemoveFinalizer \/ CleanupList
           \/ (\E k \in Keys : CleanupGet(k)) \/ CleanupDelete \/ CleanupConfirm \/ (\E g \in Gateways : NextPublication(g))
    BY <2>1, <2>6, ZenonT(40) DEF ReadService, desiredPublications, AddFinalizer, RemoveFinalizer, CleanupList, CleanupGet,
                      CleanupDelete, CleanupConfirm, NextPublication, cluster
  <2>7. CASE ApiError BY <2>1, <2>7, Zenon DEF ApiError, cluster
  <2> QED BY <2>2, <2>3, <2>4, <2>5, <2>6, <2>7, SMTT(30) DEF Next, Reconcile, PublishStage
<1>4. pc' = "delete" => \/ pc = "delete" /\ cur' = cur
                        \/ \E k \in Keys : cur' = [key |-> k, id |-> res[k].id] /\ res[k].src = "us" /\ res' = res
  <2>1. CASE UNCHANGED <<pc, cur>> BY <2>1
  <2>2. CASE Deliver \/ Environment BY <2>1, <2>2, EnvironmentFacts, SMTT(30) DEF worker
  <2>3. CASE PublishStage BY <2>3, StageFacts, SMTT(30)
  <2>4. ASSUME NEW k \in Keys, CleanupGet(k), pc' = "delete"
        PROVE  cur' = [key |-> k, id |-> res[k].id] /\ res[k].src = "us" /\ res' = res
    BY <2>4, Zenon DEF CleanupGet, gridOwned, cluster
  <2>5. CASE ReadService \/ desiredPublications \/ AddFinalizer \/ RemoveFinalizer \/ CleanupList \/ CleanupDelete
             \/ CleanupConfirm \/ (\E g \in Gateways : NextPublication(g)) \/ Restart
    BY <2>5 DEF ReadService, desiredPublications, AddFinalizer, RemoveFinalizer, CleanupList, CleanupDelete,
                CleanupConfirm, NextPublication, Restart, Return
  <2>6. CASE ApiError BY <2>6, ZenonT(40) DEF ApiError, Return, StageFailed
  <2> QED BY <2>2, <2>3, <2>4, <2>5, <2>6, ZenonT(40) DEF Next, Reconcile, PublishStage
<1>5. \A k \in Keys : \A o \in {res'[k], cache'[k]} : (o.src = "none") <=> (o.id = 0)
  <2> TAKE k \in Keys
  <2>1. (res'[k].src = "none") <=> (res'[k].id = 0)
    BY <1>1, <1>2, SMTT(30) DEF IdsIdentify, SameOrFresh
  <2>2. (cache'[k].src = "none") <=> (cache'[k].id = 0)
    BY <1>3, SMTT(30) DEF IdsIdentify
  <2> QED BY <2>1, <2>2
<1>6. \A k \in Keys : cache'[k].src = "us" /\ cache'[k].id = res'[k].id => res'[k].src = "us"
  BY <1>1, <1>2, <1>3, <1>5, SMTT(30) DEF IdsIdentify, SameOrFresh
<1>7. ASSUME pc' = "delete"
      PROVE  cur'.id # 0 /\ (cur'.id = res'[cur'.key].id => res'[cur'.key].src = "us")
  <2>1. CASE pc = "delete" /\ cur' = cur
    <3>1. cur.key \in Keys BY <2>1 DEF StageTypeOK, WorkerTypeOK
    <3> QED BY <1>1, <1>2, <2>1, <3>1, SMTT(30) DEF IdsIdentify, SameOrFresh
  <2>2. ASSUME NEW k \in Keys, cur' = [key |-> k, id |-> res[k].id], res[k].src = "us", res' = res
        PROVE  cur'.id # 0 /\ (cur'.id = res'[cur'.key].id => res'[cur'.key].src = "us")
    BY <2>2 DEF IdsIdentify
  <2> QED BY <1>4, <1>7, <2>1, <2>2, Zenon
<1> QED BY <1>5, <1>6, <1>7 DEF IdsIdentify

\* When nobody edits source annotations in place, no step of a reconcile
\* overwrites or deletes a resource whose annotations name another source,
\* even one put there between the reconcile's read and its write.
THEOREM ForeignResourcesUntouched == ASSUME ~AllowRelabel PROVE Spec => ForeignUntouched
<1> DEFINE A == Reconcile => \A k \in Keys : res[k].src = "other" => res'[k] = res[k]
<1>1. Init => IdsIdentify BY DEF Init, IdsIdentify, NoObject
<1>2. ASSUME TypeOK, IdsIdentify, [Next]_vars PROVE IdsIdentify'
  <2>1. CASE Next BY <1>2, <2>1, IdsIdentifyNext
  <2>2. CASE UNCHANGED vars BY <1>2, <2>2, Zenon DEF vars, worker, IdsIdentify
  <2> QED BY <1>2, <2>1, <2>2
<1>3. ASSUME TypeOK, IdsIdentify, [Next]_vars PROVE [A]_vars
  BY <1>3, ReconcileSame
<1> HIDE DEF A
<1>4. Spec => [][A]_vars BY <1>1, <1>2, <1>3, TypeCorrect, PTL DEF Spec
<1> QED BY <1>4, SMTT(30) DEF A, ForeignUntouched
=============================================================================
