----------------------------- MODULE RayTlsProofs -----------------------------
(***************************************************************************)
(* Proofs about RayTls, for any number of ServingRuntimes, Pods and CAs:   *)
(* at rest ray-tls, its CA and the RoleBinding are what the ServingRuntimes *)
(* of now ask for, and no Pod's certificate is lost to another Pod's.      *)
(***************************************************************************)
EXTENDS RayTls, TLAPS

multi == existMultiNodeServingRuntimeInNs
Busy == worker.at # "idle"

\* A cache that is not behind shows what there is.
CacheInv ==
  /\ seen.caFresh => seen.ca = ca
  /\ seen.tlsFresh => seen.tls = tls

\* A pass that writes for multi-node ServingRuntimes that are gone since has
\* another behind it; and only the passes of the CA's Secret synchronise.
PassInv ==
  /\ Busy /\ worker.multi /\ ~multi => "runtime" \in queue
  /\ worker.at = "sync" => worker.req = "ca"
  /\ worker.at = "default" => worker.req # "ca"
  /\ Busy /\ worker.multi => worker.req \in {"runtime", "tls"}

\* The requests that look at ray-tls, and the passes that leave it with the CA
\* of now.
TlsQueued == {"runtime", "tls"} \cap queue # {}
CaPass == Busy /\ worker.req = "ca" /\ (worker.at = "sync" => worker.ca = ca /\ worker.todo # {})
TlsPass == Busy /\ worker.req \in {"runtime", "tls"} /\ worker.multi

\* A CA that is missing will be made.
CAInv == seen.caFresh /\ ca = 0 => queue # {} \/ worker.at \in {"binding", "ca", "recreate"}

\* ray-tls that is missing will be made.
TlsInv == multi /\ seen.tlsFresh /\ tls = Absent => TlsQueued \/ TlsPass

\* ray-tls with another CA's certificate will be given the one of now.
SharedInv ==
  multi /\ seen.tlsFresh /\ seen.caFresh /\ tls # Absent /\ ca # 0 /\ tls.ca # ca
    => TlsQueued \/ "ca" \in queue \/ CaPass \/ (TlsPass /\ (worker.at = "default" => worker.ca = ca))

\* ray-tls that no ServingRuntime needs will be removed.
RemovalInv ==
  ~unnoticed.leaked /\ ~multi /\ tls # Absent
    => "runtime" \in queue \/ (Busy /\ worker.req = "runtime" /\ ~worker.multi)

\* A RoleBinding that is not as it should be will be looked at.
BindingInv == binding # "ok" => "monitoring" \in queue \/ (worker.req = "monitoring" /\ worker.at = "binding")

Inv == CacheInv /\ PassInv /\ CAInv /\ TlsInv /\ SharedInv /\ RemovalInv /\ BindingInv

---------------------------------------------------------------------------
(* Types. *)

LEMMA IdleTypes == Idle \in Workers /\ Idle.at = "idle" /\ NoCerts \in [IPs -> CAs \cup {0}]
BY DEF Idle, Workers, NoCerts

LEMMA StoreCAEffect ==
    ASSUME seen \in Caches, NEW new, storeCA(new)
    PROVE /\ ca' = new
          /\ seen' \in Caches /\ seen'.ca = seen.ca /\ seen'.tls = seen.tls /\ seen'.tlsFresh = seen.tlsFresh
          /\ seen'.caFresh => seen.caFresh
          /\ seen'.caFresh => ca = new
<1> DEFINE b == seen.caFresh /\ ca = new
<1>1. b \in BOOLEAN OBVIOUS
<1>2. seen' = [seen EXCEPT !.caFresh = b] BY DEF storeCA
<1>3. seen'.caFresh = b BY <1>2 DEF Caches
<1>4. (seen'.caFresh => seen.caFresh) /\ (seen'.caFresh => ca = new) BY Zenon, <1>3
<1> HIDE DEF b
<1>5. seen' \in Caches /\ seen'.ca = seen.ca /\ seen'.tls = seen.tls /\ seen'.tlsFresh = seen.tlsFresh
  BY <1>1, <1>2 DEF Caches
<1> QED BY <1>4, <1>5 DEF storeCA

LEMMA StoreTLSEffect ==
    ASSUME seen \in Caches, NEW new, storeTLS(new)
    PROVE /\ tls' = new
          /\ seen' \in Caches /\ seen'.ca = seen.ca /\ seen'.tls = seen.tls /\ seen'.caFresh = seen.caFresh
          /\ seen'.tlsFresh => seen.tlsFresh
          /\ seen'.tlsFresh => tls = new
<1> DEFINE b == seen.tlsFresh /\ tls = new
<1>1. b \in BOOLEAN OBVIOUS
<1>2. seen' = [seen EXCEPT !.tlsFresh = b] BY DEF storeTLS
<1>3. seen'.tlsFresh = b BY <1>2 DEF Caches
<1>4. (seen'.tlsFresh => seen.tlsFresh) /\ (seen'.tlsFresh => tls = new) BY Zenon, <1>3
<1> HIDE DEF b
<1>5. seen' \in Caches /\ seen'.ca = seen.ca /\ seen'.tls = seen.tls /\ seen'.caFresh = seen.caFresh
  BY <1>1, <1>2 DEF Caches
<1> QED BY <1>4, <1>5 DEF storeTLS

\* The three ways a step of a pass ends.
LEMMA GotoEffect ==
    ASSUME worker \in Workers, NEW step \in {"read", "recreate", "ca"}, worker' = [worker EXCEPT !.at = step]
    PROVE /\ worker' \in Workers /\ worker'.at = step /\ worker'.req = worker.req
          /\ worker'.multi = worker.multi /\ worker'.ca = worker.ca
BY DEF Workers

LEMMA FailEffect ==
    ASSUME TypeOK, Busy, fail
    PROVE /\ worker' \in Workers /\ worker'.at = "idle"
          /\ queue' = queue \cup {worker.req} /\ queue' \subseteq Requests /\ worker.req \in queue'
BY IdleTypes DEF fail, Busy, TypeOK, Workers

LEMMA CreateEffect ==
    ASSUME TypeOK, createCA
    PROVE /\ ca' \in CAs /\ ca' # 0 /\ due' \subseteq CAs
          /\ seen' \in Caches /\ seen'.ca = seen.ca /\ seen'.tls = seen.tls /\ seen'.tlsFresh = seen.tlsFresh
          /\ seen'.caFresh => seen.caFresh
          /\ seen'.caFresh => ca = ca'
<1>1. PICK n \in CAs : storeCA(n) /\ due' = due \ {n} BY DEF createCA
<1>2. n # 0 BY BoundAssumption DEF CAs
<1> QED BY <1>1, <1>2, StoreCAEffect DEF TypeOK

LEMMA WipeType ==
    ASSUME unnoticed \in [leaked : BOOLEAN, wiped : SUBSET Pods], NEW ps \in SUBSET Pods, wipe(ps)
    PROVE /\ unnoticed' \in [leaked : BOOLEAN, wiped : SUBSET Pods]
          /\ unnoticed'.leaked = unnoticed.leaked
          /\ unnoticed'.wiped = unnoticed.wiped \cup ps
BY DEF wipe

LEMMA PodSets == running \in SUBSET Pods /\ \A n : outlived(n) \in SUBSET Pods
BY Zenon DEF running, outlived

LEMMA RuntimeControllerTypes == ASSUME TypeOK, CacheInv, RuntimeController PROVE TypeOK'
<1> USE DEF secrets, cluster
<1>w. worker \in Workers /\ queue \subseteq Requests BY DEF TypeOK
<1>1. ASSUME NEW req \in queue, Reconcile(req) PROVE TypeOK'
  <2> DEFINE at == IF req = "monitoring" THEN "binding" ELSE "ca"
             m == req \in {"runtime", "tls"} /\ existMultiNodeServingRuntimeInNs
  <2>1. worker' = [req |-> req, at |-> at, multi |-> m, ca |-> 0, todo |-> {}] BY Zenon, <1>1 DEF Reconcile, Idle
  <2>2. at \in {"binding", "ca"} /\ m \in BOOLEAN /\ req \in Requests BY <1>w
  <2> HIDE DEF at, m
  <2>3. worker' \in Workers /\ worker'.req # "none" BY <2>1, <2>2 DEF Workers, Requests
  <2> QED BY <1>1, <2>3 DEF Reconcile, TypeOK
<1>2. CASE reconcileRoleBinding
  <2>1. Busy BY <1>2 DEF reconcileRoleBinding, Busy
  <2>2. binding' \in {"none", "ok", "edited", "roleRef"} BY <1>2 DEF reconcileRoleBinding, createRBIfDNE, TypeOK
  <2>3. CASE fail BY <1>2, <2>1, <2>2, <2>3, FailEffect DEF reconcileRoleBinding, TypeOK
  <2>4. CASE /\ worker' = [worker EXCEPT !.at = "ca"]
             /\ queue' = IF binding' # binding THEN queue \cup {"monitoring"} ELSE queue
    <3>1. queue' \subseteq Requests BY <1>w, <2>4 DEF Requests
    <3>2. worker' \in Workers /\ worker'.req = worker.req BY <1>w, <2>4, GotoEffect
    <3> QED BY <1>2, <2>1, <2>2, <3>1, <3>2 DEF reconcileRoleBinding, TypeOK, Busy
  <2> QED BY <1>2, <2>3, <2>4 DEF reconcileRoleBinding
<1>3. CASE generateCertSecret
  <2>1. Busy BY <1>3 DEF generateCertSecret, Busy
  <2>2. CASE createCA /\ goto("read")
    <3>1. worker' \in Workers /\ worker'.req = worker.req /\ queue' = queue BY <1>w, <2>2, GotoEffect DEF goto
    <3> QED BY <1>3, <2>1, <2>2, <3>1, CreateEffect DEF generateCertSecret, TypeOK, Busy
  <2>3. CASE storeCA(0) /\ goto("recreate") /\ UNCHANGED due
    <3>1. worker' \in Workers /\ worker'.req = worker.req /\ queue' = queue BY <1>w, <2>3, GotoEffect DEF goto
    <3>2. ca' = 0 /\ seen' \in Caches BY <2>3, StoreCAEffect DEF TypeOK
    <3> QED BY <1>3, <2>1, <2>3, <3>1, <3>2 DEF generateCertSecret, TypeOK, Busy
  <2>4. CASE fail /\ UNCHANGED <<ca, due, seen>>
    BY <1>3, <2>1, <2>4, FailEffect DEF generateCertSecret, TypeOK
  <2>5. CASE goto("read") /\ UNCHANGED <<ca, due, seen>>
    <3>1. worker' \in Workers /\ worker'.req = worker.req /\ queue' = queue BY <1>w, <2>5, GotoEffect DEF goto
    <3> QED BY <1>3, <2>1, <2>5, <3>1 DEF generateCertSecret, TypeOK, Busy
  <2> QED BY <1>3, <2>2, <2>3, <2>4, <2>5 DEF generateCertSecret
<1>4. CASE recreateSecret
  <2>1. Busy /\ createCA BY <1>4 DEF recreateSecret, Busy
  <2>2. worker' \in Workers /\ worker'.req = worker.req /\ queue' = queue BY <1>4, <1>w, GotoEffect DEF recreateSecret, goto
  <2> QED BY <1>4, <2>1, <2>2, CreateEffect DEF recreateSecret, TypeOK, Busy
<1>5. CASE GetCACertSecret
  <2>1. Busy BY <1>5 DEF GetCACertSecret, Busy
  <2>2. CASE fail BY <1>5, <2>1, <2>2, FailEffect DEF GetCACertSecret, TypeOK
  <2>3. CASE ~fail
    <3> DEFINE at == IF worker.req = "ca" THEN "sync" ELSE "default"
               todo == IF worker.req = "ca" THEN {r \in Runtimes : runtime[r] = "multi"} ELSE {}
    <3>1. worker' = [worker EXCEPT !.ca = seen.ca, !.at = at, !.todo = todo] /\ queue' = queue
      BY <1>5, <2>3 DEF GetCACertSecret
    <3>2. at \in {"sync", "default"} /\ todo \in SUBSET Runtimes /\ seen.ca \in CAs \cup {0} BY DEF TypeOK, Caches
    <3> HIDE DEF at, todo
    <3>3. worker' \in Workers /\ worker'.req = worker.req BY Zenon, <1>w, <3>1, <3>2 DEF Workers
    <3> QED BY <1>5, <2>1, <3>1, <3>3 DEF GetCACertSecret, TypeOK, Busy
  <2> QED BY <2>2, <2>3
<1>6. CASE SyncRayTLS
  <2>1. Busy BY <1>6 DEF SyncRayTLS, Busy
  <2>2. ASSUME NEW r, worker' = [worker EXCEPT !.todo = @ \ {r}]
        PROVE worker' \in Workers /\ worker'.req = worker.req /\ worker'.at = worker.at
    BY <1>w, <2>2 DEF Workers
  <2>3. CASE done /\ UNCHANGED <<tls, seen, unnoticed>>
    BY <1>6, <2>3, IdleTypes DEF SyncRayTLS, TypeOK, done
  <2>4. ASSUME NEW r, worker' = [worker EXCEPT !.todo = @ \ {r}], UNCHANGED <<tls, seen, queue, unnoticed>> PROVE TypeOK'
    BY Zenon, <1>6, <2>1, <2>2, <2>4 DEF SyncRayTLS, TypeOK, Busy
  <2>5. ASSUME NEW r, storeTLS(synced(tls, worker.ca)), wipe(running), worker' = [worker EXCEPT !.todo = @ \ {r}], UNCHANGED queue
        PROVE TypeOK'
    <3>1. synced(tls, worker.ca) \in TlsRecord BY <1>w, IdleTypes DEF synced, TlsRecord, Workers
    <3>2. tls' \in TlsRecord /\ seen' \in Caches BY <2>5, <3>1, StoreTLSEffect DEF TypeOK
    <3>3. unnoticed' \in [leaked : BOOLEAN, wiped : SUBSET Pods] BY Zenon, <2>5, WipeType, PodSets DEF TypeOK
    <3> QED BY Zenon, <1>6, <2>1, <2>2, <2>5, <3>2, <3>3 DEF SyncRayTLS, TypeOK, Busy
  <2>6. CASE fail /\ UNCHANGED <<tls, seen, unnoticed>>
    BY <1>6, <2>1, <2>6, FailEffect DEF SyncRayTLS, TypeOK
  <2> QED BY <1>6, <2>3, <2>4, <2>5, <2>6 DEF SyncRayTLS
<1>7. CASE reconcileDefaultRayServerCertSecretInUserNS
  <2>1. Busy BY <1>7 DEF reconcileDefaultRayServerCertSecretInUserNS, Busy
  <2>2. UNCHANGED <<ca, due, cluster, pods, pworker, changes>> BY <1>7 DEF reconcileDefaultRayServerCertSecretInUserNS
  <2>3. worker' \in Workers /\ queue' \subseteq Requests /\ worker'.at = "idle"
    <3>1. done \/ fail BY <1>7 DEF reconcileDefaultRayServerCertSecretInUserNS
    <3>2. CASE done BY <1>w, <3>2, IdleTypes DEF done
    <3> QED BY <2>1, <3>1, <3>2, FailEffect
  <2>4. unnoticed' \in [leaked : BOOLEAN, wiped : SUBSET Pods]
    <3>1. UNCHANGED unnoticed \/ wipe(running) \/ wipe(outlived(worker.ca))
      BY Zenon, <1>7 DEF reconcileDefaultRayServerCertSecretInUserNS
    <3> QED BY Zenon, <3>1, WipeType, PodSets DEF TypeOK
  <2>5. tls' \in TlsRecord \cup {Absent} /\ seen' \in Caches
    <3>1. [ca |-> worker.ca, certs |-> NoCerts] \in TlsRecord BY <1>w, IdleTypes DEF TlsRecord, Workers
    <3>2. tls # Absent => [tls EXCEPT !.ca = worker.ca] \in TlsRecord BY <1>w DEF TypeOK, TlsRecord, Workers
    <3>3. seen.tls # Absent /\ seen.tlsFresh => tls # Absent BY DEF CacheInv
    <3>4. \/ UNCHANGED <<tls, seen>>
          \/ storeTLS([ca |-> worker.ca, certs |-> NoCerts])
          \/ tls # Absent /\ storeTLS([tls EXCEPT !.ca = worker.ca])
          \/ storeTLS(Absent)
      BY <1>7, <3>3, Zenon DEF reconcileDefaultRayServerCertSecretInUserNS
    <3> QED BY <3>1, <3>2, <3>4, StoreTLSEffect DEF TypeOK
  <2> QED BY <2>2, <2>3, <2>4, <2>5 DEF TypeOK
<1> QED BY <1>1, <1>2, <1>3, <1>4, <1>5, <1>6, <1>7 DEF RuntimeController

LEMMA PodControllerTypes == ASSUME TypeOK, CacheInv, PodController PROVE TypeOK'
<1> USE DEF secrets, cluster
<1> DEFINE PWorkers == [pod : Pods \cup {Absent}, ip : IPs \cup {0}, ca : CAs \cup {0}]
<1>i. PIdle \in PWorkers BY DEF PIdle
<1>1. ASSUME NEW p \in Pods, ReconcilePod(p) PROVE TypeOK'
  <2>1. [pod |-> p, ip |-> pod[p], ca |-> seen.ca] \in PWorkers BY DEF TypeOK, Caches
  <2>2. pworker' \in PWorkers /\ (pworker' # PIdle => pworker'.pod \in Pods)
    BY <1>1, <1>i, <2>1 DEF ReconcilePod, TypeOK
  <2>3. pods' \subseteq Pods BY <1>1 DEF ReconcilePod, TypeOK
  <2> QED BY <1>1, <2>2, <2>3 DEF ReconcilePod, TypeOK
<1>2. CASE updateSecret
  <2> DEFINE certs == removeRedundantCertsFromSecretData(seen.tls.certs)
             new == [tls EXCEPT !.certs = [certs EXCEPT ![pworker.ip] = pworker.ca]]
  <2>1. pworker # PIdle /\ pworker.pod \in Pods /\ pworker \in PWorkers BY <1>2 DEF updateSecret, TypeOK
  <2>2. CASE seen.tls # Absent /\ seen.tlsFresh
    <3>1. tls \in TlsRecord /\ seen.tls = tls BY <2>2 DEF CacheInv, TypeOK
    <3>2. certs \in [IPs -> CAs \cup {0}] BY <3>1 DEF removeRedundantCertsFromSecretData, TlsRecord
    <3> HIDE DEF certs
    <3>3. new \in TlsRecord BY <2>1, <3>1, <3>2 DEF TlsRecord
    <3>4. storeTLS(new) /\ UNCHANGED pods BY <1>2, <2>2 DEF updateSecret, certs
    <3> HIDE DEF new
    <3>5. tls' \in TlsRecord /\ seen' \in Caches BY <3>3, <3>4, StoreTLSEffect DEF TypeOK
    <3>6. unnoticed' \in [leaked : BOOLEAN, wiped : SUBSET Pods]
      BY <1>2, <2>1, <2>2 DEF updateSecret, TypeOK
    <3> QED BY <1>2, <1>i, <3>4, <3>5, <3>6 DEF updateSecret, TypeOK
  <2>3. CASE ~(seen.tls # Absent /\ seen.tlsFresh)
    BY <1>2, <1>i, <2>1, <2>3 DEF updateSecret, TypeOK
  <2> QED BY <2>2, <2>3
<1> QED BY <1>1, <1>2 DEF PodController

LEMMA OthersTypes == ASSUME TypeOK, DeliverCA \/ DeliverTLS \/ Environment PROVE TypeOK'
<1> USE DEF secrets, cluster
<1> DEFINE PWorkers == [pod : Pods \cup {Absent}, ip : IPs \cup {0}, ca : CAs \cup {0}]
<1>i. PIdle \in PWorkers BY DEF PIdle
<1>c. ASSUME Change PROVE changes' \in 0..MaxChanges BY <1>c, BoundAssumption DEF Change, TypeOK
<1>1. CASE DeliverCA
  <2>1. seen' \in Caches /\ queue' \subseteq Requests BY Zenon, <1>1 DEF DeliverCA, TypeOK, Caches, Requests
  <2> QED BY <1>1, <2>1 DEF DeliverCA, TypeOK
<1>2. CASE DeliverTLS
  <2>1. seen' \in Caches /\ queue' \subseteq Requests BY Zenon, <1>2 DEF DeliverTLS, TypeOK, Caches, Requests
  <2> QED BY <1>2, <2>1 DEF DeliverTLS, TypeOK
<1>3. ASSUME NEW r \in Runtimes, NEW new \in {"none", "single", "multi"}, ChangeRuntime(r, new) PROVE TypeOK'
  <2>1. queue' \subseteq Requests BY <1>3 DEF ChangeRuntime, TypeOK, Requests
  <2> QED BY <1>3, <1>c, <2>1 DEF ChangeRuntime, TypeOK
<1>4. ASSUME NEW p \in Pods, NEW i \in IPs, StartPod(p, i) PROVE TypeOK'
  BY <1>4, <1>c DEF StartPod, TypeOK
<1>5. ASSUME NEW p \in Pods, DeletePod(p) PROVE TypeOK'
  BY <1>5, <1>c DEF DeletePod, TypeOK
<1>6. CASE Age
  BY <1>6, <1>c DEF Age, TypeOK
<1>7. CASE DeleteSecrets
  <2>1. unnoticed' \in [leaked : BOOLEAN, wiped : SUBSET Pods]
    BY Zenon, <1>7, WipeType, PodSets DEF DeleteSecrets, TypeOK
  <2>2. ca' \in CAs \cup {0} /\ tls' \in TlsRecord \cup {Absent} /\ seen' \in Caches
    BY <1>7, StoreCAEffect, StoreTLSEffect DEF DeleteSecrets, TypeOK
  <2> QED BY <1>7, <1>c, <2>1, <2>2 DEF DeleteSecrets, TypeOK
<1>8. ASSUME NEW new \in {"none", "edited", "roleRef"}, ChangeBinding(new) PROVE TypeOK'
  <2>1. queue' \subseteq Requests BY <1>8 DEF ChangeBinding, TypeOK, Requests
  <2> QED BY <1>8, <1>c, <2>1 DEF ChangeBinding, TypeOK
<1>e. existing \subseteq Requests BY DEF existing, Requests
<1>9. CASE Resync
  BY <1>9, <1>c, <1>e DEF Resync, TypeOK
<1>10. CASE CallFails
  BY <1>10, <1>c, FailEffect DEF CallFails, TypeOK, Busy
<1>11. CASE PodCallFails
  BY <1>11, <1>c, <1>i DEF PodCallFails, TypeOK
<1>12. CASE Restart
  <2>1. seen' \in Caches BY <1>12 DEF Restart, TypeOK, Caches
  <2>2. unnoticed' \in [leaked : BOOLEAN, wiped : SUBSET Pods]
    <3> DEFINE b == unnoticed.leaked \/ (tls # Absent /\ \A r \in Runtimes : runtime[r] = "none")
    <3>1. b \in BOOLEAN OBVIOUS
    <3>2. unnoticed' = [unnoticed EXCEPT !.leaked = b] BY <1>12 DEF Restart
    <3> HIDE DEF b
    <3> QED BY <3>1, <3>2 DEF TypeOK
  <2>3. pods' \subseteq Pods BY <1>12 DEF Restart
  <2> QED BY <1>12, <1>c, <1>e, <1>i, <2>1, <2>2, <2>3, IdleTypes DEF Restart, TypeOK
<1> QED BY <1>1, <1>2, <1>3, <1>4, <1>5, <1>6, <1>7, <1>8, <1>9, <1>10, <1>11, <1>12 DEF Environment

LEMMA InitTypes == Init => TypeOK /\ CacheInv
<1> SUFFICES ASSUME Init PROVE TypeOK /\ CacheInv OBVIOUS
<1>1. seen \in Caches /\ CacheInv BY DEF Init, Caches, CacheInv
<1>2. queue \subseteq Requests BY DEF Init, Requests
<1>3. worker \in Workers /\ worker.at = "idle" BY IdleTypes DEF Init
<1>4. pworker \in [pod : Pods \cup {Absent}, ip : IPs \cup {0}, ca : CAs \cup {0}] BY DEF Init, PIdle
<1>5. changes \in 0..MaxChanges BY BoundAssumption DEF Init
<1> QED BY <1>1, <1>2, <1>3, <1>4, <1>5 DEF Init, TypeOK

LEMMA CacheStep == ASSUME TypeOK, CacheInv, [Next]_vars PROVE CacheInv'
<1> USE DEF secrets, cluster
<1>s. seen \in Caches BY DEF TypeOK
<1>1. ASSUME NEW new, storeCA(new), UNCHANGED tls PROVE CacheInv'
  BY <1>1, <1>s, StoreCAEffect DEF CacheInv
<1>2. ASSUME NEW new, storeTLS(new), UNCHANGED ca PROVE CacheInv'
  BY <1>2, <1>s, StoreTLSEffect DEF CacheInv
<1>3. CASE UNCHANGED <<ca, tls, seen>> BY <1>3 DEF CacheInv
<1>4. CASE RuntimeController
  BY Zenon, <1>1, <1>2, <1>3, <1>4
  DEF RuntimeController, Reconcile, reconcileRoleBinding, generateCertSecret, createCA, recreateSecret, GetCACertSecret,
      SyncRayTLS, reconcileDefaultRayServerCertSecretInUserNS
<1>5. CASE PodController
  BY <1>2, <1>3, <1>5 DEF PodController, updateSecret, ReconcilePod
<1>6. CASE DeliverCA \/ DeliverTLS
  BY Zenon, <1>6, <1>s DEF DeliverCA, DeliverTLS, CacheInv, Caches
<1>7. CASE Environment
  <2>1. CASE Restart BY <2>1 DEF Restart, CacheInv
  <2> QED
    BY <1>1, <1>2, <1>3, <1>7, <2>1
    DEF Environment, ChangeRuntime, StartPod, DeletePod, Age, DeleteSecrets, ChangeBinding, Resync, CallFails, PodCallFails
<1>8. CASE UNCHANGED vars BY <1>3, <1>8 DEF vars
<1> QED BY <1>4, <1>5, <1>6, <1>7, <1>8 DEF Next

\* Every variable keeps its type, and a cache that is not behind is right.
THEOREM TypeCorrect == Spec => [](TypeOK /\ CacheInv)
<1>1. ASSUME TypeOK, CacheInv, [Next]_vars PROVE TypeOK' /\ CacheInv'
  <2>1. CASE UNCHANGED vars
    <3>1. TypeOK' BY <1>1, <2>1 DEF vars, TypeOK
    <3> QED BY <1>1, <3>1, CacheStep
  <2> QED BY <1>1, <2>1, CacheStep, RuntimeControllerTypes, PodControllerTypes, OthersTypes DEF Next
<1> QED BY <1>1, InitTypes, PTL DEF Spec

---------------------------------------------------------------------------
(* Certificates of other Pods. *)

LEMMA Counted == ASSUME TypeOK, Environment PROVE changes' # changes
<1>1. Change
  BY DEF Environment, ChangeRuntime, StartPod, DeletePod, Age, DeleteSecrets, ChangeBinding, Resync, CallFails, PodCallFails, Restart
<1>2. changes \in Nat BY BoundAssumption DEF TypeOK
<1> QED BY <1>1, <1>2 DEF Change

\* The Pod controller's write, which replaces the data of ray-tls, keeps the
\* certificate of every other running Pod, whatever was written in between.
THEOREM OtherCertificatesKept == Spec => OthersKept
<1> DEFINE A ==
      pworker # PIdle /\ pworker' = PIdle /\ changes' = changes
        => \A p \in running : pod[p] # pworker.ip /\ tls # Absent => tls'.certs[pod[p]] = tls.certs[pod[p]]
<1>1. ASSUME TypeOK, CacheInv, [Next]_vars PROVE [A]_vars
  <2> SUFFICES ASSUME Next, pworker # PIdle, pworker' = PIdle, changes' = changes,
                      NEW p \in running, pod[p] # pworker.ip, tls # Absent
               PROVE tls'.certs[pod[p]] = tls.certs[pod[p]]
    BY <1>1
  <2>1. CASE RuntimeController
    BY Zenon, <2>1
    DEF RuntimeController, Reconcile, reconcileRoleBinding, generateCertSecret, recreateSecret, GetCACertSecret,
        SyncRayTLS, reconcileDefaultRayServerCertSecretInUserNS
  <2>2. CASE DeliverCA \/ DeliverTLS BY <2>2 DEF DeliverCA, DeliverTLS
  <2>3. CASE PodController
    <3>1. updateSecret BY <2>3 DEF PodController, ReconcilePod
    <3>2. CASE ~(seen.tls # Absent /\ seen.tlsFresh) BY <3>1, <3>2 DEF updateSecret
    <3>3. CASE seen.tls # Absent /\ seen.tlsFresh
      <4> DEFINE certs == removeRedundantCertsFromSecretData(seen.tls.certs)
      <4>1. seen.tls = tls /\ tls \in TlsRecord BY <1>1, <3>3 DEF CacheInv, TypeOK
      <4>2. p \in Pods /\ pod[p] \in IPs BY <1>1 DEF running, TypeOK
      <4>3. certs \in [IPs -> CAs \cup {0}] /\ certs[pod[p]] = tls.certs[pod[p]]
        BY <4>1, <4>2 DEF removeRedundantCertsFromSecretData, TlsRecord
      <4>4. tls' = [tls EXCEPT !.certs = [certs EXCEPT ![pworker.ip] = pworker.ca]]
        BY <3>1, <3>3 DEF updateSecret, storeTLS
      <4> HIDE DEF certs
      <4> QED BY <4>1, <4>2, <4>3, <4>4 DEF TlsRecord
    <3> QED BY <3>2, <3>3
  <2> QED BY <1>1, <2>1, <2>2, <2>3, Counted DEF Next
<1> QED BY <1>1, TypeCorrect, PTL DEF Spec, OthersKept

---------------------------------------------------------------------------
(* What the ServingRuntime controller keeps.  Each action is summed up by what
   the invariant looks at. *)

SameSecrets == UNCHANGED <<ca, tls, seen>>
SameRest == UNCHANGED <<runtime, binding, unnoticed>>

\* A step that touches none of it.
LEMMA NothingMoved ==
    ASSUME Inv, UNCHANGED <<ca, tls, seen, runtime, binding, queue, worker>>, unnoticed'.leaked = unnoticed.leaked
    PROVE Inv'
<1>1. multi' = multi BY DEF multi, existMultiNodeServingRuntimeInNs
<1>2. Busy' = Busy /\ TlsQueued' = TlsQueued /\ CaPass' = CaPass /\ TlsPass' = TlsPass
  BY DEF Busy, TlsQueued, CaPass, TlsPass
<1>3. CacheInv' BY DEF Inv, CacheInv
<1>4. PassInv' BY <1>1, <1>2 DEF Inv, PassInv
<1>5. CAInv' /\ BindingInv' BY DEF Inv, CAInv, BindingInv
<1>6. TlsInv' BY <1>1, <1>2 DEF Inv, TlsInv
<1>7. SharedInv' BY <1>1, <1>2 DEF Inv, SharedInv
<1>8. RemovalInv' BY <1>1, <1>2 DEF Inv, RemovalInv
<1> QED BY <1>3, <1>4, <1>5, <1>6, <1>7, <1>8 DEF Inv

\* A pass that ends in an error is queued again.
LEMMA FailStep ==
    ASSUME TypeOK, Inv, Busy, fail, SameSecrets, SameRest
    PROVE Inv'
<1>1. worker'.at = "idle" /\ queue \subseteq queue' /\ worker.req \in queue' /\ ~Busy' BY FailEffect DEF Busy
<1>2. multi' = multi BY DEF multi, existMultiNodeServingRuntimeInNs, SameRest
<1>3. UNCHANGED <<ca, tls, seen, binding, unnoticed>> BY DEF SameSecrets, SameRest
<1>4. CacheInv' BY <1>3 DEF Inv, CacheInv
<1>5. PassInv' BY <1>1 DEF PassInv
<1>6. CAInv' BY <1>1 DEF CAInv
<1>7. BindingInv' BY <1>1, <1>3 DEF Inv, BindingInv
<1>8. TlsInv' BY <1>1, <1>2, <1>3 DEF Inv, TlsInv, TlsQueued, TlsPass
<1>9. SharedInv' BY <1>1, <1>2, <1>3 DEF Inv, SharedInv, TlsQueued, TlsPass, CaPass
<1>10. RemovalInv' BY <1>1, <1>2, <1>3 DEF Inv, RemovalInv
<1> QED BY <1>4, <1>5, <1>6, <1>7, <1>8, <1>9, <1>10 DEF Inv

LEMMA ReconcileStep ==
    ASSUME TypeOK, Inv, NEW req \in queue, Reconcile(req)
    PROVE Inv'
<1> USE DEF secrets, cluster
<1> DEFINE at == IF req = "monitoring" THEN "binding" ELSE "ca"
           m == req \in {"runtime", "tls"} /\ existMultiNodeServingRuntimeInNs
<1>1. worker' = [req |-> req, at |-> at, multi |-> m, ca |-> 0, todo |-> {}] BY Zenon DEF Reconcile, Idle
<1>2. worker'.req = req /\ worker'.at = at /\ (worker'.multi <=> req \in {"runtime", "tls"} /\ multi)
  BY Zenon, <1>1 DEF multi
<1>3. at \in {"binding", "ca"} /\ (at = "binding" <=> req = "monitoring") OBVIOUS
<1> HIDE DEF at, m
<1>4. ~Busy /\ Busy' /\ queue' = queue \ {req} /\ UNCHANGED <<ca, tls, seen, binding, unnoticed>>
  BY <1>2, <1>3 DEF Reconcile, Busy
<1>5. multi' = multi BY DEF Reconcile, multi, existMultiNodeServingRuntimeInNs
<1>6. CacheInv' BY <1>4 DEF Inv, CacheInv
<1>7. PassInv' BY <1>2, <1>3, <1>5 DEF PassInv
<1>8. CAInv' BY <1>2, <1>3 DEF CAInv
<1>9. BindingInv' BY <1>2, <1>3, <1>4 DEF Inv, BindingInv, Busy
<1>10. TlsInv' BY <1>2, <1>4, <1>5 DEF Inv, TlsInv, TlsQueued, TlsPass
<1>11. SharedInv' BY <1>2, <1>3, <1>4, <1>5 DEF Inv, SharedInv, TlsQueued, TlsPass, CaPass
<1>12. RemovalInv' BY <1>2, <1>4, <1>5 DEF Inv, RemovalInv
<1> QED BY <1>6, <1>7, <1>8, <1>9, <1>10, <1>11, <1>12 DEF Inv

\* A pass moves on to "ca", "recreate" or "read", and the CA may change.
LEMMA MoveStep ==
    ASSUME TypeOK, Inv, worker.at \in {"binding", "ca", "recreate"}, worker'.at \in {"ca", "recreate", "read"},
           worker'.req = worker.req, worker'.multi = worker.multi, queue \subseteq queue',
           UNCHANGED <<tls, runtime, unnoticed>>, seen'.tls = seen.tls, seen'.tlsFresh = seen.tlsFresh, seen'.ca = seen.ca,
           seen'.caFresh => seen.caFresh, seen'.caFresh => ca' = ca,
           CAInv', BindingInv'
    PROVE Inv'
<1>1. Busy /\ Busy' BY DEF Busy
<1>2. multi' = multi BY DEF multi, existMultiNodeServingRuntimeInNs
<1>3. CacheInv' BY DEF Inv, CacheInv
<1>4. PassInv' BY <1>1, <1>2 DEF Inv, PassInv
<1>5. TlsInv' BY <1>1, <1>2 DEF Inv, TlsInv, TlsQueued, TlsPass
<1>6. SharedInv' BY <1>1, <1>2 DEF Inv, SharedInv, TlsQueued, TlsPass, CaPass
<1>7. RemovalInv' BY <1>1, <1>2 DEF Inv, RemovalInv
<1> QED BY <1>3, <1>4, <1>5, <1>6, <1>7 DEF Inv

LEMMA CertificateAuthorityStep ==
    ASSUME TypeOK, Inv, reconcileRoleBinding \/ generateCertSecret \/ recreateSecret
    PROVE Inv'
<1> USE DEF secrets, cluster
<1>t. worker \in Workers /\ seen \in Caches BY DEF TypeOK
<1>1. CASE reconcileRoleBinding
  <2>1. worker.at = "binding" /\ Busy BY <1>1 DEF reconcileRoleBinding, Busy
  <2>2. CASE binding = "roleRef"
    <3>1. fail /\ SameSecrets /\ SameRest
      BY <1>1, <2>2 DEF reconcileRoleBinding, createRBIfDNE, SameSecrets, SameRest
    <3> QED BY <2>1, <3>1, FailStep
  <2>3. CASE binding # "roleRef"
    <3>1. worker' = [worker EXCEPT !.at = "ca"] /\ queue \subseteq queue' /\ binding' = "ok"
      BY <1>1, <2>3 DEF reconcileRoleBinding, createRBIfDNE
    <3>2. worker'.at = "ca" /\ worker'.req = worker.req /\ worker'.multi = worker.multi BY <1>t, <3>1, GotoEffect
    <3>3. CAInv' /\ BindingInv' BY <3>1, <3>2 DEF CAInv, BindingInv
    <3>4. UNCHANGED <<ca, tls, seen, runtime, unnoticed>> BY <1>1 DEF reconcileRoleBinding
    <3> QED BY <2>1, <3>1, <3>2, <3>3, <3>4, MoveStep
  <2> QED BY <2>2, <2>3
<1>b. ASSUME worker.at # "binding", binding' = binding, queue \subseteq queue' PROVE BindingInv'
  BY <1>b DEF Inv, BindingInv
<1>g. ASSUME NEW step \in {"read", "recreate"}, goto(step)
      PROVE worker'.at = step /\ worker'.req = worker.req /\ worker'.multi = worker.multi /\ queue' = queue
  BY <1>g, <1>t, GotoEffect DEF goto
<1>2. CASE generateCertSecret
  <2>1. worker.at = "ca" /\ Busy /\ UNCHANGED <<tls, runtime, binding, unnoticed>> BY <1>2 DEF generateCertSecret, Busy
  <2>2. CASE createCA /\ goto("read")
    <3>1. CAInv' BY <2>2, CreateEffect DEF CAInv
    <3>2. BindingInv' BY <1>b, <1>g, <2>1, <2>2
    <3> QED BY <1>g, <2>1, <2>2, <3>1, <3>2, CreateEffect, MoveStep
  <2>3. CASE storeCA(0) /\ goto("recreate")
    <3>1. CAInv' BY <1>g, <2>3 DEF CAInv
    <3>2. BindingInv' BY <1>b, <1>g, <2>1, <2>3
    <3>3. /\ seen'.ca = seen.ca /\ seen'.tls = seen.tls /\ seen'.tlsFresh = seen.tlsFresh
          /\ seen'.caFresh => seen.caFresh
          /\ seen'.caFresh => ca' = ca
      BY <1>t, <2>3, StoreCAEffect
    <3> QED BY <1>g, <2>1, <2>3, <3>1, <3>2, <3>3, MoveStep
  <2>4. CASE fail /\ UNCHANGED <<ca, due, seen>>
    BY <2>1, <2>4, FailStep DEF SameSecrets, SameRest
  <2>5. CASE seen.ca # 0 /\ goto("read") /\ UNCHANGED <<ca, due, seen>>
    <3>1. CAInv' BY <2>5 DEF Inv, CAInv, CacheInv
    <3>2. BindingInv' BY <1>b, <1>g, <2>1, <2>5
    <3> QED BY <1>g, <2>1, <2>5, <3>1, <3>2, MoveStep
  <2> QED BY <1>2, <2>2, <2>3, <2>4, <2>5 DEF generateCertSecret
<1>3. CASE recreateSecret
  <2>1. worker.at = "recreate" /\ UNCHANGED <<tls, runtime, binding, unnoticed>> BY <1>3 DEF recreateSecret
  <2>2. createCA /\ goto("read") BY <1>3 DEF recreateSecret
  <2>3. CAInv' BY <2>2, CreateEffect DEF CAInv
  <2>4. BindingInv' BY <1>b, <1>g, <2>1, <2>2
  <2> QED BY <1>g, <2>1, <2>2, <2>3, <2>4, CreateEffect, MoveStep
<1> QED BY <1>1, <1>2, <1>3

LEMMA ReadStep == ASSUME TypeOK, Inv, GetCACertSecret PROVE Inv'
<1> USE DEF secrets, cluster
<1>1. worker.at = "read" /\ Busy /\ SameSecrets /\ SameRest BY DEF GetCACertSecret, Busy, SameSecrets, SameRest
<1>2. CASE fail BY <1>1, <1>2, FailStep
<1>3. CASE ~fail
  <2> DEFINE at == IF worker.req = "ca" THEN "sync" ELSE "default"
             todo == IF worker.req = "ca" THEN {r \in Runtimes : runtime[r] = "multi"} ELSE {}
  <2>1. worker' = [worker EXCEPT !.ca = seen.ca, !.at = at, !.todo = todo] /\ queue' = queue /\ seen.ca # 0
    BY <1>3 DEF GetCACertSecret, found
  <2>2. /\ at \in {"sync", "default"} /\ (at = "sync" <=> worker.req = "ca")
        /\ worker.req = "ca" /\ multi => todo # {}
    BY DEF multi, existMultiNodeServingRuntimeInNs
  <2> HIDE DEF at, todo
  <2>3. worker'.at = at /\ worker'.req = worker.req /\ worker'.multi = worker.multi /\ worker'.ca = seen.ca
          /\ worker'.todo = todo
    BY <2>1 DEF TypeOK, Workers
  <2>4. multi' = multi /\ Busy' BY <1>1, <2>2, <2>3 DEF multi, existMultiNodeServingRuntimeInNs, SameRest, Busy
  <2>5. UNCHANGED <<ca, tls, seen, binding, unnoticed>> BY <1>1 DEF SameSecrets, SameRest
  <2>6. CacheInv' BY <2>5 DEF Inv, CacheInv
  <2>7. PassInv' BY <1>1, <2>1, <2>2, <2>3, <2>4 DEF Inv, PassInv
  <2>8. CAInv' BY <2>1, <2>5 DEF Inv, CAInv, CacheInv
  <2>9. BindingInv' BY <1>1, <2>1, <2>5 DEF Inv, BindingInv
  <2>10. TlsInv' BY <1>1, <2>1, <2>3, <2>4, <2>5 DEF Inv, TlsInv, TlsQueued, TlsPass
  <2>11. SharedInv'
    <3>1. seen.caFresh => worker'.ca = ca' BY <2>3, <2>5 DEF Inv, CacheInv
    <3> QED BY <1>1, <2>1, <2>2, <2>3, <2>4, <2>5, <3>1 DEF Inv, SharedInv, TlsQueued, TlsPass, CaPass
  <2>12. RemovalInv' BY <1>1, <2>1, <2>3, <2>4, <2>5 DEF Inv, RemovalInv
  <2> QED BY <2>6, <2>7, <2>8, <2>9, <2>10, <2>11, <2>12 DEF Inv
<1> QED BY <1>2, <1>3

\* The facts of a write to ray-tls that Inv needs.
LEMMA WriteStep ==
    ASSUME TypeOK, Inv, Busy, worker.at \in {"sync", "default"},
           UNCHANGED <<ca, runtime, binding, queue>>, unnoticed'.leaked = unnoticed.leaked,
           seen'.ca = seen.ca, seen'.tls = seen.tls, seen'.caFresh = seen.caFresh,
           seen'.tlsFresh => seen.tlsFresh, seen'.tlsFresh => tls' = tls,
           PassInv', TlsInv', SharedInv', RemovalInv'
    PROVE Inv'
<1>1. CacheInv' BY DEF Inv, CacheInv
<1>2. CAInv' BY DEF Inv, CAInv
<1>3. BindingInv' BY DEF Inv, BindingInv
<1> QED BY <1>1, <1>2, <1>3 DEF Inv

LEMMA SyncStep == ASSUME TypeOK, Inv, SyncRayTLS PROVE Inv'
<1> USE DEF secrets, cluster
<1>1. worker.at = "sync" /\ Busy /\ worker.req = "ca" BY DEF SyncRayTLS, Busy, Inv, PassInv
<1>2. UNCHANGED <<ca, runtime, binding>> BY DEF SyncRayTLS
<1>m. multi' = multi BY <1>2 DEF multi, existMultiNodeServingRuntimeInNs
<1>3. CASE done /\ worker.todo = {} /\ UNCHANGED <<tls, seen, unnoticed>>
  <2>1. ~Busy' /\ worker'.at = "idle" /\ queue' = queue BY <1>3, IdleTypes DEF done, Busy
  <2>2. PassInv' BY <2>1 DEF PassInv
  <2>3. TlsInv' BY <1>1, <1>3, <1>m, <2>1 DEF Inv, TlsInv, TlsQueued, TlsPass
  <2>4. SharedInv' BY <1>1, <1>2, <1>3, <1>m, <2>1 DEF Inv, SharedInv, TlsQueued, TlsPass, CaPass
  <2>5. RemovalInv' BY <1>1, <1>3, <1>m, <2>1 DEF Inv, RemovalInv
  <2> QED BY <1>1, <1>2, <1>3, <2>1, <2>2, <2>3, <2>4, <2>5, WriteStep
<1>r. ASSUME NEW r, worker' = [worker EXCEPT !.todo = @ \ {r}]
      PROVE worker'.at = "sync" /\ worker'.req = "ca" /\ worker'.multi = worker.multi /\ worker'.ca = worker.ca /\ Busy'
  BY <1>1, <1>r DEF TypeOK, Workers, Busy
<1>4. ASSUME NEW r \in worker.todo, seen.tls = Absent, worker' = [worker EXCEPT !.todo = @ \ {r}],
             UNCHANGED <<tls, seen, queue, unnoticed>>
      PROVE Inv'
  <2>1. worker'.at = "sync" /\ worker'.req = "ca" /\ worker'.multi = worker.multi /\ Busy' BY <1>r, <1>4
  <2>2. PassInv' BY <1>1, <1>4, <1>m, <2>1 DEF Inv, PassInv
  <2>3. TlsInv' BY <1>1, <1>4, <1>m, <2>1 DEF Inv, TlsInv, TlsQueued, TlsPass
  <2>4. SharedInv' BY <1>4 DEF SharedInv, Inv, CacheInv
  <2>5. RemovalInv' BY <1>1, <1>4, <1>m, <2>1 DEF Inv, RemovalInv
  <2> QED BY <1>1, <1>2, <1>4, <2>1, <2>2, <2>3, <2>4, <2>5, WriteStep
<1>5. ASSUME NEW r \in worker.todo, seen.tls # Absent, seen.tlsFresh, storeTLS(synced(tls, worker.ca)), wipe(running),
             worker' = [worker EXCEPT !.todo = @ \ {r}], UNCHANGED queue
      PROVE Inv'
  <2>1. worker'.at = "sync" /\ worker'.req = "ca" /\ worker'.multi = worker.multi /\ Busy' BY <1>r, <1>5
  <2>2. synced(tls, worker.ca) \in TlsRecord /\ synced(tls, worker.ca).ca = worker.ca
    BY IdleTypes DEF synced, TlsRecord, Workers, TypeOK
  <2>3. /\ tls' = synced(tls, worker.ca) /\ seen'.ca = seen.ca /\ seen'.tls = seen.tls /\ seen'.caFresh = seen.caFresh
        /\ seen'.tlsFresh => seen.tlsFresh
        /\ seen'.tlsFresh => tls' = tls
    BY <1>5, StoreTLSEffect DEF TypeOK
  <2>4. tls # Absent /\ tls' # Absent /\ tls'.ca = worker.ca BY <1>5, <2>2, <2>3, AbsentAssumption DEF Inv, CacheInv
  <2>5. unnoticed'.leaked = unnoticed.leaked BY Zenon, <1>5, WipeType, PodSets DEF TypeOK
  <2>6. PassInv' BY <1>1, <1>5, <1>m, <2>1 DEF Inv, PassInv
  <2>7. TlsInv' BY <2>4 DEF TlsInv
  <2>8. SharedInv'
    <3>1. CASE worker.ca = ca BY <1>2, <2>4, <3>1 DEF SharedInv
    <3>2. CASE worker.ca # ca
      BY <1>1, <1>2, <1>5, <1>m, <2>3, <2>4, <3>2 DEF Inv, SharedInv, TlsQueued, TlsPass, CaPass
    <3> QED BY <3>1, <3>2
  <2>9. RemovalInv' BY <1>1, <1>5, <1>m, <2>1, <2>4, <2>5 DEF Inv, RemovalInv
  <2> QED BY <1>1, <1>2, <1>5, <2>3, <2>5, <2>6, <2>7, <2>8, <2>9, WriteStep
<1>6. CASE fail /\ UNCHANGED <<tls, seen, unnoticed>>
  BY <1>1, <1>2, <1>6, FailStep DEF SameSecrets, SameRest
<1> QED BY <1>3, <1>4, <1>5, <1>6 DEF SyncRayTLS

LEMMA DefaultStep == ASSUME TypeOK, Inv, reconcileDefaultRayServerCertSecretInUserNS PROVE Inv'
<1> USE DEF secrets, cluster
<1>1. worker.at = "default" /\ Busy BY DEF reconcileDefaultRayServerCertSecretInUserNS, Busy
<1>q. worker.req # "ca" BY <1>1 DEF Inv, PassInv
<1>2. UNCHANGED <<ca, runtime, binding>> BY DEF reconcileDefaultRayServerCertSecretInUserNS
<1>m. multi' = multi BY <1>2 DEF multi, existMultiNodeServingRuntimeInNs
<1>d. ASSUME done PROVE ~Busy' /\ worker'.at = "idle" /\ queue' = queue /\ PassInv'
  BY <1>d, IdleTypes DEF done, Busy, PassInv
<1>s. ASSUME NEW new, storeTLS(new)
      PROVE /\ tls' = new /\ seen'.ca = seen.ca /\ seen'.tls = seen.tls /\ seen'.caFresh = seen.caFresh
            /\ seen'.tlsFresh => seen.tlsFresh
            /\ seen'.tlsFresh => tls' = tls
  BY <1>s, StoreTLSEffect DEF TypeOK
<1>f. CASE fail /\ UNCHANGED <<tls, seen, unnoticed>>
  BY <1>1, <1>2, <1>f, FailStep DEF SameSecrets, SameRest
<1>3. CASE worker.multi /\ done /\ seen.tls = Absent /\ tls = Absent /\ storeTLS([ca |-> worker.ca, certs |-> NoCerts])
             /\ UNCHANGED unnoticed
  <2>1. [ca |-> worker.ca, certs |-> NoCerts] \in TlsRecord BY IdleTypes DEF TlsRecord, Workers, TypeOK
  <2>2. tls' # Absent BY <1>3, <1>s, <2>1, AbsentAssumption
  <2>3. ~seen'.tlsFresh BY <1>3, <1>s, <2>2
  <2>4. TlsInv' /\ SharedInv' BY <2>3 DEF TlsInv, SharedInv
  <2>5. RemovalInv' BY <1>1, <1>3, <1>d, <1>m DEF RemovalInv, Inv, PassInv
  <2> QED BY <1>1, <1>2, <1>3, <1>d, <1>s, <2>4, <2>5, WriteStep
<1>4. CASE worker.multi /\ done /\ seen.tls # Absent /\ seen.tls.ca = worker.ca /\ UNCHANGED <<tls, seen, unnoticed>>
  <2>1. ~Busy' /\ queue' = queue BY <1>4, <1>d
  <2>2. TlsInv' BY <1>4 DEF TlsInv, Inv, CacheInv
  <2>3. SharedInv'
    BY <1>1, <1>2, <1>4, <1>m, <1>q, <2>1 DEF Inv, SharedInv, CacheInv, TlsQueued, TlsPass, CaPass
  <2>4. RemovalInv' BY <1>1, <1>4, <1>m, <2>1 DEF RemovalInv, Inv
  <2> QED BY <1>1, <1>2, <1>4, <1>d, <2>2, <2>3, <2>4, WriteStep
<1>5. CASE worker.multi /\ done /\ seen.tls # Absent /\ seen.tls.ca # worker.ca /\ seen.tlsFresh
             /\ storeTLS([tls EXCEPT !.ca = worker.ca]) /\ wipe(outlived(worker.ca))
  <2>1. tls \in TlsRecord /\ tls # Absent /\ tls.ca # worker.ca BY <1>5 DEF Inv, CacheInv, TypeOK
  <2>2. [tls EXCEPT !.ca = worker.ca] # tls BY <2>1 DEF TlsRecord
  <2>3. [tls EXCEPT !.ca = worker.ca] \in TlsRecord BY <2>1 DEF TlsRecord, TypeOK, Workers
  <2>4. ~seen'.tlsFresh /\ tls' # Absent BY <1>5, <1>s, <2>2, <2>3, AbsentAssumption
  <2>5. TlsInv' /\ SharedInv' BY <2>4 DEF TlsInv, SharedInv
  <2>6. RemovalInv' BY <1>1, <1>5, <1>d, <1>m DEF RemovalInv, Inv, PassInv
  <2>7. unnoticed'.leaked = unnoticed.leaked BY Zenon, <1>5, WipeType, PodSets DEF TypeOK
  <2> QED BY <1>1, <1>2, <1>5, <1>d, <1>s, <2>5, <2>6, <2>7, WriteStep
<1>6. CASE ~worker.multi /\ done /\ removable(worker.req) /\ storeTLS(Absent) /\ wipe(running)
  <2>1. tls' = Absent /\ ~Busy' /\ queue' = queue BY <1>6, <1>s, <1>d
  <2>2. unnoticed'.leaked = unnoticed.leaked BY Zenon, <1>6, WipeType, PodSets DEF TypeOK
  <2>3. SharedInv' /\ RemovalInv' BY <2>1 DEF SharedInv, RemovalInv
  <2>4. TlsInv' BY <1>6, <1>s, <1>m, <2>1 DEF TlsInv, Inv, TlsQueued, TlsPass
  <2> QED BY <1>1, <1>2, <1>6, <1>d, <1>s, <2>2, <2>3, <2>4, WriteStep
<1>7. CASE ~worker.multi /\ done /\ ~removable(worker.req) /\ UNCHANGED <<tls, seen, unnoticed>>
  <2>1. worker.req # "runtime" BY <1>7 DEF removable, IsRayTLSSecret
  <2>2. ~Busy' /\ queue' = queue BY <1>7, <1>d
  <2>3. TlsInv' BY <1>7, <1>m, <2>2 DEF TlsInv, Inv, TlsQueued, TlsPass
  <2>4. SharedInv' BY <1>2, <1>7, <1>m, <1>q, <2>2 DEF Inv, SharedInv, TlsQueued, TlsPass, CaPass
  <2>5. RemovalInv' BY <1>7, <1>m, <2>1, <2>2 DEF RemovalInv, Inv
  <2> QED BY <1>1, <1>2, <1>7, <1>d, <2>3, <2>4, <2>5, WriteStep
<1>8. CASE worker.multi /\ seen.tls = Absent
  BY Zenon, <1>f, <1>3, <1>8 DEF reconcileDefaultRayServerCertSecretInUserNS
<1>9. CASE worker.multi /\ seen.tls # Absent
  <2>1. IF seen.tls.ca = worker.ca THEN done /\ UNCHANGED <<tls, seen, unnoticed>>
        ELSE IF seen.tlsFresh THEN storeTLS([tls EXCEPT !.ca = worker.ca]) /\ wipe(outlived(worker.ca)) /\ done
        ELSE fail /\ UNCHANGED <<tls, seen, unnoticed>>
    BY Zenon, <1>9 DEF reconcileDefaultRayServerCertSecretInUserNS
  <2> QED BY Zenon, <1>f, <1>4, <1>5, <1>9, <2>1
<1>10. CASE ~worker.multi
  BY Zenon, <1>6, <1>7, <1>10 DEF reconcileDefaultRayServerCertSecretInUserNS
<1> QED BY Zenon, <1>8, <1>9, <1>10

\* ray-tls has another Pod's certificates, or only Pods are touched.
LEMMA PodControllerStep == ASSUME TypeOK, Inv, PodController PROVE Inv'
<1> USE DEF secrets, cluster
<1>1. CASE \E p \in Pods : ReconcilePod(p) BY <1>1, NothingMoved DEF ReconcilePod
<1>2. CASE updateSecret
  <2> DEFINE certs == [removeRedundantCertsFromSecretData(seen.tls.certs) EXCEPT ![pworker.ip] = pworker.ca]
             new == [tls EXCEPT !.certs = certs]
  <2>1. UNCHANGED <<ca, runtime, binding, queue, worker>> BY <1>2 DEF updateSecret
  <2>2. CASE seen.tls # Absent /\ seen.tlsFresh
    <3>1. storeTLS(new)
          /\ unnoticed' = [unnoticed EXCEPT !.wiped =
                             IF pworker.ca = ca THEN @ \ {pworker.pod} ELSE @ \cup {pworker.pod}]
      BY <1>2, <2>2 DEF updateSecret
    <3>2. unnoticed'.leaked = unnoticed.leaked BY <3>1 DEF TypeOK
    <3>3. tls \in TlsRecord BY <2>2 DEF Inv, CacheInv, TypeOK
    <3>5. tls' = new /\ new.ca = tls.ca BY <3>1, <3>3 DEF storeTLS, TlsRecord
    <3>6. new # Absent
      <4> HIDE DEF certs
      <4>1. new.certs = certs BY <3>3 DEF TlsRecord
      <4>2. certs \in [IPs -> CAs \cup {0}]
        <5>1. removeRedundantCertsFromSecretData(seen.tls.certs) \in [IPs -> CAs \cup {0}]
          BY <2>2, <3>3 DEF removeRedundantCertsFromSecretData, Inv, CacheInv, TlsRecord
        <5> QED BY Zenon, <5>1 DEF certs, TypeOK
      <4>3. new \in TlsRecord BY <3>3, <4>2 DEF TlsRecord
      <4> QED BY <4>3, AbsentAssumption
    <3>7. tls' # Absent /\ tls # Absent /\ tls'.ca = tls.ca BY <3>3, <3>5, <3>6, AbsentAssumption
    <3>8. /\ seen'.ca = seen.ca /\ seen'.tls = seen.tls /\ seen'.caFresh = seen.caFresh
          /\ seen'.tlsFresh => seen.tlsFresh
          /\ seen'.tlsFresh => tls' = tls
      <4> HIDE DEF new
      <4> QED BY <3>1, StoreTLSEffect DEF TypeOK
    <3> HIDE DEF new
    <3>9. multi' = multi /\ Busy' = Busy /\ TlsQueued' = TlsQueued /\ CaPass' = CaPass /\ TlsPass' = TlsPass
      BY <2>1 DEF multi, existMultiNodeServingRuntimeInNs, Busy, TlsQueued, CaPass, TlsPass
    <3>10. CacheInv' BY <2>1, <3>8 DEF Inv, CacheInv
    <3>11. PassInv' BY <2>1, <3>9 DEF Inv, PassInv
    <3>12. CAInv' /\ BindingInv' BY <2>1, <3>8 DEF Inv, CAInv, BindingInv
    <3>13. TlsInv' BY <3>7 DEF TlsInv
    <3>14. SharedInv' BY <2>1, <3>7, <3>8, <3>9 DEF Inv, SharedInv
    <3>15. RemovalInv' BY <2>1, <3>2, <3>7, <3>9 DEF Inv, RemovalInv
    <3> QED BY <3>10, <3>11, <3>12, <3>13, <3>14, <3>15 DEF Inv
  <2>3. CASE ~(seen.tls # Absent /\ seen.tlsFresh)
    <3>1. UNCHANGED <<tls, seen, unnoticed>> BY <1>2, <2>3 DEF updateSecret
    <3> QED BY <2>1, <3>1, NothingMoved
  <2> QED BY <2>2, <2>3
<1> QED BY <1>1, <1>2 DEF PodController

LEMMA DeliveryStep == ASSUME TypeOK, Inv, DeliverCA \/ DeliverTLS PROVE Inv'
<1> USE DEF secrets, cluster
<1>1. UNCHANGED <<ca, tls, runtime, binding, worker, unnoticed>> /\ queue \subseteq queue'
  BY DEF DeliverCA, DeliverTLS
<1>2. \/ "ca" \in queue' /\ seen'.tlsFresh = seen.tlsFresh /\ seen'.tls = seen.tls /\ seen'.ca = ca
      \/ "tls" \in queue' /\ seen'.caFresh = seen.caFresh /\ seen'.ca = seen.ca /\ seen'.tls = tls
  <2>1. seen \in Caches BY DEF TypeOK
  <2>2. CASE DeliverCA
    <3>1. seen'.tlsFresh = seen.tlsFresh BY Zenon, <2>1, <2>2 DEF DeliverCA, Caches
    <3>2. seen'.tls = seen.tls /\ seen'.ca = ca BY Zenon, <2>1, <2>2 DEF DeliverCA, Caches
    <3> QED BY Zenon, <2>2, <3>1, <3>2 DEF DeliverCA
  <2>3. CASE DeliverTLS
    <3>1. seen'.caFresh = seen.caFresh BY Zenon, <2>1, <2>3 DEF DeliverTLS, Caches
    <3>2. seen'.ca = seen.ca /\ seen'.tls = tls BY Zenon, <2>1, <2>3 DEF DeliverTLS, Caches
    <3> QED BY Zenon, <2>3, <3>1, <3>2 DEF DeliverTLS
  <2> QED BY Zenon, <2>2, <2>3
<1>3. multi' = multi /\ Busy' = Busy /\ (TlsQueued => TlsQueued') /\ CaPass' = CaPass /\ TlsPass' = TlsPass
  BY <1>1 DEF multi, existMultiNodeServingRuntimeInNs, Busy, TlsQueued, CaPass, TlsPass
<1>4. CacheInv' BY <1>1, <1>2 DEF Inv, CacheInv
<1>5. PassInv' BY <1>1, <1>3 DEF Inv, PassInv
<1>6. CAInv' BY Zenon, <1>1, <1>2 DEF CAInv
<1>7. BindingInv' BY <1>1 DEF Inv, BindingInv
<1>8. TlsInv' BY Zenon, <1>1, <1>2, <1>3 DEF Inv, TlsInv, TlsQueued
<1>9. SharedInv' BY Zenon, <1>1, <1>2, <1>3 DEF Inv, SharedInv, TlsQueued
<1>10. RemovalInv' BY <1>1, <1>3 DEF Inv, RemovalInv
<1> QED BY <1>4, <1>5, <1>6, <1>7, <1>8, <1>9, <1>10 DEF Inv

\* More requests never hurt.
LEMMA MoreRequests ==
    ASSUME Inv, UNCHANGED <<ca, tls, seen, runtime, worker, unnoticed>>, queue \subseteq queue', BindingInv'
    PROVE Inv'
<1>1. multi' = multi /\ Busy' = Busy /\ (TlsQueued => TlsQueued') /\ CaPass' = CaPass /\ TlsPass' = TlsPass
  BY DEF multi, existMultiNodeServingRuntimeInNs, Busy, TlsQueued, CaPass, TlsPass
<1>2. CacheInv' BY DEF Inv, CacheInv
<1>3. PassInv' BY <1>1 DEF Inv, PassInv
<1>4. CAInv' BY DEF Inv, CAInv
<1>5. TlsInv' BY <1>1 DEF Inv, TlsInv
<1>6. SharedInv' BY <1>1 DEF Inv, SharedInv
<1>7. RemovalInv' BY <1>1 DEF Inv, RemovalInv
<1> QED BY <1>2, <1>3, <1>4, <1>5, <1>6, <1>7 DEF Inv

LEMMA DeletionStep == ASSUME TypeOK, Inv, DeleteSecrets PROVE Inv'
<1> USE DEF secrets, cluster
<1>s. seen \in Caches BY DEF TypeOK
<1>1. UNCHANGED <<runtime, binding, queue, worker>> BY DEF DeleteSecrets
<1>2. multi' = multi /\ Busy' = Busy /\ TlsQueued' = TlsQueued /\ TlsPass' = TlsPass
  BY <1>1 DEF multi, existMultiNodeServingRuntimeInNs, Busy, TlsQueued, TlsPass
<1>3. PassInv' BY <1>1, <1>2 DEF Inv, PassInv
<1>4. BindingInv' BY <1>1 DEF Inv, BindingInv
<1>5. CASE ca # 0 /\ storeCA(0) /\ UNCHANGED <<tls, unnoticed>>
  <2>1. ca' = 0 /\ ~seen'.caFresh /\ seen'.tls = seen.tls /\ seen'.tlsFresh = seen.tlsFresh BY <1>5, <1>s, StoreCAEffect
  <2>2. CacheInv' BY <1>5, <2>1 DEF Inv, CacheInv
  <2>3. CAInv' /\ SharedInv' BY <2>1 DEF CAInv, SharedInv
  <2>4. TlsInv' BY <1>2, <1>5, <2>1 DEF Inv, TlsInv
  <2>5. RemovalInv' BY <1>1, <1>2, <1>5 DEF Inv, RemovalInv
  <2> QED BY <1>3, <1>4, <2>2, <2>3, <2>4, <2>5 DEF Inv
<1>6. CASE tls # Absent /\ storeTLS(Absent) /\ UNCHANGED ca
  <2>1. tls' = Absent /\ ~seen'.tlsFresh /\ seen'.ca = seen.ca /\ seen'.caFresh = seen.caFresh BY <1>6, <1>s, StoreTLSEffect
  <2>2. CacheInv' BY <1>6, <2>1 DEF Inv, CacheInv
  <2>3. CAInv' BY <1>1, <1>6, <2>1 DEF Inv, CAInv
  <2>4. TlsInv' /\ SharedInv' /\ RemovalInv' BY <2>1 DEF TlsInv, SharedInv, RemovalInv
  <2> QED BY <1>3, <1>4, <2>2, <2>3, <2>4 DEF Inv
<1> QED BY <1>5, <1>6 DEF DeleteSecrets

LEMMA EnvironmentStep == ASSUME TypeOK, Inv, Environment PROVE Inv'
<1> USE DEF secrets, cluster
<1>1. ASSUME NEW r \in Runtimes, NEW new \in {"none", "single", "multi"}, ChangeRuntime(r, new) PROVE Inv'
  <2>1. UNCHANGED <<ca, tls, seen, binding, worker>> /\ queue \subseteq queue' /\ "runtime" \in queue'
    BY <1>1 DEF ChangeRuntime
  <2>2. CacheInv' BY <2>1 DEF Inv, CacheInv
  <2>3. PassInv' BY <2>1 DEF Inv, PassInv, Busy
  <2>4. CAInv' /\ BindingInv' BY <2>1 DEF Inv, CAInv, BindingInv
  <2>5. TlsInv' /\ SharedInv' BY <2>1 DEF TlsInv, SharedInv, TlsQueued
  <2>6. RemovalInv' BY <2>1 DEF RemovalInv
  <2> QED BY <2>2, <2>3, <2>4, <2>5, <2>6 DEF Inv
<1>2. ASSUME NEW p \in Pods, NEW i \in IPs, StartPod(p, i) PROVE Inv'
  <2>1. unnoticed'.leaked = unnoticed.leaked BY <1>2 DEF StartPod, TypeOK
  <2> QED BY <1>2, <2>1, NothingMoved DEF StartPod
<1>3. ASSUME NEW p \in Pods, DeletePod(p) PROVE Inv' BY <1>3, NothingMoved DEF DeletePod
<1>4. CASE Age BY <1>4, NothingMoved DEF Age
<1>5. ASSUME NEW new \in {"none", "edited", "roleRef"}, ChangeBinding(new) PROVE Inv'
  <2>1. BindingInv' BY <1>5 DEF ChangeBinding, BindingInv
  <2> QED BY <1>5, <2>1, MoreRequests DEF ChangeBinding
<1>6. CASE Resync
  <2>1. queue \subseteq queue' BY <1>6 DEF Resync
  <2>2. BindingInv' BY <1>6, <2>1 DEF Resync, Inv, BindingInv
  <2> QED BY <1>6, <2>1, <2>2, MoreRequests DEF Resync
<1>7. CASE CallFails BY <1>7, FailStep DEF CallFails, Busy, SameSecrets, SameRest
<1>8. CASE PodCallFails BY <1>8, NothingMoved DEF PodCallFails
<1>9. CASE Restart
  <2>1. ~Busy' /\ UNCHANGED <<ca, tls, runtime, binding>> /\ queue' = existing
    BY <1>9, IdleTypes DEF Restart, Busy
  <2>2. seen'.ca = ca /\ seen'.tls = tls BY <1>9 DEF Restart
  <2>3. /\ "monitoring" \in existing
        /\ tls # Absent => "tls" \in existing
        /\ (\E r \in Runtimes : runtime[r] # "none") => "runtime" \in existing
    BY DEF existing
  <2>4. multi' = multi /\ (multi => \E r \in Runtimes : runtime[r] # "none")
    BY <2>1 DEF multi, existMultiNodeServingRuntimeInNs
  <2>5. CacheInv' BY <2>1, <2>2 DEF CacheInv
  <2>6. PassInv' BY <2>1 DEF PassInv, Busy
  <2>7. CAInv' /\ BindingInv' BY <2>1, <2>3 DEF CAInv, BindingInv
  <2>8. TlsInv' /\ SharedInv' BY <2>1, <2>3, <2>4 DEF TlsInv, SharedInv, TlsQueued
  <2>9. ~unnoticed'.leaked /\ tls # Absent => \E r \in Runtimes : runtime[r] # "none"
    BY Zenon, <1>9 DEF Restart, TypeOK
  <2>10. RemovalInv' BY <2>1, <2>3, <2>9 DEF RemovalInv
  <2> QED BY <2>5, <2>6, <2>7, <2>8, <2>10 DEF Inv
<1> QED BY <1>1, <1>2, <1>3, <1>4, <1>5, <1>6, <1>7, <1>8, <1>9, DeletionStep DEF Environment

LEMMA InitInv == Init => Inv
<1> SUFFICES ASSUME Init PROVE Inv OBVIOUS
<1>1. ~Busy /\ CacheInv BY InitTypes, IdleTypes DEF Init, Busy
<1>2. PassInv BY <1>1 DEF PassInv, Busy
<1>3. CAInv /\ BindingInv BY DEF Init, CAInv, BindingInv
<1>4. multi => "runtime" \in queue BY DEF Init, multi, existMultiNodeServingRuntimeInNs
<1>5. TlsInv BY <1>4 DEF TlsInv, TlsQueued
<1>6. SharedInv /\ RemovalInv BY DEF Init, SharedInv, RemovalInv
<1> QED BY <1>1, <1>2, <1>3, <1>5, <1>6 DEF Inv

\* Nothing is queued and nothing runs: every cause of work that the invariant
\* names is gone.
LEMMA QuietServed == ASSUME TypeOK, Inv PROVE RuntimeServed
<1>1. CASE Quiet
  <2>1. queue = {} /\ ~Busy /\ worker.at = "idle" /\ seen.caFresh /\ seen.tlsFresh
    BY <1>1, IdleTypes DEF Quiet, Busy
  <2>2. ca # 0 BY <2>1 DEF Inv, CAInv
  <2>3. multi => tls # Absent BY <2>1 DEF Inv, TlsInv, TlsQueued, TlsPass
  <2>4. multi => tls.ca = ca BY <2>1, <2>2, <2>3 DEF Inv, SharedInv, TlsQueued, TlsPass, CaPass
  <2>5. CAShared BY <2>2, <2>3, <2>4 DEF CAShared, multi
  <2>6. SecretRemoved BY <2>1 DEF Inv, RemovalInv, SecretRemoved, multi
  <2>7. BindingReverted BY <2>1 DEF Inv, BindingInv, BindingReverted
  <2> QED BY <2>5, <2>6, <2>7 DEF RuntimeServed
<1>2. CASE ~Quiet BY <1>2 DEF RuntimeServed, CAShared, SecretRemoved, BindingReverted
<1> QED BY <1>1, <1>2

\* At rest, what the ServingRuntime controller keeps for a namespace is there
\* exactly if a multi-node ServingRuntime asks for it and is current, with any
\* number of ServingRuntimes, Pods, CAs, changes and failures.
THEOREM RuntimesAreServed == Spec => []RuntimeServed
<1>1. ASSUME TypeOK, Inv, [Next]_vars PROVE Inv'
  <2>1. CASE RuntimeController
    BY <1>1, <2>1, ReconcileStep, CertificateAuthorityStep, ReadStep, SyncStep, DefaultStep DEF RuntimeController
  <2>2. CASE UNCHANGED vars BY <1>1, <2>2, NothingMoved DEF vars
  <2> QED BY <1>1, <2>1, <2>2, PodControllerStep, DeliveryStep, EnvironmentStep DEF Next
<1>2. TypeOK /\ Inv => RuntimeServed BY QuietServed
<1> QED BY <1>1, <1>2, InitInv, TypeCorrect, PTL DEF Spec

---------------------------------------------------------------------------
(* What the Pods have.  The Pod controller works only on events of Pods, so
   the invariant names, for a Pod without its certificate, the request or the
   pass that will write it.  From here on most steps are first-order. *)
USE Zenon

Served(p) == tls # Absent /\ (tls.ca = ca => tls.certs[pod[p]] = ca)
Pending(p) == p \in pods \/ (pworker.pod = p /\ pworker.ip = pod[p])

\* A Pod that no event has left without a certificate has one, or is about to.
\* While ray-tls has another CA than the one there is, its rewrite is still to
\* come, and that rewrite tells which certificates it leaves behind.
ServedInv == \A p \in running \ unnoticed.wiped : Pending(p) \/ Served(p)

\* No two Pods share an address.
AddressInv == \A p, q \in running : pod[p] = pod[q] => p = q

\* A Pod that took over the address or the name the Pod controller works for
\* has a request of its own.
TakenInv ==
  pworker # PIdle => \A q \in running : (q = pworker.pod) # (pod[q] = pworker.ip) => q \in pods

\* ray-tls and the passes that write it have a CA.
SignedInv ==
  /\ tls # Absent => tls.ca # 0
  /\ worker.at \in {"sync", "default"} => worker.ca # 0

PodInv == ServedInv /\ AddressInv /\ TakenInv /\ SignedInv

SamePods == UNCHANGED <<pod, pods, pworker>>

\* A step that no Pod takes part in and that leaves every certificate valid, or
\* says which ones it does not.
LEMMA KeepServed ==
    ASSUME PodInv, SamePods, SignedInv', unnoticed.wiped \subseteq unnoticed'.wiped,
           \A p \in running \ unnoticed'.wiped : Served(p) => Served(p)'
    PROVE PodInv'
<1>1. running' = running BY DEF SamePods, running
<1>2. AddressInv' /\ TakenInv' BY <1>1 DEF PodInv, AddressInv, TakenInv, SamePods
<1>3. \A p \in running : Pending(p) => Pending(p)' BY DEF Pending, SamePods
<1>4. ServedInv' BY <1>1, <1>3 DEF PodInv, ServedInv
<1> QED BY <1>2, <1>4 DEF PodInv

LEMMA SameSecretsServed ==
    ASSUME PodInv, SamePods, UNCHANGED <<ca, tls, unnoticed>>, worker'.at \in {"sync", "default"} => worker'.ca # 0
    PROVE PodInv'
<1>1. SignedInv' BY DEF PodInv, SignedInv
<1>2. \A p \in running : Served(p) => Served(p)' BY DEF Served, SamePods
<1> QED BY <1>1, <1>2, KeepServed

\* A new CA is none that ray-tls has.
LEMMA NewCAServed ==
    ASSUME PodInv, SamePods, UNCHANGED <<tls, unnoticed>>, tls # Absent => tls.ca # ca',
           worker'.at \in {"sync", "default"} => worker'.ca # 0
    PROVE PodInv'
<1>1. SignedInv' BY DEF PodInv, SignedInv
<1>2. \A p \in running : Served(p) => Served(p)' BY DEF Served, SamePods
<1> QED BY <1>1, <1>2, KeepServed

LEMMA CreatedIsNew == ASSUME createCA, tls # Absent PROVE tls.ca # ca'
<1>1. PICK n \in CAs : newCA(n) /\ ca' = n BY DEF createCA, storeCA
<1> QED BY <1>1 DEF newCA

LEMMA RuntimeControllerServed == ASSUME TypeOK, CacheInv, PodInv, RuntimeController PROVE PodInv'
<1> USE DEF secrets, cluster
<1>t. worker \in Workers BY DEF TypeOK
<1>i. Idle.at = "idle" BY IdleTypes
<1>f. ASSUME fail \/ done PROVE worker'.at = "idle" BY <1>f, <1>i DEF fail, done
<1>g. ASSUME NEW step \in {"read", "recreate", "ca"}, worker' = [worker EXCEPT !.at = step]
      PROVE worker'.at \notin {"sync", "default"}
  BY SMT, <1>g, <1>t DEF Workers
<1>1. ASSUME NEW req \in queue, Reconcile(req) PROVE PodInv'
  <2>1. worker'.at \in {"binding", "ca"}
    <3> DEFINE at == IF req = "monitoring" THEN "binding" ELSE "ca"
    <3>1. worker'.at = at BY <1>1 DEF Reconcile, Idle
    <3> QED BY <3>1
  <2>2. worker'.at \notin {"sync", "default"} BY SMT, <2>1
  <2> QED BY <1>1, <2>2, SameSecretsServed DEF Reconcile, SamePods
<1>2. CASE reconcileRoleBinding
  <2>1. fail \/ worker' = [worker EXCEPT !.at = "ca"] BY <1>2 DEF reconcileRoleBinding
  <2>2. worker'.at \notin {"sync", "default"} BY SMT, <1>f, <1>g, <2>1
  <2> QED BY <1>2, <2>2, SameSecretsServed DEF reconcileRoleBinding, SamePods
<1>3. CASE generateCertSecret
  <2>1. UNCHANGED <<tls, unnoticed>> /\ SamePods BY <1>3 DEF generateCertSecret, SamePods
  <2>2. fail \/ goto("read") \/ goto("recreate") BY <1>3 DEF generateCertSecret
  <2>3. worker'.at \notin {"sync", "default"} BY SMT, <1>f, <1>g, <2>2 DEF goto
  <2>4. createCA \/ ca' = 0 \/ ca' = ca BY <1>3 DEF generateCertSecret, storeCA
  <2>5. CASE createCA BY <2>1, <2>3, <2>5, CreatedIsNew, NewCAServed
  <2>6. CASE ca' = 0 BY <2>1, <2>3, <2>6, NewCAServed DEF PodInv, SignedInv
  <2>7. CASE ca' = ca BY <2>1, <2>3, <2>7, SameSecretsServed
  <2> QED BY <2>4, <2>5, <2>6, <2>7
<1>4. CASE recreateSecret
  <2>1. worker'.at \notin {"sync", "default"} BY <1>4, <1>g DEF recreateSecret, goto
  <2> QED BY <1>4, <2>1, CreatedIsNew, NewCAServed DEF recreateSecret, SamePods
<1>5. CASE GetCACertSecret
  <2>1. CASE fail
    <3>1. worker'.at \notin {"sync", "default"} BY SMT, <1>f, <2>1
    <3> QED BY <1>5, <3>1, SameSecretsServed DEF GetCACertSecret, SamePods
  <2>2. CASE ~fail
    <3> DEFINE at == IF worker.req = "ca" THEN "sync" ELSE "default"
               todo == IF worker.req = "ca" THEN {r \in Runtimes : runtime[r] = "multi"} ELSE {}
    <3>1. worker' = [worker EXCEPT !.ca = seen.ca, !.at = at, !.todo = todo] /\ seen.ca # 0
      BY <1>5, <2>2 DEF GetCACertSecret, found
    <3> HIDE DEF at, todo
    <3>2. worker'.ca # 0 BY SMT, <1>t, <3>1 DEF Workers
    <3> QED BY <1>5, <3>2, SameSecretsServed DEF GetCACertSecret, SamePods
  <2> QED BY <2>1, <2>2
<1>6. CASE SyncRayTLS
  <2>1. worker.at = "sync" /\ UNCHANGED ca /\ SamePods BY <1>6 DEF SyncRayTLS, SamePods
  <2>c. worker.ca # 0 BY <2>1 DEF PodInv, SignedInv
  <2>2. ASSUME NEW r, worker' = [worker EXCEPT !.todo = @ \ {r}] PROVE worker'.ca # 0
    BY SMT, <1>t, <2>2, <2>c DEF Workers
  <2>3. CASE (fail \/ done) /\ UNCHANGED <<tls, unnoticed>>
    <3>1. worker'.at \notin {"sync", "default"} BY SMT, <1>f, <2>3
    <3> QED BY <2>1, <2>3, <3>1, SameSecretsServed
  <2>4. ASSUME NEW r, worker' = [worker EXCEPT !.todo = @ \ {r}], UNCHANGED <<tls, unnoticed>> PROVE PodInv'
    BY <2>1, <2>2, <2>4, SameSecretsServed
  <2>5. ASSUME NEW r, storeTLS(synced(tls, worker.ca)), wipe(running), worker' = [worker EXCEPT !.todo = @ \ {r}]
        PROVE PodInv'
    <3>1. tls'.ca = worker.ca BY <2>5 DEF storeTLS, synced
    <3>2. SignedInv' BY <2>2, <2>5, <2>c, <3>1 DEF SignedInv
    <3>3. unnoticed'.wiped = unnoticed.wiped \cup running BY <2>5, WipeType, PodSets DEF TypeOK
    <3> QED BY <2>1, <3>2, <3>3, KeepServed
  <2> QED BY <1>6, <2>3, <2>4, <2>5 DEF SyncRayTLS
<1>7. CASE reconcileDefaultRayServerCertSecretInUserNS
  <2>1. worker.at = "default" /\ UNCHANGED ca /\ SamePods
    BY <1>7 DEF reconcileDefaultRayServerCertSecretInUserNS, SamePods
  <2>c. worker.ca # 0 BY <2>1 DEF PodInv, SignedInv
  <2>2. fail \/ done BY <1>7 DEF reconcileDefaultRayServerCertSecretInUserNS
  <2>3. worker'.at \notin {"sync", "default"} BY SMT, <1>f, <2>2
  <2>4. CASE UNCHANGED <<tls, unnoticed>> BY <2>1, <2>3, <2>4, SameSecretsServed
  <2>5. CASE tls = Absent /\ storeTLS([ca |-> worker.ca, certs |-> NoCerts]) /\ UNCHANGED unnoticed
    <3>1. tls'.ca = worker.ca BY <2>5 DEF storeTLS
    <3>2. SignedInv' BY <2>3, <2>c, <3>1 DEF SignedInv
    <3>3. \A p \in running : ~Served(p) BY <2>5 DEF Served
    <3> QED BY <2>1, <2>5, <3>2, <3>3, KeepServed
  <2>6. CASE tls \in TlsRecord /\ storeTLS([tls EXCEPT !.ca = worker.ca]) /\ wipe(outlived(worker.ca))
    <3>1. tls'.ca = worker.ca /\ tls'.certs = tls.certs BY SMT, <2>6 DEF storeTLS, TlsRecord
    <3>2. tls' \in TlsRecord BY SMT, <1>t, <2>6 DEF storeTLS, TlsRecord, Workers
    <3>3. tls' # Absent BY <3>2, AbsentAssumption
    <3>4. SignedInv' BY <2>3, <2>c, <3>1 DEF SignedInv
    <3>5. unnoticed'.wiped = unnoticed.wiped \cup outlived(worker.ca) BY <2>6, WipeType, PodSets DEF TypeOK
    <3>6. ASSUME NEW p \in running \ unnoticed'.wiped PROVE Served(p)'
      <4>1. tls.certs[pod[p]] = worker.ca BY <3>5, <3>6 DEF outlived
      <4> QED BY <2>1, <3>1, <3>3, <4>1 DEF Served, SamePods
    <3> QED BY <2>1, <3>4, <3>5, <3>6, KeepServed
  <2>7. CASE storeTLS(Absent) /\ wipe(running)
    <3>1. SignedInv' BY <2>3, <2>7 DEF SignedInv, storeTLS
    <3>2. unnoticed'.wiped = unnoticed.wiped \cup running BY <2>7, WipeType, PodSets DEF TypeOK
    <3> QED BY <2>1, <3>1, <3>2, KeepServed
  <2>8. seen.tls # Absent /\ seen.tlsFresh => tls \in TlsRecord BY DEF CacheInv, TypeOK
  <2> QED BY <1>7, <2>4, <2>5, <2>6, <2>7, <2>8 DEF reconcileDefaultRayServerCertSecretInUserNS
<1> QED BY <1>1, <1>2, <1>3, <1>4, <1>5, <1>6, <1>7 DEF RuntimeController

LEMMA PodControllerServed == ASSUME TypeOK, CacheInv, PodInv, PodController PROVE PodInv'
<1> USE DEF secrets, cluster
<1>1. ASSUME NEW p \in Pods, ReconcilePod(p) PROVE PodInv'
  <2>1. UNCHANGED <<ca, tls, pod, worker, unnoticed>> BY <1>1 DEF ReconcilePod
  <2>2. running' = running /\ SignedInv' /\ AddressInv' BY <2>1 DEF PodInv, SignedInv, AddressInv, running
  <2>3. \A q \in running : Served(q) => Served(q)' BY <2>1 DEF Served
  <2>4. CASE UNCHANGED <<pods, pworker>>
    BY <1>1, <2>1, <2>4, SameSecretsServed DEF SamePods, PodInv, SignedInv
  <2>5. CASE pods' = pods \ {p} /\ pworker' = IF pod[p] = 0 THEN PIdle ELSE [pod |-> p, ip |-> pod[p], ca |-> seen.ca]
    <3>1. pworker = PIdle BY <1>1 DEF ReconcilePod
    <3>2. CASE pod[p] = 0
      <4>1. pworker' = PIdle /\ p \notin running BY <2>5, <3>2 DEF running
      <4>2. TakenInv' BY <4>1 DEF TakenInv
      <4>3. \A q \in running : Pending(q) => Pending(q)' BY <2>1, <2>5, <3>1, <4>1 DEF Pending
      <4>4. ServedInv' BY <2>1, <2>2, <2>3, <4>3 DEF PodInv, ServedInv
      <4> QED BY <2>2, <4>2, <4>4 DEF PodInv
    <3>3. CASE pod[p] # 0
      <4>1. pworker' = [pod |-> p, ip |-> pod[p], ca |-> seen.ca] /\ p \in running BY <2>5, <3>3 DEF running
      <4>2. pworker'.pod = p /\ pworker'.ip = pod[p] BY <4>1
      <4>3. TakenInv'
        <5>1. ASSUME NEW q \in running PROVE (q = p) = (pod[q] = pod[p]) BY <4>1 DEF PodInv, AddressInv
        <5> QED BY <2>1, <2>2, <4>2, <5>1 DEF TakenInv
      <4>4. PIdle.ip = 0 BY DEF PIdle
      <4>5. \A q \in running : Pending(q) => Pending(q)'
        BY <2>1, <2>5, <3>1, <4>2, <4>4 DEF Pending, running
      <4>6. ServedInv' BY <2>1, <2>2, <2>3, <4>5 DEF PodInv, ServedInv
      <4> QED BY <2>2, <4>3, <4>6 DEF PodInv
    <3> QED BY <3>2, <3>3
  <2> QED BY <1>1, <2>4, <2>5 DEF ReconcilePod
<1>2. CASE updateSecret
  <2>1. UNCHANGED <<ca, pod, worker>> /\ pworker # PIdle /\ pworker' = PIdle BY <1>2 DEF updateSecret
  <2>2. running' = running /\ AddressInv' /\ TakenInv' BY <2>1 DEF PodInv, AddressInv, TakenInv, running
  <2>3. CASE seen.tls # Absent /\ seen.tlsFresh
    <3> DEFINE certs == removeRedundantCertsFromSecretData(seen.tls.certs)
    <3>1. seen.tls = tls /\ tls \in TlsRecord BY <2>3 DEF CacheInv, TypeOK
    <3>2. certs \in [IPs -> CAs \cup {0}] BY SMT, <3>1 DEF removeRedundantCertsFromSecretData, TlsRecord
    <3>3. \A q \in running : pod[q] \in IPs /\ certs[pod[q]] = tls.certs[pod[q]]
      BY SMT, <3>1 DEF removeRedundantCertsFromSecretData, running, TypeOK
    <3>4. /\ tls' = [tls EXCEPT !.certs = [certs EXCEPT ![pworker.ip] = pworker.ca]]
          /\ unnoticed' = [unnoticed EXCEPT !.wiped =
                             IF pworker.ca = ca THEN @ \ {pworker.pod} ELSE @ \cup {pworker.pod}]
          /\ pods' = pods
      BY <1>2, <2>3 DEF updateSecret, storeTLS
    <3> HIDE DEF certs
    <3>5. pworker.ca \in CAs \cup {0} BY SMT DEF TypeOK
    <3>6. tls' \in TlsRecord /\ tls'.ca = tls.ca /\ tls'.certs = [certs EXCEPT ![pworker.ip] = pworker.ca]
      BY SMT, <3>1, <3>2, <3>4, <3>5 DEF TlsRecord
    <3>7. tls # Absent /\ tls' # Absent BY <3>1, <3>6, AbsentAssumption
    <3>8. SignedInv' BY <2>1, <3>6, <3>7 DEF PodInv, SignedInv
    <3>9. unnoticed'.wiped = IF pworker.ca = ca THEN unnoticed.wiped \ {pworker.pod}
                                                ELSE unnoticed.wiped \cup {pworker.pod}
      BY SMT, <3>4 DEF TypeOK
    <3>10. ASSUME NEW q \in running \ unnoticed'.wiped PROVE Pending(q)' \/ Served(q)'
      <4>1. pod[q] \in IPs /\ certs[pod[q]] = tls.certs[pod[q]] BY <3>3
      <4>2. CASE (q = pworker.pod) # (pod[q] = pworker.ip)
        BY <2>1, <3>4, <4>2 DEF PodInv, TakenInv, Pending
      <4>3. CASE q = pworker.pod /\ pod[q] = pworker.ip
        <5>1. pworker.ca = ca BY <3>9, <3>10, <4>3
        <5>2. tls'.certs[pod[q]] = ca BY <3>2, <3>6, <4>1, <4>3, <5>1
        <5> QED BY <2>1, <3>7, <5>2 DEF Served
      <4>4. CASE q # pworker.pod /\ pod[q] # pworker.ip
        <5>1. tls'.certs[pod[q]] = tls.certs[pod[q]] BY <3>2, <3>6, <4>1, <4>4
        <5>2. Served(q) => Served(q)' BY <2>1, <3>6, <3>7, <5>1 DEF Served
        <5>3. q \notin unnoticed.wiped BY <3>9, <3>10, <4>4
        <5>4. Pending(q) => Pending(q)' BY <2>1, <3>4, <4>4 DEF Pending
        <5> QED BY <3>10, <5>2, <5>3, <5>4 DEF PodInv, ServedInv
      <4> QED BY <4>2, <4>3, <4>4
    <3>11. ServedInv' BY <2>2, <3>10 DEF ServedInv
    <3> QED BY <2>2, <3>8, <3>11 DEF PodInv
  <2>4. CASE ~(seen.tls # Absent /\ seen.tlsFresh)
    <3>1. pods' = pods \cup {pworker.pod} /\ UNCHANGED <<tls, unnoticed>> BY <1>2, <2>4 DEF updateSecret
    <3>2. SignedInv' BY <2>1, <3>1 DEF PodInv, SignedInv
    <3>3. \A q \in running : (Pending(q) => Pending(q)') /\ (Served(q) => Served(q)')
      BY <2>1, <3>1 DEF Pending, Served
    <3>4. ServedInv' BY <2>2, <3>1, <3>3 DEF PodInv, ServedInv
    <3> QED BY <2>2, <3>2, <3>4 DEF PodInv
  <2> QED BY <2>3, <2>4
<1> QED BY <1>1, <1>2 DEF PodController

LEMMA EnvironmentServed == ASSUME TypeOK, CacheInv, PodInv, DeliverCA \/ DeliverTLS \/ Environment PROVE PodInv'
<1> USE DEF secrets, cluster
<1>s. ASSUME SamePods, UNCHANGED <<ca, tls, worker, unnoticed>> PROVE PodInv'
  BY <1>s, SameSecretsServed DEF PodInv, SignedInv
<1>i. Idle.at \notin {"sync", "default"} BY SMT, IdleTypes
<1>1. CASE DeliverCA \/ DeliverTLS \/ Age \/ Resync BY <1>1, <1>s DEF DeliverCA, DeliverTLS, Age, Resync, SamePods
<1>2. ASSUME NEW r, NEW new, ChangeRuntime(r, new) PROVE PodInv' BY <1>2, <1>s DEF ChangeRuntime, SamePods
<1>3. ASSUME NEW new, ChangeBinding(new) PROVE PodInv' BY <1>3, <1>s DEF ChangeBinding, SamePods
<1>4. CASE CallFails
  BY <1>4, <1>i, SameSecretsServed DEF CallFails, fail, SamePods
<1>5. CASE DeleteSecrets
  <2>1. SamePods /\ UNCHANGED worker BY <1>5 DEF DeleteSecrets, SamePods
  <2>2. CASE storeCA(0) /\ UNCHANGED <<tls, unnoticed>>
    BY <2>1, <2>2, NewCAServed DEF storeCA, PodInv, SignedInv
  <2>3. CASE storeTLS(Absent) /\ wipe(running)
    <3>1. SignedInv' BY <2>1, <2>3 DEF SignedInv, storeTLS, PodInv
    <3>2. unnoticed'.wiped = unnoticed.wiped \cup running BY <2>3, WipeType, PodSets DEF TypeOK
    <3> QED BY <2>1, <3>1, <3>2, KeepServed
  <2> QED BY <1>5, <2>2, <2>3 DEF DeleteSecrets
<1>6. CASE PodCallFails
  <2>1. UNCHANGED <<ca, tls, pod, worker, unnoticed>> /\ pods' = pods \cup {pworker.pod} /\ pworker' = PIdle
    BY <1>6 DEF PodCallFails
  <2>2. running' = running /\ AddressInv' /\ TakenInv' /\ SignedInv'
    BY <2>1 DEF PodInv, AddressInv, TakenInv, SignedInv, running
  <2>3. \A q \in running : (Pending(q) => Pending(q)') /\ (Served(q) => Served(q)') BY <2>1 DEF Pending, Served
  <2>4. ServedInv' BY <2>1, <2>2, <2>3 DEF PodInv, ServedInv
  <2> QED BY <2>2, <2>4 DEF PodInv
<1>7. CASE Restart
  <2>1. UNCHANGED <<ca, tls, pod>> /\ pworker' = PIdle /\ worker' = Idle BY <1>7 DEF Restart
  <2>2. running' = running /\ AddressInv' /\ TakenInv' /\ SignedInv'
    BY <1>i, <2>1 DEF PodInv, AddressInv, TakenInv, SignedInv, running
  <2>3. running \subseteq pods' BY <1>7 DEF Restart, checkPodHasIP, running
  <2>4. ServedInv' BY <2>2, <2>3 DEF ServedInv, Pending
  <2> QED BY <2>2, <2>4 DEF PodInv
<1>8. ASSUME NEW p \in Pods, DeletePod(p) PROVE PodInv'
  <2>1. UNCHANGED <<ca, tls, pods, pworker, worker, unnoticed>> /\ pod' = [pod EXCEPT ![p] = 0] BY <1>8 DEF DeletePod
  <2>2. running' = running \ {p} /\ \A q \in running' : pod'[q] = pod[q]
    BY SMT, <2>1 DEF running, TypeOK
  <2>3. AddressInv' BY <2>2 DEF PodInv, AddressInv
  <2>4. TakenInv' /\ SignedInv' BY <2>1, <2>2 DEF PodInv, TakenInv, SignedInv
  <2>5. ASSUME NEW q \in running' PROVE (Pending(q) => Pending(q)') /\ (Served(q) => Served(q)')
    BY <2>1, <2>2 DEF Pending, Served
  <2>6. ServedInv' BY <2>1, <2>2, <2>5 DEF PodInv, ServedInv
  <2> QED BY <2>3, <2>4, <2>6 DEF PodInv
<1>9. ASSUME NEW p \in Pods, NEW i \in IPs, StartPod(p, i) PROVE PodInv'
  <2>1. UNCHANGED <<ca, tls, pworker, worker>> /\ pod' = [pod EXCEPT ![p] = i] /\ pod[p] = 0 /\ \A q \in Pods : pod[q] # i
    BY <1>9 DEF StartPod
  <2>2. pods' = pods \cup {p} BY SMT, <1>9, AddressAssumption DEF StartPod, checkPodHasIP
  <2>3. unnoticed'.wiped = unnoticed.wiped \ {p} BY SMT, <1>9 DEF StartPod, TypeOK
  <2>4. /\ running' = running \cup {p} /\ p \notin running /\ pod'[p] = i
        /\ \A q \in running : pod'[q] = pod[q] /\ pod[q] # i
    BY SMT, <2>1, AddressAssumption DEF running, TypeOK
  <2>5. AddressInv'
    <3> SUFFICES ASSUME NEW a \in running', NEW b \in running', pod'[a] = pod'[b] PROVE a = b
      BY DEF AddressInv
    <3>1. CASE a = p BY <2>4, <3>1
    <3>2. CASE b = p BY <2>4, <3>2
    <3>3. CASE a # p /\ b # p BY <2>4, <3>3 DEF PodInv, AddressInv
    <3> QED BY <3>1, <3>2, <3>3
  <2>6. TakenInv' BY <2>1, <2>2, <2>4 DEF PodInv, TakenInv
  <2>7. SignedInv' BY <2>1 DEF PodInv, SignedInv
  <2>8. ASSUME NEW q \in running PROVE (Pending(q) => Pending(q)') /\ (Served(q) => Served(q)')
    BY <2>1, <2>2, <2>4 DEF Pending, Served
  <2>9. Pending(p)' BY <2>2 DEF Pending
  <2>10. ServedInv' BY <2>3, <2>4, <2>8, <2>9 DEF PodInv, ServedInv
  <2> QED BY <2>5, <2>6, <2>7, <2>10 DEF PodInv
<1> QED BY <1>1, <1>2, <1>3, <1>4, <1>5, <1>6, <1>7, <1>8, <1>9 DEF Environment

LEMMA InitServed == Init => PodInv
<1> SUFFICES ASSUME Init PROVE PodInv OBVIOUS
<1>0. pod = [p \in Pods |-> 0] /\ tls = Absent /\ worker = Idle BY Zenon DEF Init
<1>1. running = {} BY <1>0, Zenon DEF running
<1>2. Idle.at = "idle" BY IdleTypes
<1>3. SignedInv BY <1>0, <1>2, SMT DEF SignedInv
<1> QED BY <1>1, <1>3 DEF PodInv, ServedInv, AddressInv, TakenInv

LEMMA QuietPodsServed == ASSUME PodInv, RuntimeServed PROVE PodsServed
<1> SUFFICES ASSUME Quiet, PodsQuiet, existMultiNodeServingRuntimeInNs, NEW p \in running \ unnoticed.wiped
             PROVE tls.certs[pod[p]] = ca
  BY DEF PodsServed
<1>1. tls.ca = ca BY DEF RuntimeServed, CAShared
<1>2. PIdle.ip = 0 BY DEF PIdle
<1>3. ~Pending(p) BY <1>2 DEF Pending, PodsQuiet, running
<1> QED BY <1>1, <1>3 DEF PodInv, ServedInv, Served

\* At rest every Pod has a certificate of the current CA in ray-tls, but for
\* those whose certificate a rewrite or removal of ray-tls took or outdated,
\* with any number of Pods, addresses, CAs, changes and failures.
THEOREM PodsAreServed == Spec => []PodsServed
<1>1. ASSUME TypeOK, CacheInv, PodInv, [Next]_vars PROVE PodInv'
  <2>1. CASE UNCHANGED vars BY <1>1, <2>1, SameSecretsServed DEF vars, SamePods, PodInv, SignedInv
  <2> QED BY <1>1, <2>1, RuntimeControllerServed, PodControllerServed, EnvironmentServed DEF Next
<1>2. PodInv /\ RuntimeServed => PodsServed BY QuietPodsServed
<1> QED BY <1>1, <1>2, InitServed, TypeCorrect, RuntimesAreServed, PTL DEF Spec

=============================================================================
