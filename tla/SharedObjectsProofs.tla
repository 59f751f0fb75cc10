------------------------- MODULE SharedObjectsProofs -------------------------
(***************************************************************************)
(* Proofs about the objects that several controllers or goroutines share:  *)
(* storage-config and the certificate bundle (StorageConfig) and the       *)
(* informers of the ConfigMap reference source (ConfigMapReferenceSource), *)
(* each for every value of its constants.                                  *)
(***************************************************************************)
EXTENDS StorageConfig, ConfigMapReferenceSource, TLAPS

---------------------------------------------------------------------------
(* StorageConfig: the types, that a storage-config without the managed      *)
(* label is left alone, and that both derived objects are current at rest.  *)

\* The custom bundle holds the parts that have data.
Assembled == IF certData = <<>> THEN custom = Absent ELSE custom # Absent /\ custom.data = certData

\* A ConfigMap pass in flight holds the parts of now, or another will follow;
\* and with neither a pass in flight nor one to follow the bundle is right.
BundleInv ==
  ~unwatched /\ ~configmaps =>
    IF cworker.at = "write" THEN cworker.data = certData ELSE Assembled

CertNow == IF custom = Absent THEN <<>> ELSE custom.data

\* What the cache and the bundle of now ask storage-config to say.
SeenPromised ==
  IF DOMAIN dataConnections = {} THEN Absent
  ELSE [managed |-> TRUE, data |-> newStorageSecret(dataConnections, CertNow)]

\* No Secret pass is to follow: none is queued and the cache is not behind.
Last == ~secrets /\ seen.fresh

\* What keeps storage-config current: a cache that is not behind shows it; a
\* last pass works on the connections of the cache and, unless the ConfigMap
\* controller is about to delete storage-config, with the bundle of now; and
\* when no pass is left, storage-config is what the cache and the bundle ask
\* for.
StorageInv ==
  /\ seen.fresh => seen.storage = cached(storage)
  /\ \/ sworker.at = "idle"
     \/ (sworker.at = "delete") = (DOMAIN sworker.list = {})
  /\ sworker.at # "idle" /\ ~secrets => sworker.list = dataConnections
  /\ sworker.at \in {"write", "update"} /\ Last /\ ~torn /\ seen.storage # Absent => sworker.cert = CertNow
  /\ sworker.at = "idle" /\ Last /\ ~unwatched /\ storage = Absent => DOMAIN dataConnections = {}
  /\ sworker.at = "idle" /\ Last /\ ~unwatched /\ ~torn /\ managed(storage) => storage = SeenPromised


\* A storage-config without a certificate has the empty one.
LEMMA NoCert == <<>> \in Certs
BY DEF Certs

\* The fields of the idle workers.
LEMMA IdleTypes == SIdle \in SWorkers /\ SIdle.at = "idle" /\ CIdle \in CWorkers /\ CIdle.at = "idle"
BY NoCert DEF SIdle, SWorkers, CIdle, CWorkers

\* A record of the shape of storage-config is not Absent.
LEMMA StorageRecordType ==
    ASSUME NEW cs \in SUBSET Connections, NEW m \in BOOLEAN, NEW f \in [cs -> Entry]
    PROVE [managed |-> m, data |-> f] \in StorageRecord /\ [managed |-> m, data |-> f] # Absent
<1>1. [managed |-> m, data |-> f] \in [managed : BOOLEAN, data : [cs -> Entry]] OBVIOUS
<1>2. [managed |-> m, data |-> f] \in StorageRecord BY <1>1 DEF StorageRecord
<1> QED BY <1>2, AbsentAssumption

\* What the cache lists.
LEMMA ListType ==
    ASSUME seen \in Caches
    PROVE /\ dataConnections \in Lists
          /\ DOMAIN dataConnections = {x \in Connections : seen.connection[x] # Absent /\ seen.connection[x].dashboard}
<1> DEFINE D == {x \in Connections : seen.connection[x] # Absent /\ seen.connection[x].dashboard}
<1>1. \A c \in D : seen.connection[c] \in ConnectionRecord BY DEF Caches, Connected
<1>2. dataConnections \in [D -> ConnectionRecord] BY <1>1 DEF dataConnections
<1>3. D \in SUBSET Connections OBVIOUS
<1> QED BY <1>2, <1>3 DEF Lists

\* What is written from a list is a storage-config.
LEMMA DesiredType ==
    ASSUME NEW list \in Lists, NEW cert
    PROVE LET new == [managed |-> TRUE, data |-> newStorageSecret(list, cert)]
          IN  new \in StorageRecord /\ new # Absent /\ new.managed
<1>1. PICK cs \in SUBSET Connections : list \in [cs -> ConnectionRecord] BY DEF Lists
<1>2. \A c \in cs : [keys |-> list[c].keys, ca |-> cert # <<>> /\ list[c].https] \in Entry
  BY <1>1 DEF ConnectionRecord, Entry
<1>3. newStorageSecret(list, cert) \in [cs -> Entry] BY <1>1, <1>2 DEF newStorageSecret
<1> QED BY Zenon, <1>3, StorageRecordType

\* What a step that stores storage-config does to the cache.
LEMMA StoreEffect ==
    ASSUME seen \in Caches, NEW new, store(new)
    PROVE /\ storage' = new
          /\ seen' \in Caches
          /\ seen'.connection = seen.connection
          /\ seen'.storage = seen.storage
          /\ seen'.fresh => seen.fresh /\ (storage = new \/ (~managed(storage) /\ ~managed(new)))
<1> DEFINE b == seen.fresh /\ (storage = new \/ (~managed(storage) /\ ~managed(new)))
<1>1. b \in BOOLEAN OBVIOUS
<1>2. seen' = [seen EXCEPT !.fresh = b] BY DEF store
<1>3. seen'.fresh = b BY <1>2 DEF Caches
<1> HIDE DEF b
<1>4. /\ seen' \in Caches
      /\ seen'.connection = seen.connection
      /\ seen'.storage = seen.storage
  BY <1>1, <1>2 DEF Caches
<1> QED BY Zenon, <1>3, <1>4 DEF store, b

\* What the cache shows of storage-config.
LEMMA CachedType ==
    ASSUME NEW S, NEW r \in S \cup {Absent}
    PROVE cached(r) \in S \cup {Absent}
BY DEF cached

\* The parts of the bundle have the type of its data.
LEMMA CertType ==
    ASSUME trusted \in Bundles \cup {Absent}, service \in Bundles \cup {Absent}
    PROVE certData \in Certs
<1> DEFINE part(b) == IF b = Absent THEN <<>> ELSE <<b>>
<1>1. \A b \in Bundles \cup {Absent} : part(b) \in Seq(Bundles) OBVIOUS
<1>2. part(trusted) \in Seq(Bundles) /\ part(service) \in Seq(Bundles) BY <1>1
<1> HIDE DEF part
<1>3. part(trusted) \o part(service) \in Seq(Bundles) BY <1>2
<1> QED BY <1>3 DEF certData, part, Certs

\* The end of a Secret pass.
LEMMA FinishEffect ==
    ASSUME secrets \in BOOLEAN, NEW e \in BOOLEAN, finish(e)
    PROVE /\ sworker' \in SWorkers /\ sworker'.at = "idle" /\ secrets' \in BOOLEAN
          /\ ~secrets' => ~secrets /\ ~e
BY IdleTypes DEF finish

\* The deletion of storage-config by either controller.
LEMMA DeleteEffect ==
    ASSUME TypeOK, deleteStorageSecret
    PROVE /\ storage' = IF seen.storage # Absent THEN Absent ELSE storage
          /\ storage' \in StorageRecord \cup {Absent}
          /\ seen' \in Caches
          /\ seen'.connection = seen.connection
          /\ seen'.storage = seen.storage
          /\ seen'.fresh => seen.fresh
          /\ seen'.fresh => storage = storage' \/ (~managed(storage) /\ ~managed(storage'))
<1> DEFINE new == IF seen.storage # Absent THEN Absent ELSE storage
<1>1. store(new) BY DEF deleteStorageSecret
<1>2. new \in StorageRecord \cup {Absent} BY DEF TypeOK
<1>3. storage' = new BY <1>1 DEF store
<1> HIDE DEF new
<1>4. seen \in Caches BY DEF TypeOK
<1> QED BY <1>1, <1>2, <1>3, <1>4, StoreEffect DEF new

\* The initial state has the types.
LEMMA InitTypes == Init => TypeOK
<1> SUFFICES ASSUME Init PROVE TypeOK OBVIOUS
<1>1. connection \in Connected BY DEF Init, Connected
<1>2. seen \in Caches BY <1>1 DEF Init, Caches
<1>3. configmaps \in BOOLEAN BY DEF Init
<1>4. sworker \in SWorkers /\ sworker.at = "idle" /\ cworker \in CWorkers BY IdleTypes DEF Init
<1>5. changes \in 0..MaxChanges BY BoundAssumption DEF Init
<1> QED BY Zenon, <1>1, <1>2, <1>3, <1>4, <1>5 DEF Init, TypeOK

\* A step of the Secret controller keeps them.
LEMMA SecretControllerTypes == ASSUME TypeOK, SecretController PROVE TypeOK'
<1> USE DEF objects, bundles, ghosts
<1>1. CASE ReconcileSecret
  <2> DEFINE at == IF DOMAIN dataConnections = {} THEN "delete" ELSE "cert"
  <2>1. dataConnections \in Lists BY ListType DEF TypeOK
  <2>2. sworker' = [at |-> at, list |-> dataConnections, cert |-> <<>>] BY Zenon, <1>1 DEF ReconcileSecret, SIdle
  <2>3. at \in {"cert", "delete"} OBVIOUS
  <2> HIDE DEF at
  <2>4. sworker' \in SWorkers /\ sworker'.list \in Lists BY <2>1, <2>2, <2>3, NoCert DEF SWorkers
  <2> QED BY Zenon, <1>1, <2>4 DEF ReconcileSecret, TypeOK
<1>2. CASE GetCertConfigMap
  <2> DEFINE cert == IF custom = Absent THEN <<>> ELSE custom.data
  <2>1. cert \in Certs BY NoCert DEF TypeOK, BundleRecord
  <2>2. sworker' = [sworker EXCEPT !.at = "write", !.cert = cert] BY <1>2 DEF GetCertConfigMap
  <2> HIDE DEF cert
  <2>3. sworker.at = "cert" /\ sworker.list \in Lists /\ sworker \in SWorkers BY <1>2 DEF GetCertConfigMap, TypeOK
  <2>4. sworker' \in SWorkers /\ sworker'.list \in Lists BY Zenon, <2>1, <2>2, <2>3 DEF SWorkers
  <2> QED BY <1>2, <2>4 DEF GetCertConfigMap, TypeOK
<1>3. CASE WriteStorageSecret
  <2>1. sworker.at = "write" /\ sworker.list \in Lists BY <1>3 DEF WriteStorageSecret, TypeOK
  <2>2. create(desired) \in StorageRecord \cup {Absent} BY <2>1, DesiredType DEF create, desired, TypeOK
  <2>3. CASE store(create(desired)) /\ finish(FALSE)
    <3>1. storage' \in StorageRecord \cup {Absent} /\ seen' \in Caches BY <2>2, <2>3, StoreEffect DEF TypeOK
    <3> QED BY Zenon, <1>3, <2>3, <3>1, FinishEffect DEF WriteStorageSecret, TypeOK
  <2>4. CASE finish(FALSE) /\ UNCHANGED <<storage, seen>>
    BY Zenon, <1>3, <2>4, FinishEffect DEF WriteStorageSecret, TypeOK
  <2>5. CASE sworker' = [sworker EXCEPT !.at = "update"] /\ UNCHANGED <<storage, seen, secrets>>
    <3>1. sworker' \in SWorkers /\ sworker'.list \in Lists BY <2>1, <2>5 DEF TypeOK, SWorkers
    <3> QED BY <1>3, <2>5, <3>1 DEF WriteStorageSecret, TypeOK
  <2> QED BY Zenon, <1>3, <2>3, <2>4, <2>5 DEF WriteStorageSecret
<1>4. CASE UpdateStorageSecret
  <2> DEFINE current == seen.storage # Absent /\ seen.fresh
             new == IF current THEN desired ELSE storage
  <2>1. sworker.at = "update" /\ sworker.list \in Lists BY <1>4 DEF UpdateStorageSecret, TypeOK
  <2>2. new \in StorageRecord \cup {Absent} BY <2>1, DesiredType DEF desired, TypeOK
  <2>3. store(new) /\ finish(~current) BY <1>4 DEF UpdateStorageSecret
  <2>4. (~current) \in BOOLEAN OBVIOUS
  <2> HIDE DEF current, new
  <2>5. storage' \in StorageRecord \cup {Absent} /\ seen' \in Caches BY <2>2, <2>3, StoreEffect DEF TypeOK
  <2>6. sworker' \in SWorkers /\ sworker'.at = "idle" /\ secrets' \in BOOLEAN
    BY Zenon, <2>3, <2>4, FinishEffect DEF TypeOK
  <2> QED BY <1>4, <2>5, <2>6 DEF UpdateStorageSecret, TypeOK
<1>5. CASE DeleteStorageSecret
  <2>1. finish(deleteError) /\ deleteError \in BOOLEAN BY <1>5 DEF DeleteStorageSecret, deleteError
  <2>2. storage' \in StorageRecord \cup {Absent} /\ seen' \in Caches BY <1>5, DeleteEffect DEF DeleteStorageSecret
  <2>3. sworker' \in SWorkers /\ sworker'.at = "idle" /\ secrets' \in BOOLEAN BY <2>1, FinishEffect DEF TypeOK
  <2> QED BY <1>5, <2>2, <2>3 DEF DeleteStorageSecret, TypeOK
<1> QED BY <1>1, <1>2, <1>3, <1>4, <1>5 DEF SecretController

\* A step of the ConfigMap controller keeps them.
LEMMA ConfigMapControllerTypes == ASSUME TypeOK, ConfigMapController PROVE TypeOK'
<1> USE DEF objects, bundles, ghosts
<1>1. CASE ReconcileConfigMap
  <2>1. certData \in Certs BY CertType DEF TypeOK
  <2>2. cworker' \in CWorkers BY <1>1, <2>1 DEF ReconcileConfigMap, CWorkers
  <2> QED BY Zenon, <1>1, <2>2 DEF ReconcileConfigMap, TypeOK
<1>2. CASE processDelta
  <2>0. cworker.data \in Certs BY DEF TypeOK, CWorkers
  <2>1. custom' \in BundleRecord \cup {Absent}
    BY <1>2, <2>0 DEF processDelta, TypeOK, BundleRecord, isUpdated
  <2>2. configmaps' \in BOOLEAN /\ torn' \in BOOLEAN BY <1>2 DEF processDelta
  <2>3. [cworker EXCEPT !.at = "drop"] \in CWorkers BY DEF TypeOK, CWorkers
  <2>4. cworker' \in CWorkers BY <1>2, <2>3, IdleTypes DEF processDelta
  <2> QED BY <1>2, <2>1, <2>2, <2>4 DEF processDelta, TypeOK
<1>3. CASE DropStorageSecret
  <2>1. configmaps' \in BOOLEAN BY <1>3 DEF DropStorageSecret
  <2>2. storage' \in StorageRecord \cup {Absent} /\ seen' \in Caches BY <1>3, DeleteEffect DEF DropStorageSecret
  <2> QED BY Zenon, <1>3, <2>1, <2>2, IdleTypes DEF DropStorageSecret, TypeOK
<1> QED BY <1>1, <1>2, <1>3 DEF ConfigMapController

\* A change in the cluster keeps them.
LEMMA EnvironmentTypes ==
    ASSUME TypeOK,
           DeliverStorage \/ (\E c \in Connections : DeliverConnection(c)) \/ Users
             \/ SecretCallFails \/ ConfigMapCallFails \/ Restart
    PROVE TypeOK'
<1> USE DEF objects, bundles, ghosts
<1>1. CASE DeliverStorage
  <2>1. seen' \in Caches
    <3>1. cached(storage) \in StorageRecord \cup {Absent} BY CachedType DEF TypeOK
    <3> QED BY Zenon, <1>1, <3>1 DEF DeliverStorage, TypeOK, Caches
  <2>2. secrets' \in BOOLEAN BY <1>1 DEF DeliverStorage
  <2> QED BY <1>1, <2>1, <2>2 DEF DeliverStorage, TypeOK
<1>2. ASSUME NEW c \in Connections, DeliverConnection(c) PROVE TypeOK'
  <2>1. cached(connection[c]) \in ConnectionRecord \cup {Absent} BY CachedType DEF TypeOK, Connected
  <2>2. secrets' \in BOOLEAN BY <1>2 DEF DeliverConnection
  <2>3. seen' \in Caches BY <1>2, <2>1 DEF DeliverConnection, TypeOK, Caches, Connected
  <2> QED BY <1>2, <2>2, <2>3 DEF DeliverConnection, TypeOK
<1>c. ASSUME Change PROVE changes' \in 0..MaxChanges BY <1>c, BoundAssumption DEF Change, TypeOK
<1>3. ASSUME NEW c \in Connections, NEW new \in ConnectionSpecs \cup {Absent}, ChangeConnection(c, new) PROVE TypeOK'
  <2>1. connection' \in Connected BY <1>3, SpecsAssumption DEF ChangeConnection, TypeOK, Connected
  <2> QED BY <1>3, <1>c, <2>1 DEF ChangeConnection, TypeOK
<1>4. ASSUME NEW t \in Bundles \cup {Absent}, NEW s \in Bundles \cup {Absent}, ChangeBundles(t, s) PROVE TypeOK'
  BY <1>4, <1>c DEF ChangeBundles, TypeOK
<1>5. ASSUME NEW new \in {Absent} \cup [managed : BOOLEAN, data : {<<>>} \cup {<<b>> : b \in Bundles}], ChangeCustom(new)
       PROVE TypeOK'
  <2>1. \A b \in Bundles : <<b>> \in Certs BY DEF Certs
  <2>2. {<<>>} \cup {<<b>> : b \in Bundles} \subseteq Certs BY <2>1, NoCert
  <2>3. new \in BundleRecord \cup {Absent} BY <2>2 DEF BundleRecord
  <2>4. configmaps' \in BOOLEAN /\ unwatched' \in BOOLEAN BY <1>5 DEF ChangeCustom
  <2> QED BY <1>5, <1>c, <2>3, <2>4 DEF ChangeCustom, TypeOK
<1>6. ASSUME NEW new \in {Absent} \cup [managed : BOOLEAN, data : {<<>>}], ChangeStorage(new) PROVE TypeOK'
  <2>1. <<>> \in [{} -> Entry] OBVIOUS
  <2>2. new \in StorageRecord \cup {Absent}
    <3>1. CASE new # Absent
      <4>1. new.managed \in BOOLEAN /\ new = [managed |-> new.managed, data |-> <<>>] BY <3>1
      <4> QED BY Zenon, <4>1, <2>1, StorageRecordType
    <3> QED BY <3>1
  <2>3. unwatched' \in BOOLEAN BY <1>6 DEF ChangeStorage
  <2>4. storage' = new /\ seen' \in Caches BY <1>6, StoreEffect DEF ChangeStorage, TypeOK
  <2> QED BY <1>6, <1>c, <2>2, <2>3, <2>4 DEF ChangeStorage, TypeOK
<1>7. CASE SecretCallFails
  BY Zenon, <1>7, <1>c, FinishEffect DEF SecretCallFails, TypeOK
<1>8. CASE ConfigMapCallFails
  BY <1>8, <1>c, IdleTypes DEF ConfigMapCallFails, TypeOK
<1>9. CASE Restart
  <2>1. \A c \in Connections : cached(connection[c]) \in ConnectionRecord \cup {Absent}
    BY CachedType DEF TypeOK, Connected
  <2>2. cached(storage) \in StorageRecord \cup {Absent} BY CachedType DEF TypeOK
  <2>3. seen' \in Caches BY <1>9, <2>1, <2>2 DEF Restart, Caches, Connected
  <2>4. secrets' \in BOOLEAN /\ configmaps' \in BOOLEAN /\ unwatched' \in BOOLEAN BY <1>9 DEF Restart
  <2> QED BY <1>9, <1>c, <2>3, <2>4, IdleTypes DEF Restart, TypeOK
<1> QED BY <1>1, <1>2, <1>3, <1>4, <1>5, <1>6, <1>7, <1>8, <1>9 DEF Users

\* Every step keeps the types.
LEMMA NextTypes == ASSUME TypeOK, [Next]_vars PROVE TypeOK'
<1>1. CASE UNCHANGED vars BY <1>1 DEF vars, TypeOK
<1> QED BY <1>1, SecretControllerTypes, ConfigMapControllerTypes, EnvironmentTypes DEF Next

\* Every variable keeps its type.
THEOREM TypeCorrect == Spec => []TypeOK
BY InitTypes, NextTypes, PTL DEF Spec

---------------------------------------------------------------------------
(* A storage-config without the managed label is left alone. *)

\* Users' changes, failures and restarts are counted.
LEMMA Counted ==
    ASSUME TypeOK, Users \/ SecretCallFails \/ ConfigMapCallFails \/ Restart
    PROVE changes' # changes
<1>1. Change
  BY Zenon DEF Users, ChangeConnection, ChangeBundles, ChangeCustom, ChangeStorage, SecretCallFails, ConfigMapCallFails, Restart
<1>2. changes \in Nat BY BoundAssumption DEF TypeOK
<1> QED BY <1>1, <1>2 DEF Change

\* No step of either controller writes or deletes a storage-config that lacks
\* the managed label once the cache has dropped it, whatever is in flight.
THEOREM UnmanagedStorageKept == Spec => UnmanagedKept
<1> DEFINE A == storage # Absent /\ ~storage.managed /\ seen.storage = Absent /\ changes' = changes => storage' = storage
<1>1. ASSUME TypeOK, [Next]_vars PROVE [A]_vars
  <2> SUFFICES ASSUME Next, storage # Absent, seen.storage = Absent, changes' = changes PROVE storage' = storage
    BY <1>1
  <2>1. CASE SecretController
    BY Zenon, <2>1
    DEF SecretController, ReconcileSecret, GetCertConfigMap, WriteStorageSecret, UpdateStorageSecret, DeleteStorageSecret,
        store, create, deleteStorageSecret, objects
  <2>2. CASE ConfigMapController
    BY <2>2
    DEF ConfigMapController, ReconcileConfigMap, processDelta, DropStorageSecret, store, deleteStorageSecret, objects
  <2>3. CASE DeliverStorage \/ \E c \in Connections : DeliverConnection(c)
    BY <2>3 DEF DeliverStorage, DeliverConnection
  <2> QED BY <1>1, <2>1, <2>2, <2>3, Counted DEF Next
<1> QED BY <1>1, TypeCorrect, PTL DEF Spec, UnmanagedKept

---------------------------------------------------------------------------
(* The custom bundle. *)

\* Without parts the bundle is empty.
LEMMA NoParts ==
    ASSUME trusted = Absent, service = Absent
    PROVE certData = <<>>
BY DEF certData

\* Every step keeps what is known of the bundle.
LEMMA BundleStep == ASSUME TypeOK, BundleInv, [Next]_vars PROVE BundleInv'
<1> USE DEF objects, bundles, ghosts
<1> SUFFICES ASSUME ~unwatched', ~configmaps'
             PROVE IF cworker'.at = "write" THEN cworker'.data = certData' ELSE Assembled'
  BY DEF BundleInv
<1>1. ASSUME UNCHANGED <<bundles, configmaps, cworker, unwatched>>
      PROVE IF cworker'.at = "write" THEN cworker'.data = certData' ELSE Assembled'
  BY <1>1 DEF BundleInv, Assembled, certData
<1>2. CASE SecretController
  BY Zenon, <1>1, <1>2
  DEF SecretController, ReconcileSecret, GetCertConfigMap, WriteStorageSecret, UpdateStorageSecret, DeleteStorageSecret
<1>3. CASE ReconcileConfigMap
  BY <1>3 DEF ReconcileConfigMap, certData
<1>4. CASE processDelta
  <2>1. cworker.data = certData /\ certData' = certData
    BY Zenon, <1>4 DEF processDelta, BundleInv, certData
  <2>2. cworker'.at # "write" BY <1>4, IdleTypes DEF processDelta, TypeOK, CWorkers
  <2>3. certData \in Certs BY CertType DEF TypeOK
  <2>a. [managed |-> TRUE, data |-> certData] \in BundleRecord BY <2>3 DEF BundleRecord
  <2>4. [managed |-> TRUE, data |-> certData] # Absent BY Zenon, <2>a, AbsentAssumption
  <2>5. custom # Absent => [custom EXCEPT !.data = certData] # Absent /\ [custom EXCEPT !.data = certData].data = certData
    BY <2>3, AbsentAssumption DEF BundleRecord, TypeOK
  <2> HIDE DEF certData
  <2>6. Assembled'
    BY <1>4, <2>1, <2>4, <2>5 DEF processDelta, Assembled, isAdded, isUpdated, isRemoved
  <2> QED BY <2>2, <2>6
<1>5. CASE DropStorageSecret
  <2>1. ~configmaps /\ ~unwatched BY Zenon, <1>5 DEF DropStorageSecret
  <2>0. cworker'.at # "write" BY <1>5, IdleTypes DEF DropStorageSecret
  <2>2. Assembled BY <1>5, <2>1 DEF DropStorageSecret, BundleInv
  <2> QED BY <1>5, <2>0, <2>2 DEF DropStorageSecret, Assembled, certData
<1>6. CASE DeliverStorage \/ (\E c \in Connections : DeliverConnection(c)) \/ SecretCallFails
  BY Zenon, <1>1, <1>6 DEF DeliverStorage, DeliverConnection, SecretCallFails
<1>7. CASE Users
  <2>1. ASSUME NEW c \in Connections, NEW new, ChangeConnection(c, new)
        PROVE IF cworker'.at = "write" THEN cworker'.data = certData' ELSE Assembled'
    BY <1>1, <2>1 DEF ChangeConnection
  <2>2. ASSUME NEW t, NEW s, ChangeBundles(t, s) PROVE FALSE
    BY <2>2 DEF ChangeBundles
  <2>3. ASSUME NEW new, ChangeCustom(new) PROVE FALSE
    BY Zenon, <2>3 DEF ChangeCustom
  <2>4. ASSUME NEW new, ChangeStorage(new)
        PROVE IF cworker'.at = "write" THEN cworker'.data = certData' ELSE Assembled'
    <3>1. ~unwatched BY Zenon, <2>4 DEF ChangeStorage
    <3> QED BY <2>4, <3>1 DEF ChangeStorage, BundleInv, Assembled, certData
  <2> QED BY <1>7, <2>1, <2>2, <2>3, <2>4 DEF Users
<1>8. CASE ConfigMapCallFails
  BY <1>8 DEF ConfigMapCallFails
<1>9. CASE Restart
  <2>1. trusted = Absent /\ service = Absent /\ ~managed(custom) BY Zenon, <1>9 DEF Restart
  <2>2. custom = Absent BY Zenon, <1>9, <2>1 DEF Restart
  <2>3. trusted' = Absent /\ service' = Absent BY <1>9, <2>1 DEF Restart
  <2>4. certData' = <<>> BY <2>3 DEF certData
  <2> QED BY <1>9, <2>2, <2>4, IdleTypes DEF Restart, Assembled
<1>10. CASE UNCHANGED vars BY <1>1, <1>10 DEF vars
<1> QED BY <1>2, <1>3, <1>4, <1>5, <1>6, <1>7, <1>8, <1>9, <1>10 DEF Next, ConfigMapController

\* What is known of the bundle holds in every state.
LEMMA BundleInvariant == Spec => []BundleInv
<1>1. Init => BundleInv
  BY Zenon, NoParts, IdleTypes DEF Init, BundleInv, Assembled
<1> QED BY <1>1, BundleStep, TypeCorrect, PTL DEF Spec

---------------------------------------------------------------------------
(* storage-config. *)

\* dataConnections looks at the cached connections only.
LEMMA SameList == ASSUME seen'.connection = seen.connection PROVE dataConnections' = dataConnections
BY DEF dataConnections

\* A step of the Secret controller keeps what is known of storage-config.
LEMMA SecretControllerStep == ASSUME TypeOK, StorageInv, SecretController PROVE StorageInv'
<1> USE DEF objects, bundles, ghosts
<1>t. seen \in Caches /\ secrets \in BOOLEAN /\ torn \in BOOLEAN /\ unwatched \in BOOLEAN BY DEF TypeOK
<1>u. torn' = torn /\ unwatched' = unwatched /\ CertNow' = CertNow /\ seen'.connection = seen.connection
  <2>1. UNCHANGED <<custom, torn, unwatched>>
    BY Zenon DEF SecretController, ReconcileSecret, GetCertConfigMap, WriteStorageSecret, UpdateStorageSecret, DeleteStorageSecret
  <2>2. seen' = seen \/ (\E new : store(new))
    BY Zenon DEF SecretController, ReconcileSecret, GetCertConfigMap, WriteStorageSecret, UpdateStorageSecret, DeleteStorageSecret,
           deleteStorageSecret
  <2> QED BY <2>1, <2>2, <1>t, StoreEffect DEF CertNow
<1>l. dataConnections' = dataConnections /\ SeenPromised' = SeenPromised
  BY <1>u, SameList DEF SeenPromised, newStorageSecret
<1>1. CASE ReconcileSecret
  <2>1. sworker'.at = IF DOMAIN dataConnections = {} THEN "delete" ELSE "cert" BY <1>1 DEF ReconcileSecret, SIdle
  <2>2. sworker'.list = dataConnections BY <1>1 DEF ReconcileSecret, SIdle
  <2> QED BY <1>1, <1>l, <2>1, <2>2 DEF ReconcileSecret, StorageInv, cached, managed, Last
<1>2. CASE GetCertConfigMap
  <2>1. sworker'.at = "write" /\ sworker'.list = sworker.list /\ sworker'.cert = CertNow
    BY <1>2 DEF GetCertConfigMap, CertNow, TypeOK, SWorkers
  <2> QED BY <1>2, <1>u, <1>l, <2>1 DEF GetCertConfigMap, StorageInv, cached, managed, Last
<1>3. CASE WriteStorageSecret
  <2>1. sworker.at = "write" /\ sworker.list \in Lists BY <1>3 DEF WriteStorageSecret, TypeOK
  <2>2. desired # Absent /\ managed(desired) BY <2>1, DesiredType DEF desired, managed
  <2>3. CASE seen.storage = Absent /\ store(create(desired)) /\ finish(FALSE)
    <3>1. /\ storage' = create(desired) /\ seen'.storage = seen.storage
          /\ seen'.fresh => seen.fresh /\ (storage = create(desired) \/ (~managed(storage) /\ ~managed(create(desired))))
      BY <1>t, <2>3, StoreEffect
    <3>2. sworker'.at = "idle" BY Zenon, <1>t, <2>3, FinishEffect
    <3>3. seen'.fresh => seen.fresh /\ storage' = storage /\ storage # Absent /\ ~managed(storage)
      BY <2>2, <2>3, <3>1 DEF create, StorageInv, cached
    <3> QED BY <3>1, <3>2, <3>3 DEF StorageInv, Last, cached, managed
  <2>4. CASE seen.storage = desired /\ finish(FALSE) /\ UNCHANGED <<storage, seen>>
    <3>1. sworker'.at = "idle" /\ (~secrets' => ~secrets) BY Zenon, <1>t, <2>4, FinishEffect
    <3>2. ASSUME ~secrets, seen.fresh
          PROVE storage = desired /\ sworker.list = dataConnections /\ DOMAIN dataConnections # {}
      BY <2>1, <2>2, <2>4, <3>2 DEF StorageInv, cached
    <3>3. ASSUME ~secrets, seen.fresh, ~torn
          PROVE storage = SeenPromised
      BY <2>1, <2>2, <2>4, <3>2, <3>3 DEF StorageInv, Last, SeenPromised, desired
    <3> QED BY <1>u, <1>l, <2>2, <2>4, <3>1, <3>2, <3>3 DEF StorageInv, Last, cached, managed
  <2>5. CASE sworker' = [sworker EXCEPT !.at = "update"] /\ UNCHANGED <<storage, seen, secrets>>
    <3>1. sworker'.at = "update" /\ sworker'.list = sworker.list /\ sworker'.cert = sworker.cert
      BY <2>5 DEF TypeOK, SWorkers
    <3> QED BY <1>u, <1>l, <2>1, <2>5, <3>1 DEF StorageInv, Last, cached, managed
  <2> QED BY Zenon, <1>3, <2>3, <2>4, <2>5 DEF WriteStorageSecret
<1>4. CASE UpdateStorageSecret
  <2> DEFINE current == seen.storage # Absent /\ seen.fresh
             new == IF current THEN desired ELSE storage
  <2>1. sworker.at = "update" /\ sworker.list \in Lists BY <1>4 DEF UpdateStorageSecret, TypeOK
  <2>2. desired # Absent /\ managed(desired) BY <2>1, DesiredType DEF desired, managed
  <2>3. store(new) /\ finish(~current) /\ (~current) \in BOOLEAN BY <1>4 DEF UpdateStorageSecret
  <2>4. /\ storage' = new /\ seen'.storage = seen.storage
        /\ seen'.fresh => seen.fresh /\ (storage = new \/ (~managed(storage) /\ ~managed(new)))
    <3> HIDE DEF new
    <3> QED BY <1>t, <2>3, StoreEffect
  <2>5. sworker'.at = "idle" /\ (~secrets' => ~secrets /\ current)
    <3> HIDE DEF current
    <3> QED BY Zenon, <1>t, <2>3, FinishEffect
  <2>6. ASSUME Last' PROVE ~secrets /\ seen.fresh /\ seen.storage # Absent /\ storage' = desired /\ storage = desired
    <3>1. ~secrets /\ seen'.fresh /\ seen.storage # Absent BY <2>5, <2>6 DEF Last
    <3> QED BY <2>2, <2>4, <3>1
  <2>7. ASSUME Last' PROVE DOMAIN dataConnections # {} /\ (~torn => storage' = SeenPromised)
    BY <2>1, <2>6, <2>7 DEF StorageInv, Last, SeenPromised, desired
  <2>8. seen'.fresh => seen'.storage = cached(storage)'
    BY <2>2, <2>4 DEF StorageInv, cached, managed
  <2> HIDE DEF new, current
  <2> QED BY <1>u, <1>l, <2>2, <2>5, <2>6, <2>7, <2>8 DEF StorageInv
<1>5. CASE DeleteStorageSecret
  <2>1. /\ storage' = IF seen.storage # Absent THEN Absent ELSE storage
        /\ seen'.storage = seen.storage
        /\ seen'.fresh => seen.fresh /\ (storage = storage' \/ (~managed(storage) /\ ~managed(storage')))
    <3>1. deleteStorageSecret BY <1>5 DEF DeleteStorageSecret
    <3> QED BY <3>1, DeleteEffect
  <2>2. sworker.at = "delete" /\ finish(deleteError) BY <1>5 DEF DeleteStorageSecret
  <2>b. deleteError \in BOOLEAN BY DEF deleteError
  <2>3. sworker'.at = "idle" /\ (~secrets' => ~secrets) BY <1>t, <2>2, <2>b, FinishEffect
  <2>4. seen'.fresh => seen.storage = Absent /\ storage' = storage /\ ~managed(storage)
    BY <2>1 DEF StorageInv, cached, managed
  <2>5. ~secrets => DOMAIN dataConnections = {} BY Zenon, <2>2 DEF StorageInv
  <2> QED BY <1>u, <1>l, <2>1, <2>3, <2>4, <2>5 DEF StorageInv, Last, cached, managed
<1> QED BY <1>1, <1>2, <1>3, <1>4, <1>5 DEF SecretController

\* A step that leaves the Secrets, their cache and the bundle alone.
LEMMA StorageUntouched ==
    ASSUME StorageInv, UNCHANGED <<storage, seen, custom, secrets, sworker>>, unwatched => unwatched', torn => torn'
    PROVE StorageInv'
<1>1. dataConnections' = dataConnections BY SameList
<1>2. CertNow' = CertNow BY DEF CertNow
<1>3. SeenPromised' = SeenPromised BY <1>1, <1>2 DEF SeenPromised, newStorageSecret
<1> QED BY <1>1, <1>2, <1>3 DEF StorageInv, Last, cached, managed

\* A step of the ConfigMap controller keeps it.
LEMMA ConfigMapControllerStep == ASSUME TypeOK, StorageInv, ConfigMapController PROVE StorageInv'
<1> USE DEF objects, bundles, ghosts
<1>1. CASE ReconcileConfigMap
  BY <1>1, StorageUntouched DEF ReconcileConfigMap
<1>2. CASE processDelta
  <2>1. CASE torn'
    <3>1. dataConnections' = dataConnections BY <1>2, SameList DEF processDelta
    <3> QED BY <1>2, <2>1, <3>1 DEF processDelta, StorageInv, Last, cached, managed
  <2>2. CASE ~torn'
    <3>1. custom' = custom /\ ~torn BY Zenon, <1>2, <2>2 DEF processDelta
    <3> QED BY <1>2, <2>2, <3>1, StorageUntouched DEF processDelta
  <2> QED BY <2>1, <2>2
<1>3. CASE DropStorageSecret
  <2>1. deleteStorageSecret /\ UNCHANGED <<custom, secrets, sworker, unwatched>> BY <1>3 DEF DropStorageSecret
  <2>2. /\ storage' = IF seen.storage # Absent THEN Absent ELSE storage
        /\ seen'.connection = seen.connection
        /\ seen'.storage = seen.storage
        /\ seen'.fresh => seen.fresh
        /\ seen'.fresh => storage = storage' \/ (~managed(storage) /\ ~managed(storage'))
    BY <2>1, DeleteEffect
  <2>3. dataConnections' = dataConnections BY <2>2, SameList
  <2>4. seen'.fresh => seen.storage = Absent /\ storage' = storage /\ ~managed(storage)
    BY <2>2 DEF StorageInv, cached, managed
  <2> QED BY <2>1, <2>2, <2>3, <2>4 DEF StorageInv, Last, cached, managed
<1> QED BY <1>1, <1>2, <1>3 DEF ConfigMapController

\* A change in the cluster keeps it.
LEMMA EnvironmentStep ==
    ASSUME TypeOK, StorageInv,
           DeliverStorage \/ (\E c \in Connections : DeliverConnection(c)) \/ Users
             \/ SecretCallFails \/ ConfigMapCallFails \/ Restart
    PROVE StorageInv'
<1> USE DEF objects, bundles, ghosts
<1>1. CASE DeliverStorage
  <2>1. secrets' = TRUE BY Zenon, <1>1 DEF DeliverStorage, reconcileOpenDataHubSecrets
  <2>2. seen'.storage = cached(storage) /\ storage' = storage /\ sworker' = sworker
    BY <1>1 DEF DeliverStorage, TypeOK, Caches
  <2> QED BY <2>1, <2>2 DEF StorageInv, Last, cached, managed
<1>2. ASSUME NEW c \in Connections, DeliverConnection(c) PROVE StorageInv'
  <2>1. secrets' = TRUE BY Zenon, <1>2, NamesAssumption DEF DeliverConnection, reconcileOpenDataHubSecrets
  <2>2. seen'.storage = seen.storage /\ seen'.fresh = seen.fresh /\ storage' = storage /\ sworker' = sworker
    BY <1>2 DEF DeliverConnection, TypeOK, Caches
  <2> QED BY <2>1, <2>2 DEF StorageInv, Last, cached, managed
<1>3. ASSUME NEW c \in Connections, NEW new, ChangeConnection(c, new) PROVE StorageInv'
  BY <1>3, StorageUntouched DEF ChangeConnection
<1>4. ASSUME NEW s, NEW r, ChangeBundles(s, r) PROVE StorageInv'
  BY <1>4, StorageUntouched DEF ChangeBundles
<1>5. ASSUME NEW new, ChangeCustom(new) PROVE StorageInv'
  <2>1. dataConnections' = dataConnections BY <1>5, SameList DEF ChangeCustom
  <2>2. torn' = TRUE /\ (unwatched => unwatched') BY Zenon, <1>5 DEF ChangeCustom
  <2> QED BY <1>5, <2>1, <2>2 DEF ChangeCustom, StorageInv, Last, cached, managed
<1>6. ASSUME NEW new, ChangeStorage(new) PROVE StorageInv'
  <2>1. /\ storage' = new /\ new # storage
        /\ seen'.connection = seen.connection
        /\ seen'.storage = seen.storage
        /\ seen'.fresh => seen.fresh /\ ~managed(storage) /\ ~managed(new)
    BY <1>6, StoreEffect DEF ChangeStorage, TypeOK
  <2>2. UNCHANGED <<custom, secrets, sworker, torn>> /\ (unwatched => unwatched') BY Zenon, <1>6 DEF ChangeStorage
  <2>3. seen'.fresh /\ ~unwatched' => new # Absent BY Zenon, <1>6, <2>1 DEF ChangeStorage
  <2>4. dataConnections' = dataConnections BY <2>1, SameList
  <2> QED BY <2>1, <2>2, <2>3, <2>4 DEF StorageInv, Last, cached, managed, CertNow
<1>7. CASE SecretCallFails
  <2>1. secrets' = TRUE /\ sworker' = SIdle BY Zenon, <1>7 DEF SecretCallFails, finish
  <2> QED BY <1>7, <2>1, IdleTypes DEF SecretCallFails, StorageInv, Last, cached, managed
<1>8. CASE ConfigMapCallFails
  BY <1>8, StorageUntouched DEF ConfigMapCallFails
<1>9. CASE Restart
  <2>1. seen'.storage = cached(storage) /\ storage' = storage BY <1>9 DEF Restart
  <2>2. sworker'.at = "idle" BY <1>9, IdleTypes DEF Restart
  <2>3. ASSUME ~secrets' PROVE ~managed(storage) /\ DOMAIN dataConnections' = {}
    <3>1. ~managed(storage) /\ \A c \in Connections : ~managed(connection[c]) BY Zenon, <1>9, <2>3 DEF Restart
    <3>2. \A c \in Connections : seen'.connection[c] = Absent BY <1>9, <3>1 DEF Restart, cached
    <3> QED BY <3>1, <3>2 DEF dataConnections
  <2> QED BY <2>1, <2>2, <2>3 DEF StorageInv, Last, cached, managed
<1> QED BY <1>1, <1>2, <1>3, <1>4, <1>5, <1>6, <1>7, <1>8, <1>9 DEF Users

\* What is known of storage-config holds in every state.
LEMMA StorageInvariant == Spec => []StorageInv
<1>1. ASSUME Init PROVE StorageInv
  <2>1. DOMAIN dataConnections = {} BY <1>1 DEF Init, dataConnections
  <2>2. storage = Absent /\ seen.storage = Absent /\ sworker.at = "idle" BY <1>1, IdleTypes DEF Init
  <2> QED BY <2>1, <2>2 DEF StorageInv, cached, managed
<1>2. ASSUME TypeOK, StorageInv, [Next]_vars PROVE StorageInv'
  <2>1. CASE UNCHANGED vars BY <1>2, <2>1, StorageUntouched DEF vars
  <2> QED BY <1>2, <2>1, SecretControllerStep, ConfigMapControllerStep, EnvironmentStep DEF Next
<1> QED BY <1>1, <1>2, TypeCorrect, PTL DEF Spec

\* With the cache up to date, its connections are those in use.
LEMMA SettledList ==
    ASSUME TypeOK, Settled
    PROVE DOMAIN dataConnections = InUse /\ \A c \in InUse : dataConnections[c] = connection[c]
<1>1. \A c \in Connections : seen.connection[c] = cached(connection[c]) BY DEF Settled
<1>2. \A c \in Connections : (seen.connection[c] # Absent /\ seen.connection[c].dashboard) <=> c \in InUse
  BY <1>1 DEF cached, managed, InUse
<1>3. \A c \in InUse : seen.connection[c] = connection[c] BY <1>1 DEF cached, InUse
<1> QED BY <1>2, <1>3 DEF dataConnections, InUse

\* At rest storage-config holds exactly the data connections in use with the
\* bundle of now, and the custom bundle exactly the parts that have data: for
\* any number of connections and bundles, of passes of the two controllers in
\* any interleaving, and of failures and restarts.
THEOREM DerivedObjectsCurrent == Spec => []DerivedCurrent
<1>1. ASSUME TypeOK, StorageInv, BundleInv PROVE DerivedCurrent
  <2>1. CustomBundleCurrent
    <3> SUFFICES ASSUME Settled, ~unwatched PROVE Assembled BY DEF CustomBundleCurrent, Assembled
    <3>1. cworker.at = "idle" /\ ~configmaps BY IdleTypes DEF Settled
    <3> QED BY <1>1, <3>1 DEF BundleInv
  <2>2. StorageCurrent
    <3> SUFFICES ASSUME Settled, ~torn, ~unwatched, storage # Absent => storage.managed PROVE storage = Promised
      BY DEF StorageCurrent
    <3>1. sworker.at = "idle" /\ Last BY IdleTypes DEF Settled, Last
    <3>2. storage = SeenPromised
      BY <1>1, <3>1 DEF StorageInv, managed, SeenPromised
    <3>3. DOMAIN dataConnections = InUse /\ \A c \in InUse : dataConnections[c] = connection[c] BY <1>1, SettledList
    <3>4. (CertNow # <<>>) = (custom # Absent /\ custom.data # <<>>) BY DEF CertNow
    <3>5. newStorageSecret(dataConnections, CertNow)
            = [c \in InUse |-> [keys |-> connection[c].keys,
                                ca |-> custom # Absent /\ custom.data # <<>> /\ connection[c].https]]
      BY <3>3, <3>4 DEF newStorageSecret
    <3> QED BY <3>2, <3>3, <3>5 DEF SeenPromised, Promised
  <2> QED BY <2>1, <2>2 DEF DerivedCurrent
<1> QED BY <1>1, TypeCorrect, StorageInvariant, BundleInvariant, PTL

---------------------------------------------------------------------------
(* ConfigMapReferenceSource: no informer leaks, a settled source watches    *)
(* exactly what is referred to, and it implements WatchedReferences.        *)

USE RefsAssumption, ThreadsAssumption, CallsAssumption

\* What is referred to is a set of ConfigMaps, before and after a step.
LEMMA CurrentTyped ==
    ASSUME references \in [Owners -> Refs \cup {NoRef}]
    PROVE  currentReferences \subseteq Refs
BY DEF currentReferences

\* The initial state has the types, and no informer.
LEMMA SourceTypeInit == SourceInit => SourceTypeOK /\ OneInformer
<1> SUFFICES ASSUME SourceInit PROVE SourceTypeOK /\ OneInformer OBVIOUS
<1>1. OneInformer BY DEF SourceInit, OneInformer
<1>2. live \in [Refs -> Nat] /\ calls \in 0..MaxCalls BY DEF SourceInit
<1> QED BY <1>1, <1>2, Zenon DEF SourceInit, SourceTypeOK, Threads

\* A step keeps the types and the agreement of map and informers.  The two go
\* together: the count of running informers stays a natural number because
\* only an informer of the map is ever cancelled.
LEMMA SourceTypeNext ==
    ASSUME SourceTypeOK, OneInformer, [SourceNext]_sourceVars
    PROVE  SourceTypeOK' /\ OneInformer'
<1>0. currentReferences \subseteq Refs BY CurrentTyped DEF SourceTypeOK
<1>1. ASSUME NEW t \in Callers, NEW o \in Owners, NEW r \in Refs \cup {NoRef}, SetReference(t, o, r)
      PROVE  SourceTypeOK' /\ OneInformer'
  <2>1. references' \in [Owners -> Refs \cup {NoRef}] BY <1>1 DEF SetReference, SourceTypeOK
  <2>2. currentReferences' \subseteq Refs BY <2>1 DEF currentReferences
  <2> QED BY <1>1, <2>1, <2>2 DEF SetReference, SourceTypeOK, OneInformer, Threads
<1>2. ASSUME NEW t \in Threads, NEW r \in Refs, StartReference(t, r) PROVE SourceTypeOK' /\ OneInformer'
  BY <1>2 DEF StartReference, SourceTypeOK, OneInformer, Threads
<1>3. ASSUME NEW t \in Threads, CommitReference(t) PROVE SourceTypeOK' /\ OneInformer'
  <2>1. cur[t] \in Refs BY <1>3 DEF CommitReference, SourceTypeOK
  <2>2. OneInformer' BY <1>3, <2>1 DEF CommitReference, MayCommit, SourceTypeOK, OneInformer
  <2>3. SourceTypeOK' BY <1>3, <2>1 DEF CommitReference, MayCommit, SourceTypeOK, Threads
  <2> QED BY <2>2, <2>3
<1>4. ASSUME NEW t \in Threads, StartReferenceFails(t) PROVE SourceTypeOK' /\ OneInformer'
  BY <1>4 DEF StartReferenceFails, SourceTypeOK, OneInformer, Threads
<1>5. ASSUME NEW t \in Threads, stopUnreferenced(t) PROVE SourceTypeOK' /\ OneInformer'
  <2>1. \A r \in informers \ currentReferences : live[r] = 1
    BY DEF OneInformer, SourceTypeOK
  <2>2. live' \in [Refs -> Nat]
    <3>1. \A r \in Refs : live[r] \in Nat BY DEF SourceTypeOK
    <3> QED BY <1>5, <2>1, <3>1 DEF stopUnreferenced
  <2>3. OneInformer' BY <1>5, <2>1 DEF stopUnreferenced, OneInformer, SourceTypeOK
  <2>4. SourceTypeOK' BY <1>5, <2>2 DEF stopUnreferenced, SourceTypeOK, Threads
  <2> QED BY <2>3, <2>4
<1>6. CASE Startup
  BY <1>0, <1>6, ZenonT(40) DEF Startup, Start, StartReturns, WaitForSync, SourceTypeOK, OneInformer, Threads
<1>7. ASSUME NEW r \in Refs, InformerSyncs(r) PROVE SourceTypeOK' /\ OneInformer'
  BY <1>7 DEF InformerSyncs, SourceTypeOK, OneInformer, Threads
<1>8. CASE UNCHANGED sourceVars BY <1>8 DEF sourceVars, SourceTypeOK, OneInformer
<1> QED BY <1>1, <1>2, <1>3, <1>4, <1>5, <1>6, <1>7, <1>8 DEF SourceNext, Call

\* Types, and one running informer per entry of the map: no interleaving of
\* Start and any number of SetReference calls leaks or doubles an informer,
\* not even when starting one fails.
THEOREM NoLeakedInformer == SourceSpec => [](SourceTypeOK /\ OneInformer)
<1>1. SourceInit => SourceTypeOK /\ OneInformer BY SourceTypeInit
<1>2. (SourceTypeOK /\ OneInformer) /\ [SourceNext]_sourceVars => (SourceTypeOK /\ OneInformer)' BY SourceTypeNext
<1> QED BY <1>1, <1>2, PTL DEF SourceSpec

-----------------------------------------------------------------------------
\* A failed start stays noted, and a start that fails is noted.
LEMMA FailureNoted ==
    ASSUME SourceTypeOK, SourceNext, ~failed'
    PROVE  ~failed /\ \A t \in Threads : ~StartReferenceFails(t)
<1>1. \A t \in Threads : ~StartReferenceFails(t) BY DEF StartReferenceFails
<1>2. failed' = failed
  <2>1. CASE Startup BY <2>1 DEF Startup, Start, StartReturns, WaitForSync
  <2>2. ASSUME NEW t \in Callers, NEW o \in Owners, NEW r \in Refs \cup {NoRef}, SetReference(t, o, r)
        PROVE  failed' = failed
    BY <2>2 DEF SetReference
  <2>3. ASSUME NEW t \in Threads, Call(t) PROVE failed' = failed
    BY <1>1, <2>3 DEF Call, StartReference, CommitReference, stopUnreferenced
  <2>4. CASE \E r \in Refs : InformerSyncs(r) BY <2>4 DEF InformerSyncs
  <2> QED BY <2>1, <2>2, <2>3, <2>4 DEF SourceNext
<1> QED BY <1>1, <1>2, Zenon

\* A step keeps every reference without an informer in some goroutine's hands.
LEMMA CoveredNext ==
    ASSUME SourceTypeOK, ReferencesCovered, SourceNext
    PROVE  ReferencesCovered'
<1> SUFFICES ASSUME ~failed', started', NEW q \in currentReferences' \ informers'
             PROVE  \E t \in Threads : WillStart(t, q)'
  BY DEF ReferencesCovered
<1>f. ~failed /\ \A t \in Threads : ~StartReferenceFails(t) BY FailureNoted
<1>0. currentReferences \subseteq Refs BY CurrentTyped DEF SourceTypeOK
<1>1. ASSUME NEW t \in Callers, NEW o \in Owners, NEW r \in Refs \cup {NoRef}, SetReference(t, o, r)
      PROVE  WillStart(t, q)'
  BY <1>1 DEF SetReference, WillStart, SourceTypeOK, Threads
<1>2. ASSUME NEW t \in Threads, NEW r \in Refs, StartReference(t, r)
      PROVE  \E u \in Threads : WillStart(u, q)'
  <2>1. started /\ q \in currentReferences \ informers BY <1>2 DEF StartReference, currentReferences
  <2>2. PICK u \in Threads : WillStart(u, q) BY <1>f, <2>1 DEF ReferencesCovered
  <2>3. CASE u = t BY <1>2, <2>1, <2>2, <2>3 DEF StartReference, WillStart, SourceTypeOK
  <2>4. CASE u # t BY <1>2, <2>2, <2>4 DEF StartReference, WillStart, SourceTypeOK
  <2> QED BY <2>3, <2>4
<1>3. ASSUME NEW t \in Threads, CommitReference(t) PROVE \E u \in Threads : WillStart(u, q)'
  <2>1. started /\ q \in currentReferences \ informers BY <1>3 DEF CommitReference, currentReferences, MayCommit
  <2>2. PICK u \in Threads : WillStart(u, q) BY <1>f, <2>1 DEF ReferencesCovered
  <2>3. CASE u = t BY <1>3, <2>1, <2>2, <2>3 DEF CommitReference, MayCommit, WillStart, SourceTypeOK
  <2>4. CASE u # t BY <1>3, <2>2, <2>4 DEF CommitReference, WillStart, SourceTypeOK
  <2> QED BY <2>3, <2>4
<1>4. ASSUME NEW t \in Threads, stopUnreferenced(t) PROVE \E u \in Threads : WillStart(u, q)'
  <2>1. started /\ q \in currentReferences \ informers BY <1>4 DEF stopUnreferenced, currentReferences
  <2>2. PICK u \in Threads : WillStart(u, q) BY <1>f, <2>1 DEF ReferencesCovered
  <2> QED BY <1>4, <2>2 DEF stopUnreferenced, WillStart, SourceTypeOK
<1>5. CASE Start BY <1>5 DEF Start, WillStart, SourceTypeOK, Threads, currentReferences
<1>6. CASE StartReturns \/ WaitForSync \/ \E r \in Refs : InformerSyncs(r)
  <2>1. started /\ q \in currentReferences \ informers
    BY <1>6, Zenon DEF StartReturns, WaitForSync, InformerSyncs, currentReferences
  <2>2. PICK u \in Threads : WillStart(u, q) BY <1>f, <2>1 DEF ReferencesCovered
  <2> QED BY <1>6, <2>2, Zenon DEF StartReturns, WaitForSync, InformerSyncs, WillStart, SourceTypeOK
<1> QED BY <1>f, <1>1, <1>2, <1>3, <1>4, <1>5, <1>6 DEF SourceNext, Call, Startup, Threads

\* A step keeps a stop pending while an informer is not referred to.
LEMMA StaleNext ==
    ASSUME SourceTypeOK, StaleWillStop, SourceNext
    PROVE  StaleWillStop'
<1> SUFFICES ASSUME ~failed'
             PROVE  informers' \subseteq currentReferences' \/ \E t \in Callers : pc'[t] # "idle"
  BY DEF StaleWillStop
<1>f. ~failed /\ \A t \in Threads : ~StartReferenceFails(t) BY FailureNoted
<1>1. ASSUME NEW t \in Callers, NEW o \in Owners, NEW r \in Refs \cup {NoRef}, SetReference(t, o, r)
      PROVE  informers' = {} \/ pc'[t] # "idle"
  BY <1>1 DEF SetReference, SourceTypeOK, Threads
<1>2. ASSUME UNCHANGED <<references, informers>>, \A t \in Callers : pc[t] # "idle" => pc'[t] # "idle"
      PROVE  informers' \subseteq currentReferences' \/ \E t \in Callers : pc'[t] # "idle"
  BY <1>f, <1>2 DEF StaleWillStop, currentReferences
<1>3. ASSUME NEW t \in Threads, NEW r \in Refs, StartReference(t, r)
      PROVE  informers' \subseteq currentReferences' \/ \E u \in Callers : pc'[u] # "idle"
  BY <1>2, <1>3 DEF StartReference, SourceTypeOK, Threads
<1>4. ASSUME NEW t \in Threads, CommitReference(t)
      PROVE  informers' \subseteq currentReferences' \/ \E u \in Callers : pc'[u] # "idle"
  <2>1. \A u \in Callers : pc[u] # "idle" => pc'[u] # "idle"
    BY <1>4 DEF CommitReference, SourceTypeOK, Threads
  <2>2. currentReferences' = currentReferences /\ informers' \subseteq informers \cup currentReferences
    BY <1>4 DEF CommitReference, MayCommit, currentReferences
  <2> QED BY <1>f, <2>1, <2>2 DEF StaleWillStop
<1>5. ASSUME NEW t \in Threads, stopUnreferenced(t)
      PROVE  informers' \subseteq currentReferences'
  BY <1>5 DEF stopUnreferenced, currentReferences
<1>6. CASE Startup \/ \E r \in Refs : InformerSyncs(r)
  BY <1>2, <1>6 DEF Startup, Start, StartReturns, WaitForSync, InformerSyncs, SourceTypeOK, Threads
<1> QED BY <1>f, <1>1, <1>3, <1>4, <1>5, <1>6 DEF SourceNext, Call

\* When no informer fails to start, and no call is in progress, the informers
\* are exactly those of the ConfigMaps referred to, for any number of owners,
\* references and concurrent callers.
THEOREM SettledSourceWatchesReferences == SourceSpec => []WatchesReferences
<1> DEFINE Inv == ReferencesCovered /\ StaleWillStop
<1>1. SourceInit => Inv
  BY DEF SourceInit, ReferencesCovered, StaleWillStop
<1>2. ASSUME SourceTypeOK, Inv, [SourceNext]_sourceVars PROVE Inv'
  <2>1. CASE SourceNext BY <1>2, <2>1, CoveredNext, StaleNext
  <2>2. CASE UNCHANGED sourceVars
    BY <1>2, <2>2 DEF sourceVars, ReferencesCovered, StaleWillStop, WillStart, currentReferences
  <2> QED BY <1>2, <2>1, <2>2
<1>3. ASSUME SourceTypeOK, Inv PROVE WatchesReferences
  <2> SUFFICES ASSUME ~failed, started, \A t \in Threads : pc[t] \notin {"next", "commit"}
               PROVE  informers = currentReferences
    BY DEF WatchesReferences
  <2>1. \A t \in Callers : pc[t] = "idle" BY <1>3 DEF SourceTypeOK, Threads
  <2>2. informers \subseteq currentReferences BY <1>3, <2>1 DEF StaleWillStop
  <2>3. \A t \in Threads, r \in Refs : ~WillStart(t, r)
    BY <1>3 DEF WillStart, SourceTypeOK
  <2>4. currentReferences \subseteq informers
    BY <1>3, <2>3, CurrentTyped DEF ReferencesCovered, SourceTypeOK
  <2> QED BY <2>2, <2>4, Zenon
<1> HIDE DEF Inv
<1> QED BY <1>1, <1>2, <1>3, NoLeakedInformer, PTL DEF SourceSpec

-----------------------------------------------------------------------------
\* The source implements its promise: a ConfigMap is watched only from a
\* moment it is referred to until a moment it is not.
THEOREM SourceImplementsPromise == SourceSpec => ImplementsPromise
<1>1. SourceInit => Promise!Init BY DEF SourceInit, Promise!Init
<1>2. ASSUME SourceTypeOK, [SourceNext]_sourceVars PROVE [Promise!Next]_<<references, informers>>
  <2>0. currentReferences = Promise!Referenced BY DEF currentReferences, Promise!Referenced
  <2>1. ASSUME NEW t \in Callers, NEW o \in Owners, NEW r \in Refs \cup {NoRef}, SetReference(t, o, r)
        PROVE  Promise!Next
    BY <2>1, Zenon DEF SetReference, Promise!Next, Promise!Refer
  <2>2. ASSUME NEW t \in Threads, CommitReference(t) PROVE [Promise!Next]_<<references, informers>>
    <3>1. cur[t] \in Refs BY <1>2, <2>2 DEF CommitReference, SourceTypeOK
    <3> QED BY <2>0, <2>2, <3>1 DEF CommitReference, MayCommit, Promise!Next, Promise!Watch
  <2>3. ASSUME NEW t \in Threads, stopUnreferenced(t) PROVE Promise!Next
    <3>1. informers' = informers \cap Promise!Referenced BY <2>0, <2>3 DEF stopUnreferenced
    <3> QED BY <2>3, <3>1 DEF stopUnreferenced, Promise!Next, Promise!Unwatch
  <2>4. ASSUME NEW t \in Threads, (\E r \in Refs : StartReference(t, r)) \/ StartReferenceFails(t)
        PROVE  UNCHANGED <<references, informers>>
    BY <2>4 DEF StartReference, StartReferenceFails
  <2>5. CASE Startup \/ (\E r \in Refs : InformerSyncs(r)) \/ UNCHANGED sourceVars
    BY <2>5 DEF Startup, Start, StartReturns, WaitForSync, InformerSyncs, sourceVars
  <2> QED BY <1>2, <2>1, <2>2, <2>3, <2>4, <2>5 DEF SourceNext, Call
<1> QED BY <1>1, <1>2, NoLeakedInformer, PTL DEF SourceSpec, ImplementsPromise, Promise!Spec
=============================================================================
