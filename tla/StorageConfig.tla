---------------------------- MODULE StorageConfig ----------------------------
(***************************************************************************)
(* The Secret controller and the ConfigMap controller of internal/         *)
(* controller/core in one namespace.  The first collects the data          *)
(* connections into the Secret storage-config; the second collects the CA  *)
(* bundles into the ConfigMap odh-kserve-custom-ca-bundle and, when that   *)
(* changes, deletes storage-config so that the first makes it anew.        *)
(*                                                                         *)
(* Secrets are read from a cache that holds only those labelled            *)
(* opendatahub.io/managed=true (cmd/main.go); ConfigMaps are read from the *)
(* API server.                                                             *)
(***************************************************************************)
EXTENDS Naturals, Sequences, FiniteSets

CONSTANTS
  Connections,      \* names of data connection Secrets
  ConnectionSpecs,  \* the data connections users make
  Bundles,          \* the contents of a CA bundle ConfigMap
  Absent,           \* no such object
  MaxChanges        \* bound on users' changes, failed calls and restarts

\* A data connection: its managed and dashboard labels, its credentials and
\* whether its endpoint is https.
ConnectionRecord == [managed : BOOLEAN, dashboard : BOOLEAN, keys : 1..2, https : BOOLEAN]

\* storage-config: its managed label and one entry per connection.
Entry == [keys : 1..2, ca : BOOLEAN]
StorageRecord == UNION {[managed : BOOLEAN, data : [cs -> Entry]] : cs \in SUBSET Connections}

\* odh-kserve-custom-ca-bundle: its managed label and the bundles in it.
Certs == Seq(Bundles)
BundleRecord == [managed : BOOLEAN, data : Certs]

ASSUME NamesAssumption == Connections \cap {"ray-tls", "ray-ca-tls"} = {}
ASSUME SpecsAssumption == ConnectionSpecs \subseteq ConnectionRecord
ASSUME AbsentAssumption == Absent \notin ConnectionRecord \cup StorageRecord \cup BundleRecord \cup Bundles
ASSUME BoundAssumption == MaxChanges \in Nat

VARIABLES
  connection,   \* [Connections -> ConnectionRecord or Absent]
  storage,      \* storage-config: [managed, data] or Absent
  seen,         \* the cache: [connection, storage, fresh], managed Secrets only
  trusted,      \* CA data of the two source ConfigMaps, Absent if none
  service,
  custom,       \* odh-kserve-custom-ca-bundle: [managed, data] or Absent
  secrets,      \* a Secret request is queued
  configmaps,   \* a ConfigMap request is queued
  sworker,      \* the Secret controller's pass
  cworker,      \* the ConfigMap controller's pass
  changes,
  torn,         \* the custom bundle changed and storage-config was not deleted since
  unwatched     \* a change of an unlabelled bundle or storage-config is no event

vars == <<connection, storage, seen, trusted, service, custom, secrets, configmaps, sworker, cworker, changes, torn, unwatched>>
bundles == <<trusted, service, custom>>
ghosts == <<torn, unwatched>>
objects == <<connection, storage, seen, bundles>>

SIdle == [at |-> "idle", list |-> Absent, cert |-> <<>>]
CIdle == [at |-> "idle", data |-> <<>>]

Connected == [Connections -> ConnectionRecord \cup {Absent}]
Caches == [connection : Connected, storage : StorageRecord \cup {Absent}, fresh : BOOLEAN]
Lists == UNION {[cs -> ConnectionRecord] : cs \in SUBSET Connections}
SWorkers == [at : {"idle", "cert", "write", "update", "delete"}, list : Lists \cup {Absent}, cert : Certs]
CWorkers == [at : {"idle", "write", "drop"}, data : Certs]

TypeOK ==
  /\ connection \in Connected
  /\ storage \in StorageRecord \cup {Absent}
  /\ seen \in Caches
  /\ trusted \in Bundles \cup {Absent} /\ service \in Bundles \cup {Absent}
  /\ custom \in BundleRecord \cup {Absent}
  /\ secrets \in BOOLEAN /\ configmaps \in BOOLEAN
  /\ sworker \in SWorkers /\ (sworker.at # "idle" => sworker.list \in Lists)
  /\ cworker \in CWorkers
  /\ changes \in 0..MaxChanges
  /\ torn \in BOOLEAN /\ unwatched \in BOOLEAN

Init ==
  /\ connection = [c \in Connections |-> Absent]
  /\ storage = Absent
  /\ seen = [connection |-> connection, storage |-> Absent, fresh |-> TRUE]
  /\ trusted = Absent
  /\ service \in Bundles \cup {Absent}
  /\ custom = Absent
  /\ secrets = FALSE
  /\ configmaps = (service # Absent)
  /\ sworker = SIdle
  /\ cworker = CIdle
  /\ changes = 0
  /\ torn = FALSE
  /\ unwatched = FALSE

---------------------------------------------------------------------------
(* The cache of managed Secrets and its events. *)

managed(r) == r # Absent /\ r.managed

\* What the label selector of the cache lets through.
cached(r) == IF managed(r) THEN r ELSE Absent

\* storage-config becomes new; the cache is behind when it holds, or is to
\* hold, one of the two.
store(new) ==
  /\ storage' = new
  /\ seen' = [seen EXCEPT !.fresh = @ /\ (storage = new \/ (~managed(storage) /\ ~managed(new)))]

\* Mutant: storage-config does not trigger the controller.
reconcileOpenDataHubSecrets_foreign(name) == name # "storage-config"

\* The predicate of the controller.  Every Secret of the cache has the managed
\* label it asks for; of those the Ray certificates are not its concern, and
\* storage-config is.
reconcileOpenDataHubSecrets(name) == name \notin {"ray-tls", "ray-ca-tls"}

DeliverConnection(c) ==
  /\ cached(connection[c]) # seen.connection[c]
  /\ seen' = [seen EXCEPT !.connection[c] = cached(connection[c])]
  /\ secrets' = (secrets \/ reconcileOpenDataHubSecrets(c))
  /\ UNCHANGED <<connection, storage, bundles, configmaps, sworker, cworker, changes, ghosts>>

DeliverStorage ==
  /\ ~seen.fresh
  /\ seen' = [seen EXCEPT !.storage = cached(storage), !.fresh = TRUE]
  /\ secrets' = (secrets \/ reconcileOpenDataHubSecrets("storage-config"))
  /\ UNCHANGED <<connection, storage, bundles, configmaps, sworker, cworker, changes, ghosts>>

---------------------------------------------------------------------------
(* The Secret controller.  Which Secret a request names is of no account:   *)
(* the pass is about its namespace.                                         *)

\* The data connections of the namespace, as the cache has them.
dataConnections ==
  [c \in {x \in Connections : seen.connection[x] # Absent /\ seen.connection[x].dashboard} |-> seen.connection[c]]

ReconcileSecret ==
  /\ secrets
  /\ sworker.at = "idle"
  /\ secrets' = FALSE
  /\ sworker' = [SIdle EXCEPT !.at = IF DOMAIN dataConnections = {} THEN "delete" ELSE "cert", !.list = dataConnections]
  /\ UNCHANGED <<objects, configmaps, cworker, changes, ghosts>>

GetCertConfigMap ==
  /\ sworker.at = "cert"
  /\ sworker' = [sworker EXCEPT !.at = "write", !.cert = IF custom = Absent THEN <<>> ELSE custom.data]
  /\ UNCHANGED <<objects, secrets, configmaps, cworker, changes, ghosts>>

\* One entry per connection; the CA bundle goes with https endpoints only.
newStorageSecret(list, cert) ==
  [c \in DOMAIN list |-> [keys |-> list[c].keys, ca |-> cert # <<>> /\ list[c].https]]

desired == [managed |-> TRUE, data |-> newStorageSecret(sworker.list, sworker.cert)]

finish(error) == sworker' = SIdle /\ secrets' = (secrets \/ error)

\* Mutant: a Secret that the cache does not show is written over.
create_over(new) == new

\* Create leaves a Secret alone that is there without the cache showing it,
\* and that is no error.
create(new) == IF storage = Absent THEN new ELSE storage

WriteStorageSecret ==
  /\ sworker.at = "write"
  /\ \/ /\ seen.storage = Absent
        /\ store(create(desired))
        /\ finish(FALSE)
     \/ /\ seen.storage = desired
        /\ finish(FALSE)
        /\ UNCHANGED <<storage, seen>>
     \/ /\ seen.storage \notin {Absent, desired}
        /\ sworker' = [sworker EXCEPT !.at = "update"]
        /\ UNCHANGED <<storage, seen, secrets>>
  /\ UNCHANGED <<connection, bundles, configmaps, cworker, changes, ghosts>>

\* The Secret is read again from the cache, maybe some retries later, and
\* written under its resource version.
UpdateStorageSecret ==
  LET current == seen.storage # Absent /\ seen.fresh
  IN  /\ sworker.at = "update"
      /\ store(IF current THEN desired ELSE storage)
      /\ finish(~current)
      /\ UNCHANGED <<connection, bundles, configmaps, cworker, changes, ghosts>>

\* deleteStorageSecret of both controllers: only a managed one, as the cache
\* has it; it is an error that it is gone already.
deleteStorageSecret == store(IF seen.storage # Absent THEN Absent ELSE storage)
deleteError == seen.storage # Absent /\ storage = Absent

DeleteStorageSecret ==
  /\ sworker.at = "delete"
  /\ deleteStorageSecret
  /\ finish(deleteError)
  /\ UNCHANGED <<connection, bundles, configmaps, cworker, changes, ghosts>>

---------------------------------------------------------------------------
(* The ConfigMap controller. *)

\* The bundles that have data, in the order of their ConfigMaps' names.
certData ==
  LET part(b) == IF b = Absent THEN <<>> ELSE <<b>>
  IN  part(trusted) \o part(service)

ReconcileConfigMap ==
  /\ configmaps
  /\ cworker.at = "idle"
  /\ configmaps' = FALSE
  /\ cworker' = [at |-> "write", data |-> certData]
  /\ UNCHANGED <<objects, secrets, sworker, changes, ghosts>>

isAdded(data) == data # <<>> /\ custom = Absent

\* Mutant: the bundle is written whether or not it differs.
isUpdated_always(data) == custom # Absent /\ data # <<>>

isUpdated(data) == custom # Absent /\ data # <<>> /\ custom.data # data

isRemoved(data) == custom # Absent /\ data = <<>>

\* Create, update with the labels it has, or delete.  A write to a managed
\* bundle is an event.
processDelta ==
  LET data == cworker.data
      changed == isAdded(data) \/ isUpdated(data) \/ isRemoved(data)
  IN  /\ cworker.at = "write"
      /\ custom' = IF isAdded(data) THEN [managed |-> TRUE, data |-> data]
                   ELSE IF isUpdated(data) THEN [custom EXCEPT !.data = data]
                   ELSE IF isRemoved(data) THEN Absent ELSE custom
      /\ configmaps' = (configmaps \/ (changed /\ (managed(custom) \/ managed(custom'))))
      /\ cworker' = IF changed THEN [cworker EXCEPT !.at = "drop"] ELSE CIdle
      /\ torn' = (torn \/ changed)
      /\ UNCHANGED <<connection, storage, seen, trusted, service, secrets, sworker, changes, unwatched>>

DropStorageSecret ==
  /\ cworker.at = "drop"
  /\ deleteStorageSecret
  /\ cworker' = CIdle
  /\ configmaps' = (configmaps \/ deleteError)
  /\ torn' = FALSE
  /\ UNCHANGED <<connection, bundles, secrets, sworker, changes, unwatched>>

---------------------------------------------------------------------------
(* Users, failed calls and restarts. *)

Change == changes < MaxChanges /\ changes' = changes + 1

ChangeConnection(c, new) ==
  /\ Change
  /\ new # connection[c]
  /\ connection' = [connection EXCEPT ![c] = new]
  /\ UNCHANGED <<storage, seen, bundles, secrets, configmaps, sworker, cworker, ghosts>>

ChangeBundles(t, s) ==
  /\ Change
  /\ <<t, s>> # <<trusted, service>>
  /\ trusted' = t /\ service' = s
  /\ configmaps' = TRUE
  /\ UNCHANGED <<connection, storage, seen, custom, secrets, sworker, cworker, ghosts>>

ChangeCustom(new) ==
  /\ Change
  /\ new # custom
  /\ custom' = new
  /\ configmaps' = (configmaps \/ managed(custom) \/ managed(new))
  /\ torn' = TRUE
  /\ unwatched' = (unwatched \/ (~managed(custom) /\ ~managed(new)))
  /\ UNCHANGED <<connection, storage, seen, trusted, service, secrets, sworker, cworker>>

\* storage-config is edited, deleted, or made or relabelled as someone's own.
ChangeStorage(new) ==
  /\ Change
  /\ new # storage
  /\ store(new)
  /\ unwatched' = (unwatched \/ (storage # Absent /\ ~managed(storage) /\ ~managed(new)))
  /\ UNCHANGED <<connection, bundles, secrets, configmaps, sworker, cworker, torn>>

SecretCallFails ==
  /\ sworker.at # "idle"
  /\ Change
  /\ finish(TRUE)
  /\ UNCHANGED <<objects, configmaps, cworker, ghosts>>

\* A pass that failed after its write finds nothing to do when it is retried.
ConfigMapCallFails ==
  /\ cworker.at # "idle"
  /\ Change
  /\ cworker' = CIdle
  /\ configmaps' = TRUE
  /\ UNCHANGED <<objects, secrets, sworker, ghosts>>

\* The cache is filled before the controllers start, and every Secret and
\* ConfigMap of theirs is an event.
Restart ==
  /\ Change
  /\ seen' = [connection |-> [c \in Connections |-> cached(connection[c])], storage |-> cached(storage), fresh |-> TRUE]
  /\ secrets' = (managed(storage) \/ \E c \in Connections : managed(connection[c]))
  /\ configmaps' = (managed(custom) \/ trusted # Absent \/ service # Absent)
  /\ sworker' = SIdle
  /\ cworker' = CIdle
  /\ unwatched' = (unwatched \/ (custom # Absent /\ ~managed(custom)))
  /\ UNCHANGED <<connection, storage, bundles, torn>>

SecretController == ReconcileSecret \/ GetCertConfigMap \/ WriteStorageSecret \/ UpdateStorageSecret \/ DeleteStorageSecret
ConfigMapController == ReconcileConfigMap \/ processDelta \/ DropStorageSecret

Users ==
  \/ \E c \in Connections : \E new \in ConnectionSpecs \cup {Absent} : ChangeConnection(c, new)
  \/ \E t, s \in Bundles \cup {Absent} : ChangeBundles(t, s)
  \/ \E new \in {Absent} \cup [managed : BOOLEAN, data : {<<>>} \cup {<<b>> : b \in Bundles}] : ChangeCustom(new)
  \/ \E new \in {Absent} \cup [managed : BOOLEAN, data : {<<>>}] : ChangeStorage(new)

Next ==
  \/ SecretController
  \/ ConfigMapController
  \/ DeliverStorage
  \/ \E c \in Connections : DeliverConnection(c)
  \/ Users
  \/ SecretCallFails
  \/ ConfigMapCallFails
  \/ Restart

Spec == Init /\ [][Next]_vars

\* Watches deliver, and both controllers have a worker.
FairSpec ==
  /\ Spec
  /\ WF_vars(SecretController)
  /\ WF_vars(ConfigMapController)
  /\ WF_vars(DeliverStorage)
  /\ \A c \in Connections : WF_vars(DeliverConnection(c))

---------------------------------------------------------------------------
(* Properties. *)

Settled ==
  /\ ~secrets /\ ~configmaps
  /\ sworker = SIdle /\ cworker = CIdle
  /\ seen.fresh /\ \A c \in Connections : seen.connection[c] = cached(connection[c])

InUse == {c \in Connections : managed(connection[c]) /\ connection[c].dashboard}

\* What storage-config must say, from the cluster as it is.
Promised ==
  IF InUse = {} THEN Absent
  ELSE [managed |-> TRUE,
        data |-> [c \in InUse |-> [keys |-> connection[c].keys,
                                   ca |-> custom # Absent /\ custom.data # <<>> /\ connection[c].https]]]

\* Once both controllers and the cache are at rest, storage-config holds
\* exactly the managed data connections with their present keys, and the CA
\* bundle for exactly the https endpoints if there is one: however the two
\* controllers' passes interleaved, and although the Secret controller does
\* not watch the bundle.  Not so when the bundle changed and the deletion of
\* storage-config did not follow (it failed, or the bundle was put in place by
\* hand), after an unlabelled storage-config was removed, and while
\* storage-config has no managed label.
StorageCurrent ==
  Settled /\ ~torn /\ ~unwatched /\ (storage # Absent => storage.managed) => storage = Promised

\* Once at rest, the custom bundle is the concatenation of the bundles that
\* have data and is absent without one, also after it was edited by hand while
\* it had the managed label.
CustomBundleCurrent ==
  Settled /\ ~unwatched
    => IF certData = <<>> THEN custom = Absent ELSE custom # Absent /\ custom.data = certData

\* At rest, both derived objects follow their sources: storage-config the data
\* connections and the bundle, the bundle its parts.
DerivedCurrent == StorageCurrent /\ CustomBundleCurrent

\* A storage-config without the managed label is no one's but its maker's:
\* once the cache has dropped it, no controller writes or deletes it.
UnmanagedKept ==
  [][storage # Absent /\ ~storage.managed /\ seen.storage = Absent /\ changes' = changes => storage' = storage]_vars

\* When the changes end both controllers come to rest: the one that deletes
\* storage-config and the one that makes it do not keep each other busy.
ComesToRest == <>[]Settled
=============================================================================
