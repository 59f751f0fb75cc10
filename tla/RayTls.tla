-------------------------------- MODULE RayTls --------------------------------
(***************************************************************************)
(* Certificates of multi-node (Ray) serving.  The ServingRuntime           *)
(* controller keeps the CA Secret ray-ca-tls in the controller's namespace *)
(* and, in a namespace with a multi-node ServingRuntime, the Secret        *)
(* ray-tls with the CA's certificate; the Pod controller adds to ray-tls   *)
(* one certificate per Pod, under the Pod's IP.  The ServingRuntime        *)
(* controller also keeps a RoleBinding in the monitoring namespace.        *)
(*                                                                         *)
(* One user namespace.  A CA is a number, 0 for none; the Secrets are read *)
(* from a cache.                                                           *)
(***************************************************************************)
EXTENDS Naturals, FiniteSets

CONSTANTS
  Runtimes,    \* ServingRuntimes of the user namespace
  Pods,        \* multi-node Pods of the user namespace
  IPs,         \* their addresses
  MaxCA,       \* bound on the CAs in use at a time
  Absent,      \* no such object
  MaxChanges   \* bound on outside changes, failed calls and restarts

VARIABLES
  runtime,   \* [Runtimes -> {"none", "single", "multi"}]
  pod,       \* [Pods -> IPs \cup {0}]: the Pod's address, 0 without a Pod
  ca,        \* ray-ca-tls
  due,       \* CAs due for renewal: two years before their end, or of the wrong type
  tls,       \* ray-tls: [ca, certs] or Absent; certs has the signing CA per address
  seen,      \* the cache: [ca, tls, caFresh, tlsFresh]
  binding,   \* the RoleBinding: "none", "ok", "edited" or "roleRef" (another role)
  queue,     \* requests of the ServingRuntime controller
  pods,      \* requests of the Pod controller
  worker,
  pworker,
  changes,
  unnoticed  \* [leaked : BOOLEAN, wiped : SUBSET Pods], what no event reports

vars == <<runtime, pod, ca, due, tls, seen, binding, queue, pods, worker, pworker, changes, unnoticed>>
secrets == <<ca, due, tls, seen>>
cluster == <<runtime, pod, binding>>

CAs == 1..MaxCA
Idle == [req |-> "none", at |-> "idle", multi |-> FALSE, ca |-> 0, todo |-> {}]
PIdle == [pod |-> Absent, ip |-> 0, ca |-> 0]
NoCerts == [i \in IPs |-> 0]

TlsRecord == [ca : CAs \cup {0}, certs : [IPs -> CAs \cup {0}]]
Requests == {"runtime", "tls", "ca", "monitoring"}
Caches == [ca : CAs \cup {0}, tls : TlsRecord \cup {Absent}, caFresh : BOOLEAN, tlsFresh : BOOLEAN]
Workers ==
  [req : Requests \cup {"none"}, at : {"idle", "binding", "ca", "recreate", "read", "sync", "default"},
   multi : BOOLEAN, ca : CAs \cup {0}, todo : SUBSET Runtimes]

ASSUME AbsentAssumption == Absent \notin TlsRecord \cup Pods
ASSUME AddressAssumption == 0 \notin IPs
ASSUME BoundAssumption == MaxCA \in Nat /\ MaxChanges \in Nat

TypeOK ==
  /\ runtime \in [Runtimes -> {"none", "single", "multi"}]
  /\ pod \in [Pods -> IPs \cup {0}]
  /\ ca \in CAs \cup {0} /\ due \subseteq CAs
  /\ tls \in TlsRecord \cup {Absent}
  /\ seen \in Caches
  /\ binding \in {"none", "ok", "edited", "roleRef"}
  /\ queue \subseteq Requests /\ pods \subseteq Pods
  /\ worker \in Workers /\ (worker.at # "idle" => worker.req # "none")
  /\ pworker \in [pod : Pods \cup {Absent}, ip : IPs \cup {0}, ca : CAs \cup {0}]
  /\ pworker # PIdle => pworker.pod \in Pods
  /\ changes \in 0..MaxChanges
  /\ unnoticed \in [leaked : BOOLEAN, wiped : SUBSET Pods]

Init ==
  /\ runtime \in [Runtimes -> {"none", "multi"}]
  /\ pod = [p \in Pods |-> 0]
  /\ ca = 0 /\ due = {} /\ tls = Absent
  /\ seen = [ca |-> 0, tls |-> Absent, caFresh |-> TRUE, tlsFresh |-> TRUE]
  /\ binding = "none"
  /\ queue = {"monitoring"} \cup {"runtime" : r \in {x \in Runtimes : runtime[x] # "none"}}
  /\ pods = {}
  /\ worker = Idle /\ pworker = PIdle
  /\ changes = 0
  /\ unnoticed = [leaked |-> FALSE, wiped |-> {}]

existMultiNodeServingRuntimeInNs == \E r \in Runtimes : runtime[r] = "multi"
running == {p \in Pods : pod[p] # 0}

---------------------------------------------------------------------------
(* The cache and its events. *)

storeCA(new) ==
  /\ ca' = new
  /\ seen' = [seen EXCEPT !.caFresh = @ /\ ca = new]

\* A write without a change has no new resource version and is no event.
storeTLS(new) ==
  /\ tls' = new
  /\ seen' = [seen EXCEPT !.tlsFresh = @ /\ tls = new]

DeliverCA ==
  /\ ~seen.caFresh
  /\ seen' = [seen EXCEPT !.ca = ca, !.caFresh = TRUE]
  /\ queue' = queue \cup {"ca"}
  /\ UNCHANGED <<ca, due, tls, cluster, pods, worker, pworker, changes, unnoticed>>

DeliverTLS ==
  /\ ~seen.tlsFresh
  /\ seen' = [seen EXCEPT !.tls = tls, !.tlsFresh = TRUE]
  /\ queue' = queue \cup {"tls"}
  /\ UNCHANGED <<ca, due, tls, cluster, pods, worker, pworker, changes, unnoticed>>

---------------------------------------------------------------------------
(* The ServingRuntime controller. *)

IsRayTLSSecret(req) == req \in {"tls", "ca"}

\* A request is for the user's namespace, except that of the CA, which is in
\* the controller's, and that of the monitoring namespace.
Reconcile(req) ==
  /\ worker.at = "idle"
  /\ req \in queue
  /\ queue' = queue \ {req}
  /\ worker' = [Idle EXCEPT !.req = req, !.at = IF req = "monitoring" THEN "binding" ELSE "ca",
                            !.multi = req \in {"runtime", "tls"} /\ existMultiNodeServingRuntimeInNs]
  /\ UNCHANGED <<secrets, cluster, pods, pworker, changes, unnoticed>>

goto(step) == worker' = [worker EXCEPT !.at = step] /\ UNCHANGED queue
done == worker' = Idle /\ UNCHANGED queue
fail == worker' = Idle /\ queue' = queue \cup {worker.req}

\* Create or revert; the API server refuses another role in an update.
createRBIfDNE(actual) == IF actual = "roleRef" THEN actual ELSE "ok"

reconcileRoleBinding ==
  /\ worker.at = "binding"
  /\ binding' = createRBIfDNE(binding)
  /\ IF binding = "roleRef" THEN fail
     ELSE /\ worker' = [worker EXCEPT !.at = "ca"]
          /\ queue' = IF binding' # binding THEN queue \cup {"monitoring"} ELSE queue
  /\ UNCHANGED <<secrets, runtime, pod, pods, pworker, changes, unnoticed>>

\* A new CA is none of those in use anywhere.
newCA(n) ==
  LET of(r) == IF r = Absent THEN {} ELSE {r.ca} \cup {r.certs[i] : i \in IPs}
      unused == CAs \ ({ca, seen.ca, worker.ca, pworker.ca} \cup of(tls) \cup of(seen.tls))
  IN  n \in unused /\ \A m \in unused : n <= m

createCA ==
  \E n \in CAs : newCA(n) /\ storeCA(n) /\ due' = due \ {n}

\* Mutant: the threshold is as long as a CA's life.
isCertExpired_always(n) == TRUE

isCertExpired(n) == n \in due

\* Create the CA, or delete the one that is due and create another.
generateCertSecret ==
  /\ worker.at = "ca"
  /\ \/ /\ seen.ca = 0 /\ ca = 0
        /\ createCA
        /\ goto("read")
     \/ /\ seen.ca # 0 /\ isCertExpired(seen.ca) /\ ca # 0
        /\ storeCA(0)
        /\ goto("recreate")
        /\ UNCHANGED due
     \/ /\ (seen.ca = 0 /\ ca # 0) \/ (seen.ca # 0 /\ isCertExpired(seen.ca) /\ ca = 0)
        /\ fail
        /\ UNCHANGED <<ca, due, seen>>
     \/ /\ seen.ca # 0 /\ ~isCertExpired(seen.ca)
        /\ goto("read")
        /\ UNCHANGED <<ca, due, seen>>
  /\ UNCHANGED <<tls, cluster, pods, pworker, changes, unnoticed>>

recreateSecret ==
  /\ worker.at = "recreate"
  /\ createCA
  /\ goto("read")
  /\ UNCHANGED <<tls, cluster, pods, pworker, changes, unnoticed>>

found(n) == n # 0

\* The CA is read back from the cache, which may not have it yet.
GetCACertSecret ==
  /\ worker.at = "read"
  /\ IF ~found(seen.ca) THEN fail
     ELSE /\ worker' = [worker EXCEPT !.ca = seen.ca,
                                      !.at = IF worker.req = "ca" THEN "sync" ELSE "default",
                                      !.todo = IF worker.req = "ca" THEN {r \in Runtimes : runtime[r] = "multi"} ELSE {}]
          /\ UNCHANGED queue
  /\ UNCHANGED <<secrets, cluster, pods, pworker, changes, unnoticed>>

wipe(ps) == unnoticed' = [unnoticed EXCEPT !.wiped = @ \cup ps]

\* Mutant: ray-tls keeps the CA it has.
synced_certs(old, new) == [ca |-> old.ca, certs |-> NoCerts]

\* What ray-tls becomes when the CA's Secret changed: only the CA is in it.
synced(old, new) == [ca |-> new, certs |-> NoCerts]

\* A request for the CA's Secret: ray-tls is written for every multi-node
\* ServingRuntime, under the resource version the cache has.
SyncRayTLS ==
  /\ worker.at = "sync"
  /\ \/ /\ worker.todo = {}
        /\ done
        /\ UNCHANGED <<tls, seen, unnoticed>>
     \/ \E r \in worker.todo :
          \/ /\ seen.tls = Absent
             /\ worker' = [worker EXCEPT !.todo = @ \ {r}]
             /\ UNCHANGED <<tls, seen, queue, unnoticed>>
          \/ /\ seen.tls # Absent /\ seen.tlsFresh
             /\ storeTLS(synced(tls, worker.ca))
             /\ wipe(running)
             /\ worker' = [worker EXCEPT !.todo = @ \ {r}]
             /\ UNCHANGED queue
          \/ /\ seen.tls # Absent /\ ~seen.tlsFresh
             /\ fail
             /\ UNCHANGED <<tls, seen, unnoticed>>
  /\ UNCHANGED <<ca, due, cluster, pods, pworker, changes>>

\* Pods whose certificate is of another CA than the one ray-tls now has.
outlived(new) == {p \in running : tls.certs[pod[p]] # new}

removable(req) == req = "runtime" /\ ~IsRayTLSSecret(req)

reconcileDefaultRayServerCertSecretInUserNS ==
  /\ worker.at = "default"
  /\ \/ /\ worker.multi /\ seen.tls = Absent
        /\ IF tls = Absent THEN storeTLS([ca |-> worker.ca, certs |-> NoCerts]) /\ done
           ELSE fail /\ UNCHANGED <<tls, seen>>
        /\ UNCHANGED unnoticed
     \/ /\ worker.multi /\ seen.tls # Absent
        /\ IF seen.tls.ca = worker.ca THEN done /\ UNCHANGED <<tls, seen, unnoticed>>
           ELSE IF seen.tlsFresh THEN storeTLS([tls EXCEPT !.ca = worker.ca]) /\ wipe(outlived(worker.ca)) /\ done
           ELSE fail /\ UNCHANGED <<tls, seen, unnoticed>>
     \/ /\ ~worker.multi
        /\ IF removable(worker.req) THEN storeTLS(Absent) /\ wipe(running)
           ELSE UNCHANGED <<tls, seen, unnoticed>>
        /\ done
  /\ UNCHANGED <<ca, due, cluster, pods, pworker, changes>>

---------------------------------------------------------------------------
(* The Pod controller. *)

\* The Pod and the CA are read once; without the CA the request is retried.
ReconcilePod(p) ==
  /\ pworker = PIdle
  /\ p \in pods
  /\ IF pod[p] # 0 /\ ~found(seen.ca) THEN UNCHANGED <<pods, pworker>>
     ELSE /\ pods' = pods \ {p}
          /\ pworker' = IF pod[p] = 0 THEN PIdle ELSE [pod |-> p, ip |-> pod[p], ca |-> seen.ca]
  /\ UNCHANGED <<secrets, cluster, queue, worker, changes, unnoticed>>

\* Mutant: only the Pod's own certificate stays.
removeRedundantCertsFromSecretData_all(certs) == NoCerts

\* Certificates of addresses that no Pod has are removed.
removeRedundantCertsFromSecretData(certs) ==
  [i \in IPs |-> IF \E p \in Pods : pod[p] = i THEN certs[i] ELSE 0]

\* ray-tls with the Pod's certificate is written under the resource version
\* it was read with; a conflict is retried, here or in another pass.
updateSecret ==
  LET current == seen.tls # Absent /\ seen.tlsFresh
      certs == removeRedundantCertsFromSecretData(seen.tls.certs)
  IN  /\ pworker # PIdle
      /\ IF current
         THEN /\ storeTLS([tls EXCEPT !.certs = [certs EXCEPT ![pworker.ip] = pworker.ca]])
              /\ unnoticed' = [unnoticed EXCEPT !.wiped =
                                 IF pworker.ca = ca THEN @ \ {pworker.pod} ELSE @ \cup {pworker.pod}]
              /\ UNCHANGED pods
         ELSE pods' = pods \cup {pworker.pod} /\ UNCHANGED <<tls, seen, unnoticed>>
      /\ pworker' = PIdle
      /\ UNCHANGED <<ca, due, cluster, queue, worker, changes>>

---------------------------------------------------------------------------
(* Users, Kubernetes, failed calls and restarts. *)

Change == changes < MaxChanges /\ changes' = changes + 1

ChangeRuntime(r, new) ==
  /\ Change
  /\ runtime[r] # new
  /\ runtime' = [runtime EXCEPT ![r] = new]
  /\ queue' = queue \cup {"runtime"}
  /\ UNCHANGED <<secrets, pod, binding, pods, worker, pworker, unnoticed>>

\* Mutant: a Pod is only of interest when its address changes to another.
checkPodHasIP_changed(old, new) == old # 0 /\ old # new

checkPodHasIP(old, new) == IF old # 0 THEN old # new ELSE new # 0

\* A Pod gets an address that no other has.
StartPod(p, i) ==
  /\ Change
  /\ pod[p] = 0 /\ \A q \in Pods : pod[q] # i
  /\ pod' = [pod EXCEPT ![p] = i]
  /\ pods' = IF checkPodHasIP(0, i) THEN pods \cup {p} ELSE pods
  /\ unnoticed' = [unnoticed EXCEPT !.wiped = @ \ {p}]
  /\ UNCHANGED <<secrets, runtime, binding, queue, worker, pworker>>

\* The deletion of a Pod is filtered out.
DeletePod(p) ==
  /\ Change
  /\ pod[p] # 0
  /\ pod' = [pod EXCEPT ![p] = 0]
  /\ UNCHANGED <<secrets, runtime, binding, queue, pods, worker, pworker, unnoticed>>

\* Time passes, which is no event.
Age ==
  /\ Change
  /\ ca # 0 /\ ca \notin due
  /\ due' = due \cup {ca}
  /\ UNCHANGED <<ca, tls, seen, cluster, queue, pods, worker, pworker, unnoticed>>

DeleteSecrets ==
  /\ Change
  /\ \/ ca # 0 /\ storeCA(0) /\ UNCHANGED <<tls, unnoticed>>
     \/ tls # Absent /\ storeTLS(Absent) /\ wipe(running) /\ UNCHANGED ca
  /\ UNCHANGED <<due, cluster, queue, pods, worker, pworker>>

ChangeBinding(new) ==
  /\ Change
  /\ new # binding
  /\ binding' = new
  /\ queue' = queue \cup {"monitoring"}
  /\ UNCHANGED <<secrets, runtime, pod, pods, worker, pworker, unnoticed>>

existing ==
  {"monitoring"} \cup {"runtime" : r \in {x \in Runtimes : runtime[x] # "none"}}
    \cup {"ca" : n \in {ca} \ {0}} \cup {"tls" : s \in {tls} \ {Absent}}

\* The periodic resync of the caches is an update of every object; that of a
\* Pod, whose address is what it was, is filtered out.
Resync ==
  /\ Change
  /\ seen.caFresh /\ seen.tlsFresh
  /\ queue' = queue \cup existing
  /\ UNCHANGED <<secrets, cluster, pods, worker, pworker, unnoticed>>

CallFails ==
  /\ worker.at # "idle"
  /\ Change
  /\ fail
  /\ UNCHANGED <<secrets, cluster, pods, pworker, unnoticed>>

PodCallFails ==
  /\ pworker # PIdle
  /\ Change
  /\ pods' = pods \cup {pworker.pod}
  /\ pworker' = PIdle
  /\ UNCHANGED <<secrets, cluster, queue, worker, unnoticed>>

\* Every object there is an event; what was deleted is not.
Restart ==
  /\ Change
  /\ seen' = [ca |-> ca, tls |-> tls, caFresh |-> TRUE, tlsFresh |-> TRUE]
  /\ queue' = existing
  /\ pods' = {p \in Pods : checkPodHasIP(0, pod[p])}
  /\ worker' = Idle /\ pworker' = PIdle
  /\ unnoticed' = [unnoticed EXCEPT !.leaked = @ \/ (tls # Absent /\ \A r \in Runtimes : runtime[r] = "none")]
  /\ UNCHANGED <<ca, due, tls, cluster>>

RuntimeController ==
  \/ \E req \in queue : Reconcile(req)
  \/ reconcileRoleBinding
  \/ generateCertSecret
  \/ recreateSecret
  \/ GetCACertSecret
  \/ SyncRayTLS
  \/ reconcileDefaultRayServerCertSecretInUserNS

PodController == updateSecret \/ \E p \in Pods : ReconcilePod(p)

Environment ==
  \/ \E r \in Runtimes, new \in {"none", "single", "multi"} : ChangeRuntime(r, new)
  \/ \E p \in Pods, i \in IPs : StartPod(p, i)
  \/ \E p \in Pods : DeletePod(p)
  \/ Age
  \/ DeleteSecrets
  \/ \E new \in {"none", "edited", "roleRef"} : ChangeBinding(new)
  \/ Resync
  \/ CallFails
  \/ PodCallFails
  \/ Restart

Next ==
  \/ RuntimeController
  \/ PodController
  \/ DeliverCA
  \/ DeliverTLS
  \/ Environment

Spec == Init /\ [][Next]_vars

\* Watches deliver, and each controller has a worker.
FairSpec ==
  /\ Spec
  /\ WF_vars(RuntimeController)
  /\ WF_vars(PodController)
  /\ WF_vars(DeliverCA)
  /\ WF_vars(DeliverTLS)

---------------------------------------------------------------------------
(* Properties. *)

Quiet == queue = {} /\ worker = Idle /\ seen.caFresh /\ seen.tlsFresh
PodsQuiet == pods = {} /\ pworker = PIdle

\* At rest, a namespace with a multi-node ServingRuntime has ray-tls, with the
\* certificate of the CA there is: also after the CA was renewed by a pass
\* that read the old one back from the cache.
CAShared ==
  Quiet /\ existMultiNodeServingRuntimeInNs => tls # Absent /\ ca # 0 /\ tls.ca = ca

\* At rest, and with a multi-node ServingRuntime, every Pod has a certificate
\* of the current CA in ray-tls, but for those whose certificate was removed
\* with a rewrite or removal of ray-tls, was signed by a CA that was replaced
\* while it was made, or was left in ray-tls by a pass that replaced only the
\* CA: a Pod gets its certificate when it gets its address, and no later event
\* brings it back.
PodsServed ==
  Quiet /\ PodsQuiet /\ existMultiNodeServingRuntimeInNs
    => \A p \in running \ unnoticed.wiped : tls.certs[pod[p]] = ca

\* At rest, a namespace without a multi-node ServingRuntime has no ray-tls,
\* unless the controller restarted after the last ServingRuntime went and
\* before ray-tls did.
SecretRemoved ==
  Quiet /\ ~unnoticed.leaked /\ ~existMultiNodeServingRuntimeInNs => tls = Absent

\* At rest, the RoleBinding of the monitoring namespace is there and as it
\* should be ("If it does exist but RoleBinding has changed, revert").
BindingReverted == Quiet => binding = "ok"

\* At rest, what the ServingRuntime controller keeps in a namespace is there
\* exactly if a multi-node ServingRuntime asks for it, and is current.
RuntimeServed == CAShared /\ SecretRemoved /\ BindingReverted

\* The Pod controller, which replaces all data of ray-tls, takes no other
\* running Pod's certificate away.
OthersKept ==
  [][pworker # PIdle /\ pworker' = PIdle /\ changes' = changes
       => \A p \in running : pod[p] # pworker.ip /\ tls # Absent => tls'.certs[pod[p]] = tls.certs[pod[p]]]_vars

\* When the changes end, the ServingRuntime controller comes to rest, unless
\* it must give the RoleBinding another role; and with a multi-node
\* ServingRuntime the Pod controller does too.
ComesToRest ==
  <>[](/\ Quiet \/ binding = "roleRef"
       /\ Quiet /\ existMultiNodeServingRuntimeInNs => PodsQuiet)
=============================================================================
