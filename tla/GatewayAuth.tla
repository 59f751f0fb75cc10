----------------------------- MODULE GatewayAuth -----------------------------
(***************************************************************************)
(* The gateway-auth-bootstrap controller (serving/llm/gateway_controller.go) *)
(* keeps three objects beside every Gateway that LLM inference uses: an     *)
(* EnvoyFilter, an AuthPolicy and a PodMonitor.  A gateway is in use when   *)
(* it is the default gateway, or when a running LLMInferenceService         *)
(* resolves to it through its own references or through the configurations *)
(* it inherits from.  One worker drains a queue of gateway names; the      *)
(* watches decide which names a change in the cluster puts there.          *)
(*                                                                         *)
(* A change and the watch handler that maps it are one action; the worker  *)
(* reads the gateway and the references in one step and writes the three   *)
(* objects in three more, so that every change can fall between them.      *)
(***************************************************************************)
EXTENDS Naturals, FiniteSets, Sequences

CONSTANTS
  Gateways,      \* names of Gateways
  Services,      \* names of LLMInferenceServices
  Configs,       \* names of LLMInferenceServiceConfigs
  GwNs,          \* [Gateways -> namespaces]
  SvcNs,         \* [Services -> namespaces]
  SystemNs,      \* POD_NAMESPACE
  Absent,        \* no such object
  NoGateway,     \* the nil gateway of an unfiltered reference lookup
  Profiles,      \* the Gateways users write
  Specs,         \* the LLMInferenceServices users write
  RefSets,       \* the gateway references a configuration may hold
  Start,         \* the clusters the controller is first deployed to
  MaxChanges     \* bound on changes in the cluster and on failed calls

Froms == {"Same", "All", "Selector"}
Kinds == {"EnvoyFilter", "AuthPolicy", "PodMonitor"}
Namespaces == {SvcNs[s] : s \in Services} \cup {SystemNs}

\* A Gateway: opendatahub.io/managed not "false", owned by a GatewayConfig,
\* the Authorino TLS bootstrap annotation, the scrape label not "false", the
\* Grid annotation, and the "from" of its listeners.
GatewayRecord ==
  [managed : BOOLEAN, platform : BOOLEAN, tls : BOOLEAN, scrape : BOOLEAN,
   grid : {"none", "valid", "invalid"}, from : SUBSET Froms]

ServiceRecord == [stopped : BOOLEAN, refs : SUBSET Gateways, base : Seq(Configs)]

\* What a rendered object says: the Grid exception and the routing header.
Content == [grid : BOOLEAN, header : BOOLEAN]

\* A stored object: not opted out of management, whether its owner reference
\* names the Gateway that exists now or one deleted since, what it says, and
\* what a user did to its spec.
ObjectRecord ==
  [managed : BOOLEAN, owner : {"current", "former", "none"}, content : Content,
   edit : {"none", "changed", "added"}]

ASSUME GatewayAssumption ==
  /\ GwNs \in [Gateways -> STRING]
  /\ SvcNs \in [Services -> STRING]
  /\ NoGateway \notin Gateways
  /\ Profiles \subseteq GatewayRecord
  /\ \A spec \in Specs : spec.base \in Seq(Configs) /\ spec.refs \subseteq Gateways
  /\ RefSets \subseteq SUBSET Gateways
  /\ MaxChanges \in Nat
  /\ Absent \notin GatewayRecord \cup ObjectRecord \cup Specs

ASSUME StartAssumption ==
  \A start \in Start :
    /\ start.gateway \in [Gateways -> GatewayRecord \cup {Absent}]
    /\ start.service \in [Services -> Specs \cup {Absent}]
    /\ start.config \in [Configs -> [Namespaces -> RefSets \cup {Absent}]]

VARIABLES
  gateway,    \* [Gateways -> GatewayRecord or Absent]
  service,    \* [Services -> ServiceRecord or Absent]
  config,     \* [Configs -> [Namespaces -> gateway references or Absent]]
  labelled,   \* namespaces whose labels match the gateways' selectors
  ingress,    \* the ConfigMap's ingress section: default gateway and header
  authorino,  \* is TLS enabled in Authorino?
  object,     \* [Kinds -> [Gateways -> ObjectRecord or Absent]]
  queue,      \* gateways waiting to be reconciled
  worker,     \* the worker's position and what it read
  changes,    \* changes and failures so far
  missed      \* objects whose reason changed in a way no watch reports

cluster == <<gateway, service, config, labelled, ingress, authorino>>
vars == <<cluster, object, queue, worker, changes, missed>>

Idle == [at |-> "idle", gw |-> NoGateway, own |-> "none", read |-> Absent,
         referenced |-> FALSE, seen |-> Absent]

TypeOK ==
  /\ gateway \in [Gateways -> GatewayRecord \cup {Absent}]
  /\ service \in [Services -> Specs \cup {Absent}]
  /\ config \in [Configs -> [Namespaces -> RefSets \cup {Absent}]]
  /\ labelled \subseteq Namespaces
  /\ ingress \in [default : Gateways, header : BOOLEAN]
  /\ authorino \in BOOLEAN
  /\ object \in [Kinds -> [Gateways -> ObjectRecord \cup {Absent}]]
  /\ queue \subseteq Gateways
  /\ worker \in [at : {"idle", "EnvoyFilter", "AuthPolicy", "write", "PodMonitor"},
                 gw : Gateways \cup {NoGateway}, own : {"current", "former", "none"},
                 read : GatewayRecord \cup {Absent}, referenced : BOOLEAN,
                 seen : ObjectRecord \cup {Absent}]
  /\ changes \in 0..MaxChanges
  /\ missed \subseteq Kinds \X Gateways

Live(map) == {x \in DOMAIN map : map[x] # Absent}

---------------------------------------------------------------------------
(* Which gateways a service uses. *)

listenerAllowsNamespace(from, g, ns) ==
  CASE from = "All"      -> TRUE
    [] from = "Same"     -> GwNs[g] = ns
    [] from = "Selector" -> ns \in labelled

gatewayAllowsNamespace(g, ns) ==
  \E from \in gateway[g].from : listenerAllowsNamespace(from, g, ns)

\* A reference to another gateway is kept, it cannot be judged here.
filterAllowedRefs(g, refs, ns) ==
  IF g = NoGateway THEN refs
  ELSE {r \in refs : r = g => gatewayAllowsNamespace(g, ns)}

fetchLLMISvcConfig(c, ns) == IF config[c][ns] # Absent THEN config[c][ns] ELSE config[c][SystemNs]

\* The references of the last base configuration that exists and has some.
inheritedRefs(base, ns) ==
  LET refs(i) == fetchLLMISvcConfig(base[i], ns)
      found == {i \in 1..Len(base) : refs(i) # Absent /\ refs(i) # {}}
  IN  IF found = {} THEN {} ELSE refs(CHOOSE i \in found : \A j \in found : j <= i)

getEffectiveGatewayRefs(g, svc, ns) ==
  LET own == filterAllowedRefs(g, svc.refs, ns)
  IN  IF own # {} THEN own ELSE filterAllowedRefs(g, inheritedRefs(svc.base, ns), ns)

isGatewayReferencedByLLMService(g) ==
  \/ g = ingress.default
  \/ \E s \in Live(service) :
        /\ ~service[s].stopped
        /\ g \in getEffectiveGatewayRefs(g, service[s], SvcNs[s])

ShouldCreateEnvoyFilterForGateway(gw) == gw.tls \/ (~gw.platform /\ gw.managed)

\* The three decisions of Reconcile, from the gateway it read.
wanted(gw, referenced) ==
  LET inUse == gw.tls \/ referenced
  IN  [EnvoyFilter |-> inUse /\ ShouldCreateEnvoyFilterForGateway(gw),
       AuthPolicy  |-> inUse /\ gw.managed /\ ~gw.platform,
       PodMonitor  |-> referenced /\ gw.scrape]

---------------------------------------------------------------------------
(* Which gateways a change enqueues. *)

enqueueGatewaysFromLLMInferenceService(svc, ns) ==
  LET refs == getEffectiveGatewayRefs(NoGateway, svc, ns)
  IN  IF refs # {} THEN refs ELSE {ingress.default}

referencesConfig(s, c) == \E i \in 1..Len(service[s].base) : service[s].base[i] = c

enqueueGatewaysFromLLMInferenceServiceConfig(c) ==
  UNION {getEffectiveGatewayRefs(NoGateway, service[s], SvcNs[s]) :
           s \in {t \in Live(service) : referencesConfig(t, c)}}

hasSelectorListeners(g) == gateway[g] # Absent /\ "Selector" \in gateway[g].from

enqueueGatewaysFromNamespace(ns) ==
  LET candidates == UNION {getEffectiveGatewayRefs(NoGateway, service[s], ns) :
                             s \in {t \in Live(service) : SvcNs[t] = ns}}
  IN  {g \in candidates : hasSelectorListeners(g)}

\* The update predicate of the Gateway watch.
gatewayPredicate(old, new) ==
  \/ old.managed # new.managed
  \/ old.grid # new.grid
  \/ old.tls # new.tls
  \/ old.scrape # new.scrape
  \/ ShouldCreateEnvoyFilterForGateway(new)

\* Base references are compared after sorting, so as bags.
sameBaseRefs(a, b) ==
  /\ Len(a) = Len(b)
  /\ \A c \in Configs : Cardinality({i \in 1..Len(a) : a[i] = c}) = Cardinality({i \in 1..Len(b) : b[i] = c})

gatewayRefsChanged(old, new) == old.refs # new.refs \/ ~sameBaseRefs(old.base, new.base)

\* Mutant: stopping and restarting a service goes unnoticed.
servicePredicate_refsOnly(old, new) == gatewayRefsChanged(old, new)

servicePredicate(old, new) == old.stopped # new.stopped \/ gatewayRefsChanged(old, new)

\* The owned-object watches enqueue the named owner of a managed object.
ownerOf(g, obj) == IF obj # Absent /\ obj.managed /\ obj.owner # "none" THEN {g} ELSE {}

\* The events of the first listing: every object is reported as created.
initialEvents ==
  {g \in Live(gateway) : ShouldCreateEnvoyFilterForGateway(gateway[g])}
    \cup (UNION {enqueueGatewaysFromLLMInferenceService(service[s], SvcNs[s]) : s \in Live(service)})
    \cup {g \in Gateways : \E k \in Kinds : ownerOf(g, object[k][g]) # {}}

enqueue(gs) ==
  /\ queue' = queue \cup gs
  /\ missed' = {m \in missed : m[2] \notin gs}

Change == changes < MaxChanges /\ changes' = changes + 1

---------------------------------------------------------------------------
(* Reconcile, one gateway at a time. *)

Init ==
  /\ \E start \in Start :
       /\ gateway = start.gateway
       /\ service = start.service
       /\ config = start.config
       /\ ingress = [default |-> start.default, header |-> FALSE]
  /\ labelled = {}
  /\ authorino = TRUE
  /\ object = [k \in Kinds |-> [g \in Gateways |-> Absent]]
  /\ queue = initialEvents
  /\ worker = Idle
  /\ changes = 0
  /\ missed = {}

\* Get the gateway and decide whether it is in use.
Reconcile(g) ==
  /\ worker.at = "idle"
  /\ g \in queue
  /\ queue' = queue \ {g}
  /\ worker' = IF gateway[g] = Absent THEN Idle
               ELSE [at |-> "EnvoyFilter", gw |-> g, own |-> "current", read |-> gateway[g],
                     referenced |-> isGatewayReferencedByLLMService(g), seen |-> Absent]
  /\ UNCHANGED <<cluster, object, changes, missed>>

desired(k) ==
  [managed |-> TRUE, owner |-> worker.own, edit |-> "none",
   content |-> [grid   |-> k = "AuthPolicy" /\ worker.read.grid = "valid",
                header |-> k = "AuthPolicy" /\ ingress.header]]

\* The comparators: an AuthPolicy is compared by DeepDerivative, which does
\* not see what was added to it, the others by equality.
upToDate(k, obj, content) ==
  /\ obj.content = content
  /\ obj.edit \in IF k = "AuthPolicy" THEN {"none", "added"} ELSE {"none"}

\* Mutant: opendatahub.io/managed is not consulted.
optedOut_never(obj) == FALSE

optedOut(obj) == obj # Absent /\ ~obj.managed

goOn(at) == worker' = [worker EXCEPT !.at = at]

\* The object becomes obj; the owned-object watch reports both values.
store(k, g, obj) ==
  /\ object' = [object EXCEPT ![k][g] = obj]
  /\ enqueue(IF obj = object[k][g] THEN {} ELSE ownerOf(g, obj) \cup ownerOf(g, object[k][g]))

giveUp ==
  /\ worker' = Idle
  /\ enqueue({worker.gw})

\* Nothing protects an EnvoyFilter a user opted out of management from an
\* update; with Authorino TLS off it is neither updated nor deleted.
reconcileEnvoyFilter ==
  LET g == worker.gw
      existing == object["EnvoyFilter"][g]
      want == desired("EnvoyFilter")
      stale == existing = Absent \/ ~upToDate("EnvoyFilter", existing, want.content)
  IN  /\ worker.at = "EnvoyFilter"
      /\ wanted(worker.read, worker.referenced).EnvoyFilter
      /\ goOn("AuthPolicy")
      /\ store("EnvoyFilter", g, IF authorino /\ stale THEN want ELSE existing)
      /\ UNCHANGED <<cluster, changes>>

deleteEnvoyFilterIfManaged ==
  LET existing == object["EnvoyFilter"][worker.gw]
  IN  /\ worker.at = "EnvoyFilter"
      /\ ~wanted(worker.read, worker.referenced).EnvoyFilter
      /\ goOn("AuthPolicy")
      /\ store("EnvoyFilter", worker.gw, IF optedOut(existing) THEN existing ELSE Absent)
      /\ UNCHANGED <<cluster, changes>>

\* Mutant: the existing AuthPolicy is never found.
readAuthPolicy_blind ==
  /\ worker.at = "AuthPolicy"
  /\ goOn("write")
  /\ UNCHANGED <<cluster, object, queue, changes, missed>>

\* Get the AuthPolicy; the write follows in a step of its own, because the
\* store takes the latest resourceVersion and never sees a conflict.
readAuthPolicy ==
  /\ worker.at = "AuthPolicy"
  /\ worker' = [worker EXCEPT !.at = "write", !.seen = object["AuthPolicy"][worker.gw]]
  /\ UNCHANGED <<cluster, object, queue, changes, missed>>

deleteAuthPolicyIfManaged ==
  /\ worker.at = "write"
  /\ ~wanted(worker.read, worker.referenced).AuthPolicy
  /\ goOn("PodMonitor")
  /\ store("AuthPolicy", worker.gw,
           IF worker.seen = Absent \/ optedOut(worker.seen) THEN object["AuthPolicy"][worker.gw] ELSE Absent)
  /\ UNCHANGED <<cluster, changes>>

\* What was read decides between skip, no change, create and update; a create
\* fails on an object made since, an update on one gone since.  An invalid
\* Grid annotation is an error, reported after the policy is written.
reconcileAuthPolicy ==
  LET g == worker.gw
      seen == worker.seen
      now == object["AuthPolicy"][g]
      want == desired("AuthPolicy")
      skip == optedOut(seen)
      same == seen # Absent /\ upToDate("AuthPolicy", seen, want.content)
      lost == ~skip /\ ~same /\ ((seen = Absent) # (now = Absent))
  IN  /\ worker.at = "write"
      /\ wanted(worker.read, worker.referenced).AuthPolicy
      /\ \/ /\ lost
            /\ giveUp
            /\ UNCHANGED object
         \/ /\ ~lost
            /\ object' = [object EXCEPT !["AuthPolicy"][g] = IF skip \/ same THEN now ELSE want]
            /\ IF ~skip /\ worker.read.grid = "invalid"
               THEN giveUp
               ELSE goOn("PodMonitor") /\ enqueue(IF skip \/ same THEN {} ELSE {g})
      /\ UNCHANGED <<cluster, changes>>

reconcileGatewayPodMonitor ==
  LET g == worker.gw
      existing == object["PodMonitor"][g]
      want == desired("PodMonitor")
      mine == ~optedOut(existing)
  IN  /\ worker.at = "PodMonitor"
      /\ worker' = Idle
      /\ store("PodMonitor", g,
               IF wanted(worker.read, worker.referenced).PodMonitor
               THEN IF mine /\ (existing = Absent \/ ~upToDate("PodMonitor", existing, want.content))
                    THEN want ELSE existing
               ELSE IF mine THEN Absent ELSE existing)
      /\ UNCHANGED <<cluster, changes>>

\* A call to the API server fails: the error ends the pass.
CallFails ==
  /\ worker.at # "idle"
  /\ Change
  /\ giveUp
  /\ UNCHANGED <<cluster, object>>

Restart ==
  /\ Change
  /\ worker' = Idle
  /\ queue' = initialEvents
  /\ missed' = {m \in missed : m[2] \notin initialEvents}
  /\ UNCHANGED <<cluster, object>>

---------------------------------------------------------------------------
(* Changes in the cluster, each with the watch that reports it. *)

CreateGateway(g, gw) ==
  /\ Change
  /\ gateway[g] = Absent
  /\ gateway' = [gateway EXCEPT ![g] = gw]
  /\ enqueue(IF ShouldCreateEnvoyFilterForGateway(gw) THEN {g} ELSE {})
  /\ UNCHANGED <<service, config, labelled, ingress, authorino, object, worker>>

UpdateGateway(g, gw) ==
  /\ Change
  /\ gateway[g] \notin {Absent, gw}
  /\ gateway[g].platform = gw.platform
  /\ gateway' = [gateway EXCEPT ![g] = gw]
  /\ enqueue(IF gatewayPredicate(gateway[g], gw) THEN {g} ELSE {})
  /\ UNCHANGED <<service, config, labelled, ingress, authorino, object, worker>>

\* The deletion is not watched; owner references to this Gateway dangle.
DeleteGateway(g) ==
  /\ Change
  /\ gateway[g] # Absent
  /\ gateway' = [gateway EXCEPT ![g] = Absent]
  /\ object' = [k \in Kinds |-> [object[k] EXCEPT ![g] =
                  IF @ # Absent /\ @.owner = "current" THEN [@ EXCEPT !.owner = "former"] ELSE @]]
  /\ worker' = IF worker.gw = g THEN [worker EXCEPT !.own = "former"] ELSE worker
  /\ UNCHANGED <<service, config, labelled, ingress, authorino, queue, missed>>

\* An object is deleted by somebody else; the deletion of one opted out of
\* management is filtered.
removed(k, g) ==
  LET owner == ownerOf(g, object[k][g])
  IN  /\ object' = [object EXCEPT ![k][g] = Absent]
      /\ queue' = queue \cup owner
      /\ missed' = IF owner = {} /\ g \notin queue THEN missed \cup {<<k, g>>}
                   ELSE {m \in missed : m[2] \notin owner}

\* The garbage collector removes what a deleted Gateway owned.
Collect(k, g) ==
  /\ object[k][g] # Absent
  /\ object[k][g].owner = "former"
  /\ removed(k, g)
  /\ UNCHANGED <<cluster, worker, changes>>

CreateService(s, svc) ==
  /\ Change
  /\ service[s] = Absent
  /\ service' = [service EXCEPT ![s] = svc]
  /\ enqueue(enqueueGatewaysFromLLMInferenceService(svc, SvcNs[s]))
  /\ UNCHANGED <<gateway, config, labelled, ingress, authorino, object, worker>>

UpdateService(s, svc) ==
  /\ Change
  /\ service[s] \notin {Absent, svc}
  /\ service' = [service EXCEPT ![s] = svc]
  /\ enqueue(IF servicePredicate(service[s], svc)
             THEN enqueueGatewaysFromLLMInferenceService(service[s], SvcNs[s])
                    \cup enqueueGatewaysFromLLMInferenceService(svc, SvcNs[s])
             ELSE {})
  /\ UNCHANGED <<gateway, config, labelled, ingress, authorino, object, worker>>

DeleteService(s) ==
  /\ Change
  /\ service[s] # Absent
  /\ service' = [service EXCEPT ![s] = Absent]
  /\ enqueue(enqueueGatewaysFromLLMInferenceService(service[s], SvcNs[s]))
  /\ UNCHANGED <<gateway, config, labelled, ingress, authorino, object, worker>>

\* A configuration is created, deleted or given other references.  The watch
\* resolves the services with the new configuration only, so a gateway that
\* just the old one named is not enqueued.
ChangeConfig(c, ns, refs) ==
  /\ Change
  /\ config[c][ns] # refs
  /\ config' = [config EXCEPT ![c][ns] = refs]
  /\ UNCHANGED <<gateway, service, labelled, ingress, authorino, object, worker>>
  /\ LET before == enqueueGatewaysFromLLMInferenceServiceConfig(c)
         after == enqueueGatewaysFromLLMInferenceServiceConfig(c)'
     IN  /\ queue' = queue \cup after
         /\ missed' = {m \in missed : m[2] \notin after} \cup (Kinds \X (before \ (after \cup queue)))

ChangeNamespaceLabels(ns) ==
  /\ Change
  /\ labelled' = (labelled \cup {ns}) \ (labelled \cap {ns})
  /\ enqueue(enqueueGatewaysFromNamespace(ns))
  /\ UNCHANGED <<gateway, service, config, ingress, authorino, object, worker>>

ChangeConfigMap(new) ==
  /\ Change
  /\ ingress # new
  /\ ingress' = new
  /\ enqueue(Live(gateway))
  /\ UNCHANGED <<gateway, service, config, labelled, authorino, object, worker>>

\* Authorino is not watched.
ChangeAuthorino ==
  /\ Change
  /\ authorino' = ~authorino
  /\ missed' = missed \cup {<<"EnvoyFilter", g>> : g \in Gateways \ queue}
  /\ UNCHANGED <<gateway, service, config, labelled, ingress, object, queue, worker>>

\* A user edits an object, or opts it out of management or back in.
EditObject(k, g, edit) ==
  LET old == object[k][g]
      new == IF edit = "toggle" THEN [old EXCEPT !.managed = ~@] ELSE [old EXCEPT !.edit = edit]
  IN  /\ Change
      /\ old # Absent
      /\ edit = "toggle" => old.owner # "none"
      /\ object' = [object EXCEPT ![k][g] = new]
      /\ enqueue(ownerOf(g, new))
      /\ UNCHANGED <<cluster, worker>>

DeleteObject(k, g) ==
  /\ Change
  /\ object[k][g] # Absent
  /\ removed(k, g)
  /\ UNCHANGED <<cluster, worker>>

CreateObject(k, g) ==
  /\ Change
  /\ object[k][g] = Absent
  /\ object' = [object EXCEPT ![k][g] =
       [managed |-> FALSE, owner |-> "none", edit |-> "changed", content |-> [grid |-> FALSE, header |-> FALSE]]]
  /\ UNCHANGED <<cluster, queue, missed, worker>>

Environment ==
  \/ \E g \in Gateways :
       \/ \E gw \in Profiles : CreateGateway(g, gw) \/ UpdateGateway(g, gw)
       \/ DeleteGateway(g)
       \/ \E k \in Kinds :
            DeleteObject(k, g) \/ CreateObject(k, g) \/ \E edit \in {"changed", "added", "toggle"} : EditObject(k, g, edit)
  \/ \E s \in Services : DeleteService(s) \/ \E svc \in Specs : CreateService(s, svc) \/ UpdateService(s, svc)
  \/ \E c \in Configs, ns \in Namespaces, refs \in RefSets \cup {Absent} : ChangeConfig(c, ns, refs)
  \/ \E ns \in {SvcNs[s] : s \in Services} : ChangeNamespaceLabels(ns)
  \/ \E new \in [default : Gateways, header : BOOLEAN] : ChangeConfigMap(new)
  \/ ChangeAuthorino
  \/ CallFails
  \/ Restart

Worker ==
  \/ \E g \in Gateways : Reconcile(g)
  \/ reconcileEnvoyFilter
  \/ deleteEnvoyFilterIfManaged
  \/ readAuthPolicy
  \/ deleteAuthPolicyIfManaged
  \/ reconcileAuthPolicy
  \/ reconcileGatewayPodMonitor

Next == Worker \/ (\E k \in Kinds, g \in Gateways : Collect(k, g)) \/ Environment

Spec == Init /\ [][Next]_vars

\* The worker and the garbage collector keep running.  The queue is first in
\* first out, so no gateway waits while others pass it for ever.
FairSpec ==
  /\ Spec
  /\ WF_vars(Worker)
  /\ \A g \in Gateways : SF_vars(Reconcile(g))
  /\ WF_vars(\E k \in Kinds, g \in Gateways : Collect(k, g))

---------------------------------------------------------------------------
(* Properties. *)

Quiet ==
  /\ queue = {}
  /\ worker.at = "idle"
  /\ \A k \in Kinds, g \in Gateways : object[k][g] = Absent \/ object[k][g].owner # "former"

\* The objects whose every reason to exist is watched: a PodMonitor depends on
\* the listeners of gateways whose changes gatewayPredicate filters out.
Watched(k, g) ==
  /\ gateway[g] # Absent
  /\ <<k, g>> \notin missed
  /\ k = "PodMonitor" => ShouldCreateEnvoyFilterForGateway(gateway[g])

wantedNow(k, g) == wanted(gateway[g], isGatewayReferencedByLLMService(g))[k]

\* When the controller has nothing left to do, a gateway in use is protected:
\* its AuthPolicy, EnvoyFilter and PodMonitor exist, and those not opted out
\* of management say what the gateway, the header and the Grid annotation ask
\* for now, whatever order the changes and the worker's steps came in.
GatewaysProtected ==
  Quiet => \A k \in Kinds, g \in Gateways :
    (Watched(k, g) /\ wantedNow(k, g) /\ (k = "EnvoyFilter" => authorino)) =>
      /\ object[k][g] # Absent
      /\ (object[k][g].managed /\ k # "EnvoyFilter") =>
           upToDate(k, object[k][g], [grid   |-> k = "AuthPolicy" /\ gateway[g].grid = "valid",
                                      header |-> k = "AuthPolicy" /\ ingress.header])

\* When the controller has nothing left to do, no managed object is left on a
\* gateway that LLM inference stopped using, stopped being managed or stopped
\* being scraped.
NoLeftovers ==
  Quiet => \A k \in Kinds, g \in Gateways :
    (Watched(k, g) /\ ~wantedNow(k, g)) => (object[k][g] = Absent \/ ~object[k][g].managed)

\* At rest, the objects beside a gateway are those its present use asks for:
\* none is missing or outdated, and none is left over.
ObjectsFollowUse == GatewaysProtected /\ NoLeftovers

\* The controller changes or deletes an AuthPolicy or a PodMonitor that a user
\* opted out of management only if the user did so after the worker read it.
OptOutRespected ==
  [][\A g \in Gateways, k \in {"AuthPolicy", "PodMonitor"} :
       (/\ changes' = changes
        /\ object[k][g] # Absent
        /\ ~object[k][g].managed
        /\ object[k][g].owner # "former"
        /\ object'[k][g] # object[k][g])
       => (k = "AuthPolicy" /\ worker.at = "write" /\ worker.seen # Absent /\ worker.seen.managed)]_vars

\* Once the cluster stops changing the worker comes to rest: its own writes,
\* which the watches report back to it, do not keep it busy.  An AuthPolicy
\* with an invalid Grid annotation is retried for as long as it is invalid.
ComesToRest ==
  <>[](Quiet \/ \E g \in Live(gateway) : gateway[g].grid = "invalid")

\* "BaseRefs are compared because they can introduce gateway refs via
\* LLMInferenceServiceConfig": when the controller has nothing left to do, a
\* gateway that a running service inherits has its AuthPolicy, also after the
\* service's base references were only permuted.
InheritedGatewaysProtected ==
  Quiet => \A g \in Gateways :
    (Watched("AuthPolicy", g) /\ wantedNow("AuthPolicy", g)) => object["AuthPolicy"][g] # Absent

=============================================================================
