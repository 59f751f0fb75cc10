-------------------------- MODULE GatewayAuthProofs --------------------------
(***************************************************************************)
(* Proofs about GatewayAuth, for any number of gateways, services and      *)
(* configurations: the controller respects an opt-out it has read, and at  *)
(* rest the objects beside a gateway are those its use asks for.           *)
(***************************************************************************)
EXTENDS GatewayAuth, WellFoundedInduction, TLAPS

\* The fields of the worker that its steps keep.
WorkerShape(w) ==
  /\ {"at", "gw", "own", "read", "referenced", "seen"} \subseteq DOMAIN w
  /\ w.at # "idle" => w.gw \in Gateways
  /\ w.own \in {"current", "former", "none"}

\* The part of the types the proof needs: what an update of an object or of
\* the worker's position keeps.
Shape ==
  /\ changes \in Nat
  /\ object \in [Kinds -> [Gateways -> ObjectRecord \cup {Absent}]]
  /\ WorkerShape(worker)

\* Every step of the environment is counted.
LEMMA Counted ==
    ASSUME changes \in Nat, Environment
    PROVE changes' \in Nat /\ changes' # changes
<1>1. Change
  <2>1. ASSUME NEW g, NEW gw, CreateGateway(g, gw) \/ UpdateGateway(g, gw) PROVE Change
    BY <2>1 DEF CreateGateway, UpdateGateway
  <2>2. ASSUME NEW g, DeleteGateway(g) PROVE Change BY <2>2 DEF DeleteGateway
  <2>3. ASSUME NEW k, NEW g, DeleteObject(k, g) \/ CreateObject(k, g) \/ \E edit : EditObject(k, g, edit) PROVE Change
    BY <2>3, Zenon DEF DeleteObject, CreateObject, EditObject
  <2>4. ASSUME NEW s, DeleteService(s) PROVE Change BY <2>4 DEF DeleteService
  <2>5. ASSUME NEW s, NEW svc, CreateService(s, svc) \/ UpdateService(s, svc) PROVE Change
    BY <2>5 DEF CreateService, UpdateService
  <2>6. ASSUME NEW c, NEW ns, NEW refs, ChangeConfig(c, ns, refs) PROVE Change BY <2>6 DEF ChangeConfig
  <2>7. ASSUME NEW ns, ChangeNamespaceLabels(ns) PROVE Change BY <2>7 DEF ChangeNamespaceLabels
  <2>8. ASSUME NEW new, ChangeConfigMap(new) PROVE Change BY <2>8 DEF ChangeConfigMap
  <2>9. ChangeAuthorino \/ CallFails \/ Restart => Change BY DEF ChangeAuthorino, CallFails, Restart
  <2> QED BY <2>1, <2>2, <2>3, <2>4, <2>5, <2>6, <2>7, <2>8, <2>9, Zenon DEF Environment
<1> QED BY <1>1 DEF Change

LEMMA DesiredType ==
    ASSUME Shape, NEW k
    PROVE desired(k) \in ObjectRecord
<1> DEFINE b == k = "AuthPolicy" /\ worker.read.grid = "valid"
           h == k = "AuthPolicy" /\ ingress.header
<1>1. b \in BOOLEAN /\ h \in BOOLEAN OBVIOUS
<1>2. desired(k) = [managed |-> TRUE, owner |-> worker.own, edit |-> "none", content |-> [grid |-> b, header |-> h]]
  BY DEF desired
<1> HIDE DEF b, h
<1> QED BY <1>1, <1>2 DEF Shape, WorkerShape, ObjectRecord, Content

\* One object becomes obj.
LEMMA StoredShape ==
    ASSUME Shape, NEW k \in Kinds, NEW g, NEW obj \in ObjectRecord \cup {Absent},
           object' = [object EXCEPT ![k][g] = obj]
    PROVE /\ object' \in [Kinds -> [Gateways -> ObjectRecord \cup {Absent}]]
          /\ \A l \in Kinds, h \in Gateways : (l # k \/ h # g) => object'[l][h] = object[l][h]
          /\ g \in Gateways => object'[k][g] = obj
<1>1. object'[k] = [object[k] EXCEPT ![g] = obj] BY DEF Shape
<1>2. \A l \in Kinds : l # k => object'[l] = object[l] BY DEF Shape
<1>3. [object[k] EXCEPT ![g] = obj] \in [Gateways -> ObjectRecord \cup {Absent}] BY Zenon DEF Shape
<1>4. \A h \in Gateways : h # g => [object[k] EXCEPT ![g] = obj][h] = object[k][h] BY DEF Shape
<1>5. g \in Gateways => [object[k] EXCEPT ![g] = obj][g] = obj BY DEF Shape
<1>6. object' \in [Kinds -> [Gateways -> ObjectRecord \cup {Absent}]] BY <1>3 DEF Shape
<1> QED BY <1>1, <1>2, <1>4, <1>5, <1>6

LEMMA IdleShape == WorkerShape(Idle)
BY DEF WorkerShape, Idle

\* The worker moves on to its next step.
LEMMA GoOnShape ==
    ASSUME Shape, worker.at # "idle", NEW at, goOn(at)
    PROVE WorkerShape(worker')
<1>1. DOMAIN worker' = DOMAIN worker /\ worker'.gw = worker.gw /\ worker'.own = worker.own
  BY DEF goOn, Shape, WorkerShape
<1> QED BY <1>1 DEF Shape, WorkerShape

\* A write of the worker: an object of its gateway becomes obj.
Writes(k, obj) ==
  /\ obj \in ObjectRecord \cup {Absent}
  /\ object' = [object EXCEPT ![k][worker.gw] = obj]

\* What a step of the worker may do to the objects: nothing; anything to an
\* EnvoyFilter; replace an AuthPolicy if it read a managed one or there is
\* none; replace a PodMonitor that is not opted out.
Effect ==
  \/ object' = object
  \/ \E obj : Writes("EnvoyFilter", obj)
  \/ \E obj : /\ Writes("AuthPolicy", obj)
              /\ \/ obj = object["AuthPolicy"][worker.gw]
                 \/ worker.at = "write" /\ worker.seen # Absent /\ ~optedOut(worker.seen)
                 \/ object["AuthPolicy"][worker.gw] = Absent
  \/ \E obj : /\ Writes("PodMonitor", obj)
              /\ obj = object["PodMonitor"][worker.gw] \/ ~optedOut(object["PodMonitor"][worker.gw])

LEMMA WorkerEffect ==
    ASSUME Shape, Worker
    PROVE WorkerShape(worker') /\ changes' = changes /\ Effect
<1> DEFINE Objs == ObjectRecord \cup {Absent}
<1>t. \A k : desired(k) \in Objs BY DesiredType
<1>e. Absent \in Objs OBVIOUS
<1>x. ASSUME worker.at # "idle" PROVE \A k \in Kinds : object[k][worker.gw] \in Objs
  BY <1>x DEF Shape, WorkerShape
<1>k. "EnvoyFilter" \in Kinds /\ "AuthPolicy" \in Kinds /\ "PodMonitor" \in Kinds BY DEF Kinds
<1> HIDE DEF Objs
<1>1. ASSUME NEW g \in Gateways, Reconcile(g) PROVE WorkerShape(worker') /\ changes' = changes /\ Effect
  <2>1. UNCHANGED <<object, changes>> BY <1>1 DEF Reconcile
  <2>2. worker' = Idle \/ worker' = [at |-> "EnvoyFilter", gw |-> g, own |-> "current", read |-> gateway[g],
                              referenced |-> isGatewayReferencedByLLMService(g), seen |-> Absent]
    BY <1>1, Zenon DEF Reconcile
  <2>3. WorkerShape(worker') BY <2>2, IdleShape DEF WorkerShape
  <2> QED BY <2>1, <2>3 DEF Effect
<1>2. CASE reconcileEnvoyFilter
  <2> DEFINE existing == object["EnvoyFilter"][worker.gw]
             stale == existing = Absent \/ ~upToDate("EnvoyFilter", existing, desired("EnvoyFilter").content)
             obj == IF authorino /\ stale THEN desired("EnvoyFilter") ELSE existing
  <2>1. worker.at = "EnvoyFilter" /\ goOn("AuthPolicy") /\ changes' = changes BY <1>2 DEF reconcileEnvoyFilter
  <2>2. object' = [object EXCEPT !["EnvoyFilter"][worker.gw] = obj] BY <1>2, Zenon DEF reconcileEnvoyFilter, store
  <2>3. obj \in Objs BY <1>t, <1>x, <1>k, <2>1
  <2> HIDE DEF obj
  <2>4. Effect BY <2>2, <2>3, Zenon DEF Effect, Writes, Objs
  <2> QED BY <2>1, <2>4, GoOnShape
<1>3. CASE deleteEnvoyFilterIfManaged
  <2> DEFINE existing == object["EnvoyFilter"][worker.gw]
             obj == IF optedOut(existing) THEN existing ELSE Absent
  <2>1. worker.at = "EnvoyFilter" /\ goOn("AuthPolicy") /\ changes' = changes BY <1>3 DEF deleteEnvoyFilterIfManaged
  <2>2. object' = [object EXCEPT !["EnvoyFilter"][worker.gw] = obj] BY <1>3, Zenon DEF deleteEnvoyFilterIfManaged, store
  <2>3. obj \in Objs BY <1>e, <1>x, <1>k, <2>1
  <2> HIDE DEF obj
  <2>4. Effect BY <2>2, <2>3, Zenon DEF Effect, Writes, Objs
  <2> QED BY <2>1, <2>4, GoOnShape
<1>4. CASE readAuthPolicy
  <2>1. worker.at = "AuthPolicy" /\ UNCHANGED <<object, changes>> BY <1>4 DEF readAuthPolicy
  <2>2. worker' = [worker EXCEPT !.at = "write", !.seen = object["AuthPolicy"][worker.gw]] BY <1>4 DEF readAuthPolicy
  <2>3. DOMAIN worker' = DOMAIN worker /\ worker'.gw = worker.gw /\ worker'.own = worker.own
    BY <2>2 DEF Shape, WorkerShape
  <2>4. WorkerShape(worker') BY <2>1, <2>3 DEF Shape, WorkerShape
  <2> QED BY <2>1, <2>4 DEF Effect
<1>5. CASE deleteAuthPolicyIfManaged
  <2> DEFINE existing == object["AuthPolicy"][worker.gw]
             obj == IF worker.seen = Absent \/ optedOut(worker.seen) THEN existing ELSE Absent
  <2>1. worker.at = "write" /\ goOn("PodMonitor") /\ changes' = changes BY <1>5 DEF deleteAuthPolicyIfManaged
  <2>2. object' = [object EXCEPT !["AuthPolicy"][worker.gw] = obj] BY <1>5, Zenon DEF deleteAuthPolicyIfManaged, store
  <2>3. obj \in Objs BY <1>e, <1>x, <1>k, <2>1
  <2>4. obj = existing \/ (worker.seen # Absent /\ ~optedOut(worker.seen)) OBVIOUS
  <2> HIDE DEF obj
  <2>5. Effect BY <2>1, <2>2, <2>3, <2>4, Zenon DEF Effect, Writes, Objs
  <2> QED BY <2>1, <2>5, GoOnShape
<1>6. CASE reconcileAuthPolicy
  <2> DEFINE seen == worker.seen
             now == object["AuthPolicy"][worker.gw]
             want == desired("AuthPolicy")
             skip == optedOut(seen)
             same == seen # Absent /\ upToDate("AuthPolicy", seen, want.content)
             lost == ~skip /\ ~same /\ ((seen = Absent) # (now = Absent))
             obj == IF skip \/ same THEN now ELSE want
  <2>1. worker.at = "write" /\ changes' = changes BY <1>6 DEF reconcileAuthPolicy
  <2>2. obj \in Objs BY <1>t, <1>x, <1>k, <2>1
  <2>3. (lost /\ giveUp /\ UNCHANGED object)
          \/ (~lost /\ object' = [object EXCEPT !["AuthPolicy"][worker.gw] = obj] /\ (giveUp \/ goOn("PodMonitor")))
    BY <1>6, Zenon DEF reconcileAuthPolicy
  <2>4. WorkerShape(worker') BY <2>1, <2>3, IdleShape, GoOnShape DEF giveUp
  <2>5. ~lost => obj = now \/ (seen # Absent /\ ~skip) \/ now = Absent OBVIOUS
  <2> HIDE DEF obj, lost
  <2>6. Effect BY <2>1, <2>2, <2>3, <2>5, Zenon DEF Effect, Writes, Objs
  <2> QED BY <2>1, <2>4, <2>6
<1>7. CASE reconcileGatewayPodMonitor
  <2> DEFINE existing == object["PodMonitor"][worker.gw]
             want == desired("PodMonitor")
             mine == ~optedOut(existing)
             obj == IF wanted(worker.read, worker.referenced).PodMonitor
                    THEN IF mine /\ (existing = Absent \/ ~upToDate("PodMonitor", existing, want.content))
                         THEN want ELSE existing
                    ELSE IF mine THEN Absent ELSE existing
  <2>1. worker.at = "PodMonitor" /\ worker' = Idle /\ changes' = changes BY <1>7 DEF reconcileGatewayPodMonitor
  <2>2. object' = [object EXCEPT !["PodMonitor"][worker.gw] = obj] BY <1>7, Zenon DEF reconcileGatewayPodMonitor, store
  <2>3. obj \in Objs BY <1>t, <1>e, <1>x, <1>k, <2>1
  <2>4. obj = existing \/ ~optedOut(existing) OBVIOUS
  <2> HIDE DEF obj
  <2>5. Effect BY <2>2, <2>3, <2>4, Zenon DEF Effect, Writes, Objs
  <2> QED BY <2>1, <2>5, IdleShape
<1> QED BY <1>1, <1>2, <1>3, <1>4, <1>5, <1>6, <1>7 DEF Worker

LEMMA EffectShape ==
    ASSUME Shape, Effect
    PROVE object' \in [Kinds -> [Gateways -> ObjectRecord \cup {Absent}]]
<1>1. ASSUME NEW k \in Kinds, NEW obj, Writes(k, obj)
      PROVE object' \in [Kinds -> [Gateways -> ObjectRecord \cup {Absent}]]
  BY Zenon, <1>1, StoredShape DEF Writes
<1>2. CASE object' = object BY <1>2 DEF Shape
<1> QED BY <1>1, <1>2 DEF Effect, Kinds

LEMMA EnvironmentShape ==
    ASSUME Shape, Environment
    PROVE Shape'
<1> DEFINE Map == [Kinds -> [Gateways -> ObjectRecord \cup {Absent}]]
<1>c. changes' \in Nat BY Counted DEF Shape
<1>i. WorkerShape(worker) /\ object \in Map BY DEF Shape
<1>1. ASSUME worker' = worker \/ worker' = Idle, object' \in Map PROVE Shape'
  BY <1>1, <1>c, <1>i, IdleShape DEF Shape
<1>2. ASSUME NEW g \in Gateways, DeleteGateway(g) PROVE Shape'
  <2>1. WorkerShape([worker EXCEPT !.own = "former"])
    <3> DEFINE w == [worker EXCEPT !.own = "former"]
    <3>1. DOMAIN w = DOMAIN worker /\ w.at = worker.at /\ w.gw = worker.gw /\ w.own = "former"
      BY <1>i DEF WorkerShape
    <3> HIDE DEF w
    <3>2. WorkerShape(w) BY <1>i, <3>1 DEF WorkerShape
    <3> QED BY <3>2 DEF w
  <2>2. WorkerShape(worker') BY <1>2, <1>i, <2>1, Zenon DEF DeleteGateway
  <2>3. ASSUME NEW k \in Kinds
        PROVE [object[k] EXCEPT ![g] = IF @ # Absent /\ @.owner = "current" THEN [@ EXCEPT !.owner = "former"] ELSE @]
                \in [Gateways -> ObjectRecord \cup {Absent}]
    <3>1. object[k] \in [Gateways -> ObjectRecord \cup {Absent}] BY <1>i
    <3>2. object[k][g] # Absent => [object[k][g] EXCEPT !.owner = "former"] \in ObjectRecord
      BY <3>1 DEF ObjectRecord
    <3> QED BY <3>1, <3>2
  <2>4. object' = [k \in Kinds |-> [object[k] EXCEPT ![g] =
                    IF @ # Absent /\ @.owner = "current" THEN [@ EXCEPT !.owner = "former"] ELSE @]]
    BY <1>2 DEF DeleteGateway
  <2>5. object' \in Map BY <2>3, <2>4
  <2> QED BY <1>c, <2>2, <2>5 DEF Shape
<1>3. ASSUME NEW g \in Gateways, NEW k \in Kinds,
             DeleteObject(k, g) \/ CreateObject(k, g) \/ \E edit \in {"changed", "added", "toggle"} : EditObject(k, g, edit)
      PROVE Shape'
  <2>o. object[k][g] \in ObjectRecord \cup {Absent} BY <1>i
  <2>1. worker' = worker BY <1>3 DEF DeleteObject, CreateObject, EditObject
  <2>2. PICK obj \in ObjectRecord \cup {Absent} : object' = [object EXCEPT ![k][g] = obj]
    <3>1. CASE DeleteObject(k, g) BY Zenon, <3>1 DEF DeleteObject, removed
    <3>2. CASE CreateObject(k, g)
      <4>1. [managed |-> FALSE, owner |-> "none", edit |-> "changed", content |-> [grid |-> FALSE, header |-> FALSE]]
              \in ObjectRecord
        BY DEF ObjectRecord, Content
      <4> QED BY Zenon, <3>2, <4>1 DEF CreateObject
    <3>3. ASSUME NEW edit \in {"changed", "added", "toggle"}, EditObject(k, g, edit)
          PROVE \E obj \in ObjectRecord \cup {Absent} : object' = [object EXCEPT ![k][g] = obj]
      <4> DEFINE old == object[k][g]
                 new == IF edit = "toggle" THEN [old EXCEPT !.managed = ~@] ELSE [old EXCEPT !.edit = edit]
      <4>1. old # Absent /\ object' = [object EXCEPT ![k][g] = new] BY <3>3 DEF EditObject
      <4>2. old \in ObjectRecord BY <2>o, <4>1
      <4>3. [old EXCEPT !.managed = ~@] \in ObjectRecord BY Zenon, <4>2 DEF ObjectRecord
      <4>4. edit # "toggle" => [old EXCEPT !.edit = edit] \in ObjectRecord BY <4>2 DEF ObjectRecord
      <4>5. new \in ObjectRecord BY <4>3, <4>4
      <4> HIDE DEF new
      <4> QED BY Zenon, <4>1, <4>5
    <3> QED BY <1>3, <3>1, <3>2, <3>3
  <2>3. object' \in Map BY Zenon, <2>2, StoredShape
  <2> QED BY <1>1, <2>1, <2>3
<1> HIDE DEF Map
<1>4. CASE \/ \E g \in Gateways : \E gw \in Profiles : CreateGateway(g, gw) \/ UpdateGateway(g, gw)
           \/ \E s \in Services : DeleteService(s) \/ \E svc \in Specs : CreateService(s, svc) \/ UpdateService(s, svc)
           \/ \E c \in Configs, ns \in Namespaces, refs \in RefSets \cup {Absent} : ChangeConfig(c, ns, refs)
           \/ \E ns \in {SvcNs[s] : s \in Services} : ChangeNamespaceLabels(ns)
           \/ \E new \in [default : Gateways, header : BOOLEAN] : ChangeConfigMap(new)
           \/ ChangeAuthorino \/ CallFails \/ Restart
  <2>1. object' = object /\ (worker' = worker \/ worker' = Idle)
    BY <1>4, Zenon
    DEF CreateGateway, UpdateGateway, DeleteService, CreateService, UpdateService, ChangeConfig, ChangeNamespaceLabels,
        ChangeConfigMap, ChangeAuthorino, CallFails, Restart, giveUp
  <2> QED BY <1>1, <1>i, <2>1
<1> QED BY <1>2, <1>3, <1>4, Zenon DEF Environment

LEMMA CollectShape ==
    ASSUME Shape, NEW k \in Kinds, NEW g \in Gateways, Collect(k, g)
    PROVE Shape'
<1>1. object' = [object EXCEPT ![k][g] = Absent] /\ UNCHANGED <<worker, changes>> BY DEF Collect, removed, cluster
<1>2. object' \in [Kinds -> [Gateways -> ObjectRecord \cup {Absent}]] BY Zenon, <1>1, StoredShape
<1> QED BY <1>1, <1>2 DEF Shape

LEMMA ShapeInvariant == Spec => []Shape
<1>1. ASSUME Init PROVE Shape
  <2>1. object \in [Kinds -> [Gateways -> ObjectRecord \cup {Absent}]] BY <1>1 DEF Init
  <2>2. WorkerShape(worker) /\ changes \in Nat BY <1>1, IdleShape DEF Init
  <2> QED BY <2>1, <2>2 DEF Shape
<1>2. ASSUME Shape, [Next]_vars PROVE Shape'
  <2>1. CASE Worker
    <3>1. WorkerShape(worker') /\ changes' = changes /\ Effect BY <1>2, <2>1, WorkerEffect
    <3> QED BY <1>2, <3>1, EffectShape DEF Shape
  <2>2. CASE UNCHANGED vars BY <1>2, <2>2 DEF vars, Shape
  <2> QED BY <1>2, <2>1, <2>2, EnvironmentShape, CollectShape DEF Next
<1> QED BY <1>1, <1>2, PTL DEF Spec

\* The controller never changes or deletes a PodMonitor that is opted out of
\* management, nor an AuthPolicy unless it was opted out between the worker's
\* read of it and the write: for any number of gateways and users' changes.
THEOREM OptOutIsRespected == Spec => OptOutRespected
<1> DEFINE P(g, k) ==
      (/\ changes' = changes
       /\ object[k][g] # Absent
       /\ ~object[k][g].managed
       /\ object[k][g].owner # "former"
       /\ object'[k][g] # object[k][g])
      => (k = "AuthPolicy" /\ worker.at = "write" /\ worker.seen # Absent /\ worker.seen.managed)
<1>1. ASSUME Shape, [Next]_vars PROVE [\A g \in Gateways, k \in {"AuthPolicy", "PodMonitor"} : P(g, k)]_vars
  <2> SUFFICES ASSUME Next, NEW g \in Gateways, NEW k \in {"AuthPolicy", "PodMonitor"},
                      changes' = changes, object[k][g] # Absent, ~object[k][g].managed,
                      object[k][g].owner # "former", object'[k][g] # object[k][g]
               PROVE k = "AuthPolicy" /\ worker.at = "write" /\ worker.seen # Absent /\ worker.seen.managed
    BY <1>1, Zenon
  <2>1. k \in Kinds BY DEF Kinds
  <2>2. ASSUME NEW l \in Kinds, NEW h \in Gateways, Collect(l, h) PROVE FALSE
    <3>1. object' = [object EXCEPT ![l][h] = Absent] /\ object[l][h].owner = "former" BY <2>2 DEF Collect, removed
    <3>2. l = k /\ h = g BY <1>1, <2>1, <3>1, StoredShape
    <3> QED BY <3>1, <3>2
  <2>3. CASE Environment BY <1>1, <2>3, Counted DEF Shape
  <2>4. CASE Worker
    <3>1. Effect BY <1>1, <2>4, WorkerEffect
    <3>2. ASSUME NEW l \in Kinds, NEW obj, Writes(l, obj)
          PROVE l = k /\ worker.gw = g /\ obj = object'[k][g]
      BY <1>1, <2>1, <3>2, StoredShape DEF Writes
    <3>3. optedOut(object[k][g]) BY DEF optedOut
    <3>4. \A l \in Kinds : \A obj : Writes(l, obj) => l = k /\ worker.gw = g /\ obj = object'[k][g] BY <3>2
    <3>5. "EnvoyFilter" \in Kinds /\ "AuthPolicy" \in Kinds /\ "PodMonitor" \in Kinds /\ k # "EnvoyFilter" BY DEF Kinds
    <3>6. k = "AuthPolicy" /\ worker.at = "write" /\ worker.seen # Absent /\ ~optedOut(worker.seen)
      BY <3>1, <3>3, <3>4, <3>5 DEF Effect
    <3> QED BY <3>6 DEF optedOut
  <2> QED BY <2>2, <2>3, <2>4 DEF Next
<1> QED BY <1>1, ShapeInvariant, PTL DEF Spec, OptOutRespected

---------------------------------------------------------------------------
(* Which gateways a service uses, and which changes can alter that. *)

\* A nonempty set of positions has a last one.
LEMMA LastExists ==
    ASSUME NEW n \in Nat, NEW S \in SUBSET (1..n), S # {}
    PROVE \E i \in S : \A j \in S : j <= i
<1> DEFINE T == {n - i : i \in S}
<1>1. \A i \in S : i \in Nat /\ n - i \in Nat OBVIOUS
<1>2. T \subseteq Nat BY <1>1
<1>3. T # {} OBVIOUS
<1>4. \A j \in S : n - j \in T OBVIOUS
<1> HIDE DEF T
<1> DEFINE R == OpToRel(<, Nat)
<1>5. IsWellFoundedOn(R, Nat) BY Zenon, NatLessThanWellFounded
<1>6. \A x, y \in Nat : <<y, x>> \notin R => ~(y < x) BY Zenon DEF OpToRel
<1> HIDE DEF R
<1>7. PICK x \in T : \A y \in T : <<y, x>> \notin R BY Zenon, <1>2, <1>3, <1>5, WFMin
<1>8. \A y \in T : ~(y < x) BY Zenon, <1>2, <1>6, <1>7
<1>9. PICK i \in S : x = n - i BY DEF T
<1>10. ASSUME NEW j \in S PROVE j <= i
  <2>1. n - j \in T /\ ~(n - j < n - i) BY <1>4, <1>8, <1>9
  <2> QED BY <1>1, <2>1
<1> QED BY <1>10

\* The types of what users write.
ClusterShape ==
  /\ gateway \in [Gateways -> GatewayRecord \cup {Absent}]
  /\ service \in [Services -> Specs \cup {Absent}]
  /\ config \in [Configs -> [Namespaces -> RefSets \cup {Absent}]]

Uses(g, s) ==
  service[s] # Absent /\ ~service[s].stopped /\ g \in getEffectiveGatewayRefs(g, service[s], SvcNs[s])

\* From here on the steps are first-order.
USE Zenon

LEMMA UsesMeaning ==
    ASSUME ClusterShape, NEW g
    PROVE isGatewayReferencedByLLMService(g) = (g = ingress.default \/ \E s \in Services : Uses(g, s))
<1>1. DOMAIN service = Services BY DEF ClusterShape
<1> QED BY <1>1 DEF isGatewayReferencedByLLMService, Live, Uses

LEMMA NextUsesMeaning ==
    ASSUME ClusterShape', NEW g
    PROVE isGatewayReferencedByLLMService(g)' = (g = ingress'.default \/ \E s \in Services : Uses(g, s)')
<1>1. DOMAIN service' = Services BY DEF ClusterShape
<1> QED BY <1>1 DEF isGatewayReferencedByLLMService, Live, Uses

\* The lookup of the watches, which filters nothing, finds every gateway that
\* a service uses.
LEMMA WatchFinds ==
    ASSUME NEW g \in Gateways, NEW svc, NEW ns, g \in getEffectiveGatewayRefs(g, svc, ns)
    PROVE g \in getEffectiveGatewayRefs(NoGateway, svc, ns)
<1>1. \A refs : filterAllowedRefs(NoGateway, refs, ns) = refs BY DEF filterAllowedRefs
<1>2. g # NoGateway BY GatewayAssumption
<1>3. \A refs : filterAllowedRefs(g, refs, ns) = {r \in refs : r = g => gatewayAllowsNamespace(g, ns)}
  BY <1>2 DEF filterAllowedRefs
<1> DEFINE own == filterAllowedRefs(g, svc.refs, ns)
           inherited == inheritedRefs(svc.base, ns)
<1>4. getEffectiveGatewayRefs(NoGateway, svc, ns) = IF svc.refs # {} THEN svc.refs ELSE inherited
  BY <1>1 DEF getEffectiveGatewayRefs
<1>5. g \in IF own # {} THEN own ELSE filterAllowedRefs(g, inherited, ns) BY DEF getEffectiveGatewayRefs
<1> HIDE DEF inherited
<1>6. CASE own # {}
  <2>1. g \in svc.refs BY <1>3, <1>5, <1>6
  <2> QED BY <1>4, <2>1
<1>7. CASE own = {}
  <2>1. g \in inherited /\ gatewayAllowsNamespace(g, ns) BY <1>3, <1>5, <1>7
  <2>2. svc.refs = {} BY <1>3, <1>7, <2>1
  <2> QED BY <1>4, <2>1, <2>2
<1> QED BY <1>6, <1>7

\* What a service uses depends on its own references, the configurations it
\* names, the gateway and the labels of its namespace.
LEMMA SameUse ==
    ASSUME NEW g, NEW s, service'[s] = service[s], gateway'[g] = gateway[g],
           inheritedRefs(service[s].base, SvcNs[s])' = inheritedRefs(service[s].base, SvcNs[s]),
           gateway[g].from \subseteq Froms,
           "Selector" \in gateway[g].from => (SvcNs[s] \in labelled' <=> SvcNs[s] \in labelled)
    PROVE Uses(g, s)' = Uses(g, s)
<1> DEFINE svc == service[s]
           ns == SvcNs[s]
<1>1. ASSUME NEW from \in gateway[g].from
      PROVE listenerAllowsNamespace(from, g, ns)' <=> listenerAllowsNamespace(from, g, ns)
  <2>1. from \in {"Same", "All", "Selector"} BY DEF Froms
  <2>2. CASE from = "Same" BY SMT, <2>2 DEF listenerAllowsNamespace
  <2>3. CASE from = "All" BY SMT, <2>3 DEF listenerAllowsNamespace
  <2>4. CASE from = "Selector" BY SMT, <2>4 DEF listenerAllowsNamespace
  <2> QED BY <2>1, <2>2, <2>3, <2>4
<1>2. gatewayAllowsNamespace(g, ns)' <=> gatewayAllowsNamespace(g, ns) BY <1>1 DEF gatewayAllowsNamespace
<1>3. ASSUME NEW refs PROVE filterAllowedRefs(g, refs, ns)' = filterAllowedRefs(g, refs, ns)
  BY <1>2 DEF filterAllowedRefs
<1> QED BY <1>3 DEF Uses, getEffectiveGatewayRefs

\* What is inherited does not change with a configuration that is not named.
LEMMA SameInherited ==
    ASSUME NEW base \in Seq(Configs), NEW ns,
           \A i \in 1..Len(base) : fetchLLMISvcConfig(base[i], ns)' = fetchLLMISvcConfig(base[i], ns)
    PROVE inheritedRefs(base, ns)' = inheritedRefs(base, ns)
<1> DEFINE refs(i) == fetchLLMISvcConfig(base[i], ns)
           found == {i \in 1..Len(base) : refs(i) # Absent /\ refs(i) # {}}
           last == CHOOSE i \in found : \A j \in found : j <= i
<1>1. Len(base) \in Nat BY SMT
<1>2. found' = found OBVIOUS
<1>3. last' = last BY <1>2
<1>4. found # {} => last \in found
  <2>1. found \in SUBSET (1..Len(base)) OBVIOUS
  <2> HIDE DEF found
  <2>2. found # {} => \E i \in found : \A j \in found : j <= i BY <1>1, <2>1, LastExists
  <2> QED BY <2>2
<1>5. found # {} => refs(last)' = refs(last)
  <2>1. found # {} => last \in 1..Len(base) BY <1>4
  <2> HIDE DEF found, last
  <2> QED BY <1>3, <2>1
<1>6. inheritedRefs(base, ns) = IF found = {} THEN {} ELSE refs(last) BY DEF inheritedRefs
<1>7. inheritedRefs(base, ns)' = IF found' = {} THEN {} ELSE refs(last)' BY DEF inheritedRefs
<1> HIDE DEF found, refs, last
<1> QED BY <1>2, <1>5, <1>6, <1>7

LEMMA SameConfig ==
    ASSUME NEW base, NEW ns, config' = config
    PROVE inheritedRefs(base, ns)' = inheritedRefs(base, ns)
<1> DEFINE refs(i) == fetchLLMISvcConfig(base[i], ns)
           found == {i \in 1..Len(base) : refs(i) # Absent /\ refs(i) # {}}
           last == CHOOSE i \in found : \A j \in found : j <= i
<1>1. \A i : refs(i)' = refs(i) BY DEF fetchLLMISvcConfig
<1>2. found' = found
  <2>1. \A i \in 1..Len(base) : fetchLLMISvcConfig(base[i], ns)' = fetchLLMISvcConfig(base[i], ns) BY <1>1
  <2> QED BY <2>1
<1>3. last' = last BY <1>2
<1>4. refs(last)' = refs(last)
  <2> HIDE DEF found
  <2>1. PICK i : i = last OBVIOUS
  <2> HIDE DEF last
  <2>2. refs(i)' = refs(i) BY <1>1
  <2> QED BY <1>3, <2>1, <2>2
<1>5. inheritedRefs(base, ns) = IF found = {} THEN {} ELSE refs(last) BY DEF inheritedRefs
<1>6. inheritedRefs(base, ns)' = IF found' = {} THEN {} ELSE refs(last)' BY DEF inheritedRefs
<1> HIDE DEF found, refs, last
<1> QED BY <1>2, <1>4, <1>5, <1>6

---------------------------------------------------------------------------
(* What is right, and who will put right what is not. *)

Busy == worker.at # "idle"

says(k, g) == [grid   |-> k = "AuthPolicy" /\ gateway[g].grid = "valid",
               header |-> k = "AuthPolicy" /\ ingress.header]

Right(k, g) ==
  IF wantedNow(k, g)
  THEN \/ k = "EnvoyFilter" /\ ~authorino
       \/ /\ object[k][g] # Absent
          /\ object[k][g].managed /\ k # "EnvoyFilter" => upToDate(k, object[k][g], says(k, g))
  ELSE object[k][g] = Absent \/ ~object[k][g].managed

\* The garbage collector will remove it, which is an event.
Former(k, g) == object[k][g] # Absent /\ object[k][g].owner = "former"

\* The worker decided on what is still so.
Agrees(k) ==
  /\ wanted(worker.read, worker.referenced)[k] = wantedNow(k, worker.gw)
  /\ (worker.read.grid = "valid") = (gateway[worker.gw].grid = "valid")

\* What the worker read of the AuthPolicy still decides as what there is now.
SeenOK ==
  LET now == object["AuthPolicy"][worker.gw]
  IN  /\ worker.seen = Absent => now = Absent \/ ~now.managed
      /\ worker.seen # Absent /\ ~worker.seen.managed => now # Absent /\ ~now.managed
      /\ worker.seen # Absent /\ worker.seen.managed =>
           now # Absent /\ (now.managed => now.content = worker.seen.content /\ now.edit = worker.seen.edit)

\* The steps of a pass at which the object is still to be looked at.
Ahead(k) ==
  CASE k = "EnvoyFilter" -> {"EnvoyFilter"}
    [] k = "AuthPolicy"  -> {"EnvoyFilter", "AuthPolicy", "write"}
    [] k = "PodMonitor"  -> {"EnvoyFilter", "AuthPolicy", "write", "PodMonitor"}

WillCheck(k, g) ==
  /\ Busy /\ worker.gw = g /\ worker.at \in Ahead(k)
  /\ Agrees(k)
  /\ k = "AuthPolicy" /\ worker.at = "write" => SeenOK

\* An object that is not right is in the hands of a queued request, of the
\* garbage collector, or of a pass that has not come to it.
UseInv ==
  \A k \in Kinds, g \in Gateways :
    Watched(k, g) => g \in queue \/ Former(k, g) \/ WillCheck(k, g) \/ Right(k, g)

\* A pass that decided against an object now wanted has another behind it.
AgreeInv ==
  Busy => \A k \in Kinds : Watched(k, worker.gw) => worker.gw \in queue \/ Agrees(k) \/ ~wantedNow(k, worker.gw)

\* What the controller made names an owner, and not a Gateway that is gone as
\* the one there is.
OwnerInv ==
  /\ \A k \in Kinds, g \in Gateways : object[k][g] # Absent =>
       /\ object[k][g].managed => object[k][g].owner # "none"
       /\ gateway[g] = Absent => object[k][g].owner # "current"
  /\ Busy => worker.own # "none" /\ (gateway[worker.gw] = Absent => worker.own # "current")

Inv == ClusterShape /\ UseInv /\ AgreeInv /\ OwnerInv

\* What a step leaves of the reasons for an object.
KeepUse(k, g) ==
  /\ Watched(k, g)
  /\ wantedNow(k, g)' = wantedNow(k, g)
  /\ (gateway'[g].grid = "valid") = (gateway[g].grid = "valid")
  /\ k = "AuthPolicy" => ingress'.header = ingress.header
  /\ k = "EnvoyFilter" => authorino' = authorino

LEMMA KeptSays ==
    ASSUME NEW k, NEW g, KeepUse(k, g)
    PROVE says(k, g)' = says(k, g)
<1>1. CASE k = "AuthPolicy" BY <1>1 DEF says, KeepUse
<1>2. CASE k # "AuthPolicy" BY <1>2 DEF says
<1> QED BY <1>1, <1>2

LEMMA KeptRight ==
    ASSUME NEW k, NEW g, KeepUse(k, g), object'[k][g] = object[k][g], Right(k, g)
    PROVE Right(k, g)'
<1>1. says(k, g)' = says(k, g) BY KeptSays
<1>2. wantedNow(k, g)' = wantedNow(k, g) BY DEF KeepUse
<1>3. CASE wantedNow(k, g)
  <2>1. CASE k = "EnvoyFilter" /\ ~authorino
    <3>1. ~authorino' BY <2>1 DEF KeepUse
    <3> QED BY <1>2, <1>3, <2>1, <3>1 DEF Right
  <2>2. CASE object[k][g] # Absent
             /\ (object[k][g].managed /\ k # "EnvoyFilter" => upToDate(k, object[k][g], says(k, g)))
    BY <1>1, <1>2, <1>3, <2>2 DEF Right, upToDate
  <2> QED BY <1>3, <2>1, <2>2 DEF Right
<1>4. CASE ~wantedNow(k, g) BY <1>2, <1>4 DEF Right
<1> QED BY <1>3, <1>4

\* The cluster is as it was.
LEMMA SameCluster ==
    ASSUME UNCHANGED cluster, NEW k, NEW g
    PROVE /\ wantedNow(k, g)' = wantedNow(k, g)
          /\ Watched(k, g) => KeepUse(k, g)
          /\ Watched(k, g)' = (Watched(k, g)' /\ gateway[g] # Absent)
<1>1. UNCHANGED <<gateway, service, config, labelled, ingress, authorino>> BY DEF cluster
<1>2. isGatewayReferencedByLLMService(g)' = isGatewayReferencedByLLMService(g)
  <2>1. Live(service)' = Live(service) BY <1>1 DEF Live
  <2>2. ASSUME NEW s PROVE getEffectiveGatewayRefs(g, service[s], SvcNs[s])' = getEffectiveGatewayRefs(g, service[s], SvcNs[s])
    <3>1. inheritedRefs(service[s].base, SvcNs[s])' = inheritedRefs(service[s].base, SvcNs[s])
      <4>1. PICK b : b = service[s].base OBVIOUS
      <4>2. inheritedRefs(b, SvcNs[s])' = inheritedRefs(b, SvcNs[s]) BY <1>1, SameConfig
      <4> QED BY <1>1, <4>1, <4>2
    <3>2. gatewayAllowsNamespace(g, SvcNs[s])' <=> gatewayAllowsNamespace(g, SvcNs[s])
      BY <1>1 DEF gatewayAllowsNamespace, listenerAllowsNamespace
    <3> QED BY <1>1, <3>1, <3>2 DEF getEffectiveGatewayRefs, filterAllowedRefs
  <2> QED BY <1>1, <2>1, <2>2 DEF isGatewayReferencedByLLMService
<1>3. wantedNow(k, g)' = wantedNow(k, g) BY <1>1, <1>2 DEF wantedNow, wanted, ShouldCreateEnvoyFilterForGateway
<1> QED BY <1>1, <1>3 DEF KeepUse, Watched

\* The worker is where it was with what it read.
SameWorker ==
  /\ worker'.at = worker.at /\ worker'.gw = worker.gw
  /\ worker'.read = worker.read /\ worker'.referenced = worker.referenced /\ worker'.seen = worker.seen

\* A change beside the worker: each use or object it alters is queued, or is
\* right as it is, or waits for the garbage collector.
LEMMA ClusterChange ==
    ASSUME UseInv, AgreeInv, SameWorker, queue \subseteq queue',
           \A k \in Kinds, g \in Gateways :
             Watched(k, g)' => \/ g \in queue'
                               \/ KeepUse(k, g) /\ (object'[k][g] = object[k][g] \/ Right(k, g)')
                               \/ ~wantedNow(k, g)' /\ (Right(k, g)' \/ Former(k, g)'),
           Busy => worker.gw \in Gateways
    PROVE UseInv' /\ AgreeInv'
<1>a. ASSUME NEW k, Agrees(k), KeepUse(k, worker.gw) PROVE Agrees(k)'
  <2>1. wanted(worker.read, worker.referenced)[k]' = wanted(worker.read, worker.referenced)[k]
    BY DEF SameWorker, wanted, ShouldCreateEnvoyFilterForGateway
  <2>2. PICK g : g = worker.gw /\ g = worker'.gw BY DEF SameWorker
  <2>3. KeepUse(k, g) BY <1>a, <2>2
  <2>4. wantedNow(k, worker.gw)' = wantedNow(k, g)' BY <2>2
  <2>5. wantedNow(k, worker.gw) = wantedNow(k, g) BY <2>2
  <2> QED BY <1>a, <2>1, <2>2, <2>3, <2>4, <2>5 DEF Agrees, KeepUse, SameWorker
<1>1. ASSUME NEW k \in Kinds, NEW g \in Gateways, Watched(k, g)'
      PROVE g \in queue' \/ Former(k, g)' \/ WillCheck(k, g)' \/ Right(k, g)'
  <2>1. CASE KeepUse(k, g) /\ object'[k][g] = object[k][g]
    <3>1. g \in queue \/ Former(k, g) \/ WillCheck(k, g) \/ Right(k, g) BY <2>1 DEF UseInv, KeepUse
    <3>2. Former(k, g) => Former(k, g)' BY <2>1 DEF Former
    <3>3. WillCheck(k, g) => WillCheck(k, g)'
      <4> SUFFICES ASSUME WillCheck(k, g) PROVE WillCheck(k, g)' OBVIOUS
      <4>1. worker.gw = g /\ KeepUse(k, worker.gw) BY <2>1 DEF WillCheck
      <4>2. Agrees(k)' BY <1>a, <4>1 DEF WillCheck
      <4>3. Busy' = Busy BY DEF Busy, SameWorker
      <4>4. k = "AuthPolicy" /\ SeenOK => SeenOK' BY <2>1, <4>1 DEF SeenOK, SameWorker
      <4> QED BY <4>2, <4>3, <4>4 DEF WillCheck, Ahead, SameWorker
    <3> QED BY <2>1, <3>1, <3>2, <3>3, KeptRight
  <2> QED BY <1>1, <2>1
<1>2. ASSUME Busy', NEW k \in Kinds, Watched(k, worker.gw)'
      PROVE worker'.gw \in queue' \/ Agrees(k)' \/ ~wantedNow(k, worker.gw)'
  <2>1. PICK g : g = worker.gw /\ g = worker'.gw BY DEF SameWorker
  <2>2. Busy /\ g \in Gateways /\ Watched(k, g)' BY <1>2, <2>1 DEF Busy, SameWorker
  <2>3. CASE KeepUse(k, g)
    <3>1. g \in queue \/ Agrees(k) \/ ~wantedNow(k, g) BY <2>1, <2>2, <2>3 DEF AgreeInv, KeepUse
    <3>2. ~wantedNow(k, g) => ~wantedNow(k, g)' BY <2>3 DEF KeepUse
    <3> QED BY <1>a, <2>1, <2>3, <3>1, <3>2
  <2> QED BY <2>1, <2>2, <2>3
<1> QED BY <1>1, <1>2 DEF UseInv, AgreeInv

---------------------------------------------------------------------------
(* The worker's steps. *)

\* What a queued request clears from missed is queued.
Cleared == \A m \in missed : m \in missed' \/ m[2] \in queue'

LEMMA EnqueueClears ==
    ASSUME NEW gs, enqueue(gs)
    PROVE queue \subseteq queue' /\ gs \subseteq queue' /\ Cleared
BY DEF enqueue, Cleared

LEMMA ClearedWatched ==
    ASSUME Cleared, UNCHANGED cluster, NEW k, NEW g, Watched(k, g)'
    PROVE Watched(k, g) \/ g \in queue'
<1>1. gateway' = gateway BY DEF cluster
<1>2. <<k, g>>[2] = g OBVIOUS
<1>3. <<k, g>> \in missed => g \in queue' BY <1>2 DEF Cleared, Watched
<1> QED BY <1>1, <1>3 DEF Watched, ShouldCreateEnvoyFilterForGateway

\* The worker keeps what it read.
SameRead == worker'.gw = worker.gw /\ worker'.read = worker.read /\ worker'.referenced = worker.referenced

LEMMA SameAgrees ==
    ASSUME UNCHANGED cluster, SameRead, NEW k
    PROVE Agrees(k)' = Agrees(k)
<1>1. PICK g : g = worker.gw /\ g = worker'.gw BY DEF SameRead
<1>2. wantedNow(k, g)' = wantedNow(k, g) BY SameCluster
<1>3. wanted(worker.read, worker.referenced)[k]' = wanted(worker.read, worker.referenced)[k]
  BY DEF SameRead, wanted, ShouldCreateEnvoyFilterForGateway
<1>4. gateway' = gateway BY DEF cluster
<1>5. wantedNow(k, worker.gw) = wantedNow(k, g) BY <1>1
<1>6. wantedNow(k, worker.gw)' = wantedNow(k, g)' BY <1>1
<1> QED BY <1>1, <1>2, <1>3, <1>4, <1>5, <1>6 DEF Agrees, SameRead

Wrote(k, g, obj) == object' = [object EXCEPT ![k][g] = obj]

LEMMA WroteShape ==
    ASSUME Shape, NEW k \in Kinds, NEW g \in Gateways, NEW obj \in ObjectRecord \cup {Absent}, Wrote(k, g, obj)
    PROVE /\ \A l \in Kinds, h \in Gateways : (l # k \/ h # g) => object'[l][h] = object[l][h]
          /\ object'[k][g] = obj
<1>1. object'[k] = [object[k] EXCEPT ![g] = obj] BY SMT DEF Shape, Wrote
<1>2. \A l \in Kinds : l # k => object'[l] = object[l] BY SMT DEF Shape, Wrote
<1>3. \A h \in Gateways : h # g => [object[k] EXCEPT ![g] = obj][h] = object[k][h] BY SMT DEF Shape
<1>4. [object[k] EXCEPT ![g] = obj][g] = obj BY SMT DEF Shape
<1>5. object'[k][g] = obj BY <1>1, <1>4
<1>6. \A h \in Gateways : h # g => object'[k][h] = object[k][h] BY <1>1, <1>3
<1>7. ASSUME NEW l \in Kinds, NEW h \in Gateways, l # k \/ h # g PROVE object'[l][h] = object[l][h]
  BY <1>2, <1>6, <1>7
<1> QED BY <1>5, <1>7

\* A write of the worker to an object of its gateway: a change is queued, or
\* removes what is not wanted; and what it leaves as it was after checking is
\* right.
LEMMA WriteUse ==
    ASSUME Shape, UseInv, AgreeInv, Busy, NEW k \in Kinds, NEW g \in Gateways, worker.gw = g,
           NEW obj \in ObjectRecord \cup {Absent}, Wrote(k, g, obj),
           UNCHANGED cluster, queue \subseteq queue', Cleared,
           Busy' => SameRead,
           obj # object[k][g] => g \in queue' \/ (Watched(k, g) => Right(k, g)'),
           obj = object[k][g] /\ WillCheck(k, g) => g \in queue' \/ Right(k, g),
           \A l \in Kinds \ {k} : WillCheck(l, g) => g \in queue' \/ WillCheck(l, g)'
    PROVE UseInv' /\ AgreeInv'
<1>o. /\ \A l \in Kinds, h \in Gateways : (l # k \/ h # g) => object'[l][h] = object[l][h]
      /\ object'[k][g] = obj
  BY WroteShape
<1>1. ASSUME NEW l \in Kinds, NEW h \in Gateways, Watched(l, h)'
      PROVE h \in queue' \/ Former(l, h)' \/ WillCheck(l, h)' \/ Right(l, h)'
  <2>1. CASE h \in queue' BY <2>1
  <2>2. CASE h \notin queue'
    <3>1. Watched(l, h) BY <1>1, <2>2, ClearedWatched
    <3>2. KeepUse(l, h) BY <3>1, SameCluster
    <3>3. Former(l, h) \/ WillCheck(l, h) \/ Right(l, h) BY <2>2, <3>1 DEF UseInv
    <3>4. CASE object'[l][h] = object[l][h]
      <4>1. Former(l, h) => Former(l, h)' BY <3>4 DEF Former
      <4>2. Right(l, h) => Right(l, h)' BY <3>2, <3>4, KeptRight
      <4>3. ASSUME WillCheck(l, h) PROVE WillCheck(l, h)' \/ Right(l, h)'
        <5>1. h = g BY <4>3 DEF WillCheck
        <5>2. CASE l = k
          <6>1. obj = object[k][g] BY <1>o, <3>4, <5>1, <5>2
          <6>2. Right(l, h) BY <2>2, <4>3, <5>1, <5>2, <6>1
          <6> QED BY <4>2, <6>2
        <5>3. CASE l # k
          <6> QED BY <2>2, <4>3, <5>1, <5>3
        <5> QED BY <5>2, <5>3
      <4> QED BY <3>3, <4>1, <4>2, <4>3
    <3>5. CASE object'[l][h] # object[l][h]
      <4>1. l = k /\ h = g BY <1>o, <3>5
      <4>2. obj # object[k][g] BY <1>o, <3>5, <4>1
      <4>3. Right(k, g)' BY <2>2, <3>1, <4>1, <4>2
      <4> QED BY <4>1, <4>3
    <3> QED BY <3>4, <3>5
  <2> QED BY <2>1, <2>2
<1>2. ASSUME Busy', NEW l \in Kinds, Watched(l, worker.gw)'
      PROVE worker'.gw \in queue' \/ Agrees(l)' \/ ~wantedNow(l, worker.gw)'
  <2>1. worker'.gw = g BY <1>2 DEF SameRead
  <2>2. Watched(l, g)' BY <1>2, <2>1
  <2>3. Watched(l, g) \/ g \in queue' BY <2>2, ClearedWatched
  <2>4. wantedNow(l, g)' = wantedNow(l, g) BY SameCluster
  <2>5. Agrees(l)' = Agrees(l) BY <1>2, SameAgrees
  <2>6. Watched(l, g) => g \in queue \/ Agrees(l) \/ ~wantedNow(l, g) BY <2>1 DEF AgreeInv
  <2> QED BY <2>1, <2>3, <2>4, <2>5, <2>6
<1> QED BY <1>1, <1>2 DEF UseInv, AgreeInv

\* An object with an owner is an event of its gateway.
LEMMA OwnerOfManaged ==
    ASSUME NEW g, NEW obj, obj # Absent, obj.managed, obj.owner # "none"
    PROVE ownerOf(g, obj) = {g}
BY DEF ownerOf

LEMMA StoreEffect ==
    ASSUME NEW k, NEW g, NEW obj, store(k, g, obj)
    PROVE /\ Wrote(k, g, obj)
          /\ queue \subseteq queue' /\ Cleared
          /\ obj # object[k][g] /\ g \in ownerOf(g, obj) \cup ownerOf(g, object[k][g]) => g \in queue'
<1> DEFINE gs == IF obj = object[k][g] THEN {} ELSE ownerOf(g, obj) \cup ownerOf(g, object[k][g])
<1>1. Wrote(k, g, obj) /\ enqueue(gs) BY DEF store, Wrote
<1>2. obj # object[k][g] => gs = ownerOf(g, obj) \cup ownerOf(g, object[k][g]) OBVIOUS
<1> HIDE DEF gs
<1>3. queue \subseteq queue' /\ gs \subseteq queue' /\ Cleared BY <1>1, EnqueueClears
<1> QED BY <1>1, <1>2, <1>3

LEMMA GoOnEffect ==
    ASSUME Shape, NEW at, goOn(at)
    PROVE SameRead /\ worker'.at = at /\ worker'.seen = worker.seen /\ worker'.own = worker.own
<1>1. worker' = [worker EXCEPT !.at = at] BY DEF goOn
<1>2. {"at", "gw", "own", "read", "referenced", "seen"} \subseteq DOMAIN worker BY DEF Shape, WorkerShape
<1> QED BY SMT, <1>1, <1>2 DEF SameRead

LEMMA AheadMeaning ==
    /\ Ahead("EnvoyFilter") = {"EnvoyFilter"}
    /\ Ahead("AuthPolicy") = {"EnvoyFilter", "AuthPolicy", "write"}
    /\ Ahead("PodMonitor") = {"EnvoyFilter", "AuthPolicy", "write", "PodMonitor"}
BY SMT DEF Ahead

\* A worker that moves on to a step that is still ahead of an object.
LEMMA StillAhead ==
    ASSUME Shape, UNCHANGED cluster, NEW l \in Kinds, NEW g, WillCheck(l, g), SameRead, Busy', worker'.at \in Ahead(l),
           l # "AuthPolicy" \/ worker'.at # "write" \/ SeenOK'
    PROVE WillCheck(l, g)'
<1>1. Agrees(l)' BY SameAgrees DEF WillCheck
<1> QED BY <1>1 DEF WillCheck, SameRead, Ahead

\* What the worker writes.
LEMMA DesiredMeaning ==
    ASSUME Shape, OwnerInv, Busy, NEW k, NEW g
    PROVE /\ desired(k) \in ObjectRecord /\ desired(k) # Absent
          /\ ownerOf(g, desired(k)) = {g}
          /\ desired(k).managed /\ desired(k).owner = worker.own /\ desired(k).edit = "none"
          /\ desired(k).content = [grid   |-> k = "AuthPolicy" /\ worker.read.grid = "valid",
                                   header |-> k = "AuthPolicy" /\ ingress.header]
<1>1. desired(k) \in ObjectRecord BY DesiredType
<1>2. desired(k) # Absent BY <1>1, GatewayAssumption
<1>3. /\ desired(k).managed /\ desired(k).owner = worker.own /\ desired(k).edit = "none"
      /\ desired(k).content = [grid   |-> k = "AuthPolicy" /\ worker.read.grid = "valid",
                               header |-> k = "AuthPolicy" /\ ingress.header]
  BY DEF desired
<1>4. worker.own # "none" BY DEF OwnerInv
<1>5. ownerOf(g, desired(k)) = {g} BY <1>2, <1>3, <1>4 DEF ownerOf
<1> QED BY <1>1, <1>2, <1>3, <1>5

LEMMA DesiredSays ==
    ASSUME Shape, OwnerInv, Busy, NEW k, Agrees(k), NEW g, g = worker.gw
    PROVE desired(k).content = says(k, g)
<1>1. desired(k).content = [grid   |-> k = "AuthPolicy" /\ worker.read.grid = "valid",
                            header |-> k = "AuthPolicy" /\ ingress.header]
  BY DesiredMeaning
<1>2. (worker.read.grid = "valid") = (gateway[g].grid = "valid") BY DEF Agrees
<1> QED BY <1>1, <1>2 DEF says

\* Where an object is changed, and the old one or the new one is managed, the
\* gateway is queued.
LEMMA ManagedQueued ==
    ASSUME OwnerInv, NEW k \in Kinds, NEW g \in Gateways, NEW obj, store(k, g, obj), obj # object[k][g],
           (object[k][g] # Absent /\ object[k][g].managed) \/ ownerOf(g, obj) = {g}
    PROVE g \in queue'
<1>1. object[k][g] # Absent /\ object[k][g].managed => ownerOf(g, object[k][g]) = {g}
  BY OwnerOfManaged DEF OwnerInv
<1>2. g \in ownerOf(g, obj) \cup ownerOf(g, object[k][g]) BY <1>1
<1> QED BY <1>2, StoreEffect

LEMMA EnvoyFilterUse ==
    ASSUME Shape, UseInv, AgreeInv, OwnerInv, reconcileEnvoyFilter \/ deleteEnvoyFilterIfManaged
    PROVE UseInv' /\ AgreeInv'
<1>1. worker.at = "EnvoyFilter" /\ goOn("AuthPolicy") /\ UNCHANGED cluster /\ Busy
  BY DEF reconcileEnvoyFilter, deleteEnvoyFilterIfManaged, Busy
<1>2. PICK g \in Gateways : worker.gw = g BY <1>1 DEF Shape, WorkerShape, Busy
<1>k. "EnvoyFilter" \in Kinds BY DEF Kinds
<1> DEFINE existing == object["EnvoyFilter"][g]
           want == desired("EnvoyFilter")
           stale == existing = Absent \/ ~upToDate("EnvoyFilter", existing, want.content)
           make == IF authorino /\ stale THEN want ELSE existing
           drop == IF optedOut(existing) THEN existing ELSE Absent
<1>e. existing \in ObjectRecord \cup {Absent} BY <1>k DEF Shape
<1>w. want \in ObjectRecord /\ want # Absent /\ ownerOf(g, want) = {g} BY <1>1, DesiredMeaning
<1>m. SameRead /\ worker'.at = "AuthPolicy" BY <1>1, GoOnEffect
<1>n. Busy' BY SMT, <1>m DEF Busy
<1>3. \A l \in Kinds \ {"EnvoyFilter"} : WillCheck(l, g) => WillCheck(l, g)'
  <2>1. ASSUME NEW l \in Kinds \ {"EnvoyFilter"}, WillCheck(l, g) PROVE WillCheck(l, g)'
    <3>1. "AuthPolicy" \in Ahead(l) BY <2>1, AheadMeaning DEF Kinds
    <3>2. worker'.at # "write" BY SMT, <1>m
    <3> QED BY <1>1, <1>m, <1>n, <2>1, <3>1, <3>2, StillAhead
  <2> QED BY <2>1
<1>4. CASE reconcileEnvoyFilter
  <2>1. wanted(worker.read, worker.referenced).EnvoyFilter /\ store("EnvoyFilter", g, make)
    BY <1>2, <1>4 DEF reconcileEnvoyFilter
  <2>2. PICK obj \in ObjectRecord \cup {Absent} : obj = make BY <1>e, <1>w
  <2>3. store("EnvoyFilter", g, obj) BY <2>1, <2>2
  <2>4. ASSUME obj # existing PROVE g \in queue'
    <3>1. obj = want BY <2>2, <2>4
    <3> QED BY <1>k, <1>w, <2>3, <2>4, <3>1, ManagedQueued
  <2>5. ASSUME obj = existing, WillCheck("EnvoyFilter", g) PROVE Right("EnvoyFilter", g)
    <3>1. Agrees("EnvoyFilter") BY <2>5 DEF WillCheck
    <3>2. wantedNow("EnvoyFilter", g) BY <1>2, <2>1, <3>1 DEF Agrees
    <3>3. authorino => existing # Absent BY <1>w, <2>2, <2>5
    <3> QED BY <3>2, <3>3 DEF Right
  <2> HIDE DEF existing, want, stale, make, drop
  <2>6. Wrote("EnvoyFilter", g, obj) /\ queue \subseteq queue' /\ Cleared BY <2>3, StoreEffect
  <2>7. obj # object["EnvoyFilter"][g] => g \in queue' BY <2>4 DEF existing
  <2>8. obj = object["EnvoyFilter"][g] /\ WillCheck("EnvoyFilter", g) => Right("EnvoyFilter", g) BY <2>5 DEF existing
  <2> QED BY <1>1, <1>2, <1>3, <1>k, <1>m, <2>6, <2>7, <2>8, WriteUse
<1>5. CASE deleteEnvoyFilterIfManaged
  <2>1. ~wanted(worker.read, worker.referenced).EnvoyFilter /\ store("EnvoyFilter", g, drop)
    BY <1>2, <1>5 DEF deleteEnvoyFilterIfManaged
  <2>2. PICK obj \in ObjectRecord \cup {Absent} : obj = drop BY <1>e
  <2>3. store("EnvoyFilter", g, obj) BY <2>1, <2>2
  <2>4. ASSUME obj # existing PROVE g \in queue'
    <3>1. existing # Absent /\ existing.managed BY <2>2, <2>4 DEF optedOut
    <3> QED BY <1>k, <2>3, <2>4, <3>1, ManagedQueued
  <2>5. ASSUME obj = existing, WillCheck("EnvoyFilter", g) PROVE Right("EnvoyFilter", g)
    <3>1. Agrees("EnvoyFilter") BY <2>5 DEF WillCheck
    <3>2. ~wantedNow("EnvoyFilter", g) BY <1>2, <2>1, <3>1 DEF Agrees
    <3>3. existing = Absent \/ ~existing.managed BY <2>2, <2>5 DEF optedOut
    <3> QED BY <3>2, <3>3 DEF Right
  <2> HIDE DEF existing, want, stale, make, drop
  <2>6. Wrote("EnvoyFilter", g, obj) /\ queue \subseteq queue' /\ Cleared BY <2>3, StoreEffect
  <2>7. obj # object["EnvoyFilter"][g] => g \in queue' BY <2>4 DEF existing
  <2>8. obj = object["EnvoyFilter"][g] /\ WillCheck("EnvoyFilter", g) => Right("EnvoyFilter", g) BY <2>5 DEF existing
  <2> QED BY <1>1, <1>2, <1>3, <1>k, <1>m, <2>6, <2>7, <2>8, WriteUse
<1> QED BY <1>4, <1>5

LEMMA WroteNothing ==
    ASSUME Shape, NEW k \in Kinds, NEW g \in Gateways, UNCHANGED object
    PROVE Wrote(k, g, object[k][g])
<1>1. object \in [Kinds -> [Gateways -> ObjectRecord \cup {Absent}]] BY DEF Shape
<1>2. [object[k] EXCEPT ![g] = object[k][g]] = object[k] BY SMT, <1>1
<1>3. [object EXCEPT ![k] = object[k]] = object BY SMT, <1>1
<1>4. [object EXCEPT ![k] = [object[k] EXCEPT ![g] = object[k][g]]] = object BY <1>2, <1>3
<1> QED BY SMT, <1>4 DEF Wrote

LEMMA ReadUse ==
    ASSUME Shape, UseInv, AgreeInv, readAuthPolicy
    PROVE UseInv' /\ AgreeInv'
<1>1. worker.at = "AuthPolicy" /\ UNCHANGED <<cluster, object, queue, missed>>
      /\ worker' = [worker EXCEPT !.at = "write", !.seen = object["AuthPolicy"][worker.gw]]
  BY DEF readAuthPolicy
<1>b. Busy BY SMT, <1>1 DEF Busy
<1>2. PICK g \in Gateways : worker.gw = g BY <1>b DEF Shape, WorkerShape, Busy
<1>3. {"at", "gw", "own", "read", "referenced", "seen"} \subseteq DOMAIN worker BY DEF Shape, WorkerShape
<1>4. SameRead /\ worker'.at = "write" /\ worker'.seen = object["AuthPolicy"][g] /\ worker'.gw = g
  BY SMT, <1>1, <1>2, <1>3 DEF SameRead
<1>5. Busy' BY SMT, <1>4 DEF Busy
<1>6. SeenOK'
  <2>1. object'["AuthPolicy"][worker'.gw] = worker'.seen BY <1>1, <1>4
  <2> QED BY <2>1 DEF SeenOK
<1>7. ASSUME NEW l \in Kinds \ {"EnvoyFilter"}, WillCheck(l, g) PROVE WillCheck(l, g)'
  <2>1. "write" \in Ahead(l) BY <1>7, AheadMeaning DEF Kinds
  <2> QED BY <1>1, <1>4, <1>5, <1>6, <1>7, <2>1, StillAhead
<1>8. "EnvoyFilter" \in Kinds BY DEF Kinds
<1>9. PICK obj \in ObjectRecord \cup {Absent} : obj = object["EnvoyFilter"][g] BY <1>8 DEF Shape
<1>10. Wrote("EnvoyFilter", g, obj) BY <1>1, <1>8, <1>9, WroteNothing
<1>11. ~WillCheck("EnvoyFilter", g)
  <2>1. "AuthPolicy" \notin {"EnvoyFilter"} OBVIOUS
  <2> QED BY <1>1, <2>1, AheadMeaning DEF WillCheck
<1>12. queue \subseteq queue' /\ Cleared BY <1>1 DEF Cleared
<1> QED BY <1>1, <1>2, <1>4, <1>7, <1>8, <1>9, <1>10, <1>11, <1>12, <1>b, WriteUse

LEMMA DeletePolicyUse ==
    ASSUME Shape, UseInv, AgreeInv, OwnerInv, deleteAuthPolicyIfManaged
    PROVE UseInv' /\ AgreeInv'
<1> DEFINE ap == "AuthPolicy"
<1>1. worker.at = "write" /\ goOn("PodMonitor") /\ UNCHANGED cluster
      /\ ~wanted(worker.read, worker.referenced).AuthPolicy
  BY DEF deleteAuthPolicyIfManaged
<1>b. Busy BY SMT, <1>1 DEF Busy
<1>2. PICK g \in Gateways : worker.gw = g BY <1>b DEF Shape, WorkerShape, Busy
<1>k. ap \in Kinds BY DEF Kinds
<1>e. object[ap][g] \in ObjectRecord \cup {Absent} BY <1>k DEF Shape
<1>3. PICK obj \in ObjectRecord \cup {Absent} :
        obj = IF worker.seen = Absent \/ optedOut(worker.seen) THEN object[ap][g] ELSE Absent
  BY <1>e
<1>4. store(ap, g, obj) BY <1>2, <1>3 DEF deleteAuthPolicyIfManaged
<1>5. SameRead /\ worker'.at = "PodMonitor" BY <1>1, GoOnEffect
<1>6. Busy' BY SMT, <1>5 DEF Busy
<1>7. Wrote(ap, g, obj) /\ queue \subseteq queue' /\ Cleared BY <1>4, StoreEffect
<1>a. Agrees(ap) => ~wantedNow(ap, g) BY <1>1, <1>2 DEF Agrees
<1>8. ASSUME obj # object[ap][g] PROVE g \in queue' \/ (Watched(ap, g) => Right(ap, g)')
  <2>1. obj = Absent /\ object[ap][g] # Absent BY <1>3, <1>8
  <2>2. CASE object[ap][g].managed BY <1>4, <1>8, <1>k, <2>1, <2>2, ManagedQueued
  <2>3. CASE ~object[ap][g].managed /\ Watched(ap, g) /\ g \notin queue'
    <3>1. g \notin queue BY <1>7, <2>3
    <3>2. ~wantedNow(ap, g) BY <1>2, <1>a, <1>b, <1>k, <2>3, <3>1 DEF AgreeInv
    <3>3. ~wantedNow(ap, g)' BY <1>1, <3>2, SameCluster
    <3>4. object'[ap][g] = Absent BY <1>7, <1>k, <2>1, WroteShape
    <3> QED BY <3>3, <3>4 DEF Right
  <2> QED BY <2>2, <2>3
<1>9. ASSUME obj = object[ap][g], WillCheck(ap, g) PROVE Right(ap, g)
  <2>1. Agrees(ap) /\ SeenOK BY <1>1, <1>9 DEF WillCheck
  <2>2. ~wantedNow(ap, g) BY <1>a, <2>1
  <2>3. object[ap][g] = Absent \/ ~object[ap][g].managed
    <3>1. CASE worker.seen = Absent BY <1>2, <2>1, <3>1 DEF SeenOK
    <3>2. CASE worker.seen # Absent /\ ~worker.seen.managed BY <1>2, <2>1, <3>2 DEF SeenOK
    <3>3. CASE worker.seen # Absent /\ worker.seen.managed BY <1>3, <1>9, <3>3 DEF optedOut
    <3> QED BY <3>1, <3>2, <3>3
  <2> QED BY <2>2, <2>3 DEF Right
<1>10. ASSUME NEW l \in Kinds \ {ap}, WillCheck(l, g) PROVE WillCheck(l, g)'
  <2>1. l # "EnvoyFilter"
    <3>1. "write" \notin {"EnvoyFilter"} OBVIOUS
    <3> QED BY <1>1, <1>10, <3>1, AheadMeaning DEF WillCheck
  <2>2. "PodMonitor" \in Ahead(l) BY <1>10, <2>1, AheadMeaning DEF Kinds
  <2> QED BY <1>1, <1>5, <1>6, <1>10, <2>2, StillAhead
<1> HIDE DEF ap
<1> QED BY <1>1, <1>2, <1>5, <1>7, <1>8, <1>9, <1>10, <1>b, <1>k, WriteUse

\* A pass that ends with an error is repeated.
LEMMA GiveUpUse ==
    ASSUME Shape, UseInv, AgreeInv, Busy, giveUp, UNCHANGED cluster, NEW g \in Gateways, worker.gw = g,
           NEW k \in Kinds, NEW obj \in ObjectRecord \cup {Absent}, Wrote(k, g, obj)
    PROVE UseInv' /\ AgreeInv'
<1>1. worker' = Idle /\ enqueue({g}) BY DEF giveUp
<1>2. g \in queue' /\ queue \subseteq queue' /\ Cleared BY <1>1, EnqueueClears
<1>3. ~Busy' BY SMT, <1>1 DEF Busy, Idle
<1> QED BY <1>2, <1>3, WriteUse

LEMMA FailUse ==
    ASSUME Shape, UseInv, AgreeInv, Busy, giveUp, UNCHANGED <<cluster, object>>
    PROVE UseInv' /\ AgreeInv'
<1>1. PICK g \in Gateways : worker.gw = g BY DEF Shape, WorkerShape, Busy
<1>2. "EnvoyFilter" \in Kinds BY DEF Kinds
<1>3. PICK obj \in ObjectRecord \cup {Absent} : obj = object["EnvoyFilter"][g] BY <1>2 DEF Shape
<1>4. Wrote("EnvoyFilter", g, obj) BY <1>2, <1>3, WroteNothing
<1> QED BY <1>1, <1>2, <1>4, GiveUpUse

LEMMA PolicyUse ==
    ASSUME Shape, UseInv, AgreeInv, OwnerInv, reconcileAuthPolicy
    PROVE UseInv' /\ AgreeInv'
<1> DEFINE ap == "AuthPolicy"
           want == desired(ap)
           skip == optedOut(worker.seen)
           same == worker.seen # Absent /\ upToDate(ap, worker.seen, want.content)
<1>1. worker.at = "write" /\ UNCHANGED cluster /\ wanted(worker.read, worker.referenced).AuthPolicy
  BY DEF reconcileAuthPolicy
<1>b. Busy BY SMT, <1>1 DEF Busy
<1>2. PICK g \in Gateways : worker.gw = g BY <1>b DEF Shape, WorkerShape, Busy
<1>k. ap \in Kinds BY DEF Kinds
<1>e. object[ap][g] \in ObjectRecord \cup {Absent} BY <1>k DEF Shape
<1>w. want \in ObjectRecord /\ want # Absent BY <1>b, DesiredMeaning
<1>3. PICK obj \in ObjectRecord \cup {Absent} : obj = IF skip \/ same THEN object[ap][g] ELSE want
  BY <1>e, <1>w
<1>4. \/ giveUp /\ UNCHANGED object
      \/ Wrote(ap, g, obj) /\ giveUp
      \/ Wrote(ap, g, obj) /\ goOn("PodMonitor") /\ enqueue(IF skip \/ same THEN {} ELSE {g})
  <2>1. \/ giveUp /\ UNCHANGED object
        \/ /\ object' = [object EXCEPT ![ap][worker.gw] = IF skip \/ same THEN object[ap][worker.gw] ELSE want]
           /\ \/ giveUp
              \/ goOn("PodMonitor") /\ enqueue(IF skip \/ same THEN {} ELSE {worker.gw})
    BY DEF reconcileAuthPolicy
  <2> HIDE DEF skip, same, want, ap
  <2>2. \/ giveUp /\ UNCHANGED object
        \/ /\ object' = [object EXCEPT ![ap][g] = obj]
           /\ \/ giveUp
              \/ goOn("PodMonitor") /\ enqueue(IF skip \/ same THEN {} ELSE {g})
    BY <1>2, <1>3, <2>1
  <2> QED BY <2>2 DEF Wrote
<1>5. CASE giveUp /\ UNCHANGED object BY <1>1, <1>5, <1>b, FailUse
<1>6. CASE Wrote(ap, g, obj) /\ giveUp
  <2> HIDE DEF ap, skip, same, want
  <2> QED BY <1>1, <1>2, <1>6, <1>b, <1>k, GiveUpUse
<1>7. CASE Wrote(ap, g, obj) /\ goOn("PodMonitor") /\ enqueue(IF skip \/ same THEN {} ELSE {g})
  <2>1. SameRead /\ worker'.at = "PodMonitor" BY <1>7, GoOnEffect
  <2>2. Busy' BY SMT, <2>1 DEF Busy
  <2>3. PICK gs : gs = (IF skip \/ same THEN {} ELSE {g}) OBVIOUS
  <2>4. enqueue(gs) BY <1>7, <2>3
  <2>5. queue \subseteq queue' /\ gs \subseteq queue' /\ Cleared BY <2>4, EnqueueClears
  <2>6. skip \/ same \/ g \in queue' BY <2>3, <2>5
  <2>7. obj # object[ap][g] => g \in queue' BY <1>3, <2>6
  <2>8. ASSUME WillCheck(ap, g) PROVE g \in queue' \/ Right(ap, g)
    <3>1. Agrees(ap) /\ SeenOK BY <1>1, <2>8 DEF WillCheck
    <3>2. wantedNow(ap, g) BY <1>1, <1>2, <3>1 DEF Agrees
    <3>3. CASE skip
      <4>1. object[ap][g] # Absent /\ ~object[ap][g].managed BY <1>2, <3>1, <3>3 DEF SeenOK, optedOut
      <4> QED BY <3>2, <4>1 DEF Right
    <3>4. CASE same /\ ~skip
      <4>1. object[ap][g] # Absent
            /\ (object[ap][g].managed => object[ap][g].content = worker.seen.content /\ object[ap][g].edit = worker.seen.edit)
        BY <1>2, <3>1, <3>4 DEF SeenOK, optedOut
      <4>2. want.content = says(ap, g) BY <1>2, <1>b, <3>1, DesiredSays
      <4>3. upToDate(ap, worker.seen, says(ap, g)) BY <3>4, <4>2
      <4>4. object[ap][g].managed => upToDate(ap, object[ap][g], says(ap, g)) BY <4>1, <4>3 DEF upToDate
      <4> QED BY <3>2, <4>1, <4>4 DEF Right
    <3> QED BY <2>6, <3>3, <3>4
  <2>9. ASSUME NEW l \in Kinds \ {ap}, WillCheck(l, g) PROVE WillCheck(l, g)'
    <3>1. l # "EnvoyFilter"
      <4>1. "write" \notin {"EnvoyFilter"} OBVIOUS
      <4> QED BY <1>1, <2>9, <4>1, AheadMeaning DEF WillCheck
    <3>2. "PodMonitor" \in Ahead(l) BY <2>9, <3>1, AheadMeaning DEF Kinds
    <3> QED BY <1>1, <2>1, <2>2, <2>9, <3>2, StillAhead
  <2> HIDE DEF ap, skip, same, want
  <2> QED BY <1>1, <1>2, <1>7, <1>b, <1>k, <2>1, <2>5, <2>7, <2>8, <2>9, WriteUse
<1> QED BY <1>4, <1>5, <1>6, <1>7

LEMMA MonitorUse ==
    ASSUME Shape, UseInv, AgreeInv, OwnerInv, reconcileGatewayPodMonitor
    PROVE UseInv' /\ AgreeInv'
<1> DEFINE pm == "PodMonitor"
           want == desired(pm)
           wants == wanted(worker.read, worker.referenced).PodMonitor
<1>1. worker.at = "PodMonitor" /\ UNCHANGED cluster /\ worker' = Idle BY DEF reconcileGatewayPodMonitor
<1>b. Busy BY SMT, <1>1 DEF Busy
<1>c. ~Busy' BY SMT, <1>1 DEF Busy, Idle
<1>2. PICK g \in Gateways : worker.gw = g BY <1>b DEF Shape, WorkerShape, Busy
<1>k. pm \in Kinds BY DEF Kinds
<1> DEFINE existing == object[pm][g]
           mine == ~optedOut(existing)
           stale == existing = Absent \/ ~upToDate(pm, existing, want.content)
<1>e. existing \in ObjectRecord \cup {Absent} BY <1>k DEF Shape
<1>w. want \in ObjectRecord /\ want # Absent /\ ownerOf(g, want) = {g} BY <1>b, DesiredMeaning
<1>3. PICK obj \in ObjectRecord \cup {Absent} :
        obj = IF wants THEN IF mine /\ stale THEN want ELSE existing ELSE IF mine THEN Absent ELSE existing
  BY <1>e, <1>w
<1>4. store(pm, g, obj)
  <2>1. store(pm, worker.gw, IF wants
              THEN IF ~optedOut(object[pm][worker.gw])
                      /\ (object[pm][worker.gw] = Absent \/ ~upToDate(pm, object[pm][worker.gw], want.content))
                   THEN want ELSE object[pm][worker.gw]
              ELSE IF ~optedOut(object[pm][worker.gw]) THEN Absent ELSE object[pm][worker.gw])
    BY DEF reconcileGatewayPodMonitor
  <2> QED BY <1>2, <1>3, <2>1
<1>5. ASSUME obj # existing PROVE g \in queue'
  <2>1. obj = want \/ (existing # Absent /\ existing.managed) BY <1>3, <1>5 DEF optedOut
  <2> QED BY <1>4, <1>5, <1>k, <1>w, <2>1, ManagedQueued
<1>6. ASSUME obj = existing, WillCheck(pm, g) PROVE Right(pm, g)
  <2>1. Agrees(pm) BY <1>6 DEF WillCheck
  <2>2. wantedNow(pm, g) = wants BY <1>2, <2>1 DEF Agrees
  <2>3. want.content = says(pm, g) BY <1>2, <1>b, <2>1, DesiredSays
  <2>4. CASE wants
    <3>1. CASE existing # Absent /\ ~existing.managed BY <2>2, <2>4, <3>1 DEF Right
    <3>2. CASE existing = want
      <4>1. want.edit = "none" BY <1>b, DesiredMeaning
      <4>2. upToDate(pm, want, says(pm, g)) BY <2>3, <4>1 DEF upToDate
      <4> QED BY <1>w, <2>2, <2>4, <3>2, <4>2 DEF Right
    <3>3. CASE existing # Absent /\ upToDate(pm, existing, want.content)
      BY <2>2, <2>3, <2>4, <3>3 DEF Right
    <3> QED BY <1>3, <1>6, <2>4, <3>1, <3>2, <3>3 DEF optedOut
  <2>5. CASE ~wants
    <3>1. existing = Absent \/ ~existing.managed BY <1>3, <1>6, <2>5 DEF optedOut
    <3> QED BY <2>2, <2>5, <3>1 DEF Right
  <2> QED BY <2>4, <2>5
<1>7. ASSUME NEW l \in Kinds \ {pm} PROVE ~WillCheck(l, g)
  <2>1. "PodMonitor" \notin {"EnvoyFilter", "AuthPolicy", "write"} OBVIOUS
  <2> QED BY <1>1, <1>7, <2>1, AheadMeaning DEF WillCheck, Kinds
<1>8. Wrote(pm, g, obj) /\ queue \subseteq queue' /\ Cleared BY <1>4, StoreEffect
<1>9. obj # object[pm][g] => g \in queue' BY <1>5
<1>10. obj = object[pm][g] /\ WillCheck(pm, g) => Right(pm, g) BY <1>6
<1> HIDE DEF pm, want, wants, existing, mine, stale
<1> QED BY <1>1, <1>2, <1>7, <1>8, <1>9, <1>10, <1>b, <1>c, <1>k, WriteUse

\* A pass begins with what there is.
LEMMA ReconcileUse ==
    ASSUME UseInv, NEW g \in Gateways, Reconcile(g)
    PROVE UseInv' /\ AgreeInv'
<1>1. ~Busy /\ queue' = queue \ {g} /\ UNCHANGED <<cluster, object, missed>> BY DEF Reconcile, Busy
<1>2. UNCHANGED <<gateway, service, config, labelled, ingress, authorino>> BY <1>1 DEF cluster
<1>3. ASSUME gateway[g] # Absent, NEW k \in Kinds PROVE WillCheck(k, g)' /\ Agrees(k)'
  <2> DEFINE ref == isGatewayReferencedByLLMService(g)
  <2>1. worker' = [at |-> "EnvoyFilter", gw |-> g, own |-> "current", read |-> gateway[g], referenced |-> ref, seen |-> Absent]
    BY <1>3 DEF Reconcile
  <2> HIDE DEF ref
  <2>2. worker'.at = "EnvoyFilter" /\ worker'.gw = g /\ worker'.read = gateway[g] /\ worker'.referenced = ref
    BY SMT, <2>1
  <2>3. wanted(worker.read, worker.referenced)[k]' = wanted(gateway[g], ref)[k]
    BY <2>2 DEF wanted, ShouldCreateEnvoyFilterForGateway
  <2>4. wantedNow(k, g)' = wantedNow(k, g) BY <1>1, SameCluster
  <2>5. wantedNow(k, worker.gw)' = wantedNow(k, g)' BY <2>2
  <2>6. Agrees(k)' BY <1>2, <2>2, <2>3, <2>4, <2>5 DEF Agrees, wantedNow, ref
  <2>7. Busy' /\ worker'.at # "write" BY SMT, <2>2 DEF Busy
  <2>8. worker'.at \in Ahead(k)' BY <2>2, AheadMeaning DEF Kinds, Ahead
  <2> QED BY <2>2, <2>6, <2>7, <2>8 DEF WillCheck
<1>4. ASSUME NEW k \in Kinds, NEW h \in Gateways, Watched(k, h)'
      PROVE h \in queue' \/ Former(k, h)' \/ WillCheck(k, h)' \/ Right(k, h)'
  <2>1. Watched(k, h) BY <1>1, <1>2, <1>4 DEF Watched, ShouldCreateEnvoyFilterForGateway
  <2>2. CASE h = g
    <3>1. gateway[g] # Absent BY <2>1, <2>2 DEF Watched
    <3> QED BY <1>3, <2>2, <3>1
  <2>3. CASE h # g
    <3>1. h \in queue \/ Former(k, h) \/ Right(k, h) BY <1>1, <2>1 DEF UseInv, WillCheck
    <3>2. KeepUse(k, h) BY <1>1, <2>1, SameCluster
    <3>3. Right(k, h) => Right(k, h)' BY <1>1, <3>2, KeptRight
    <3> QED BY <1>1, <2>3, <3>1, <3>3 DEF Former
  <2> QED BY <2>2, <2>3
<1>5. ASSUME Busy', NEW k \in Kinds PROVE Agrees(k)'
  <2>1. gateway[g] # Absent
    <3>1. CASE gateway[g] = Absent
      <4>1. worker' = Idle BY <3>1 DEF Reconcile
      <4>2. worker'.at = "idle" BY SMT, <4>1 DEF Idle
      <4> QED BY <1>5, <4>2 DEF Busy
    <3> QED BY <3>1
  <2> QED BY <1>3, <1>5, <2>1
<1> QED BY <1>4, <1>5 DEF UseInv, AgreeInv

---------------------------------------------------------------------------
(* Owners. *)

Owned(g, obj) ==
  obj # Absent => (obj.managed => obj.owner # "none") /\ (gateway[g] = Absent => obj.owner # "current")

LEMMA OwnerKept ==
    ASSUME Shape, OwnerInv, UNCHANGED object, \A g \in Gateways : gateway'[g] = Absent => gateway[g] = Absent,
           worker' = worker \/ worker' = Idle
    PROVE OwnerInv'
<1>1. \A k \in Kinds, g \in Gateways : Owned(g, object[k][g])' BY DEF OwnerInv, Owned
<1>2. ASSUME Busy' PROVE worker'.own # "none" /\ (gateway'[worker'.gw] = Absent => worker'.own # "current")
  <2>1. worker' # Idle
    <3>1. Idle.at = "idle" BY SMT DEF Idle
    <3> QED BY <1>2, <3>1 DEF Busy
  <2>2. worker' = worker /\ Busy BY <1>2, <2>1 DEF Busy
  <2>3. worker.gw \in Gateways BY <2>2 DEF Shape, WorkerShape, Busy
  <2> QED BY <2>2, <2>3 DEF OwnerInv
<1> QED BY <1>1, <1>2 DEF OwnerInv, Owned

LEMMA OwnerStored ==
    ASSUME Shape, OwnerInv, UNCHANGED gateway, NEW k \in Kinds, NEW g \in Gateways,
           NEW obj \in ObjectRecord \cup {Absent}, Wrote(k, g, obj), Owned(g, obj),
           worker' = Idle \/ ((Busy' => Busy) /\ worker'.gw = worker.gw /\ worker'.own = worker.own)
    PROVE OwnerInv'
<1>o. /\ \A l \in Kinds, h \in Gateways : (l # k \/ h # g) => object'[l][h] = object[l][h]
      /\ object'[k][g] = obj
  BY WroteShape
<1>1. ASSUME NEW l \in Kinds, NEW h \in Gateways PROVE Owned(h, object[l][h])'
  <2>1. CASE l = k /\ h = g
    <3>1. object'[l][h] = obj BY <1>o, <2>1
    <3> QED BY <2>1, <3>1 DEF Owned
  <2>2. CASE l # k \/ h # g
    <3>1. object'[l][h] = object[l][h] BY <1>o, <2>2
    <3> QED BY <3>1 DEF Owned, OwnerInv
  <2> QED BY <2>1, <2>2
<1>2. ASSUME Busy' PROVE worker'.own # "none" /\ (gateway'[worker'.gw] = Absent => worker'.own # "current")
  <2>1. worker' # Idle
    <3>1. Idle.at = "idle" BY SMT DEF Idle
    <3> QED BY <1>2, <3>1 DEF Busy
  <2> QED BY <1>2, <2>1 DEF OwnerInv
<1> QED BY <1>1, <1>2 DEF OwnerInv, Owned

\* What the worker writes to an object: what it was, nothing, or the rendered
\* one.
LEMMA WorkerWrites ==
    ASSUME Shape, Busy, Worker, NEW g, g = worker.gw
    PROVE /\ UNCHANGED cluster
          /\ UNCHANGED object \/ \E k \in Kinds : \E obj \in {object[k][g], Absent, desired(k)} : Wrote(k, g, obj)
          /\ worker' = Idle \/ (worker'.gw = worker.gw /\ worker'.own = worker.own)
<1>k. "EnvoyFilter" \in Kinds /\ "AuthPolicy" \in Kinds /\ "PodMonitor" \in Kinds BY DEF Kinds
<1>g. ASSUME NEW at, goOn(at) PROVE worker'.gw = worker.gw /\ worker'.own = worker.own
  BY <1>g, GoOnEffect DEF SameRead
<1>1. ASSUME NEW h \in Gateways, Reconcile(h) PROVE FALSE BY <1>1 DEF Reconcile, Busy
<1>w. ASSUME NEW k \in Kinds, NEW obj, object' = [object EXCEPT ![k][worker.gw] = obj],
             obj = object[k][worker.gw] \/ obj = Absent \/ obj = desired(k)
      PROVE \E l \in Kinds : \E new \in {object[l][g], Absent, desired(l)} : Wrote(l, g, new)
  <2>1. Wrote(k, g, obj) BY <1>w DEF Wrote
  <2>2. obj \in {object[k][g], Absent, desired(k)} BY <1>w
  <2> QED BY <2>1, <2>2
<1>2. CASE reconcileEnvoyFilter
  <2> DEFINE existing == object["EnvoyFilter"][worker.gw]
             stale == existing = Absent \/ ~upToDate("EnvoyFilter", existing, desired("EnvoyFilter").content)
             obj == IF authorino /\ stale THEN desired("EnvoyFilter") ELSE existing
  <2>1. goOn("AuthPolicy") /\ UNCHANGED cluster BY <1>2 DEF reconcileEnvoyFilter
  <2>2. object' = [object EXCEPT !["EnvoyFilter"][worker.gw] = obj] BY <1>2 DEF reconcileEnvoyFilter, store
  <2>3. obj = existing \/ obj = Absent \/ obj = desired("EnvoyFilter") OBVIOUS
  <2> HIDE DEF obj
  <2> QED BY <1>g, <1>k, <1>w, <2>1, <2>2, <2>3
<1>3. CASE deleteEnvoyFilterIfManaged
  <2> DEFINE existing == object["EnvoyFilter"][worker.gw]
             obj == IF optedOut(existing) THEN existing ELSE Absent
  <2>1. goOn("AuthPolicy") /\ UNCHANGED cluster BY <1>3 DEF deleteEnvoyFilterIfManaged
  <2>2. object' = [object EXCEPT !["EnvoyFilter"][worker.gw] = obj] BY <1>3 DEF deleteEnvoyFilterIfManaged, store
  <2>3. obj = existing \/ obj = Absent OBVIOUS
  <2> HIDE DEF obj
  <2> QED BY <1>g, <1>k, <1>w, <2>1, <2>2, <2>3
<1>4. CASE readAuthPolicy
  <2>1. UNCHANGED <<cluster, object>> BY <1>4 DEF readAuthPolicy
  <2>2. worker' = [worker EXCEPT !.at = "write", !.seen = object["AuthPolicy"][worker.gw]] BY <1>4 DEF readAuthPolicy
  <2>3. worker'.gw = worker.gw /\ worker'.own = worker.own
    <3>1. {"at", "gw", "own", "read", "referenced", "seen"} \subseteq DOMAIN worker BY DEF Shape, WorkerShape
    <3> QED BY SMT, <2>2, <3>1
  <2> QED BY <2>1, <2>3
<1>5. CASE deleteAuthPolicyIfManaged
  <2> DEFINE existing == object["AuthPolicy"][worker.gw]
             obj == IF worker.seen = Absent \/ optedOut(worker.seen) THEN existing ELSE Absent
  <2>1. goOn("PodMonitor") /\ UNCHANGED cluster BY <1>5 DEF deleteAuthPolicyIfManaged
  <2>2. object' = [object EXCEPT !["AuthPolicy"][worker.gw] = obj] BY <1>5 DEF deleteAuthPolicyIfManaged, store
  <2>3. obj = existing \/ obj = Absent OBVIOUS
  <2> HIDE DEF obj
  <2> QED BY <1>g, <1>k, <1>w, <2>1, <2>2, <2>3
<1>6. CASE reconcileAuthPolicy
  <2> DEFINE seen == worker.seen
             now == object["AuthPolicy"][worker.gw]
             want == desired("AuthPolicy")
             skip == optedOut(seen)
             same == seen # Absent /\ upToDate("AuthPolicy", seen, want.content)
             obj == IF skip \/ same THEN now ELSE want
  <2>1. UNCHANGED cluster BY <1>6 DEF reconcileAuthPolicy
  <2>2. (giveUp /\ UNCHANGED object)
          \/ (object' = [object EXCEPT !["AuthPolicy"][worker.gw] = obj] /\ (giveUp \/ goOn("PodMonitor")))
    BY <1>6 DEF reconcileAuthPolicy
  <2>3. obj = now \/ obj = Absent \/ obj = want OBVIOUS
  <2> HIDE DEF obj
  <2>4. worker' = Idle \/ (worker'.gw = worker.gw /\ worker'.own = worker.own) BY <1>g, <2>2 DEF giveUp
  <2>5. CASE UNCHANGED object BY <2>1, <2>4, <2>5
  <2>6. CASE object' = [object EXCEPT !["AuthPolicy"][worker.gw] = obj]
    <3>1. \E l \in Kinds : \E new \in {object[l][g], Absent, desired(l)} : Wrote(l, g, new) BY <1>k, <1>w, <2>3, <2>6
    <3> QED BY <2>1, <2>4, <3>1
  <2> QED BY <2>2, <2>5, <2>6
<1>7. CASE reconcileGatewayPodMonitor
  <2> DEFINE existing == object["PodMonitor"][worker.gw]
             want == desired("PodMonitor")
             mine == ~optedOut(existing)
             obj == IF wanted(worker.read, worker.referenced).PodMonitor
                    THEN IF mine /\ (existing = Absent \/ ~upToDate("PodMonitor", existing, want.content))
                         THEN want ELSE existing
                    ELSE IF mine THEN Absent ELSE existing
  <2>1. worker' = Idle /\ UNCHANGED cluster BY <1>7 DEF reconcileGatewayPodMonitor
  <2>2. object' = [object EXCEPT !["PodMonitor"][worker.gw] = obj] BY <1>7 DEF reconcileGatewayPodMonitor, store
  <2>3. obj = existing \/ obj = Absent \/ obj = want OBVIOUS
  <2> HIDE DEF obj
  <2> QED BY <1>k, <1>w, <2>1, <2>2, <2>3
<1> QED BY <1>1, <1>2, <1>3, <1>4, <1>5, <1>6, <1>7 DEF Worker

LEMMA WorkerOwner ==
    ASSUME Shape, OwnerInv, Worker
    PROVE OwnerInv'
<1>1. CASE ~Busy
  <2>1. PICK g \in Gateways : Reconcile(g)
    <3>1. worker.at = "idle" BY <1>1 DEF Busy
    <3>2. worker.at \notin {"EnvoyFilter", "AuthPolicy", "write", "PodMonitor"} BY SMT, <3>1
    <3> QED BY <3>2 DEF Worker, reconcileEnvoyFilter, deleteEnvoyFilterIfManaged, readAuthPolicy,
                        deleteAuthPolicyIfManaged, reconcileAuthPolicy, reconcileGatewayPodMonitor
  <2>2. UNCHANGED <<gateway, object>> BY <2>1 DEF Reconcile, cluster
  <2>3. CASE worker' = Idle BY <2>2, <2>3, OwnerKept
  <2>4. CASE gateway[g] # Absent /\ worker' = [at |-> "EnvoyFilter", gw |-> g, own |-> "current", read |-> gateway[g],
                              referenced |-> isGatewayReferencedByLLMService(g), seen |-> Absent]
    <3> DEFINE ref == isGatewayReferencedByLLMService(g)
    <3> HIDE DEF ref
    <3>1. worker'.own = "current" /\ worker'.gw = g BY SMT, <2>4 DEF ref
    <3>2. worker'.own # "none" BY SMT, <3>1
    <3> QED BY <2>2, <2>4, <3>1, <3>2 DEF OwnerInv
  <2> QED BY <2>1, <2>3, <2>4 DEF Reconcile
<1>2. CASE Busy
  <2>1. PICK g \in Gateways : g = worker.gw BY <1>2 DEF Shape, WorkerShape, Busy
  <2>2. /\ UNCHANGED cluster
        /\ UNCHANGED object \/ \E k \in Kinds : \E obj \in {object[k][g], Absent, desired(k)} : Wrote(k, g, obj)
        /\ worker' = Idle \/ (worker'.gw = worker.gw /\ worker'.own = worker.own)
    BY <1>2, <2>1, WorkerWrites
  <2>w. worker' = Idle \/ (worker'.gw = worker.gw /\ worker'.own = worker.own) BY <2>2
  <2>b. Busy' => Busy BY <1>2
  <2>3. UNCHANGED gateway BY <2>2 DEF cluster
  <2>4. ASSUME NEW k \in Kinds, NEW obj \in {object[k][g], Absent, desired(k)}, Wrote(k, g, obj) PROVE OwnerInv'
    <3>1. desired(k) \in ObjectRecord /\ desired(k).owner = worker.own BY <1>2, DesiredMeaning
    <3>2. object[k][g] \in ObjectRecord \cup {Absent} /\ Owned(g, object[k][g]) BY DEF Shape, OwnerInv, Owned
    <3>3. Owned(g, desired(k)) /\ Owned(g, Absent) BY <1>2, <2>1, <3>1 DEF OwnerInv, Owned
    <3>4. PICK new : new = obj OBVIOUS
    <3>5. new = object[k][g] \/ new = Absent \/ new = desired(k) BY <2>4, <3>4
    <3>6. new \in ObjectRecord \cup {Absent} /\ Owned(g, new) BY <3>1, <3>2, <3>3, <3>5
    <3>7. Wrote(k, g, new) BY <2>4, <3>4
    <3>8. worker' = Idle \/ ((Busy' => Busy) /\ worker'.gw = worker.gw /\ worker'.own = worker.own) BY <2>w, <2>b
    <3> QED BY <2>3, <3>6, <3>7, <3>8, OwnerStored
  <2>5. CASE UNCHANGED object
    <3>1. "EnvoyFilter" \in Kinds BY DEF Kinds
    <3>2. Wrote("EnvoyFilter", g, object["EnvoyFilter"][g]) BY <2>5, <3>1, WroteNothing
    <3> QED BY <2>4, <3>1, <3>2
  <2> QED BY <2>2, <2>4, <2>5
<1> QED BY <1>1, <1>2

---------------------------------------------------------------------------
(* Changes in the cluster. *)

LEMMA WorkerSame ==
    ASSUME worker' = worker
    PROVE SameWorker
BY DEF SameWorker

\* An object is changed by somebody else.
LEMMA ObjectUse ==
    ASSUME Shape, UseInv, AgreeInv, UNCHANGED cluster, worker' = worker, queue \subseteq queue', Cleared,
           NEW k \in Kinds, NEW g \in Gateways, NEW obj \in ObjectRecord \cup {Absent}, Wrote(k, g, obj),
           g \in queue' \/ ~Watched(k, g)' \/ Right(k, g)'
    PROVE UseInv' /\ AgreeInv'
<1>o. /\ \A l \in Kinds, h \in Gateways : (l # k \/ h # g) => object'[l][h] = object[l][h]
      /\ object'[k][g] = obj
  BY WroteShape
<1>1. ASSUME NEW l \in Kinds, NEW h \in Gateways, Watched(l, h)'
      PROVE h \in queue' \/ (KeepUse(l, h) /\ (object'[l][h] = object[l][h] \/ Right(l, h)'))
  <2>1. Watched(l, h) \/ h \in queue' BY <1>1, ClearedWatched
  <2>2. Watched(l, h) => KeepUse(l, h) BY SameCluster
  <2>3. CASE l = k /\ h = g BY <1>1, <2>1, <2>2, <2>3
  <2>4. CASE l # k \/ h # g BY <1>o, <2>1, <2>2, <2>4
  <2> QED BY <2>3, <2>4
<1>2. Busy => worker.gw \in Gateways BY DEF Shape, WorkerShape, Busy
<1> QED BY <1>1, <1>2, WorkerSame, ClusterChange

\* What is opted out of management is right.
LEMMA OptedOutRight ==
    ASSUME NEW k, NEW g, object[k][g] # Absent, ~object[k][g].managed
    PROVE Right(k, g)
BY DEF Right

LEMMA RemovedUse ==
    ASSUME Shape, UseInv, AgreeInv, OwnerInv, UNCHANGED cluster, worker' = worker, NEW k \in Kinds, NEW g \in Gateways,
           removed(k, g)
    PROVE UseInv' /\ AgreeInv' /\ OwnerInv'
<1> DEFINE owner == ownerOf(g, object[k][g])
<1>1. /\ object' = [object EXCEPT ![k][g] = Absent]
      /\ queue' = queue \cup owner
      /\ missed' = IF owner = {} /\ g \notin queue THEN missed \cup {<<k, g>>} ELSE {m \in missed : m[2] \notin owner}
  BY DEF removed
<1>2. owner = {} \/ owner = {g} BY DEF ownerOf
<1> HIDE DEF owner
<1>3. Wrote(k, g, Absent) BY <1>1 DEF Wrote
<1>4. queue \subseteq queue' BY <1>1
<1>5. Cleared BY <1>1 DEF Cleared
<1>6. g \in queue' \/ ~Watched(k, g)'
  <2>1. CASE owner = {g} \/ g \in queue BY <1>1, <2>1
  <2>2. CASE owner = {} /\ g \notin queue
    <3>1. <<k, g>> \in missed' BY <1>1, <2>2
    <3> QED BY <3>1 DEF Watched
  <2> QED BY <1>2, <2>1, <2>2
<1>7. PICK obj \in ObjectRecord \cup {Absent} : obj = Absent OBVIOUS
<1>8. Wrote(k, g, obj) BY <1>3, <1>7
<1>9. UseInv' /\ AgreeInv' BY <1>4, <1>5, <1>6, <1>8, ObjectUse
<1>10. OwnerInv'
  <2>1. UNCHANGED gateway BY DEF cluster
  <2>2. Owned(g, obj) BY <1>7 DEF Owned
  <2>3. worker' = Idle \/ ((Busy' => Busy) /\ worker'.gw = worker.gw /\ worker'.own = worker.own) BY DEF Busy
  <2> QED BY <1>8, <2>1, <2>2, <2>3, OwnerStored
<1> QED BY <1>9, <1>10

LEMMA EditUse ==
    ASSUME Shape, UseInv, AgreeInv, OwnerInv, NEW k \in Kinds, NEW g \in Gateways,
           NEW edit \in {"changed", "added", "toggle"}, EditObject(k, g, edit)
    PROVE UseInv' /\ AgreeInv' /\ OwnerInv'
<1> DEFINE old == object[k][g]
           new == IF edit = "toggle" THEN [old EXCEPT !.managed = ~@] ELSE [old EXCEPT !.edit = edit]
<1>1. /\ old # Absent /\ (edit = "toggle" => old.owner # "none")
      /\ object' = [object EXCEPT ![k][g] = new]
      /\ enqueue(ownerOf(g, new))
      /\ UNCHANGED <<cluster, worker>>
  BY DEF EditObject
<1>2. old \in ObjectRecord BY <1>1 DEF Shape
<1>3. /\ new \in ObjectRecord /\ new.owner = old.owner
      /\ edit # "toggle" => new.managed = old.managed
  <2>1. CASE edit = "toggle"
    <3>1. [old EXCEPT !.managed = ~@] \in ObjectRecord BY <1>2 DEF ObjectRecord
    <3>2. [old EXCEPT !.managed = ~@].owner = old.owner
      <4> HIDE DEF old
      <4> QED BY SMT, <1>2 DEF ObjectRecord
    <3> QED BY <2>1, <3>1, <3>2
  <2>2. CASE edit # "toggle"
    <3>1. [old EXCEPT !.edit = edit] \in ObjectRecord
      <4> HIDE DEF old
      <4> QED BY SMT, <1>2, <2>2 DEF ObjectRecord
    <3>2. [old EXCEPT !.edit = edit].owner = old.owner /\ [old EXCEPT !.edit = edit].managed = old.managed
      <4> HIDE DEF old
      <4> QED BY SMT, <1>2 DEF ObjectRecord
    <3> QED BY <2>2, <3>1, <3>2
  <2> QED BY <2>1, <2>2
<1>4. PICK obj \in ObjectRecord \cup {Absent} : obj = new BY <1>3
<1>5. /\ obj \in ObjectRecord /\ obj.owner = old.owner
      /\ edit # "toggle" => obj.managed = old.managed
  BY <1>3, <1>4
<1>6. Wrote(k, g, obj) /\ enqueue(ownerOf(g, obj)) BY <1>1, <1>4 DEF Wrote
<1> HIDE DEF new
<1>7. obj # Absent BY <1>5, GatewayAssumption
<1>8. obj.managed => obj.owner # "none" BY <1>1, <1>5 DEF OwnerInv
<1>9. Owned(g, obj) BY <1>1, <1>5, <1>8 DEF Owned, OwnerInv
<1>10. queue \subseteq queue' /\ ownerOf(g, obj) \subseteq queue' /\ Cleared
  <2>1. PICK gs : gs = ownerOf(g, obj) OBVIOUS
  <2> QED BY <1>6, <2>1, EnqueueClears
<1>11. g \in queue' \/ Right(k, g)'
  <2>1. CASE obj.managed
    <3>1. ownerOf(g, obj) = {g} BY <1>7, <1>8, <2>1, OwnerOfManaged
    <3> QED BY <1>10, <3>1
  <2>2. CASE ~obj.managed
    <3>1. object'[k][g] = obj BY <1>6, WroteShape
    <3> QED BY <1>7, <2>2, <3>1, OptedOutRight DEF Right
  <2> QED BY <2>1, <2>2
<1>12. UseInv' /\ AgreeInv' BY <1>1, <1>6, <1>10, <1>11, ObjectUse
<1>13. OwnerInv'
  <2>1. UNCHANGED gateway BY <1>1 DEF cluster
  <2>2. worker' = Idle \/ ((Busy' => Busy) /\ worker'.gw = worker.gw /\ worker'.own = worker.own) BY <1>1 DEF Busy
  <2> QED BY <1>6, <1>9, <2>1, <2>2, OwnerStored
<1> QED BY <1>12, <1>13

LEMMA CreateObjectUse ==
    ASSUME Shape, UseInv, AgreeInv, OwnerInv, NEW k \in Kinds, NEW g \in Gateways, CreateObject(k, g)
    PROVE UseInv' /\ AgreeInv' /\ OwnerInv'
<1> DEFINE new == [managed |-> FALSE, owner |-> "none", edit |-> "changed", content |-> [grid |-> FALSE, header |-> FALSE]]
<1>1. object' = [object EXCEPT ![k][g] = new] /\ UNCHANGED <<cluster, queue, missed, worker>> BY DEF CreateObject
<1>2. new \in ObjectRecord /\ ~new.managed /\ new.owner # "current" BY SMT DEF ObjectRecord, Content
<1>3. PICK obj \in ObjectRecord \cup {Absent} : obj = new BY <1>2
<1>4. obj \in ObjectRecord /\ ~obj.managed /\ obj.owner # "current" /\ Wrote(k, g, obj) BY <1>1, <1>2, <1>3 DEF Wrote
<1> HIDE DEF new
<1>5. obj # Absent BY <1>4, GatewayAssumption
<1>6. object'[k][g] = obj BY <1>4, WroteShape
<1>7. Right(k, g)' BY <1>4, <1>5, <1>6 DEF Right
<1>8. queue \subseteq queue' /\ Cleared BY <1>1 DEF Cleared
<1>9. UseInv' /\ AgreeInv' BY <1>1, <1>4, <1>7, <1>8, ObjectUse
<1>10. OwnerInv'
  <2>1. UNCHANGED gateway BY <1>1 DEF cluster
  <2>2. worker' = Idle \/ ((Busy' => Busy) /\ worker'.gw = worker.gw /\ worker'.own = worker.own) BY <1>1 DEF Busy
  <2>3. Owned(g, obj) BY <1>4 DEF Owned
  <2> QED BY <1>4, <2>1, <2>2, <2>3, OwnerStored
<1> QED BY <1>9, <1>10

\* What is the same of a gateway's use: its own record, the services that use
\* it and the default.
LEMMA KeptUse ==
    ASSUME ClusterShape, ClusterShape', NEW k \in Kinds, NEW g, Watched(k, g),
           gateway'[g] = gateway[g], ingress' = ingress, k = "EnvoyFilter" => authorino' = authorino,
           \A s \in Services : Uses(g, s)' = Uses(g, s)
    PROVE KeepUse(k, g)
<1>1. isGatewayReferencedByLLMService(g) = (g = ingress.default \/ \E s \in Services : Uses(g, s)) BY UsesMeaning
<1>2. isGatewayReferencedByLLMService(g)' = (g = ingress'.default \/ \E s \in Services : Uses(g, s)') BY NextUsesMeaning
<1>3. isGatewayReferencedByLLMService(g)' = isGatewayReferencedByLLMService(g) BY <1>1, <1>2
<1>4. wantedNow(k, g)' = wantedNow(k, g) BY <1>3 DEF wantedNow, wanted, ShouldCreateEnvoyFilterForGateway
<1> QED BY <1>4 DEF KeepUse

LEMMA FromType ==
    ASSUME ClusterShape, NEW g \in Gateways, gateway[g] # Absent
    PROVE gateway[g] \in GatewayRecord /\ gateway[g].from \subseteq Froms
<1>1. gateway[g] \in GatewayRecord BY DEF ClusterShape
<1>2. gateway[g].from \in SUBSET Froms BY SMT, <1>1 DEF GatewayRecord
<1> QED BY <1>1, <1>2

\* A service that is as it was uses what it used.
LEMMA SteadyUse ==
    ASSUME ClusterShape, config' = config, labelled' = labelled, NEW g \in Gateways, gateway'[g] = gateway[g],
           gateway[g] # Absent, NEW s, service'[s] = service[s]
    PROVE Uses(g, s)' = Uses(g, s)
<1>1. PICK b : b = service[s].base OBVIOUS
<1>2. inheritedRefs(b, SvcNs[s])' = inheritedRefs(b, SvcNs[s]) BY SameConfig
<1>3. inheritedRefs(service[s].base, SvcNs[s])' = inheritedRefs(service[s].base, SvcNs[s]) BY <1>1, <1>2
<1>4. gateway[g].from \subseteq Froms BY FromType
<1> QED BY <1>3, <1>4, SameUse

\* A gateway that is as it was, while others change.
LEMMA OtherGateway ==
    ASSUME ClusterShape, ClusterShape', UNCHANGED <<service, config, labelled, ingress, authorino>>, Cleared,
           NEW k \in Kinds, NEW g \in Gateways, gateway'[g] = gateway[g], Watched(k, g)'
    PROVE g \in queue' \/ KeepUse(k, g)
<1>1. gateway[g] # Absent BY DEF Watched
<1>2. \A s \in Services : Uses(g, s)' = Uses(g, s) BY <1>1, SteadyUse
<1>3. <<k, g>>[2] = g OBVIOUS
<1>4. Watched(k, g) \/ g \in queue' BY <1>3 DEF Watched, Cleared, ShouldCreateEnvoyFilterForGateway
<1> QED BY <1>2, <1>4, KeptUse

\* A gateway for which gatewayPredicate is silent has neither an EnvoyFilter
\* nor an AuthPolicy.
LEMMA NeverWanted ==
    ASSUME NEW k \in Kinds, k # "PodMonitor", NEW gw, NEW ref, ~ShouldCreateEnvoyFilterForGateway(gw)
    PROVE wanted(gw, ref)[k] = FALSE
<1>1. CASE k = "EnvoyFilter" BY <1>1 DEF wanted
<1>2. CASE k = "AuthPolicy"
  <2>1. ~(gw.managed /\ ~gw.platform) BY DEF ShouldCreateEnvoyFilterForGateway
  <2> QED BY <1>2, <2>1 DEF wanted
<1> QED BY <1>1, <1>2 DEF Kinds

LEMMA NotWanted ==
    ASSUME NEW k \in Kinds, k # "PodMonitor", NEW g, ~ShouldCreateEnvoyFilterForGateway(gateway[g])
    PROVE wantedNow(k, g) = FALSE
<1>1. PICK gw : gw = gateway[g] OBVIOUS
<1>2. PICK ref : ref = isGatewayReferencedByLLMService(g) OBVIOUS
<1>3. ~ShouldCreateEnvoyFilterForGateway(gw) BY <1>1
<1>4. wanted(gw, ref)[k] = FALSE BY <1>3, NeverWanted
<1> QED BY <1>1, <1>2, <1>4 DEF wantedNow

LEMMA NextNotWanted ==
    ASSUME NEW k \in Kinds, k # "PodMonitor", NEW g, ~ShouldCreateEnvoyFilterForGateway(gateway[g])'
    PROVE wantedNow(k, g)' = FALSE
<1>1. PICK gw : gw = gateway'[g] OBVIOUS
<1>2. PICK ref : ref = isGatewayReferencedByLLMService(g)' OBVIOUS
<1>3. ~ShouldCreateEnvoyFilterForGateway(gw) BY <1>1 DEF ShouldCreateEnvoyFilterForGateway
<1>4. wanted(gw, ref)[k] = FALSE BY <1>3, NeverWanted
<1> QED BY <1>1, <1>2, <1>4 DEF wantedNow, wanted, ShouldCreateEnvoyFilterForGateway

LEMMA CreateGatewayUse ==
    ASSUME Shape, ClusterShape, ClusterShape', UseInv, AgreeInv, OwnerInv, NEW g \in Gateways, NEW gw \in Profiles,
           CreateGateway(g, gw)
    PROVE UseInv' /\ AgreeInv' /\ OwnerInv'
<1>1. /\ gateway[g] = Absent /\ gateway' = [gateway EXCEPT ![g] = gw]
      /\ enqueue(IF ShouldCreateEnvoyFilterForGateway(gw) THEN {g} ELSE {})
      /\ UNCHANGED <<service, config, labelled, ingress, authorino, object, worker>>
  BY DEF CreateGateway
<1>2. PICK gs : gs = (IF ShouldCreateEnvoyFilterForGateway(gw) THEN {g} ELSE {}) OBVIOUS
<1>3. queue \subseteq queue' /\ gs \subseteq queue' /\ Cleared BY <1>1, <1>2, EnqueueClears
<1>4. \A h \in Gateways : gateway'[h] = IF h = g THEN gw ELSE gateway[h] BY <1>1 DEF ClusterShape
<1>5. ASSUME NEW k \in Kinds, NEW h \in Gateways, Watched(k, h)'
      PROVE h \in queue' \/ KeepUse(k, h) \/ (~wantedNow(k, h)' /\ (Right(k, h)' \/ Former(k, h)'))
  <2>1. CASE h # g BY <1>1, <1>3, <1>4, <1>5, <2>1, OtherGateway
  <2>2. CASE h = g /\ ShouldCreateEnvoyFilterForGateway(gw) BY <1>2, <1>3, <2>2
  <2>3. CASE h = g /\ ~ShouldCreateEnvoyFilterForGateway(gw)
    <3>1. ~ShouldCreateEnvoyFilterForGateway(gateway[h])' BY <1>4, <2>3 DEF ShouldCreateEnvoyFilterForGateway
    <3>2. ~wantedNow(k, h)'
      <4>1. k # "PodMonitor" BY <1>5, <3>1 DEF Watched
      <4> QED BY <3>1, <4>1, NextNotWanted
    <3>3. CASE object[k][h] = Absent \/ ~object[k][h].managed BY <1>1, <3>2, <3>3 DEF Right
    <3>4. CASE object[k][h] # Absent /\ object[k][h].managed
      <4>1. object[k][h].owner # "none" /\ object[k][h].owner # "current" BY <1>1, <2>3, <3>4 DEF OwnerInv
      <4>2. object[k][h] \in ObjectRecord BY <3>4 DEF Shape
      <4>3. object[k][h].owner \in {"current", "former", "none"} BY SMT, <4>2 DEF ObjectRecord
      <4>4. Former(k, h)' BY <1>1, <3>4, <4>1, <4>3 DEF Former
      <4> QED BY <3>2, <4>4
    <3> QED BY <3>3, <3>4
  <2> QED BY <2>1, <2>2, <2>3
<1>6. Busy => worker.gw \in Gateways BY DEF Shape, WorkerShape, Busy
<1>7. UseInv' /\ AgreeInv' BY <1>1, <1>3, <1>5, <1>6, WorkerSame, ClusterChange
<1>8. \A h \in Gateways : gateway'[h] = Absent => gateway[h] = Absent BY <1>1, <1>4
<1> QED BY <1>1, <1>7, <1>8, OwnerKept

LEMMA UpdateGatewayUse ==
    ASSUME Shape, ClusterShape, ClusterShape', UseInv, AgreeInv, OwnerInv, NEW g \in Gateways, NEW gw \in Profiles,
           UpdateGateway(g, gw)
    PROVE UseInv' /\ AgreeInv' /\ OwnerInv'
<1>1. /\ gateway[g] # Absent /\ gateway[g].platform = gw.platform /\ gateway' = [gateway EXCEPT ![g] = gw]
      /\ enqueue(IF gatewayPredicate(gateway[g], gw) THEN {g} ELSE {})
      /\ UNCHANGED <<service, config, labelled, ingress, authorino, object, worker>>
  BY DEF UpdateGateway
<1>2. PICK gs : gs = (IF gatewayPredicate(gateway[g], gw) THEN {g} ELSE {}) OBVIOUS
<1>3. queue \subseteq queue' /\ gs \subseteq queue' /\ Cleared BY <1>1, <1>2, EnqueueClears
<1>4. \A h \in Gateways : gateway'[h] = IF h = g THEN gw ELSE gateway[h] BY <1>1 DEF ClusterShape
<1>5. ASSUME NEW k \in Kinds, NEW h \in Gateways, Watched(k, h)'
      PROVE h \in queue' \/ KeepUse(k, h)
  <2>1. CASE h # g BY <1>1, <1>3, <1>4, <1>5, <2>1, OtherGateway
  <2>2. CASE h = g /\ gatewayPredicate(gateway[g], gw) BY <1>2, <1>3, <2>2
  <2>3. CASE h = g /\ ~gatewayPredicate(gateway[g], gw) /\ h \notin queue'
    <3>1. /\ gateway[g].managed = gw.managed /\ gateway[g].grid = gw.grid /\ gateway[g].tls = gw.tls
          /\ ~ShouldCreateEnvoyFilterForGateway(gw)
      BY <2>3 DEF gatewayPredicate
    <3>2. ~ShouldCreateEnvoyFilterForGateway(gateway[h]) BY <1>1, <2>3, <3>1 DEF ShouldCreateEnvoyFilterForGateway
    <3>3. ~ShouldCreateEnvoyFilterForGateway(gateway[h])' BY <1>4, <2>3, <3>1 DEF ShouldCreateEnvoyFilterForGateway
    <3>4. k # "PodMonitor" BY <1>5, <3>3 DEF Watched
    <3>5. <<k, h>>[2] = h OBVIOUS
    <3>6. Watched(k, h) BY <1>1, <1>3, <1>5, <2>3, <3>4, <3>5 DEF Watched, Cleared
    <3>7. wantedNow(k, h) = FALSE BY <3>2, <3>4, NotWanted
    <3>8. wantedNow(k, h)' = FALSE BY <3>3, <3>4, NextNotWanted
    <3>9. gateway'[h].grid = gateway[h].grid BY <1>4, <2>3, <3>1
    <3> QED BY <1>1, <3>6, <3>7, <3>8, <3>9 DEF KeepUse
  <2> QED BY <2>1, <2>2, <2>3
<1>6. Busy => worker.gw \in Gateways BY DEF Shape, WorkerShape, Busy
<1>7. UseInv' /\ AgreeInv' BY <1>1, <1>3, <1>5, <1>6, WorkerSame, ClusterChange
<1>8. \A h \in Gateways : gateway'[h] = Absent => gateway[h] = Absent BY <1>4, GatewayAssumption
<1> QED BY <1>1, <1>7, <1>8, OwnerKept

LEMMA DeleteGatewayUse ==
    ASSUME Shape, ClusterShape, ClusterShape', UseInv, AgreeInv, OwnerInv, NEW g \in Gateways, DeleteGateway(g)
    PROVE UseInv' /\ AgreeInv' /\ OwnerInv'
<1> DEFINE left(obj) == IF obj # Absent /\ obj.owner = "current" THEN [obj EXCEPT !.owner = "former"] ELSE obj
<1>1. /\ gateway' = [gateway EXCEPT ![g] = Absent]
      /\ object' = [k \in Kinds |-> [object[k] EXCEPT ![g] = left(object[k][g])]]
      /\ worker' = IF worker.gw = g THEN [worker EXCEPT !.own = "former"] ELSE worker
      /\ UNCHANGED <<service, config, labelled, ingress, authorino, queue, missed>>
  BY SMT DEF DeleteGateway
<1>2. \A h \in Gateways : gateway'[h] = IF h = g THEN Absent ELSE gateway[h] BY <1>1 DEF ClusterShape
<1>3. \A k \in Kinds : object[k] \in [Gateways -> ObjectRecord \cup {Absent}] BY DEF Shape
<1>o. ASSUME NEW k \in Kinds PROVE object'[k] = [object[k] EXCEPT ![g] = left(object[k][g])]
  <2> HIDE DEF left
  <2> QED BY <1>1
<1>4. ASSUME NEW k \in Kinds, NEW h \in Gateways
      PROVE object'[k][h] = IF h = g THEN left(object[k][g]) ELSE object[k][h]
  <2> HIDE DEF left
  <2> QED BY <1>3, <1>o
<1>5. SameWorker /\ (worker.gw = g => worker'.own = "former") /\ (worker.gw # g => worker' = worker)
  <2>1. CASE worker.gw = g
    <3>1. {"at", "gw", "own", "read", "referenced", "seen"} \subseteq DOMAIN worker BY DEF Shape, WorkerShape
    <3>2. worker' = [worker EXCEPT !.own = "former"] BY <1>1, <2>1
    <3> QED BY SMT, <2>1, <3>1, <3>2 DEF SameWorker
  <2>2. CASE worker.gw # g BY <1>1, <2>2 DEF SameWorker
  <2> QED BY <2>1, <2>2
<1>6. Cleared /\ queue \subseteq queue' BY <1>1 DEF Cleared
<1>7. ASSUME NEW k \in Kinds, NEW h \in Gateways, Watched(k, h)'
      PROVE h \in queue' \/ (KeepUse(k, h) /\ object'[k][h] = object[k][h])
  <2>1. h # g BY <1>2, <1>7 DEF Watched
  <2>2. h \in queue' \/ KeepUse(k, h) BY <1>1, <1>2, <1>6, <1>7, <2>1, OtherGateway
  <2>3. object'[k][h] = object[k][h] BY <1>4, <2>1
  <2> QED BY <2>2, <2>3
<1>8. Busy => worker.gw \in Gateways BY DEF Shape, WorkerShape, Busy
<1>9. UseInv' /\ AgreeInv' BY <1>5, <1>6, <1>7, <1>8, ClusterChange
<1>10. ASSUME NEW k \in Kinds, NEW h \in Gateways, object'[k][h] # Absent
       PROVE /\ object'[k][h].managed => object'[k][h].owner # "none"
             /\ gateway'[h] = Absent => object'[k][h].owner # "current"
  <2>1. CASE h # g
    <3>1. object'[k][h] = object[k][h] /\ gateway'[h] = gateway[h] BY <1>2, <1>4, <2>1
    <3> QED BY <1>10, <3>1 DEF OwnerInv
  <2>2. CASE h = g /\ object[k][g] # Absent /\ object[k][g].owner = "current"
    <3>1. object[k][g] \in ObjectRecord BY <1>3, <2>2
    <3>2. [object[k][g] EXCEPT !.owner = "former"].owner = "former" BY SMT, <3>1 DEF ObjectRecord
    <3>3. object'[k][h].owner = "former" BY <1>4, <2>2, <3>2
    <3> QED BY SMT, <3>3
  <2>3. CASE h = g /\ ~(object[k][g] # Absent /\ object[k][g].owner = "current")
    <3>1. object'[k][h] = object[k][g] BY <1>4, <2>3
    <3> QED BY <1>10, <2>3, <3>1 DEF OwnerInv
  <2> QED BY <2>1, <2>2, <2>3
<1>11. ASSUME Busy' PROVE worker'.own # "none" /\ (gateway'[worker'.gw] = Absent => worker'.own # "current")
  <2>1. Busy BY <1>5, <1>11 DEF Busy, SameWorker
  <2>2. CASE worker.gw = g
    <3>1. worker'.own = "former" BY <1>5, <2>2
    <3> QED BY SMT, <3>1
  <2>3. CASE worker.gw # g BY <1>2, <1>5, <1>8, <2>1, <2>3 DEF OwnerInv
  <2> QED BY <2>2, <2>3
<1>12. OwnerInv' BY <1>10, <1>11 DEF OwnerInv
<1> QED BY <1>9, <1>12

\* One service changes, and the gateways it begins or ceases to use are queued.
LEMMA ServiceUse ==
    ASSUME Shape, ClusterShape, ClusterShape', UseInv, AgreeInv, OwnerInv,
           UNCHANGED <<gateway, config, labelled, ingress, authorino, object, worker>>, NEW s,
           \A t \in Services \ {s} : service'[t] = service[t], queue \subseteq queue', Cleared,
           \A g \in Gateways : gateway[g] # Absent => g \in queue' \/ Uses(g, s)' = Uses(g, s)
    PROVE UseInv' /\ AgreeInv' /\ OwnerInv'
<1>1. ASSUME NEW k \in Kinds, NEW g \in Gateways, Watched(k, g)'
      PROVE g \in queue' \/ (KeepUse(k, g) /\ object'[k][g] = object[k][g])
  <2>1. gateway[g] # Absent BY <1>1 DEF Watched
  <2>2. \A t \in Services \ {s} : Uses(g, t)' = Uses(g, t) BY <2>1, SteadyUse
  <2>3. <<k, g>>[2] = g OBVIOUS
  <2>4. Watched(k, g) \/ g \in queue' BY <1>1, <2>3 DEF Watched, Cleared, ShouldCreateEnvoyFilterForGateway
  <2>5. CASE g \notin queue'
    <3>1. \A t \in Services : Uses(g, t)' = Uses(g, t) BY <2>1, <2>2, <2>5
    <3>2. KeepUse(k, g) BY <2>4, <2>5, <3>1, KeptUse
    <3> QED BY <3>2
  <2> QED BY <2>5
<1>2. Busy => worker.gw \in Gateways BY DEF Shape, WorkerShape, Busy
<1>3. UseInv' /\ AgreeInv' BY <1>1, <1>2, WorkerSame, ClusterChange
<1> QED BY <1>3, OwnerKept

\* The lookup for no gateway in particular filters nothing.
LEMMA Unfiltered ==
    ASSUME NEW svc, NEW ns
    PROVE /\ getEffectiveGatewayRefs(NoGateway, svc, ns) = IF svc.refs # {} THEN svc.refs ELSE inheritedRefs(svc.base, ns)
          /\ getEffectiveGatewayRefs(NoGateway, svc, ns)' = IF svc.refs # {} THEN svc.refs ELSE inheritedRefs(svc.base, ns)'
<1>1. \A refs : filterAllowedRefs(NoGateway, refs, ns) = refs BY DEF filterAllowedRefs
<1>2. \A refs : filterAllowedRefs(NoGateway, refs, ns)' = refs BY DEF filterAllowedRefs
<1>3. getEffectiveGatewayRefs(NoGateway, svc, ns) = IF svc.refs # {} THEN svc.refs ELSE inheritedRefs(svc.base, ns)
  BY <1>1 DEF getEffectiveGatewayRefs
<1>4. getEffectiveGatewayRefs(NoGateway, svc, ns)' = IF svc.refs # {} THEN svc.refs ELSE inheritedRefs(svc.base, ns)'
  <2>1. PICK i : i = inheritedRefs(svc.base, ns)' OBVIOUS
  <2>2. filterAllowedRefs(NoGateway, svc.refs, ns)' = svc.refs BY <1>2
  <2>3. filterAllowedRefs(NoGateway, inheritedRefs(svc.base, ns), ns)' = i BY <2>1 DEF filterAllowedRefs
  <2> QED BY <2>1, <2>2, <2>3 DEF getEffectiveGatewayRefs
<1> QED BY <1>3, <1>4

LEMMA NextWatchFinds ==
    ASSUME NEW g \in Gateways, NEW svc, NEW ns, g \in getEffectiveGatewayRefs(g, svc, ns)'
    PROVE g \in getEffectiveGatewayRefs(NoGateway, svc, ns)'
<1>1. g # NoGateway BY GatewayAssumption
<1>2. PICK allows : allows = gatewayAllowsNamespace(g, ns)' OBVIOUS
<1>3. PICK inherited : inherited = inheritedRefs(svc.base, ns)' OBVIOUS
<1>4. getEffectiveGatewayRefs(NoGateway, svc, ns)' = IF svc.refs # {} THEN svc.refs ELSE inherited
  BY <1>3, Unfiltered
<1> DEFINE own == {r \in svc.refs : r = g => allows}
           more == {r \in inherited : r = g => allows}
<1>5. filterAllowedRefs(g, svc.refs, ns)' = own BY <1>1, <1>2 DEF filterAllowedRefs
<1>6. filterAllowedRefs(g, inheritedRefs(svc.base, ns), ns)' = more BY <1>1, <1>2, <1>3 DEF filterAllowedRefs
<1>7. g \in IF own # {} THEN own ELSE more
  <2> HIDE DEF own, more
  <2> QED BY <1>5, <1>6 DEF getEffectiveGatewayRefs
<1>8. CASE own # {} BY <1>4, <1>7, <1>8
<1>9. CASE own = {}
  <2>1. g \in inherited /\ allows BY <1>7, <1>9
  <2>2. svc.refs = {} BY <1>9, <2>1
  <2> QED BY <1>4, <2>1, <2>2
<1> QED BY <1>8, <1>9

\* A gateway a service uses, or would use, is among those its watch enqueues.
LEMMA ServiceEvent ==
    ASSUME NEW g \in Gateways, NEW svc, NEW ns, config' = config,
           g \in getEffectiveGatewayRefs(g, svc, ns) \/ g \in getEffectiveGatewayRefs(g, svc, ns)'
    PROVE g \in enqueueGatewaysFromLLMInferenceService(svc, ns)
<1>1. PICK b : b = svc.base OBVIOUS
<1>2. inheritedRefs(b, ns)' = inheritedRefs(b, ns) BY SameConfig
<1>3. getEffectiveGatewayRefs(NoGateway, svc, ns)' = getEffectiveGatewayRefs(NoGateway, svc, ns) BY <1>1, <1>2, Unfiltered
<1>4. g \in getEffectiveGatewayRefs(NoGateway, svc, ns) BY <1>3, WatchFinds, NextWatchFinds
<1> QED BY <1>4 DEF enqueueGatewaysFromLLMInferenceService

LEMMA CreateServiceUse ==
    ASSUME Shape, ClusterShape, ClusterShape', UseInv, AgreeInv, OwnerInv, NEW s \in Services, NEW svc \in Specs,
           CreateService(s, svc)
    PROVE UseInv' /\ AgreeInv' /\ OwnerInv'
<1>1. /\ service[s] = Absent /\ service' = [service EXCEPT ![s] = svc]
      /\ enqueue(enqueueGatewaysFromLLMInferenceService(svc, SvcNs[s]))
      /\ UNCHANGED <<gateway, config, labelled, ingress, authorino, object, worker>>
  BY DEF CreateService
<1>2. PICK gs : gs = enqueueGatewaysFromLLMInferenceService(svc, SvcNs[s]) OBVIOUS
<1>3. queue \subseteq queue' /\ gs \subseteq queue' /\ Cleared BY <1>1, <1>2, EnqueueClears
<1>4. service'[s] = svc /\ \A t \in Services \ {s} : service'[t] = service[t] BY <1>1 DEF ClusterShape
<1>5. ASSUME NEW g \in Gateways, g \notin queue' PROVE Uses(g, s)' = Uses(g, s)
  <2>1. ~Uses(g, s) BY <1>1 DEF Uses
  <2>2. PICK ns : ns = SvcNs[s] OBVIOUS
  <2>3. ~(g \in getEffectiveGatewayRefs(g, svc, ns)') BY <1>1, <1>2, <1>3, <1>5, <2>2, ServiceEvent
  <2>4. ~Uses(g, s)' BY <1>4, <2>2, <2>3 DEF Uses, getEffectiveGatewayRefs
  <2> QED BY <2>1, <2>4 DEF Uses
<1> QED BY <1>1, <1>3, <1>4, <1>5, ServiceUse

LEMMA DeleteServiceUse ==
    ASSUME Shape, ClusterShape, ClusterShape', UseInv, AgreeInv, OwnerInv, NEW s \in Services, DeleteService(s)
    PROVE UseInv' /\ AgreeInv' /\ OwnerInv'
<1>1. /\ service' = [service EXCEPT ![s] = Absent]
      /\ enqueue(enqueueGatewaysFromLLMInferenceService(service[s], SvcNs[s]))
      /\ UNCHANGED <<gateway, config, labelled, ingress, authorino, object, worker>>
  BY DEF DeleteService
<1>2. PICK old : old = service[s] OBVIOUS
<1>3. PICK ns : ns = SvcNs[s] OBVIOUS
<1>4. PICK gs : gs = enqueueGatewaysFromLLMInferenceService(old, ns) OBVIOUS
<1>5. enqueue(gs) BY <1>1, <1>2, <1>3, <1>4
<1>6. queue \subseteq queue' /\ gs \subseteq queue' /\ Cleared BY <1>5, EnqueueClears
<1>7. service'[s] = Absent /\ \A t \in Services \ {s} : service'[t] = service[t] BY <1>1 DEF ClusterShape
<1>8. ASSUME NEW g \in Gateways, g \notin queue' PROVE Uses(g, s)' = Uses(g, s)
  <2>1. ~(g \in getEffectiveGatewayRefs(g, old, ns)) BY <1>1, <1>4, <1>6, <1>8, ServiceEvent
  <2>2. ~Uses(g, s) BY <1>2, <1>3, <2>1 DEF Uses
  <2>3. ~Uses(g, s)' BY <1>7 DEF Uses
  <2> QED BY <2>2, <2>3 DEF Uses
<1> QED BY <1>1, <1>6, <1>7, <1>8, ServiceUse

\* The base references of no two services differ only in their order.
OrderedBases == \A a, b \in Specs : sameBaseRefs(a.base, b.base) => a.base = b.base

LEMMA UpdateServiceUse ==
    ASSUME OrderedBases, Shape, ClusterShape, ClusterShape', UseInv, AgreeInv, OwnerInv,
           NEW s \in Services, NEW svc \in Specs, UpdateService(s, svc)
    PROVE UseInv' /\ AgreeInv' /\ OwnerInv'
<1>1. /\ service[s] # Absent /\ service' = [service EXCEPT ![s] = svc]
      /\ enqueue(IF servicePredicate(service[s], svc)
                 THEN enqueueGatewaysFromLLMInferenceService(service[s], SvcNs[s])
                        \cup enqueueGatewaysFromLLMInferenceService(svc, SvcNs[s])
                 ELSE {})
      /\ UNCHANGED <<gateway, config, labelled, ingress, authorino, object, worker>>
  BY DEF UpdateService
<1>2. PICK old \in Specs : old = service[s] BY <1>1 DEF ClusterShape
<1>3. PICK ns : ns = SvcNs[s] OBVIOUS
<1>4. PICK gs : gs = IF servicePredicate(old, svc)
                     THEN enqueueGatewaysFromLLMInferenceService(old, ns) \cup enqueueGatewaysFromLLMInferenceService(svc, ns)
                     ELSE {}
  OBVIOUS
<1>5. enqueue(gs) BY <1>1, <1>2, <1>3, <1>4
<1>6. queue \subseteq queue' /\ gs \subseteq queue' /\ Cleared BY <1>5, EnqueueClears
<1>7. service'[s] = svc /\ \A t \in Services \ {s} : service'[t] = service[t] BY <1>1 DEF ClusterShape
<1>8. ASSUME NEW g \in Gateways, gateway[g] # Absent, g \notin queue' PROVE Uses(g, s)' = Uses(g, s)
  <2>1. CASE servicePredicate(old, svc)
    <3>1. g \notin enqueueGatewaysFromLLMInferenceService(old, ns) /\ g \notin enqueueGatewaysFromLLMInferenceService(svc, ns)
      BY <1>4, <1>6, <1>8, <2>1
    <3>2. ~(g \in getEffectiveGatewayRefs(g, old, ns)) BY <1>1, <3>1, ServiceEvent
    <3>3. ~(g \in getEffectiveGatewayRefs(g, svc, ns)') BY <1>1, <3>1, ServiceEvent
    <3>4. ~Uses(g, s) BY <1>2, <1>3, <3>2 DEF Uses
    <3>5. ~Uses(g, s)' BY <1>3, <1>7, <3>3 DEF Uses, getEffectiveGatewayRefs
    <3> QED BY <3>4, <3>5 DEF Uses
  <2>2. CASE ~servicePredicate(old, svc)
    <3>1. old.stopped = svc.stopped /\ old.refs = svc.refs /\ sameBaseRefs(old.base, svc.base)
      BY <2>2 DEF servicePredicate, gatewayRefsChanged
    <3>2. old.base = svc.base BY <3>1 DEF OrderedBases
    <3>3. PICK b : b = svc.base OBVIOUS
    <3>4. inheritedRefs(b, ns)' = inheritedRefs(b, ns) BY <1>1, SameConfig
    <3>5. gatewayAllowsNamespace(g, ns)' = gatewayAllowsNamespace(g, ns)
      BY <1>1 DEF gatewayAllowsNamespace, listenerAllowsNamespace
    <3>6. ASSUME NEW refs PROVE filterAllowedRefs(g, refs, ns)' = filterAllowedRefs(g, refs, ns)
      BY <3>5 DEF filterAllowedRefs
    <3>7. filterAllowedRefs(g, inheritedRefs(b, ns), ns)' = filterAllowedRefs(g, inheritedRefs(b, ns), ns)
      BY <3>4, <3>5 DEF filterAllowedRefs
    <3>8. getEffectiveGatewayRefs(g, svc, ns)' = getEffectiveGatewayRefs(g, svc, ns)
      BY <3>3, <3>6, <3>7 DEF getEffectiveGatewayRefs
    <3>9. getEffectiveGatewayRefs(g, svc, ns) = getEffectiveGatewayRefs(g, old, ns) BY <3>1, <3>2 DEF getEffectiveGatewayRefs
    <3>10. svc # Absent /\ old # Absent BY GatewayAssumption
    <3>11. PICK e : e = getEffectiveGatewayRefs(g, svc, ns) OBVIOUS
    <3>12. Uses(g, s)' = (svc # Absent /\ ~svc.stopped /\ g \in getEffectiveGatewayRefs(g, svc, ns)')
      BY <1>3, <1>7 DEF Uses, getEffectiveGatewayRefs
    <3>13. Uses(g, s) = (old # Absent /\ ~old.stopped /\ g \in getEffectiveGatewayRefs(g, old, ns))
      BY <1>2, <1>3 DEF Uses
    <3>14. Uses(g, s)' = (svc # Absent /\ ~svc.stopped /\ g \in e) BY <3>8, <3>11, <3>12
    <3>15. Uses(g, s) = (old # Absent /\ ~svc.stopped /\ g \in e) BY <3>1, <3>9, <3>11, <3>13
    <3>16. Uses(g, s)' <=> Uses(g, s) BY <3>10, <3>14, <3>15
    <3> QED BY <3>16 DEF Uses
  <2> QED BY <2>1, <2>2
<1> QED BY <1>1, <1>6, <1>7, <1>8, ServiceUse

LEMMA ChangeConfigUse ==
    ASSUME Shape, ClusterShape, ClusterShape', UseInv, AgreeInv, OwnerInv, NEW c \in Configs, NEW ns \in Namespaces,
           NEW refs, ChangeConfig(c, ns, refs)
    PROVE UseInv' /\ AgreeInv' /\ OwnerInv'
<1> DEFINE before == enqueueGatewaysFromLLMInferenceServiceConfig(c)
           after == enqueueGatewaysFromLLMInferenceServiceConfig(c)'
<1>1. /\ config' = [config EXCEPT ![c][ns] = refs]
      /\ UNCHANGED <<gateway, service, labelled, ingress, authorino, object, worker>>
      /\ queue' = queue \cup after
      /\ missed' = {m \in missed : m[2] \notin after} \cup (Kinds \X (before \ (after \cup queue)))
  BY DEF ChangeConfig
<1>2. DOMAIN service = Services BY DEF ClusterShape
<1>3. \A g, s : s \in Services /\ service[s] # Absent /\ referencesConfig(s, c)
                 /\ g \in getEffectiveGatewayRefs(NoGateway, service[s], SvcNs[s]) => g \in before
  BY <1>2 DEF enqueueGatewaysFromLLMInferenceServiceConfig, Live
<1>4. \A g, s : s \in Services /\ service[s] # Absent /\ referencesConfig(s, c)
                 /\ g \in getEffectiveGatewayRefs(NoGateway, service[s], SvcNs[s])' => g \in after
  BY <1>1, <1>2 DEF enqueueGatewaysFromLLMInferenceServiceConfig, Live, referencesConfig
<1> HIDE DEF before, after
<1>5. \A d \in Configs : d # c => config'[d] = config[d] BY <1>1 DEF ClusterShape
<1>6. ASSUME NEW g \in Gateways, NEW k \in Kinds, Watched(k, g)', g \notin queue'
      PROVE g \notin before /\ g \notin after /\ Watched(k, g)
  <2>1. g \notin after /\ g \notin queue BY <1>1, <1>6
  <2>2. <<k, g>> \notin missed' BY <1>6 DEF Watched
  <2>3. <<k, g>> \notin Kinds \X (before \ (after \cup queue)) BY <1>1, <2>2
  <2>4. g \notin before BY <2>1, <2>3
  <2>5. <<k, g>>[2] = g OBVIOUS
  <2>6. <<k, g>> \notin missed BY <1>1, <2>1, <2>2, <2>5
  <2> QED BY <1>1, <1>6, <2>1, <2>4, <2>6 DEF Watched, ShouldCreateEnvoyFilterForGateway
<1>7. ASSUME NEW g \in Gateways, gateway[g] # Absent, g \notin before, g \notin after, NEW s \in Services
      PROVE Uses(g, s)' = Uses(g, s)
  <2>1. PICK svc : svc = service[s] OBVIOUS
  <2>2. PICK n : n = SvcNs[s] OBVIOUS
  <2>3. CASE svc = Absent BY <1>1, <2>1, <2>3 DEF Uses
  <2>4. CASE svc # Absent /\ referencesConfig(s, c)
    <3>1. g \notin getEffectiveGatewayRefs(NoGateway, svc, n) BY <1>3, <1>7, <2>1, <2>2, <2>4
    <3>2. g \notin getEffectiveGatewayRefs(NoGateway, svc, n)'
      <4>1. getEffectiveGatewayRefs(NoGateway, svc, n)' = getEffectiveGatewayRefs(NoGateway, service[s], SvcNs[s])'
        BY <1>1, <2>1, <2>2 DEF getEffectiveGatewayRefs
      <4> QED BY <1>4, <1>7, <2>1, <2>4, <4>1
    <3>3. ~(g \in getEffectiveGatewayRefs(g, svc, n)) BY <3>1, WatchFinds
    <3>4. ~(g \in getEffectiveGatewayRefs(g, svc, n)') BY <3>2, NextWatchFinds
    <3>5. ~Uses(g, s) BY <2>1, <2>2, <3>3 DEF Uses
    <3>6. ~Uses(g, s)' BY <1>1, <2>1, <2>2, <3>4 DEF Uses, getEffectiveGatewayRefs
    <3> QED BY <3>5, <3>6 DEF Uses
  <2>5. CASE svc # Absent /\ ~referencesConfig(s, c)
    <3>1. svc \in Specs BY <2>1, <2>5 DEF ClusterShape
    <3>2. PICK b \in Seq(Configs) : b = svc.base BY <3>1, GatewayAssumption
    <3>3. \A i \in 1..Len(b) : b[i] \in Configs BY SMT
    <3>4. \A i \in 1..Len(b) : b[i] # c BY <2>1, <2>5, <3>2 DEF referencesConfig
    <3>5. \A i \in 1..Len(b) : fetchLLMISvcConfig(b[i], n)' = fetchLLMISvcConfig(b[i], n)
      BY <1>5, <3>3, <3>4 DEF fetchLLMISvcConfig
    <3>6. inheritedRefs(b, n)' = inheritedRefs(b, n) BY <3>5, SameInherited
    <3>7. inheritedRefs(service[s].base, SvcNs[s])' = inheritedRefs(service[s].base, SvcNs[s])
      BY <1>1, <2>1, <2>2, <3>2, <3>6
    <3>8. gateway[g].from \subseteq Froms BY <1>7, FromType
    <3> QED BY <1>1, <3>7, <3>8, SameUse
  <2> QED BY <2>3, <2>4, <2>5
<1>8. ASSUME NEW k \in Kinds, NEW g \in Gateways, Watched(k, g)'
      PROVE g \in queue' \/ (KeepUse(k, g) /\ object'[k][g] = object[k][g])
  <2>1. CASE g \notin queue'
    <3>1. g \notin before /\ g \notin after /\ Watched(k, g) BY <1>6, <1>8, <2>1
    <3>2. gateway[g] # Absent BY <3>1 DEF Watched
    <3>3. \A s \in Services : Uses(g, s)' = Uses(g, s) BY <1>7, <3>1, <3>2
    <3>4. KeepUse(k, g) BY <1>1, <3>1, <3>3, KeptUse
    <3> QED BY <1>1, <3>4
  <2> QED BY <2>1
<1>9. Busy => worker.gw \in Gateways BY DEF Shape, WorkerShape, Busy
<1>10. queue \subseteq queue' BY <1>1
<1>11. UseInv' /\ AgreeInv' BY <1>1, <1>8, <1>9, <1>10, WorkerSame, ClusterChange
<1> QED BY <1>1, <1>11, OwnerKept

LEMMA NamespaceUse ==
    ASSUME Shape, ClusterShape, ClusterShape', UseInv, AgreeInv, OwnerInv, NEW ns, ChangeNamespaceLabels(ns)
    PROVE UseInv' /\ AgreeInv' /\ OwnerInv'
<1>1. /\ labelled' = (labelled \cup {ns}) \ (labelled \cap {ns})
      /\ enqueue(enqueueGatewaysFromNamespace(ns))
      /\ UNCHANGED <<gateway, service, config, ingress, authorino, object, worker>>
  BY DEF ChangeNamespaceLabels
<1>2. PICK gs : gs = enqueueGatewaysFromNamespace(ns) OBVIOUS
<1>3. queue \subseteq queue' /\ gs \subseteq queue' /\ Cleared BY <1>1, <1>2, EnqueueClears
<1>4. DOMAIN service = Services BY DEF ClusterShape
<1>5. \A g, s : s \in Services /\ service[s] # Absent /\ SvcNs[s] = ns /\ hasSelectorListeners(g)
                 /\ g \in getEffectiveGatewayRefs(NoGateway, service[s], ns) => g \in gs
  BY <1>2, <1>4 DEF enqueueGatewaysFromNamespace, Live
<1>6. ASSUME NEW g \in Gateways, gateway[g] # Absent, g \notin queue', NEW s \in Services
      PROVE Uses(g, s)' = Uses(g, s)
  <2>1. PICK svc : svc = service[s] OBVIOUS
  <2>2. PICK n : n = SvcNs[s] OBVIOUS
  <2>3. CASE svc # Absent /\ n = ns /\ "Selector" \in gateway[g].from
    <3>1. g \notin getEffectiveGatewayRefs(NoGateway, svc, n)
      BY <1>3, <1>5, <1>6, <2>1, <2>2, <2>3 DEF hasSelectorListeners
    <3>2. PICK b : b = svc.base OBVIOUS
    <3>3. inheritedRefs(b, n)' = inheritedRefs(b, n) BY <1>1, SameConfig
    <3>4. getEffectiveGatewayRefs(NoGateway, svc, n)' = getEffectiveGatewayRefs(NoGateway, svc, n)
      BY <3>2, <3>3, Unfiltered
    <3>5. ~(g \in getEffectiveGatewayRefs(g, svc, n)) BY <3>1, WatchFinds
    <3>6. ~(g \in getEffectiveGatewayRefs(g, svc, n)') BY <3>1, <3>4, NextWatchFinds
    <3>7. ~Uses(g, s) BY <2>1, <2>2, <3>5 DEF Uses
    <3>8. ~Uses(g, s)' BY <1>1, <2>1, <2>2, <3>6 DEF Uses, getEffectiveGatewayRefs
    <3> QED BY <3>7, <3>8 DEF Uses
  <2>4. CASE svc = Absent BY <1>1, <2>1, <2>4 DEF Uses
  <2>5. CASE "Selector" \in gateway[g].from => n # ns
    <3>1. "Selector" \in gateway[g].from => (SvcNs[s] \in labelled' <=> SvcNs[s] \in labelled) BY <1>1, <2>2, <2>5
    <3>2. PICK b : b = service[s].base OBVIOUS
    <3>3. inheritedRefs(b, n)' = inheritedRefs(b, n) BY <1>1, SameConfig
    <3>4. inheritedRefs(service[s].base, SvcNs[s])' = inheritedRefs(service[s].base, SvcNs[s]) BY <1>1, <2>2, <3>2, <3>3
    <3>5. gateway[g].from \subseteq Froms BY <1>6, FromType
    <3> QED BY <1>1, <3>1, <3>4, <3>5, SameUse
  <2> QED BY <2>3, <2>4, <2>5
<1>7. ASSUME NEW k \in Kinds, NEW g \in Gateways, Watched(k, g)'
      PROVE g \in queue' \/ (KeepUse(k, g) /\ object'[k][g] = object[k][g])
  <2>1. CASE g \notin queue'
    <3>1. <<k, g>>[2] = g OBVIOUS
    <3>2. Watched(k, g) BY <1>1, <1>3, <1>7, <2>1, <3>1 DEF Watched, Cleared, ShouldCreateEnvoyFilterForGateway
    <3>3. gateway[g] # Absent BY <3>2 DEF Watched
    <3>4. \A s \in Services : Uses(g, s)' = Uses(g, s) BY <1>6, <2>1, <3>3
    <3>5. KeepUse(k, g) BY <1>1, <3>2, <3>4, KeptUse
    <3> QED BY <1>1, <3>5
  <2> QED BY <2>1
<1>8. Busy => worker.gw \in Gateways BY DEF Shape, WorkerShape, Busy
<1>9. UseInv' /\ AgreeInv' BY <1>1, <1>3, <1>7, <1>8, WorkerSame, ClusterChange
<1> QED BY <1>1, <1>9, OwnerKept

LEMMA ConfigMapUse ==
    ASSUME Shape, ClusterShape, UseInv, AgreeInv, OwnerInv, NEW new, ChangeConfigMap(new)
    PROVE UseInv' /\ AgreeInv' /\ OwnerInv'
<1>1. enqueue(Live(gateway)) /\ UNCHANGED <<gateway, service, config, labelled, authorino, object, worker>>
  BY DEF ChangeConfigMap
<1>2. PICK gs : gs = Live(gateway) OBVIOUS
<1>3. queue \subseteq queue' /\ gs \subseteq queue' BY <1>1, <1>2, EnqueueClears
<1>4. DOMAIN gateway = Gateways BY DEF ClusterShape
<1>5. ASSUME NEW k \in Kinds, NEW g \in Gateways, Watched(k, g)' PROVE g \in queue'
  BY <1>1, <1>2, <1>3, <1>4, <1>5 DEF Watched, Live
<1>6. Busy => worker.gw \in Gateways BY DEF Shape, WorkerShape, Busy
<1>7. UseInv' /\ AgreeInv' BY <1>1, <1>3, <1>5, <1>6, WorkerSame, ClusterChange
<1> QED BY <1>1, <1>7, OwnerKept

LEMMA AuthorinoUse ==
    ASSUME Shape, ClusterShape, ClusterShape', UseInv, AgreeInv, OwnerInv, ChangeAuthorino
    PROVE UseInv' /\ AgreeInv' /\ OwnerInv'
<1>1. /\ missed' = missed \cup {<<"EnvoyFilter", g>> : g \in Gateways \ queue}
      /\ UNCHANGED <<gateway, service, config, labelled, ingress, object, queue, worker>>
  BY DEF ChangeAuthorino
<1>2. ASSUME NEW k \in Kinds, NEW g \in Gateways, Watched(k, g)'
      PROVE g \in queue' \/ (KeepUse(k, g) /\ object'[k][g] = object[k][g])
  <2>1. CASE k = "EnvoyFilter" /\ g \notin queue
    <3>1. <<k, g>> \in missed' BY <1>1, <2>1
    <3> QED BY <1>2, <3>1 DEF Watched
  <2>2. CASE k # "EnvoyFilter"
    <3>1. Watched(k, g) BY <1>1, <1>2 DEF Watched, ShouldCreateEnvoyFilterForGateway
    <3>2. gateway[g] # Absent BY <3>1 DEF Watched
    <3>3. \A s \in Services : Uses(g, s)' = Uses(g, s) BY <1>1, <3>2, SteadyUse
    <3>4. KeepUse(k, g) BY <1>1, <2>2, <3>1, <3>3, KeptUse
    <3> QED BY <1>1, <3>4
  <2> QED BY <1>1, <2>1, <2>2
<1>3. Busy => worker.gw \in Gateways BY DEF Shape, WorkerShape, Busy
<1>4. UseInv' /\ AgreeInv' BY <1>1, <1>2, <1>3, WorkerSame, ClusterChange
<1> QED BY <1>1, <1>4, OwnerKept

\* A gateway that the first listing does not report has what it should.
LEMMA ListedUse ==
    ASSUME ClusterShape, OwnerInv, NEW l \in Kinds, NEW h \in Gateways, Watched(l, h), h \notin initialEvents
    PROVE Right(l, h)
<1> DEFINE created == {g \in Live(gateway) : ShouldCreateEnvoyFilterForGateway(gateway[g])}
           used == UNION {enqueueGatewaysFromLLMInferenceService(service[s], SvcNs[s]) : s \in Live(service)}
           owners == {g \in Gateways : \E k \in Kinds : ownerOf(g, object[k][g]) # {}}
<1>1. DOMAIN gateway = Gateways BY DEF ClusterShape
<1>e. initialEvents = created \cup used \cup owners BY DEF initialEvents
<1>2. ~ShouldCreateEnvoyFilterForGateway(gateway[h])
  <2>1. h \in Live(gateway) BY <1>1 DEF Live, Watched
  <2>2. h \notin created
    <3> HIDE DEF created, used, owners
    <3> QED BY <1>e
  <2> QED BY <2>1, <2>2
<1>3. l # "PodMonitor" BY <1>2 DEF Watched
<1>4. wantedNow(l, h) = FALSE BY <1>2, <1>3, NotWanted
<1>5. ownerOf(h, object[l][h]) = {}
  <2>1. h \notin owners
    <3> HIDE DEF created, used, owners
    <3> QED BY <1>e
  <2> QED BY <2>1
<1>6. object[l][h] = Absent \/ ~object[l][h].managed BY <1>5 DEF ownerOf, OwnerInv
<1> QED BY <1>4, <1>6 DEF Right

LEMMA RestartUse ==
    ASSUME Shape, ClusterShape, UseInv, AgreeInv, OwnerInv, Restart
    PROVE UseInv' /\ AgreeInv' /\ OwnerInv'
<1>1. /\ worker' = Idle /\ queue' = initialEvents /\ missed' = {m \in missed : m[2] \notin initialEvents}
      /\ UNCHANGED <<cluster, object>>
  BY DEF Restart
<1>2. UNCHANGED gateway BY <1>1 DEF cluster
<1>3. ~Busy' BY SMT, <1>1 DEF Busy, Idle
<1>4. ASSUME NEW k \in Kinds, NEW g \in Gateways, Watched(k, g)', g \notin queue' PROVE Right(k, g)'
  <2>1. <<k, g>>[2] = g OBVIOUS
  <2>2. Watched(k, g) BY <1>1, <1>2, <1>4, <2>1 DEF Watched, ShouldCreateEnvoyFilterForGateway
  <2>3. Right(k, g) BY <1>1, <1>4, <2>2, ListedUse
  <2>4. KeepUse(k, g) BY <1>1, <2>2, SameCluster
  <2> QED BY <1>1, <2>3, <2>4, KeptRight
<1>5. UseInv' /\ AgreeInv' BY <1>3, <1>4 DEF UseInv, AgreeInv
<1> QED BY <1>1, <1>2, <1>5, OwnerKept

---------------------------------------------------------------------------
(* The invariant. *)

LEMMA ClusterShapeStep ==
    ASSUME ClusterShape, [Next]_vars
    PROVE ClusterShape'
<1>p. Profiles \subseteq GatewayRecord BY GatewayAssumption
<1>1. ASSUME UNCHANGED <<gateway, service, config>> PROVE ClusterShape' BY <1>1 DEF ClusterShape
<1>2. ASSUME NEW g \in Gateways, NEW gw \in GatewayRecord \cup {Absent}, gateway' = [gateway EXCEPT ![g] = gw],
             UNCHANGED <<service, config>>
      PROVE ClusterShape'
  <2>1. gateway' \in [Gateways -> GatewayRecord \cup {Absent}] BY <1>2 DEF ClusterShape
  <2> QED BY <1>2, <2>1 DEF ClusterShape
<1>3. ASSUME NEW s \in Services, NEW svc \in Specs \cup {Absent}, service' = [service EXCEPT ![s] = svc],
             UNCHANGED <<gateway, config>>
      PROVE ClusterShape'
  <2>1. service' \in [Services -> Specs \cup {Absent}] BY <1>3 DEF ClusterShape
  <2> QED BY <1>3, <2>1 DEF ClusterShape
<1>4. ASSUME NEW c \in Configs, NEW ns \in Namespaces, NEW refs \in RefSets \cup {Absent},
             config' = [config EXCEPT ![c][ns] = refs], UNCHANGED <<gateway, service>>
      PROVE ClusterShape'
  <2>1. config[c] \in [Namespaces -> RefSets \cup {Absent}] BY DEF ClusterShape
  <2>2. [config[c] EXCEPT ![ns] = refs] \in [Namespaces -> RefSets \cup {Absent}] BY <2>1
  <2>3. config' = [config EXCEPT ![c] = [config[c] EXCEPT ![ns] = refs]] BY SMT, <1>4
  <2>4. config' \in [Configs -> [Namespaces -> RefSets \cup {Absent}]] BY <2>2, <2>3 DEF ClusterShape
  <2> QED BY <1>4, <2>4 DEF ClusterShape
<1>5. CASE Worker \/ (\E k \in Kinds, g \in Gateways : Collect(k, g)) \/ UNCHANGED vars
  <2>1. UNCHANGED cluster
    BY <1>5 DEF Worker, Reconcile, reconcileEnvoyFilter, deleteEnvoyFilterIfManaged, readAuthPolicy,
                deleteAuthPolicyIfManaged, reconcileAuthPolicy, reconcileGatewayPodMonitor, Collect, vars
  <2> QED BY <1>1, <2>1 DEF cluster
<1>6. CASE Environment
  <2>1. ASSUME NEW g \in Gateways, NEW gw \in Profiles, CreateGateway(g, gw) \/ UpdateGateway(g, gw) PROVE ClusterShape'
    BY <1>2, <1>p, <2>1 DEF CreateGateway, UpdateGateway
  <2>2. ASSUME NEW g \in Gateways, DeleteGateway(g) PROVE ClusterShape' BY <1>2, <2>2 DEF DeleteGateway
  <2>3. ASSUME NEW s \in Services, DeleteService(s) PROVE ClusterShape' BY <1>3, <2>3 DEF DeleteService
  <2>4. ASSUME NEW s \in Services, NEW svc \in Specs, CreateService(s, svc) \/ UpdateService(s, svc) PROVE ClusterShape'
    BY <1>3, <2>4 DEF CreateService, UpdateService
  <2>5. ASSUME NEW c \in Configs, NEW ns \in Namespaces, NEW refs \in RefSets \cup {Absent}, ChangeConfig(c, ns, refs)
        PROVE ClusterShape'
    <3>1. config' = [config EXCEPT ![c][ns] = refs] /\ UNCHANGED <<gateway, service>> BY <2>5 DEF ChangeConfig
    <3> QED BY <1>4, <3>1
  <2>6. CASE \/ \E g \in Gateways, k \in Kinds :
                  DeleteObject(k, g) \/ CreateObject(k, g) \/ \E edit \in {"changed", "added", "toggle"} : EditObject(k, g, edit)
             \/ \E ns \in {SvcNs[s] : s \in Services} : ChangeNamespaceLabels(ns)
             \/ \E new \in [default : Gateways, header : BOOLEAN] : ChangeConfigMap(new)
             \/ ChangeAuthorino \/ CallFails \/ Restart
    <3>1. UNCHANGED <<gateway, service, config>>
      BY <2>6 DEF DeleteObject, CreateObject, EditObject, ChangeNamespaceLabels, ChangeConfigMap, ChangeAuthorino,
                  CallFails, Restart, cluster
    <3> QED BY <1>1, <3>1
  <2> QED BY <1>6, <2>1, <2>2, <2>3, <2>4, <2>5, <2>6 DEF Environment
<1> QED BY <1>5, <1>6 DEF Next

LEMMA InitUse ==
    ASSUME Init
    PROVE Inv
<1>1. ClusterShape BY StartAssumption DEF Init, ClusterShape
<1>2. \A k \in Kinds, g \in Gateways : object[k][g] = Absent BY DEF Init
<1>3. ~Busy
  <2>1. worker = Idle BY DEF Init
  <2> QED BY SMT, <2>1 DEF Busy, Idle
<1>4. OwnerInv BY <1>2, <1>3 DEF OwnerInv
<1>5. queue = initialEvents BY DEF Init
<1>6. UseInv BY <1>1, <1>4, <1>5, ListedUse DEF UseInv
<1>7. AgreeInv BY <1>3 DEF AgreeInv
<1> QED BY <1>1, <1>4, <1>6, <1>7 DEF Inv

LEMMA WorkerUse ==
    ASSUME Shape, Inv, Worker
    PROVE UseInv' /\ AgreeInv' /\ OwnerInv'
<1>1. UseInv /\ AgreeInv /\ OwnerInv BY DEF Inv
<1>2. OwnerInv' BY <1>1, WorkerOwner
<1>3. UseInv' /\ AgreeInv'
  BY <1>1, ReconcileUse, EnvoyFilterUse, ReadUse, DeletePolicyUse, PolicyUse, MonitorUse DEF Worker
<1> QED BY <1>2, <1>3

LEMMA EnvironmentUse ==
    ASSUME OrderedBases, Shape, Inv, ClusterShape', Environment
    PROVE UseInv' /\ AgreeInv' /\ OwnerInv'
<1>i. ClusterShape /\ UseInv /\ AgreeInv /\ OwnerInv BY DEF Inv
<1> DEFINE Goal == UseInv' /\ AgreeInv' /\ OwnerInv'
<1>1. ASSUME NEW g \in Gateways, NEW gw \in Profiles, CreateGateway(g, gw) \/ UpdateGateway(g, gw) PROVE Goal
  BY <1>i, <1>1, CreateGatewayUse, UpdateGatewayUse
<1>2. ASSUME NEW g \in Gateways, DeleteGateway(g) PROVE Goal BY <1>i, <1>2, DeleteGatewayUse
<1>3. ASSUME NEW g \in Gateways, NEW k \in Kinds, DeleteObject(k, g) PROVE Goal
  <2>1. removed(k, g) /\ UNCHANGED cluster /\ worker' = worker BY <1>3 DEF DeleteObject
  <2> QED BY <1>i, <2>1, RemovedUse
<1>4. ASSUME NEW g \in Gateways, NEW k \in Kinds, CreateObject(k, g) PROVE Goal BY <1>i, <1>4, CreateObjectUse
<1>5. ASSUME NEW g \in Gateways, NEW k \in Kinds, NEW edit \in {"changed", "added", "toggle"}, EditObject(k, g, edit)
      PROVE Goal
  BY <1>i, <1>5, EditUse
<1>6. ASSUME NEW s \in Services, DeleteService(s) PROVE Goal BY <1>i, <1>6, DeleteServiceUse
<1>7. ASSUME NEW s \in Services, NEW svc \in Specs, CreateService(s, svc) PROVE Goal BY <1>i, <1>7, CreateServiceUse
<1>8. ASSUME NEW s \in Services, NEW svc \in Specs, UpdateService(s, svc) PROVE Goal BY <1>i, <1>8, UpdateServiceUse
<1>9. ASSUME NEW c \in Configs, NEW ns \in Namespaces, NEW refs \in RefSets \cup {Absent}, ChangeConfig(c, ns, refs)
      PROVE Goal
  BY <1>i, <1>9, ChangeConfigUse
<1>10. ASSUME NEW ns, ChangeNamespaceLabels(ns) PROVE Goal BY <1>i, <1>10, NamespaceUse
<1>11. ASSUME NEW new, ChangeConfigMap(new) PROVE Goal BY <1>i, <1>11, ConfigMapUse
<1>12. ASSUME ChangeAuthorino PROVE Goal BY <1>i, <1>12, AuthorinoUse
<1>13. ASSUME CallFails PROVE Goal
  <2>1. Busy /\ giveUp /\ UNCHANGED <<cluster, object>> BY <1>13 DEF CallFails, Busy
  <2>2. worker' = Idle /\ UNCHANGED gateway BY <2>1 DEF giveUp, cluster
  <2>3. OwnerInv' BY <1>i, <2>1, <2>2, OwnerKept
  <2> QED BY <1>i, <2>1, <2>3, FailUse
<1>14. ASSUME Restart PROVE Goal BY <1>i, <1>14, RestartUse
<1> HIDE DEF Goal
<1> DEFINE OfGateway(g) ==
             \/ \E gw \in Profiles : CreateGateway(g, gw) \/ UpdateGateway(g, gw)
             \/ DeleteGateway(g)
             \/ \E k \in Kinds :
                  DeleteObject(k, g) \/ CreateObject(k, g) \/ \E edit \in {"changed", "added", "toggle"} : EditObject(k, g, edit)
           OfService(s) == DeleteService(s) \/ \E svc \in Specs : CreateService(s, svc) \/ UpdateService(s, svc)
<1>15. ASSUME NEW g \in Gateways, OfGateway(g) PROVE Goal BY <1>1, <1>2, <1>3, <1>4, <1>5, <1>15
<1>16. ASSUME NEW s \in Services, OfService(s) PROVE Goal BY <1>6, <1>7, <1>8, <1>16
<1>17. \/ \E g \in Gateways : OfGateway(g)
       \/ \E s \in Services : OfService(s)
       \/ \E c \in Configs, ns \in Namespaces, refs \in RefSets \cup {Absent} : ChangeConfig(c, ns, refs)
       \/ \E ns \in {SvcNs[s] : s \in Services} : ChangeNamespaceLabels(ns)
       \/ \E new \in [default : Gateways, header : BOOLEAN] : ChangeConfigMap(new)
       \/ ChangeAuthorino
       \/ CallFails
       \/ Restart
  BY DEF Environment
<1> HIDE DEF OfGateway, OfService
<1>18. Goal BY <1>9, <1>10, <1>11, <1>12, <1>13, <1>14, <1>15, <1>16, <1>17
<1> QED BY <1>18 DEF Goal

LEMMA InvStep ==
    ASSUME OrderedBases, Shape, Inv, [Next]_vars
    PROVE Inv'
<1>1. ClusterShape' BY ClusterShapeStep DEF Inv
<1>2. CASE Worker BY <1>1, <1>2, WorkerUse DEF Inv
<1>3. CASE Environment BY <1>1, <1>3, EnvironmentUse DEF Inv
<1>4. ASSUME NEW k \in Kinds, NEW g \in Gateways, Collect(k, g) PROVE Inv'
  <2>1. removed(k, g) /\ UNCHANGED cluster /\ worker' = worker BY <1>4 DEF Collect
  <2>2. UseInv /\ AgreeInv /\ OwnerInv BY DEF Inv
  <2> QED BY <1>1, <2>1, <2>2, RemovedUse DEF Inv
<1>5. CASE UNCHANGED vars
  <2>1. UNCHANGED <<cluster, object, queue, worker, missed>> BY <1>5 DEF vars
  <2>2. UseInv /\ AgreeInv /\ OwnerInv BY DEF Inv
  <2>3. UNCHANGED gateway BY <2>1 DEF cluster
  <2>4. OwnerInv' BY <2>1, <2>2, <2>3, OwnerKept
  <2>5. Busy => worker.gw \in Gateways BY DEF Shape, WorkerShape, Busy
  <2>6. queue \subseteq queue' /\ Cleared BY <2>1 DEF Cleared
  <2>7. ASSUME NEW k \in Kinds, NEW g \in Gateways, Watched(k, g)'
        PROVE g \in queue' \/ (KeepUse(k, g) /\ object'[k][g] = object[k][g])
    <3>1. Watched(k, g) \/ g \in queue' BY <2>1, <2>6, <2>7, ClearedWatched
    <3>2. Watched(k, g) => KeepUse(k, g) BY <2>1, SameCluster
    <3> QED BY <2>1, <3>1, <3>2
  <2>8. UseInv' /\ AgreeInv' BY <2>1, <2>2, <2>5, <2>6, <2>7, WorkerSame, ClusterChange
  <2> QED BY <1>1, <2>4, <2>8 DEF Inv
<1> QED BY <1>2, <1>3, <1>4, <1>5 DEF Next

LEMMA AtRest ==
    ASSUME UseInv
    PROVE ObjectsFollowUse
<1> SUFFICES ASSUME Quiet, NEW k \in Kinds, NEW g \in Gateways, Watched(k, g)
             PROVE /\ wantedNow(k, g) /\ (k = "EnvoyFilter" => authorino) =>
                        /\ object[k][g] # Absent
                        /\ (object[k][g].managed /\ k # "EnvoyFilter") => upToDate(k, object[k][g], says(k, g))
                   /\ ~wantedNow(k, g) => (object[k][g] = Absent \/ ~object[k][g].managed)
  BY DEF ObjectsFollowUse, GatewaysProtected, NoLeftovers, says
<1>1. g \notin queue /\ ~Busy /\ ~Former(k, g) BY DEF Quiet, Busy, Former
<1>2. Right(k, g) BY <1>1 DEF UseInv, WillCheck
<1> QED BY <1>2 DEF Right

\* At rest the objects beside a gateway are those its present use asks for,
\* whatever order changes, passes, failures and restarts came in: for any
\* number of gateways, services and configurations.  The base references of
\* two services must not differ only in their order, because the watch of
\* services compares them as bags.
THEOREM ObjectsDoFollowUse ==
    ASSUME OrderedBases
    PROVE Spec => []ObjectsFollowUse
<1>1. Init => Inv BY InitUse
<1>2. Shape /\ Inv /\ [Next]_vars => Inv' BY InvStep
<1>3. Inv => ObjectsFollowUse BY AtRest DEF Inv
<1> QED BY <1>1, <1>2, <1>3, ShapeInvariant, PTL DEF Spec
=============================================================================
