--------------------------- MODULE RouteAuthProofs ---------------------------
(***************************************************************************)
(* Proofs about RouteAuth, for any number of services and routes: at rest  *)
(* the anonymous policies are those that the running services ask for, and *)
(* members of the group that disagree have been reported.                  *)
(***************************************************************************)
EXTENDS RouteAuth, TLAPS

Elements(list) == {list[i] : i \in 1..Len(list)}

---------------------------------------------------------------------------
(* Lists of routes. *)

LEMMA ListFacts ==
    ASSUME NEW list \in RouteLists, list # << >>
    PROVE  /\ Head(list) \in Routes /\ Tail(list) \in RouteLists
           /\ Head(list) \in Elements(list) /\ Elements(list) \subseteq Routes
           /\ Elements(Tail(list)) \subseteq Elements(list)
           /\ \A r \in Elements(list) : r = Head(list) \/ r \in Elements(Tail(list))
           /\ Len(list) # 1 => Tail(list) # << >>
           /\ Len(list) = 1 => \A r \in Elements(list) : r = Head(list)
<1> USE DEF RouteLists
<1>1. Len(list) \in Nat /\ Len(list) > 0 OBVIOUS
<1>2. Head(list) = list[1] /\ Head(list) \in Routes /\ Tail(list) \in Seq(Routes) /\ Len(Tail(list)) = Len(list) - 1
  BY <1>1
<1>3. \A i \in 1..Len(Tail(list)) : Tail(list)[i] = list[i + 1] BY <1>1, <1>2
<1>4. Elements(list) \subseteq Routes BY DEF Elements
<1>5. Elements(Tail(list)) \subseteq Elements(list)
  <2> SUFFICES ASSUME NEW i \in 1..Len(Tail(list)) PROVE Tail(list)[i] \in Elements(list) BY DEF Elements
  <2>1. i + 1 \in 1..Len(list) /\ Tail(list)[i] = list[i + 1] BY <1>1, <1>2, <1>3
  <2> QED BY <2>1 DEF Elements
<1>6. \A r \in Elements(list) : r = Head(list) \/ r \in Elements(Tail(list))
  <2> SUFFICES ASSUME NEW i \in 1..Len(list), i # 1 PROVE list[i] \in Elements(Tail(list)) BY <1>2 DEF Elements
  <2>1. i - 1 \in 1..Len(Tail(list)) /\ Tail(list)[i - 1] = list[i] BY <1>1, <1>2, <1>3
  <2> QED BY <2>1 DEF Elements
<1>7. Head(list) \in Elements(list) BY <1>1, <1>2 DEF Elements
<1>8. Len(list) # 1 => Tail(list) # << >> BY <1>1, <1>2
<1>9. Len(list) = 1 => \A r \in Elements(list) : r = Head(list) BY <1>2 DEF Elements
<1> QED BY <1>2, <1>4, <1>5, <1>6, <1>7, <1>8, <1>9

LEMMA NamesFacts ==
    ASSUME NEW s \in Services, NEW refs \in RouteLists
    PROVE  getHTTPRouteNames(s, refs) \in RouteLists /\ getHTTPRouteNames(s, refs) # << >>
<1>1. <<DefaultRoute[s]>> \in RouteLists /\ <<DefaultRoute[s]>> # << >> BY RouteAssumption DEF RouteLists
<1> QED BY <1>1 DEF getHTTPRouteNames

LEMMA MergedFacts ==
    ASSUME config \in RouteLists \cup {Absent}, NEW svc \in ServiceRecord
    PROVE  mergedRefs(svc) \in RouteLists
BY DEF mergedRefs, ServiceRecord

---------------------------------------------------------------------------
(* Types. *)

LEMMA IdleTypes == Idle \in Workers /\ Idle.at = "idle"
<1>1. << >> \in RouteLists BY DEF RouteLists
<1> QED BY <1>1 DEF Idle, Workers

\* From here on the steps are first-order.
USE Zenon

\* What a write of a policy does, and whom it tells.
LEMMA StoreEffect ==
    ASSUME TypeOK, NEW r \in Routes, NEW ap \in PolicyRecord \cup {Absent}, store(r, ap)
    PROVE  /\ policy' = [policy EXCEPT ![r] = ap] /\ policy' \in [Routes -> PolicyRecord \cup {Absent}]
           /\ queue \subseteq queue' /\ queue' \subseteq Services
           /\ missed \subseteq missed' /\ missed' \subseteq Routes
           /\ \A x \in Routes : x # r => policy'[x] = policy[x]
           /\ policy'[r] = ap
           /\ policy[r] # Absent /\ ap # policy[r] /\ policy[r].managed /\ policy[r].owner # Absent => policy[r].owner \in queue'
           /\ ap = Absent /\ policy[r] # Absent /\ ~policy[r].managed => r \in missed'
<1>1. policy \in [Routes -> PolicyRecord \cup {Absent}] /\ policy[r] \in PolicyRecord \cup {Absent} BY DEF TypeOK
<1>2. policy' = [policy EXCEPT ![r] = ap] BY DEF store
<1>3. \A x \in PolicyRecord \cup {Absent} : FindLLMServiceFromAuthPolicy(x) \subseteq Services
  BY DEF FindLLMServiceFromAuthPolicy, PolicyRecord
<1>4. queue \subseteq queue' /\ queue' \subseteq Services BY <1>1, <1>3 DEF store, TypeOK
<1>5. missed \subseteq missed' /\ missed' \subseteq Routes BY DEF store, TypeOK
<1>6. policy[r] # Absent /\ ap # policy[r] /\ policy[r].managed /\ policy[r].owner # Absent => policy[r].owner \in queue'
  BY DEF store, FindLLMServiceFromAuthPolicy
<1>7. ap = Absent /\ policy[r] # Absent /\ ~policy[r].managed => r \in missed' BY DEF store, optedOut
<1> QED BY <1>1, <1>2, <1>4, <1>5, <1>6, <1>7

\* A pass begins.
LEMMA ReconcileEffect ==
    ASSUME TypeOK, NEW s \in Services, Reconcile(s)
    PROVE  /\ worker' \in Workers /\ worker.at = "idle" /\ queue' \subseteq queue
           /\ worker'.at \in {"idle", "reconcile", "delete"} /\ ~worker'.former
           /\ worker'.at # "idle" => worker'.svc = s /\ worker'.todo # << >> /\ service[s] # Absent
           /\ worker'.at = "reconcile" =>
                /\ worker'.auth = service[s].auth /\ Elements(worker'.todo) = routesOf(s)
                /\ ~service[s].deleting /\ ~service[s].stopped
           /\ \A t \in queue : t \in queue' \/ t = s
           /\ s \in queue' \/ service[s] = Absent \/ service[s].deleting \/ service[s].stopped \/ worker'.at = "reconcile"
<1>1. DefaultRoute \in [Services -> Routes] /\ worker \in Workers /\ config \in RouteLists \cup {Absent}
      /\ service[s] \in ServiceRecord \cup {Absent} /\ queue \subseteq Services
  BY RouteAssumption DEF TypeOK
<1> DEFINE at(step, refs) == [Idle EXCEPT !.at = step, !.svc = s, !.auth = service[s].auth,
                                        !.todo = getHTTPRouteNames(s, refs)]
<1>2. ASSUME NEW step \in {"reconcile", "delete"}, NEW refs \in RouteLists, service[s] \in ServiceRecord
      PROVE  /\ at(step, refs) \in Workers /\ at(step, refs).at = step /\ at(step, refs).svc = s
             /\ at(step, refs).todo = getHTTPRouteNames(s, refs) /\ at(step, refs).todo # << >>
             /\ at(step, refs).auth = service[s].auth /\ ~at(step, refs).former
  <2>1. Idle \in Workers /\ ~Idle.former BY IdleTypes DEF Idle
  <2>2. service[s].auth \in BOOLEAN BY <1>2 DEF ServiceRecord
  <2>3. getHTTPRouteNames(s, refs) \in RouteLists /\ getHTTPRouteNames(s, refs) # << >> BY <1>2, NamesFacts
  <2> QED BY <1>2, <2>1, <2>2, <2>3 DEF Workers
<1>3. Idle \in Workers /\ Idle.at = "idle" /\ ~Idle.former BY IdleTypes DEF Idle
<1>4. worker.at = "idle" /\ s \in queue BY DEF Reconcile
<1>5. CASE service[s] = Absent /\ queue' = queue \ {s} /\ worker' = Idle BY <1>3, <1>4, <1>5
<1>6. CASE service[s] # Absent /\ service[s].deleting /\ queue' = queue \ {s} /\ worker' = at("delete", service[s].refs)
  <2>1. service[s].refs \in RouteLists /\ service[s] \in ServiceRecord BY <1>1, <1>6 DEF ServiceRecord
  <2> HIDE DEF at
  <2> QED BY <1>2, <1>4, <1>6, <2>1
<1>7. CASE UNCHANGED <<queue, worker>> /\ ~(service[s] = Absent)
  BY <1>3, <1>4, <1>7 DEF TypeOK
<1>8. CASE /\ service[s] # Absent /\ ~service[s].deleting /\ queue' = queue \ {s}
           /\ worker' = IF service[s].stopped THEN Idle ELSE at("reconcile", mergedRefs(service[s]))
  <2>1. mergedRefs(service[s]) \in RouteLists /\ service[s] \in ServiceRecord BY <1>1, <1>8, MergedFacts
  <2>2. Elements(getHTTPRouteNames(s, mergedRefs(service[s]))) = routesOf(s) BY DEF routesOf, Elements
  <2> HIDE DEF at
  <2>3. CASE service[s].stopped BY <1>3, <1>4, <1>8, <2>3
  <2>4. CASE ~service[s].stopped BY <1>2, <1>4, <1>8, <2>1, <2>2, <2>4
  <2> QED BY <2>3, <2>4
<1> QED BY <1>5, <1>6, <1>7, <1>8 DEF Reconcile

\* One route of the loop: it is missing, skipped or given the policy ap.
Missing == ~worker.auth /\ worker'.at = "posture" /\ worker'.failed /\ UNCHANGED <<policy, queue, missed>>
Handled(r) ==
  /\ \A x \in Elements(worker.todo) : x = r \/ (worker'.at = "reconcile" /\ x \in Elements(worker'.todo))
  /\ \A x \in Elements(worker'.todo) : worker'.at = "reconcile" => x \in Elements(worker.todo)
Skipped(r) == policy[r] # Absent /\ ~policy[r].managed /\ Handled(r) /\ UNCHANGED <<policy, queue, missed>>
Wrote(r, ap) ==
  /\ policy[r] = Absent \/ policy[r].managed
  /\ Handled(r)
  /\ store(r, ap)
  /\ worker.auth => ap = Absent
  /\ ~worker.auth => ap # Absent /\ ap.owner = worker.svc /\ ap.edit # "changed"
  /\ ap = policy[r] \/ ap = Absent \/ ap.former = worker.former

LEMMA LoopEffect ==
    ASSUME TypeOK, reconcileHTTPRouteAuthpolicy
    PROVE  /\ worker.at = "reconcile" /\ worker.svc \in Services /\ worker' \in Workers
           /\ worker'.svc = worker.svc /\ worker'.auth = worker.auth /\ worker'.former = worker.former
           /\ worker.failed => worker'.failed
           /\ worker'.at \in {"reconcile", "posture"} /\ (worker'.at = "reconcile" => worker'.todo # << >>)
           /\ Head(worker.todo) \in Routes /\ Head(worker.todo) \in Elements(worker.todo)
           /\ \/ Missing
              \/ Skipped(Head(worker.todo))
              \/ \E ap \in PolicyRecord \cup {Absent} : Wrote(Head(worker.todo), ap)
<1> DEFINE r == Head(worker.todo)
           skip == optedOut(policy[r])
           missing == ~skip /\ ~worker.auth /\ r \notin routes
<1>1. worker \in Workers /\ worker.at = "reconcile" /\ worker.svc \in Services /\ worker.todo # << >> /\ worker.todo \in RouteLists
  BY DEF reconcileHTTPRouteAuthpolicy, TypeOK, Workers
<1>2. /\ r \in Routes /\ r \in Elements(worker.todo) /\ Tail(worker.todo) \in RouteLists
      /\ Len(worker.todo) # 1 => Tail(worker.todo) # << >>
  BY <1>1, ListFacts
<1>p. policy[r] \in PolicyRecord \cup {Absent} BY <1>2 DEF TypeOK
<1> HIDE DEF r
<1>3. CASE missing /\ worker' = [worker EXCEPT !.at = "posture", !.failed = TRUE] /\ UNCHANGED <<policy, queue, missed>>
  <2>1. /\ worker' \in Workers /\ worker'.at = "posture" /\ worker'.failed /\ worker'.svc = worker.svc
        /\ worker'.auth = worker.auth /\ worker'.former = worker.former
    BY <1>1, <1>3 DEF Workers
  <2> QED BY <1>1, <1>2, <1>3, <2>1 DEF Missing, r
<1>4. CASE /\ worker' = [worker EXCEPT !.todo = Tail(@), !.at = IF Len(worker.todo) = 1 THEN "posture" ELSE @]
           /\ IF skip THEN UNCHANGED <<policy, queue, missed>> ELSE httpRouteAuthPolicyProcessDelta(r, worker.svc)
  <2> DEFINE step == IF Len(worker.todo) = 1 THEN "posture" ELSE "reconcile"
  <2>1. worker' = [worker EXCEPT !.todo = Tail(worker.todo), !.at = step] BY <1>1, <1>4
  <2>2. step \in {"reconcile", "posture"} /\ (step = "posture" <=> Len(worker.todo) = 1) OBVIOUS
  <2> HIDE DEF step
  <2>3. /\ worker' \in Workers /\ worker'.at = step /\ worker'.svc = worker.svc /\ worker'.todo = Tail(worker.todo)
        /\ worker'.auth = worker.auth /\ worker'.former = worker.former /\ worker'.failed = worker.failed
    BY <1>1, <1>2, <2>1, <2>2 DEF Workers
  <2>4. Handled(r) BY <1>1, <2>2, <2>3, ListFacts DEF Handled, r
  <2>5. CASE skip
    <3>1. Skipped(r) BY <1>4, <2>4, <2>5 DEF Skipped, optedOut
    <3> QED BY <1>1, <1>2, <2>2, <2>3, <3>1 DEF r
  <2>6. CASE ~skip
    <3> DEFINE ap == IF worker.auth THEN Absent
                     ELSE IF policy[r] # Absent /\ upToDate(policy[r], worker.svc) THEN policy[r] ELSE anonymous(worker.svc)
    <3>1. store(r, ap) BY <1>4, <2>6 DEF httpRouteAuthPolicyProcessDelta
    <3>a. anonymous(worker.svc) \in PolicyRecord BY <1>1 DEF anonymous, PolicyRecord, Workers
    <3>b. anonymous(worker.svc).owner = worker.svc /\ anonymous(worker.svc).edit = "none" BY DEF anonymous
    <3>c. anonymous(worker.svc).former = worker.former BY DEF anonymous
    <3>2. /\ anonymous(worker.svc) \in PolicyRecord /\ anonymous(worker.svc) # Absent
          /\ anonymous(worker.svc).owner = worker.svc /\ anonymous(worker.svc).edit = "none"
          /\ anonymous(worker.svc).former = worker.former
      BY <3>a, <3>b, <3>c, AbsentAssumption
    <3>3. policy[r] # Absent /\ upToDate(policy[r], worker.svc) => policy[r].owner = worker.svc /\ policy[r].edit # "changed"
      BY DEF upToDate
    <3>4. ap \in PolicyRecord \cup {Absent} BY <1>p, <3>2
    <3>5. worker.auth => ap = Absent OBVIOUS
    <3>6. ~worker.auth => ap # Absent /\ ap.owner = worker.svc /\ ap.edit # "changed" BY <3>2, <3>3
    <3>7. ap = policy[r] \/ ap = Absent \/ ap.former = worker.former BY <3>2
    <3> HIDE DEF ap
    <3>8. Wrote(r, ap) BY <2>4, <2>6, <3>1, <3>5, <3>6, <3>7 DEF Wrote, optedOut
    <3> QED BY <1>1, <1>2, <2>2, <2>3, <3>4, <3>8 DEF r
  <2> QED BY <2>5, <2>6
<1> QED BY <1>3, <1>4 DEF reconcileHTTPRouteAuthpolicy, r

LEMMA DeleteEffect ==
    ASSUME TypeOK, deleteHTTPRouteAuthPolicies
    PROVE  /\ worker.at = "delete" /\ worker' \in Workers
           /\ Head(worker.todo) \in Routes /\ store(Head(worker.todo), Absent)
           /\ worker' = Idle \/ (worker'.at = "delete" /\ worker'.svc = worker.svc /\ worker'.todo # << >>)
<1>1. worker \in Workers /\ worker.at = "delete" /\ worker.todo # << >> /\ worker.todo \in RouteLists
  BY DEF deleteHTTPRouteAuthPolicies, TypeOK, Workers
<1>2. /\ Head(worker.todo) \in Routes /\ Tail(worker.todo) \in RouteLists
      /\ Len(worker.todo) # 1 => Tail(worker.todo) # << >>
  BY <1>1, ListFacts
<1>3. store(Head(worker.todo), Absent) BY DEF deleteHTTPRouteAuthPolicies
<1>4. CASE Len(worker.todo) = 1
  BY <1>1, <1>2, <1>3, <1>4, IdleTypes DEF deleteHTTPRouteAuthPolicies
<1>5. CASE Len(worker.todo) # 1
  <2>1. worker' = [worker EXCEPT !.todo = Tail(worker.todo)] BY <1>5 DEF deleteHTTPRouteAuthPolicies
  <2>2. worker' \in Workers /\ worker'.at = "delete" /\ worker'.svc = worker.svc /\ worker'.todo # << >>
    BY <1>1, <1>2, <1>5, <2>1 DEF Workers
  <2> QED BY <1>1, <1>2, <1>3, <2>2
<1> QED BY <1>4, <1>5

LEMMA GoneEffect ==
    ASSUME TypeOK, NEW s \in Services, ServiceGone(s)
    PROVE  /\ worker' \in Workers /\ worker'.at = worker.at /\ worker'.svc = worker.svc /\ worker'.todo = worker.todo
           /\ worker'.auth = worker.auth /\ worker'.failed = worker.failed
           /\ worker.svc = s => worker'.former
           /\ worker.svc # s => worker' = worker
           /\ worker.at = "idle" => worker' = worker
           /\ policy' \in [Routes -> PolicyRecord \cup {Absent}]
           /\ \A r \in Routes : policy'[r] = policy[r] \/ policy'[r].former
           /\ \A r \in Routes : policy[r] # Absent /\ policy[r].owner = s => policy'[r].former
           /\ \A r \in Routes : policy[r] = Absent <=> policy'[r] = Absent
           /\ \A r \in Routes : policy[r] # Absent =>
                policy'[r].owner = policy[r].owner /\ policy'[r].managed = policy[r].managed /\ policy'[r].edit = policy[r].edit
<1>1. worker \in Workers /\ policy \in [Routes -> PolicyRecord \cup {Absent}] BY DEF TypeOK
<1>2. worker.at = "idle" => worker.svc # s BY SMT, AbsentAssumption DEF TypeOK, Idle
<1>3. /\ worker' \in Workers /\ worker'.at = worker.at /\ worker'.svc = worker.svc /\ worker'.todo = worker.todo
      /\ worker'.auth = worker.auth /\ worker'.failed = worker.failed
      /\ worker.svc = s => worker'.former
      /\ worker.svc # s => worker' = worker
  <2>1. CASE worker.svc = s
    <3>1. worker' = [worker EXCEPT !.former = TRUE] BY <2>1 DEF ServiceGone
    <3>2. /\ worker' \in Workers /\ worker'.at = worker.at /\ worker'.svc = worker.svc /\ worker'.todo = worker.todo
          /\ worker'.auth = worker.auth /\ worker'.failed = worker.failed /\ worker'.former
      BY <1>1, <3>1 DEF Workers
    <3> QED BY <2>1, <3>2
  <2>2. CASE worker.svc # s
    <3>1. worker' = worker BY <2>2 DEF ServiceGone
    <3> QED BY <1>1, <2>2, <3>1
  <2> QED BY <2>1, <2>2
<1>4. ASSUME NEW r \in Routes
      PROVE  /\ policy'[r] \in PolicyRecord \cup {Absent}
             /\ policy'[r] = policy[r] \/ policy'[r].former
             /\ policy[r] # Absent /\ policy[r].owner = s => policy'[r].former
             /\ policy[r] = Absent <=> policy'[r] = Absent
             /\ policy[r] # Absent =>
                  policy'[r].owner = policy[r].owner /\ policy'[r].managed = policy[r].managed /\ policy'[r].edit = policy[r].edit
  <2>1. policy[r] \in PolicyRecord \cup {Absent} BY <1>1, <1>4
  <2>2. CASE policy[r] # Absent /\ policy[r].owner = s
    <3>1. policy'[r] = [policy[r] EXCEPT !.former = TRUE] BY <1>4, <2>2 DEF ServiceGone
    <3>2. policy[r] \in PolicyRecord BY <2>1, <2>2
    <3>3. /\ policy'[r] \in PolicyRecord /\ policy'[r].former /\ policy'[r].owner = policy[r].owner
          /\ policy'[r].managed = policy[r].managed /\ policy'[r].edit = policy[r].edit
      BY <3>1, <3>2 DEF PolicyRecord
    <3> QED BY <2>2, <3>3, AbsentAssumption
  <2>3. CASE ~(policy[r] # Absent /\ policy[r].owner = s)
    <3>1. policy'[r] = policy[r] BY <1>4, <2>3 DEF ServiceGone
    <3> QED BY <2>1, <2>3, <3>1
  <2> QED BY <2>2, <2>3
<1>5. policy' \in [Routes -> PolicyRecord \cup {Absent}]
  <2>1. policy' = [r \in Routes |-> policy'[r]] BY DEF ServiceGone
  <2> QED BY <1>4, <2>1
<1> QED BY <1>2, <1>3, <1>4, <1>5

\* What a user's edit does, and whom it tells.
LEMMA EditEffect ==
    ASSUME TypeOK, NEW r \in Routes, NEW edit \in {"changed", "added", "toggle"}, EditPolicy(r, edit)
    PROVE  /\ policy[r] \in PolicyRecord /\ policy[r] # Absent
           /\ policy'[r] \in PolicyRecord /\ policy'[r] # Absent
           /\ \A x \in Routes : x # r => policy'[x] = policy[x]
           /\ policy' \in [Routes -> PolicyRecord \cup {Absent}]
           /\ policy'[r].owner = policy[r].owner /\ policy'[r].former = policy[r].former
           /\ edit # "toggle" => policy'[r].managed = policy[r].managed
           /\ queue \subseteq queue' /\ queue' \subseteq Services
           /\ policy'[r].managed /\ policy'[r].owner # Absent => policy'[r].owner \in queue'
           /\ missed \subseteq missed' /\ missed' \subseteq Routes
<1> DEFINE new == IF edit = "toggle" THEN [policy[r] EXCEPT !.managed = ~@] ELSE [policy[r] EXCEPT !.edit = edit]
<1>1. policy[r] \in PolicyRecord /\ policy[r] # Absent /\ policy \in [Routes -> PolicyRecord \cup {Absent}]
  BY DEF TypeOK, EditPolicy
<1>2. /\ new \in PolicyRecord /\ new.owner = policy[r].owner
      /\ new.former = policy[r].former /\ (edit # "toggle" => new.managed = policy[r].managed)
  <2>1. CASE edit = "toggle"
    <3>1. new = [policy[r] EXCEPT !.managed = ~@] BY <2>1
    <3> HIDE DEF new
    <3> QED BY <1>1, <2>1, <3>1 DEF PolicyRecord
  <2>2. CASE edit # "toggle"
    <3>1. new = [policy[r] EXCEPT !.edit = edit] /\ edit \in {"changed", "added"} BY <2>2
    <3> HIDE DEF new
    <3> QED BY <1>1, <2>2, <3>1 DEF PolicyRecord
  <2> QED BY <2>1, <2>2
<1>3. policy' = [policy EXCEPT ![r] = new] /\ queue' = queue \cup FindLLMServiceFromAuthPolicy(new)
      /\ missed \subseteq missed' /\ missed' \subseteq Routes
  BY DEF EditPolicy, TypeOK
<1> HIDE DEF new
<1>4. policy'[r] = new /\ (\A x \in Routes : x # r => policy'[x] = policy[x]) /\ new # Absent
      /\ policy' \in [Routes -> PolicyRecord \cup {Absent}]
  BY <1>1, <1>2, <1>3, AbsentAssumption
<1>5. FindLLMServiceFromAuthPolicy(new) \subseteq Services
      /\ (new.managed /\ new.owner # Absent => new.owner \in FindLLMServiceFromAuthPolicy(new))
  BY <1>2, <1>4 DEF FindLLMServiceFromAuthPolicy, PolicyRecord
<1>6. queue \subseteq Services BY DEF TypeOK
<1> QED BY <1>1, <1>2, <1>3, <1>4, <1>5, <1>6

\* A deletion by a user is a write of nothing.
LEMMA DeletePolicyIsStore ==
    ASSUME NEW r \in Routes, DeletePolicy(r)
    PROVE  store(r, Absent)
<1>1. policy[r] # Absent /\ policy' = [policy EXCEPT ![r] = Absent] BY DEF DeletePolicy
<1>2. queue' = queue \cup FindLLMServiceFromAuthPolicy(policy[r]) BY DEF DeletePolicy
<1>3. FindLLMServiceFromAuthPolicy(Absent) = {} BY DEF FindLLMServiceFromAuthPolicy
<1>4. missed' = IF optedOut(policy[r]) THEN missed \cup {r} ELSE missed BY <1>1 DEF DeletePolicy, optedOut
<1> QED BY <1>1, <1>2, <1>3, <1>4 DEF store

\* A service with a deletion timestamp is still the service it was.
LEMMA DeleteServiceEffect ==
    ASSUME TypeOK, NEW s \in Services, DeleteService(s)
    PROVE  /\ service' \in [Services -> ServiceRecord \cup {Absent}]
           /\ \A t \in Services : t # s => service'[t] = service[t]
           /\ service'[s] # Absent /\ service'[s].deleting
           /\ service'[s].auth = service[s].auth
<1>1. service \in [Services -> ServiceRecord \cup {Absent}] /\ service[s] \in ServiceRecord
  BY DEF TypeOK, DeleteService, Live
<1> DEFINE new == [service[s] EXCEPT !.deleting = TRUE]
<1>2. new \in ServiceRecord /\ new.deleting /\ new.auth = service[s].auth BY <1>1 DEF ServiceRecord
<1>3. service' = [service EXCEPT ![s] = new] BY DEF DeleteService
<1> HIDE DEF new
<1> QED BY <1>1, <1>2, <1>3, AbsentAssumption

---------------------------------------------------------------------------

LEMMA InitTypes == Init => TypeOK
<1> SUFFICES ASSUME Init PROVE TypeOK OBVIOUS
<1>1. service \in [Services -> ServiceRecord \cup {Absent}] /\ config \in RouteLists BY RouteAssumption DEF Init
<1>2. policy \in [Routes -> PolicyRecord \cup {Absent}] /\ queue \subseteq Services BY DEF Init, Live
<1>3. worker = Idle /\ worker \in Workers /\ worker.at = "idle" BY IdleTypes DEF Init
<1>4. changes \in 0..MaxChanges BY SMT, BoundAssumption DEF Init
<1> QED BY <1>1, <1>2, <1>3, <1>4 DEF Init, TypeOK

LEMMA RoutesFacts ==
    ASSUME TypeOK, NEW s \in Services, service[s] # Absent
    PROVE  routesOf(s) \subseteq Routes
<1>1. service[s] \in ServiceRecord /\ config \in RouteLists \cup {Absent} BY DEF TypeOK
<1>2. mergedRefs(service[s]) \in RouteLists BY <1>1, MergedFacts
<1>3. getHTTPRouteNames(s, mergedRefs(service[s])) \in RouteLists BY <1>2, NamesFacts
<1>4. getHTTPRouteNames(s, mergedRefs(service[s])) # << >> BY <1>2, NamesFacts
<1> QED BY <1>3, <1>4, ListFacts DEF routesOf, Elements

LEMMA RoutesFactsNext ==
    ASSUME NEW s \in Services, service'[s] \in ServiceRecord, config' \in RouteLists \cup {Absent}
    PROVE  routesOf(s)' \subseteq Routes
<1>1. mergedRefs(service[s])' \in RouteLists BY DEF mergedRefs, ServiceRecord
<1> DEFINE refs == mergedRefs(service[s])'
<1>2. routesOf(s)' = Elements(getHTTPRouteNames(s, refs)) BY DEF routesOf, Elements, getHTTPRouteNames
<1> HIDE DEF refs
<1>3. refs \in RouteLists BY <1>1 DEF refs
<1>4. getHTTPRouteNames(s, refs) \in RouteLists /\ getHTTPRouteNames(s, refs) # << >> BY <1>3, NamesFacts
<1>5. Elements(getHTTPRouteNames(s, refs)) \subseteq Routes BY <1>4, ListFacts
<1> QED BY <1>2, <1>5

LEMMA WorkerTypes == TypeOK /\ Worker => TypeOK'
<1> SUFFICES ASSUME TypeOK, Worker PROVE TypeOK' OBVIOUS
<1>1. ASSUME NEW s \in Services, Reconcile(s) PROVE TypeOK'
  <2>1. UNCHANGED <<service, config, routes, policy, warned, changes, missed>> BY <1>1 DEF Reconcile, cluster
  <2>2. worker' \in Workers /\ queue' \subseteq Services /\ worker'.at \in {"idle", "reconcile", "delete"}
        /\ (worker'.at # "idle" => worker'.svc = s /\ worker'.todo # << >>)
    BY <1>1, ReconcileEffect DEF TypeOK
  <2>3. worker'.at = "idle" => worker' = Idle
    <3> DEFINE at(step, refs) == [Idle EXCEPT !.at = step, !.svc = s, !.auth = service[s].auth,
                                              !.todo = getHTTPRouteNames(s, refs)]
    <3>1. worker.at = "idle" /\ worker = Idle BY <1>1 DEF Reconcile, TypeOK
    <3>2. \/ worker' = Idle \/ worker' = worker
          \/ worker' = at("delete", service[s].refs) \/ worker' = at("reconcile", mergedRefs(service[s]))
      BY <1>1 DEF Reconcile
    <3>3. \A step \in {"delete", "reconcile"} : \A refs : at(step, refs).at = step
      BY IdleTypes DEF Workers
    <3> QED BY <3>1, <3>2, <3>3
  <2> QED BY <2>1, <2>2, <2>3 DEF TypeOK
<1>2. CASE reconcileHTTPRouteAuthpolicy
  <2>1. UNCHANGED <<service, config, routes, warned, changes>> BY <1>2 DEF reconcileHTTPRouteAuthpolicy, cluster
  <2>2. /\ worker' \in Workers /\ worker'.svc \in Services
        /\ worker'.at \in {"reconcile", "posture"} /\ (worker'.at = "reconcile" => worker'.todo # << >>)
        /\ Head(worker.todo) \in Routes
        /\ \/ UNCHANGED <<policy, queue, missed>>
           \/ \E ap \in PolicyRecord \cup {Absent} : store(Head(worker.todo), ap)
    BY <1>2, LoopEffect DEF Missing, Skipped, Wrote
  <2>3. policy' \in [Routes -> PolicyRecord \cup {Absent}] /\ queue' \subseteq Services /\ missed' \subseteq Routes
    <3>1. CASE UNCHANGED <<policy, queue, missed>> BY <3>1 DEF TypeOK
    <3>2. CASE \E ap \in PolicyRecord \cup {Absent} : store(Head(worker.todo), ap) BY <2>2, <3>2, StoreEffect
    <3> QED BY <2>2, <3>1, <3>2
  <2> QED BY <2>1, <2>2, <2>3 DEF TypeOK
<1>3. CASE reconcilePosture
  <2>1. UNCHANGED <<service, config, routes, policy, changes, missed>> /\ worker' = Idle
    BY <1>3 DEF reconcilePosture, cluster
  <2>2. queue' \subseteq Services BY <1>3 DEF reconcilePosture, TypeOK
  <2>3. warned' \subseteq (SUBSET Services) \X (SUBSET Services)
    <3>1. mismatch \in (SUBSET Services) \X (SUBSET Services) BY DEF mismatch, Live
    <3> QED BY <1>3, <3>1 DEF reconcilePosture, TypeOK
  <2> QED BY <2>1, <2>2, <2>3, IdleTypes DEF TypeOK
<1>4. CASE deleteHTTPRouteAuthPolicies
  <2>1. UNCHANGED <<service, config, routes, warned, changes>> BY <1>4 DEF deleteHTTPRouteAuthPolicies, cluster
  <2>2. policy' \in [Routes -> PolicyRecord \cup {Absent}] /\ queue' \subseteq Services /\ missed' \subseteq Routes
    BY <1>4, DeleteEffect, StoreEffect
  <2>3. worker.svc \in Services BY <1>4 DEF deleteHTTPRouteAuthPolicies, TypeOK
  <2>4. worker' \in Workers /\ (worker' = Idle \/ (worker'.at = "delete" /\ worker'.svc \in Services /\ worker'.todo # << >>))
    BY <1>4, <2>3, DeleteEffect
  <2> QED BY <2>1, <2>2, <2>4, IdleTypes DEF TypeOK
<1> QED BY <1>1, <1>2, <1>3, <1>4 DEF Worker

LEMMA ClusterTypes == TypeOK /\ Cluster => TypeOK'
<1> SUFFICES ASSUME TypeOK, Cluster PROVE TypeOK' OBVIOUS
<1>1. ASSUME NEW s \in Services, ServiceGone(s) PROVE TypeOK'
  <2>1. UNCHANGED <<config, routes, warned, changes, missed>> BY <1>1 DEF ServiceGone
  <2>2. service' \in [Services -> ServiceRecord \cup {Absent}] /\ queue' \subseteq Services BY <1>1 DEF ServiceGone, TypeOK
  <2>3. /\ worker' \in Workers /\ worker'.at = worker.at /\ worker'.svc = worker.svc /\ worker'.todo = worker.todo
        /\ worker.at = "idle" => worker' = worker
        /\ policy' \in [Routes -> PolicyRecord \cup {Absent}]
    BY <1>1, GoneEffect
  <2> QED BY <2>1, <2>2, <2>3 DEF TypeOK
<1>2. ASSUME NEW r \in Routes, Collect(r) PROVE TypeOK'
  <2>1. UNCHANGED <<service, config, routes, worker, warned, changes>> /\ store(r, Absent) BY <1>2 DEF Collect, cluster
  <2>2. policy' \in [Routes -> PolicyRecord \cup {Absent}] /\ queue' \subseteq Services /\ missed' \subseteq Routes
    BY <2>1, StoreEffect
  <2> QED BY <2>1, <2>2 DEF TypeOK
<1> QED BY <1>1, <1>2 DEF Cluster

LEMMA EnvironmentTypes == TypeOK /\ Environment => TypeOK'
<1> SUFFICES ASSUME TypeOK, Environment PROVE TypeOK' OBVIOUS
<1>c. Change => changes' \in 0..MaxChanges BY SMT, BoundAssumption DEF Change, TypeOK
<1>1. ASSUME NEW s \in Services, DeleteService(s) PROVE TypeOK'
  <2>1. UNCHANGED <<config, routes, policy, worker, warned, missed>> /\ Change /\ queue' \subseteq Services
    BY <1>1 DEF DeleteService, TypeOK
  <2> QED BY <1>1, <1>c, <2>1, DeleteServiceEffect DEF TypeOK
<1>2. ASSUME NEW s \in Services, NEW svc \in Specs, CreateService(s, svc) PROVE TypeOK'
  <2>1. UNCHANGED <<config, routes, policy, worker, warned, missed>> /\ Change /\ queue' \subseteq Services
    BY <1>2 DEF CreateService, TypeOK
  <2>2. service' \in [Services -> ServiceRecord \cup {Absent}] BY <1>2, RouteAssumption DEF CreateService, TypeOK
  <2> QED BY <1>c, <2>1, <2>2 DEF TypeOK
<1>3. ASSUME NEW s \in Services, NEW svc \in Specs, UpdateService(s, svc) PROVE TypeOK'
  <2>1. UNCHANGED <<config, routes, policy, worker, warned>> /\ Change /\ queue' \subseteq Services
    BY <1>3 DEF UpdateService, TypeOK
  <2>2. service' \in [Services -> ServiceRecord \cup {Absent}] /\ service'[s] \in ServiceRecord
    BY <1>3, RouteAssumption DEF UpdateService, TypeOK
  <2>3. routesOf(s)' \subseteq Routes BY <2>1, <2>2, RoutesFactsNext DEF TypeOK
  <2>4. routesOf(s) \subseteq Routes BY <1>3, RoutesFacts DEF UpdateService, Live
  <2>5. missed' \subseteq Routes BY <1>3, <2>3, <2>4 DEF UpdateService, TypeOK
  <2> QED BY <1>c, <2>1, <2>2, <2>5 DEF TypeOK
<1>4. ASSUME NEW refs \in BaseRefs \cup {Absent}, ChangeConfig(refs) PROVE TypeOK'
  <2>1. UNCHANGED <<service, routes, policy, worker, warned, queue>> /\ Change BY <1>4 DEF ChangeConfig
  <2>2. config' \in RouteLists \cup {Absent} BY <1>4, RouteAssumption DEF ChangeConfig
  <2>3. \A s \in Live : routesOf(s) \subseteq Routes /\ routesOf(s)' \subseteq Routes
    BY <2>1, <2>2, RoutesFacts, RoutesFactsNext DEF TypeOK, Live
  <2>4. missed' \subseteq Routes
    <3>1. UNION {(routesOf(s) \cup routesOf(s)') : s \in {t \in Live : service[t].based}} \subseteq Routes BY <2>3
    <3> QED BY <1>4, <3>1 DEF ChangeConfig, TypeOK
  <2> QED BY <1>c, <2>1, <2>2, <2>4 DEF TypeOK
<1>5. ASSUME NEW r \in Routes, ChangeRoute(r) PROVE TypeOK'
  BY <1>c, <1>5 DEF ChangeRoute, TypeOK
<1>6. ASSUME NEW r \in Routes, DeletePolicy(r) PROVE TypeOK'
  <2>1. UNCHANGED <<service, config, routes, worker, warned>> /\ Change BY <1>6 DEF DeletePolicy, cluster
  <2>2. policy' \in [Routes -> PolicyRecord \cup {Absent}] /\ queue' \subseteq Services /\ missed' \subseteq Routes
    BY <1>6, DeletePolicyIsStore, StoreEffect
  <2> QED BY <1>c, <2>1, <2>2 DEF TypeOK
<1>7. ASSUME NEW r \in Routes, NEW edit \in {"changed", "added", "toggle"}, EditPolicy(r, edit) PROVE TypeOK'
  <2>1. UNCHANGED <<service, config, routes, worker, warned>> /\ Change BY <1>7 DEF EditPolicy, cluster
  <2>2. policy' \in [Routes -> PolicyRecord \cup {Absent}] /\ queue' \subseteq Services /\ missed' \subseteq Routes
    BY <1>7, EditEffect
  <2> QED BY <1>c, <2>1, <2>2 DEF TypeOK
<1>8. CASE globalResync
  BY <1>8, <1>c DEF globalResync, existing, cluster, TypeOK
<1>9. CASE CallFails
  <2>1. UNCHANGED <<service, config, routes, policy, warned, missed>> /\ Change /\ worker' = Idle
    BY <1>9 DEF CallFails, cluster
  <2>2. queue' \subseteq Services BY <1>9 DEF CallFails, TypeOK
  <2> QED BY <1>c, <2>1, <2>2, IdleTypes DEF TypeOK
<1>10. CASE Restart
  <2>1. UNCHANGED <<service, config, routes, policy, warned, missed>> /\ Change /\ worker' = Idle /\ queue' \subseteq Services
    BY <1>10 DEF Restart, cluster, existing
  <2> QED BY <1>c, <2>1, IdleTypes DEF TypeOK
<1> QED BY <1>1, <1>2, <1>3, <1>4, <1>5, <1>6, <1>7, <1>8, <1>9, <1>10 DEF Environment

LEMMA TypeStep == TypeOK /\ [Next]_vars => TypeOK'
<1>1. TypeOK /\ UNCHANGED vars => TypeOK' BY DEF vars, cluster, TypeOK
<1> QED BY <1>1, WorkerTypes, ClusterTypes, EnvironmentTypes DEF Next

\* Every variable of the controller's model keeps its type: the queue and the
\* pass name services, and a pass in the loop has a route left to handle.
THEOREM TypeCorrect == Spec => []TypeOK
BY InitTypes, TypeStep, PTL DEF Spec

---------------------------------------------------------------------------
(* What each kind of step leaves alone. *)

LEMMA Frame ==
    ASSUME TypeOK, Next
    PROVE  /\ missed \subseteq missed'
           /\ queue \subseteq queue' \/ Restart \/ \E s \in Services : Reconcile(s)
           /\ \/ UNCHANGED <<service, config>>
              \/ \E s \in Services : DeleteService(s) \/ ServiceGone(s) \/ \E svc \in Specs : CreateService(s, svc) \/ UpdateService(s, svc)
              \/ \E refs \in BaseRefs \cup {Absent} : ChangeConfig(refs)
           /\ \/ UNCHANGED worker
              \/ \E s \in Services : Reconcile(s) \/ ServiceGone(s)
              \/ reconcileHTTPRouteAuthpolicy \/ reconcilePosture \/ deleteHTTPRouteAuthPolicies \/ CallFails \/ Restart
<1> DEFINE M == missed \subseteq missed'
           Q == queue \subseteq queue'
           C == UNCHANGED <<service, config>>
           W == UNCHANGED worker
<1>1. ASSUME NEW s \in Services, Reconcile(s) PROVE M /\ C BY <1>1 DEF Reconcile, cluster
<1>2. ASSUME reconcileHTTPRouteAuthpolicy PROVE M /\ Q /\ C
  <2>1. C BY <1>2 DEF reconcileHTTPRouteAuthpolicy, cluster
  <2>2. Head(worker.todo) \in Routes BY <1>2, LoopEffect
  <2>3. \/ UNCHANGED <<queue, missed>>
        \/ \E ap \in PolicyRecord \cup {Absent} : store(Head(worker.todo), ap)
    BY <1>2, LoopEffect DEF Missing, Skipped, Wrote
  <2> QED BY <2>1, <2>2, <2>3, StoreEffect
<1>3. ASSUME reconcilePosture PROVE M /\ Q /\ C BY <1>3 DEF reconcilePosture, cluster
<1>4. ASSUME deleteHTTPRouteAuthPolicies PROVE M /\ Q /\ C
  <2>1. C BY <1>4 DEF deleteHTTPRouteAuthPolicies, cluster
  <2> QED BY <1>4, <2>1, DeleteEffect, StoreEffect
<1>5. ASSUME NEW s \in Services, ServiceGone(s) PROVE M /\ Q BY <1>5 DEF ServiceGone
<1>6. ASSUME NEW r \in Routes, Collect(r) PROVE M /\ Q /\ C /\ W
  <2>1. C /\ W /\ store(r, Absent) BY <1>6 DEF Collect, cluster
  <2> QED BY <2>1, StoreEffect
<1>7. ASSUME NEW s \in Services, DeleteService(s) PROVE M /\ Q /\ W BY <1>7 DEF DeleteService
<1>8. ASSUME NEW s \in Services, NEW svc \in Specs, CreateService(s, svc) PROVE M /\ Q /\ W BY <1>8 DEF CreateService
<1>9. ASSUME NEW s \in Services, NEW svc \in Specs, UpdateService(s, svc) PROVE M /\ Q /\ W BY <1>9 DEF UpdateService
<1>10. ASSUME NEW refs, ChangeConfig(refs) PROVE M /\ Q /\ W BY <1>10 DEF ChangeConfig
<1>11. ASSUME NEW r \in Routes, ChangeRoute(r) PROVE M /\ Q /\ C /\ W BY <1>11 DEF ChangeRoute
<1>12. ASSUME NEW r \in Routes, DeletePolicy(r) PROVE M /\ Q /\ C /\ W
  <2>1. C /\ W BY <1>12 DEF DeletePolicy, cluster
  <2> QED BY <1>12, <2>1, DeletePolicyIsStore, StoreEffect
<1>13. ASSUME NEW r \in Routes, NEW edit \in {"changed", "added", "toggle"}, EditPolicy(r, edit) PROVE M /\ Q /\ C /\ W
  <2>1. C /\ W BY <1>13 DEF EditPolicy, cluster
  <2> QED BY <1>13, <2>1, EditEffect
<1>14. ASSUME globalResync PROVE M /\ Q /\ C /\ W BY <1>14 DEF globalResync, cluster
<1>15. ASSUME CallFails PROVE M /\ Q /\ C BY <1>15 DEF CallFails, cluster
<1>16. ASSUME Restart PROVE M /\ C BY <1>16 DEF Restart, cluster
<1> HIDE DEF M, Q, C, W
<1>17. CASE Worker
  <2>1. M /\ C /\ (Q \/ \E s \in Services : Reconcile(s)) BY <1>1, <1>2, <1>3, <1>4, <1>17 DEF Worker
  <2> QED BY <1>17, <2>1 DEF M, Q, C, Worker
<1>18. CASE Cluster
  <2>1. M /\ Q /\ ((C /\ W) \/ \E s \in Services : ServiceGone(s)) BY <1>5, <1>6, <1>18 DEF Cluster
  <2> QED BY <2>1 DEF M, Q, C, W
<1>19. CASE Environment
  <2>1. M /\ (Q \/ Restart) BY <1>7, <1>8, <1>9, <1>10, <1>11, <1>12, <1>13, <1>14, <1>15, <1>16, <1>19 DEF Environment
  <2>2. W \/ CallFails \/ Restart BY <1>7, <1>8, <1>9, <1>10, <1>11, <1>12, <1>13, <1>14, <1>19 DEF Environment
  <2>3. \/ C \/ \E s \in Services : DeleteService(s) \/ \E svc \in Specs : CreateService(s, svc) \/ UpdateService(s, svc)
        \/ \E refs \in BaseRefs \cup {Absent} : ChangeConfig(refs)
    BY <1>11, <1>12, <1>13, <1>14, <1>15, <1>16, <1>19 DEF Environment
  <2>4. \/ C \/ \E s \in Services : DeleteService(s) \/ ServiceGone(s) \/ \E svc \in Specs : CreateService(s, svc) \/ UpdateService(s, svc)
        \/ \E refs \in BaseRefs \cup {Absent} : ChangeConfig(refs)
    BY <2>3
  <2> QED BY <2>1, <2>2, <2>4 DEF M, Q, C, W
<1> QED BY <1>17, <1>18, <1>19 DEF Next

\* Requests leave the queue when their pass begins, and with the process.
LEMMA QueueKept ==
    ASSUME TypeOK, Next, NEW t \in queue, \A s \in Services : ~Reconcile(s), ~Restart
    PROVE  t \in queue'
BY Frame

---------------------------------------------------------------------------
(* What the services ask for, from one state to the next. *)

LEMMA SameCluster ==
    ASSUME UNCHANGED <<service, config>>
    PROVE  /\ Live' = Live /\ Running' = Running
           /\ \A s \in Services : service'[s] = service[s] /\ routesOf(s)' = routesOf(s)
           /\ \A r \in Routes : Anonymous(r)' = Anonymous(r)
<1>1. Live' = Live BY DEF Live
<1>2. Running' = Running BY <1>1 DEF Running
<1>3. \A s \in Services : service'[s] = service[s] /\ routesOf(s)' = routesOf(s) BY DEF routesOf, mergedRefs
<1>4. \A s \in Running : s \in Services BY DEF Running, Live
<1>5. \A r \in Routes : Anonymous(r)' = Anonymous(r) BY <1>2, <1>3, <1>4 DEF Anonymous
<1> QED BY <1>1, <1>2, <1>3, <1>5

LEMMA OtherServices ==
    ASSUME NEW t \in Services, config' = config, service'[t] = service[t]
    PROVE  /\ t \in Live' <=> t \in Live
           /\ t \in Running' <=> t \in Running
           /\ routesOf(t)' = routesOf(t)
           /\ \A r \in Routes : t \in Anonymous(r)' <=> t \in Anonymous(r)
<1>1. t \in Live' <=> t \in Live BY DEF Live
<1>2. t \in Running' <=> t \in Running BY <1>1 DEF Running
<1>3. routesOf(t)' = routesOf(t) BY DEF routesOf, mergedRefs
<1>4. \A r \in Routes : t \in Anonymous(r)' <=> t \in Anonymous(r) BY <1>2, <1>3 DEF Anonymous
<1> QED BY <1>1, <1>2, <1>3, <1>4

LEMMA ConfigChange ==
    ASSUME TypeOK, NEW refs, ChangeConfig(refs), NEW s \in Services
    PROVE  /\ service'[s] = service[s] /\ Live' = Live /\ Running' = Running
           /\ s \in Live => routesOf(s)' = routesOf(s) \/ (routesOf(s) \subseteq missed' /\ routesOf(s)' \subseteq missed')
<1>1. service' = service BY DEF ChangeConfig
<1>2. Live' = Live BY <1>1 DEF Live
<1>3. Running' = Running BY <1>1, <1>2 DEF Running
<1>4. s \in Live /\ ~service[s].based => routesOf(s)' = routesOf(s) BY <1>1 DEF routesOf, mergedRefs
<1>5. s \in Live /\ service[s].based => routesOf(s) \subseteq missed' /\ routesOf(s)' \subseteq missed'
  BY SMT DEF ChangeConfig
<1> QED BY <1>1, <1>2, <1>3, <1>4, <1>5

\* The service o is there, and on its way out or a running user of r.
Uses(o, r) == service[o] # Absent /\ (service[o].deleting \/ (r \in routesOf(o) /\ ~service[o].stopped))

LEMMA UsesSame ==
    ASSUME NEW o \in Services, NEW r \in Routes, Uses(o, r), config' = config, service'[o] = service[o]
    PROVE  Uses(o, r)'
BY OtherServices DEF Uses

\* A service that stops using a route for another reason than being gone
\* leaves the route among the missed ones.
LEMMA UsesKept ==
    ASSUME TypeOK, Next, NEW o \in Services, NEW r \in Routes, r \notin missed', Uses(o, r), ~ServiceGone(o)
    PROVE  Uses(o, r)'
<1>1. CASE UNCHANGED <<service, config>> BY <1>1, UsesSame
<1>2. ASSUME NEW s \in Services, NEW svc \in Specs, CreateService(s, svc) PROVE Uses(o, r)'
  <2>1. config' = config /\ s # o /\ service'[o] = service[o] BY <1>2 DEF CreateService, Uses, TypeOK
  <2> QED BY <2>1, UsesSame
<1>3. ASSUME NEW s \in Services, NEW svc \in Specs, UpdateService(s, svc) PROVE Uses(o, r)'
  <2>1. CASE s # o
    <3>1. config' = config /\ service'[o] = service[o] BY <1>3, <2>1 DEF UpdateService, TypeOK
    <3> QED BY <3>1, UsesSame
  <2>2. CASE s = o
    <3>1. service'[o] = svc /\ svc \in ServiceRecord BY <1>3, <2>2, RouteAssumption DEF UpdateService, TypeOK
    <3>2. r \in routesOf(o) /\ ~service[o].deleting BY <1>3, <2>2 DEF Uses, UpdateService, Live
    <3>3. r \in routesOf(o)' /\ ~svc.stopped BY <1>3, <2>2, <3>2 DEF UpdateService
    <3> QED BY <3>1, <3>3, AbsentAssumption DEF Uses
  <2> QED BY <2>1, <2>2
<1>4. ASSUME NEW s \in Services, DeleteService(s) PROVE Uses(o, r)'
  <2>1. CASE s # o
    <3>1. config' = config /\ service'[o] = service[o] BY <1>4, <2>1, DeleteServiceEffect DEF DeleteService
    <3> QED BY <3>1, UsesSame
  <2>2. CASE s = o BY <1>4, <2>2, DeleteServiceEffect DEF Uses
  <2> QED BY <2>1, <2>2
<1>5. ASSUME NEW s \in Services, ServiceGone(s) PROVE Uses(o, r)'
  <2>1. config' = config /\ service'[o] = service[o] BY <1>5 DEF ServiceGone, TypeOK
  <2> QED BY <2>1, UsesSame
<1>6. ASSUME NEW refs, ChangeConfig(refs) PROVE Uses(o, r)'
  <2>1. service'[o] = service[o] /\ (o \in Live => routesOf(o)' = routesOf(o) \/ routesOf(o) \subseteq missed')
    BY <1>6, ConfigChange
  <2> QED BY <2>1 DEF Uses, Live
<1> QED BY <1>1, <1>2, <1>3, <1>4, <1>5, <1>6, Frame

---------------------------------------------------------------------------
(* Routes of services without authentication. *)

Handles(s, r) == worker.at = "reconcile" /\ worker.svc = s /\ r \in Elements(worker.todo)
OnPass(s) == worker.at \in {"reconcile", "posture"} /\ worker.svc = s

\* The policy of r suits s: it is opted out of management, or s wrote it and
\* nobody changed it.
Suits(r, s) == policy[r] # Absent /\ (policy[r].managed => policy[r].owner = s /\ policy[r].edit # "changed")

\* The service s needs nothing for r, or is about to see to it.
Answered(r, s) ==
  \/ s \in queue
  \/ Handles(s, r) /\ ~worker.auth
  \/ OnPass(s) /\ worker.failed
  \/ Suits(r, s)

ServedInv == \A r \in Routes \ missed : \A s \in Anonymous(r) : Answered(r, s)

LEMMA AnonymousFacts ==
    ASSUME NEW r \in Routes, NEW s \in Anonymous(r)
    PROVE  /\ s \in Services /\ s \in Live /\ s \in Running /\ service[s] # Absent
           /\ ~service[s].deleting /\ ~service[s].stopped /\ ~service[s].auth /\ r \in routesOf(s)
BY DEF Anonymous, Running, Live

\* A write of a policy tells the service that loses it, or the route is missed.
LEMMA StoreSuits ==
    ASSUME TypeOK, NEW x \in Routes, NEW ap \in PolicyRecord \cup {Absent}, store(x, ap),
           NEW r \in Routes, r \notin missed', NEW s \in Services, Suits(r, s),
           policy[x] = Absent \/ policy[x].managed \/ ap = Absent
    PROVE  s \in queue' \/ Suits(r, s)'
<1>s. /\ \A z \in Routes : z # x => policy'[z] = policy[z]
      /\ policy'[x] = ap
      /\ policy[x] # Absent /\ ap # policy[x] /\ policy[x].managed /\ policy[x].owner # Absent => policy[x].owner \in queue'
      /\ ap = Absent /\ policy[x] # Absent /\ ~policy[x].managed => x \in missed'
  BY StoreEffect
<1>1. CASE r # x \/ ap = policy[x]
  <2>1. policy'[r] = policy[r] BY <1>1, <1>s
  <2> QED BY <2>1 DEF Suits
<1>2. CASE r = x /\ ap # policy[x]
  <2>1. policy[x] # Absent BY <1>2 DEF Suits
  <2>2. policy[x].managed BY <1>2, <1>s, <2>1
  <2>3. policy[x].owner = s /\ s # Absent BY <1>2, <2>2, AbsentAssumption DEF Suits
  <2> QED BY <1>2, <1>s, <2>1, <2>2, <2>3
<1> QED BY <1>1, <1>2

LEMMA ServedWorker == TypeOK /\ ServedInv /\ Worker => ServedInv'
<1> SUFFICES ASSUME TypeOK, ServedInv, Worker PROVE ServedInv' OBVIOUS
<1>u. UNCHANGED <<service, config>>
  <2>1. \A s \in Services : Reconcile(s) => UNCHANGED <<service, config>> BY DEF Reconcile, cluster
  <2>2. reconcileHTTPRouteAuthpolicy => UNCHANGED <<service, config>> BY DEF reconcileHTTPRouteAuthpolicy, cluster
  <2>3. reconcilePosture => UNCHANGED <<service, config>> BY DEF reconcilePosture, cluster
  <2>4. deleteHTTPRouteAuthPolicies => UNCHANGED <<service, config>> BY DEF deleteHTTPRouteAuthPolicies, cluster
  <2> QED BY <2>1, <2>2, <2>3, <2>4 DEF Worker
<1>m. missed \subseteq missed' BY Frame DEF Next
<1> SUFFICES ASSUME NEW r \in Routes, r \notin missed', NEW s \in Anonymous(r)' PROVE Answered(r, s)'
  BY DEF ServedInv
<1>a. s \in Anonymous(r) BY <1>u, SameCluster
<1>b. Answered(r, s) BY <1>a, <1>m DEF ServedInv
<1>f. /\ s \in Services /\ service[s] # Absent
      /\ ~service[s].deleting /\ ~service[s].stopped /\ ~service[s].auth /\ r \in routesOf(s)
  BY <1>a, AnonymousFacts
<1>1. ASSUME NEW z \in Services, Reconcile(z) PROVE Answered(r, s)'
  <2>1. worker.at = "idle" /\ UNCHANGED policy /\ (\A t \in queue : t \in queue' \/ t = z) BY <1>1, ReconcileEffect DEF Reconcile
  <2>2. Suits(r, s) => Suits(r, s)' BY <2>1 DEF Suits
  <2>3. s \in queue \/ Suits(r, s) BY <1>b, <2>1 DEF Answered, Handles, OnPass
  <2>4. CASE s = z /\ s \notin queue'
    <3>1. worker'.at = "reconcile" BY <1>1, <1>f, <2>4, ReconcileEffect
    <3>2. worker'.svc = s /\ worker'.auth = service[s].auth /\ Elements(worker'.todo) = routesOf(s)
      BY <1>1, <2>4, <3>1, ReconcileEffect
    <3>3. Handles(s, r)' /\ ~worker'.auth BY <1>f, <3>1, <3>2 DEF Handles, Elements
    <3> QED BY <3>3 DEF Answered
  <2> QED BY <2>1, <2>2, <2>3, <2>4 DEF Answered
<1>2. CASE reconcileHTTPRouteAuthpolicy
  <2> DEFINE x == Head(worker.todo)
  <2>1. /\ worker.at = "reconcile" /\ worker'.svc = worker.svc /\ worker'.auth = worker.auth
        /\ worker.failed => worker'.failed
        /\ worker'.at \in {"reconcile", "posture"}
        /\ x \in Routes
        /\ Missing \/ Skipped(x) \/ \E ap \in PolicyRecord \cup {Absent} : Wrote(x, ap)
    BY <1>2, LoopEffect
  <2> HIDE DEF x
  <2>2. OnPass(s) /\ worker.failed => Answered(r, s)' BY <2>1 DEF OnPass, Answered
  <2>3. CASE Missing
    <3>1. UNCHANGED <<policy, queue>> /\ worker'.at = "posture" /\ worker'.failed BY <2>3 DEF Missing
    <3>2. Suits(r, s) => Suits(r, s)' BY <3>1 DEF Suits
    <3>3. Handles(s, r) => OnPass(s)' BY <2>1, <3>1 DEF Handles, OnPass
    <3> QED BY <1>b, <2>2, <3>1, <3>2, <3>3 DEF Answered
  <2>4. CASE Skipped(x)
    <3>1. UNCHANGED <<policy, queue>> /\ policy[x] # Absent /\ ~policy[x].managed BY <2>4 DEF Skipped
    <3>2. Suits(r, s) => Suits(r, s)' BY <3>1 DEF Suits
    <3>3. r = x => Suits(r, s)' BY <3>1 DEF Suits
    <3>4. Handles(s, r) /\ r # x => Handles(s, r)'
      BY <2>1, <2>4 DEF Handles, Skipped, Handled, Elements
    <3> QED BY <1>b, <2>1, <2>2, <3>1, <3>2, <3>3, <3>4 DEF Answered
  <2>5. ASSUME NEW ap \in PolicyRecord \cup {Absent}, Wrote(x, ap) PROVE Answered(r, s)'
    <3>1. queue \subseteq queue' /\ policy'[x] = ap /\ store(x, ap) BY <2>1, <2>5, StoreEffect DEF Wrote
    <3>2. Suits(r, s) => s \in queue' \/ Suits(r, s)'
      BY <1>f, <2>1, <2>5, <3>1, StoreSuits DEF Wrote
    <3>3. Handles(s, r) /\ r # x => Handles(s, r)'
      BY <2>1, <2>5 DEF Handles, Wrote, Handled, Elements
    <3>4. Handles(s, r) /\ ~worker.auth /\ r = x => Suits(r, s)'
      BY <2>5, <3>1 DEF Handles, Wrote, Suits
    <3> QED BY <1>b, <2>1, <2>2, <3>1, <3>2, <3>3, <3>4 DEF Answered
  <2> QED BY <2>1, <2>3, <2>4, <2>5
<1>3. CASE reconcilePosture
  <2>1. UNCHANGED policy /\ worker.at = "posture" /\ queue \subseteq queue' BY <1>3 DEF reconcilePosture
  <2>2. Suits(r, s) => Suits(r, s)' BY <2>1 DEF Suits
  <2>3. OnPass(s) /\ worker.failed => s \in queue' BY <1>3 DEF reconcilePosture, OnPass
  <2> QED BY <1>b, <2>1, <2>2, <2>3 DEF Answered, Handles
<1>4. CASE deleteHTTPRouteAuthPolicies
  <2>1. worker.at = "delete" /\ Head(worker.todo) \in Routes /\ store(Head(worker.todo), Absent) BY <1>4, DeleteEffect
  <2>2. queue \subseteq queue' BY <2>1, StoreEffect
  <2>3. Suits(r, s) => s \in queue' \/ Suits(r, s)' BY <1>f, <2>1, StoreSuits
  <2> QED BY <1>b, <2>1, <2>2, <2>3 DEF Answered, Handles, OnPass
<1> QED BY <1>1, <1>2, <1>3, <1>4 DEF Worker

LEMMA ServedEnvironment == TypeOK /\ ServedInv /\ (Cluster \/ Environment) => ServedInv'
<1> SUFFICES ASSUME TypeOK, ServedInv, Cluster \/ Environment,
                    NEW r \in Routes, r \notin missed', NEW s \in Anonymous(r)'
             PROVE  Answered(r, s)'
  BY DEF ServedInv
<1>w. worker \in Workers BY DEF TypeOK
<1>f. /\ s \in Services /\ s \in Live' /\ service'[s] # Absent
      /\ ~service'[s].deleting /\ ~service'[s].stopped /\ ~service'[s].auth /\ r \in routesOf(s)'
  BY DEF Anonymous, Running, Live
<1>o. ASSUME missed \subseteq missed', s \in Anonymous(r) PROVE Answered(r, s) BY <1>o DEF ServedInv
<1>k. ASSUME missed \subseteq missed', s \in Anonymous(r), queue \subseteq queue', UNCHANGED <<policy, worker>> PROVE Answered(r, s)'
  <2>1. Answered(r, s) BY <1>k, <1>o
  <2> QED BY <1>k, <2>1 DEF Answered, Handles, OnPass, Suits, Elements
<1>t. ASSUME NEW x \in Routes, store(x, Absent), UNCHANGED <<service, config, worker>> PROVE Answered(r, s)'
  <2>1. queue \subseteq queue' /\ missed \subseteq missed' BY <1>t, StoreEffect
  <2>2. Answered(r, s) BY <1>o, <1>t, <2>1, SameCluster
  <2>3. Suits(r, s) => s \in queue' \/ Suits(r, s)' BY <1>f, <1>t, StoreSuits
  <2> QED BY <1>t, <2>1, <2>2, <2>3 DEF Answered, Handles, OnPass, Elements
<1>1. ASSUME NEW z \in Services, ServiceGone(z) PROVE Answered(r, s)'
  <2>1. s # z BY <1>1, <1>f DEF ServiceGone, TypeOK
  <2>2. config' = config /\ service'[s] = service[s] /\ missed' = missed /\ queue \subseteq queue' BY <1>1, <1>f, <2>1 DEF ServiceGone, TypeOK
  <2>3. Answered(r, s) BY <1>f, <1>o, <2>2, OtherServices
  <2>4. Suits(r, s) => Suits(r, s)' BY <1>1, GoneEffect DEF Suits
  <2>5. OnPass(s) => worker' = worker BY <1>1, <2>1, GoneEffect DEF OnPass
  <2>6. OnPass(s) /\ worker.failed => OnPass(s)' /\ worker'.failed BY <2>5 DEF OnPass
  <2>7. Handles(s, r) /\ ~worker.auth => Handles(s, r)' /\ ~worker'.auth BY <2>5 DEF OnPass, Handles, Elements
  <2> QED BY <2>2, <2>3, <2>4, <2>6, <2>7 DEF Answered
<1>2. ASSUME NEW x \in Routes, Collect(x) PROVE Answered(r, s)'
  BY <1>2, <1>t DEF Collect, cluster
<1>3. ASSUME NEW z \in Services, DeleteService(z) PROVE Answered(r, s)'
  <2>1. s # z BY <1>3, <1>f, DeleteServiceEffect
  <2>2. service'[s] = service[s] BY <1>3, <1>f, <2>1, DeleteServiceEffect
  <2>3. config' = config /\ missed' = missed /\ UNCHANGED <<policy, worker>> /\ queue \subseteq queue' BY <1>3 DEF DeleteService
  <2> QED BY <1>f, <1>k, <2>2, <2>3, OtherServices
<1>4. ASSUME NEW z \in Services, NEW svc \in Specs, CreateService(z, svc) PROVE Answered(r, s)'
  <2>1. s = z => s \in queue' BY <1>4 DEF CreateService
  <2>2. s # z => service'[s] = service[s] BY <1>4, <1>f DEF CreateService, TypeOK
  <2>3. config' = config /\ missed' = missed /\ UNCHANGED <<policy, worker>> /\ queue \subseteq queue' BY <1>4 DEF CreateService
  <2>4. s # z => Answered(r, s)' BY <1>f, <1>k, <2>2, <2>3, OtherServices
  <2> QED BY <2>1, <2>4 DEF Answered
<1>5. ASSUME NEW z \in Services, NEW svc \in Specs, UpdateService(z, svc) PROVE Answered(r, s)'
  <2>1. s = z => s \in queue' BY <1>5 DEF UpdateService
  <2>2. s # z => service'[s] = service[s] BY <1>5, <1>f DEF UpdateService, TypeOK
  <2>3. config' = config /\ missed \subseteq missed' /\ UNCHANGED <<policy, worker>> /\ queue \subseteq queue' BY <1>5 DEF UpdateService
  <2>4. s # z => Answered(r, s)' BY <1>f, <1>k, <2>2, <2>3, OtherServices
  <2> QED BY <2>1, <2>4 DEF Answered
<1>6. ASSUME NEW refs, ChangeConfig(refs) PROVE Answered(r, s)'
  <2>1. missed \subseteq missed' /\ UNCHANGED <<policy, worker, queue>> BY <1>6 DEF ChangeConfig
  <2>2. service'[s] = service[s] /\ Running' = Running /\ Live' = Live
        /\ (s \in Live => routesOf(s)' = routesOf(s) \/ routesOf(s)' \subseteq missed')
    BY <1>6, <1>f, ConfigChange
  <2>3. routesOf(s)' = routesOf(s) BY <1>f, <2>2
  <2>4. s \in Anonymous(r) BY <1>f, <2>2, <2>3 DEF Anonymous
  <2> QED BY <1>k, <2>1, <2>4
<1>7. ASSUME NEW x \in Routes, ChangeRoute(x) PROVE Answered(r, s)'
  <2>1. UNCHANGED <<service, config, policy, queue, worker, missed>> BY <1>7 DEF ChangeRoute
  <2> QED BY <1>k, <2>1, SameCluster
<1>8. ASSUME NEW x \in Routes, DeletePolicy(x) PROVE Answered(r, s)'
  BY <1>8, <1>t, DeletePolicyIsStore DEF DeletePolicy, cluster
<1>9. ASSUME NEW x \in Routes, NEW edit \in {"changed", "added", "toggle"}, EditPolicy(x, edit) PROVE Answered(r, s)'
  <2>1. UNCHANGED <<service, config, worker>> BY <1>9 DEF EditPolicy, cluster
  <2>2. /\ policy[x] # Absent /\ policy'[x] # Absent
        /\ \A y \in Routes : y # x => policy'[y] = policy[y]
        /\ policy'[x].owner = policy[x].owner
        /\ edit # "toggle" => policy'[x].managed = policy[x].managed
        /\ queue \subseteq queue' /\ missed \subseteq missed'
        /\ policy'[x].managed /\ policy'[x].owner # Absent => policy'[x].owner \in queue'
    BY <1>9, EditEffect
  <2>3. s \in Anonymous(r) /\ Answered(r, s) BY <1>o, <2>1, <2>2, SameCluster
  <2>4. s \in Live /\ r \in routesOf(s) /\ s # Absent BY <1>f, <2>3, AnonymousFacts, AbsentAssumption
  <2>5. Suits(r, s) => s \in queue' \/ Suits(r, s)'
    <3>1. CASE r # x BY <2>2, <3>1 DEF Suits
    <3>2. CASE r = x /\ ~policy'[x].managed BY <2>2, <3>2 DEF Suits
    <3>3. CASE r = x /\ policy'[x].managed /\ policy[x].owner = s BY <2>2, <2>4, <3>3
    <3>4. CASE r = x /\ policy'[x].managed /\ policy[x].owner # s
      <4>1. edit # "toggle" BY <1>9, <2>4, <3>4 DEF EditPolicy
      <4> QED BY <2>2, <3>4, <4>1 DEF Suits
    <3> QED BY <3>1, <3>2, <3>3, <3>4
  <2> QED BY <2>1, <2>2, <2>3, <2>5 DEF Answered, Handles, OnPass, Elements
<1>10. CASE globalResync
  <2>1. UNCHANGED <<service, config, policy, worker, missed>> /\ queue \subseteq queue' BY <1>10 DEF globalResync, cluster
  <2> QED BY <1>k, <2>1, SameCluster
<1>11. CASE CallFails
  <2>1. UNCHANGED <<service, config, policy, missed>> /\ queue' = queue \cup {worker.svc} BY <1>11 DEF CallFails, cluster
  <2>2. Answered(r, s) BY <1>o, <2>1, SameCluster
  <2>3. Suits(r, s) => Suits(r, s)' BY <2>1 DEF Suits
  <2> QED BY <2>1, <2>2, <2>3 DEF Answered, Handles, OnPass
<1>12. CASE Restart
  <2>1. s \in queue' BY <1>12, <1>f DEF Restart, existing, cluster
  <2> QED BY <2>1 DEF Answered
<1> QED BY <1>1, <1>2, <1>3, <1>4, <1>5, <1>6, <1>7, <1>8, <1>9, <1>10, <1>11, <1>12 DEF Cluster, Environment

---------------------------------------------------------------------------
(* Policies and the services they are there for. *)

\* The pass knows what its service asks for, unless it is queued again, and
\* handles routes the service uses, or those are among the missed ones.
PassInv ==
  worker.at = "reconcile" /\ ~worker.former =>
    /\ service[worker.svc] # Absent
    /\ worker.svc \notin queue => service[worker.svc].auth = worker.auth
    /\ \A r \in Elements(worker.todo) \ missed : Uses(worker.svc, r)

\* A policy is owned by a service that uses the route.
OwnerInv ==
  \A r \in Routes \ missed : policy[r] # Absent /\ ~policy[r].former =>
    policy[r].owner \in Services /\ Uses(policy[r].owner, r)

\* An owner that asks for authentication is about to remove the policy.
Removes(o, r) == o \in Live /\ service[o].auth => o \in queue \/ (Handles(o, r) /\ worker.auth)

RestoredInv ==
  \A r \in Routes \ missed : policy[r] # Absent /\ policy[r].managed /\ ~policy[r].former => Removes(policy[r].owner, r)

\* What a service asks for changes only with a request for it.
LEMMA AuthKept ==
    ASSUME TypeOK, Next, NEW o \in Services, service[o] # Absent, ~ServiceGone(o)
    PROVE  /\ service'[o] # Absent
           /\ o \in queue' \/ service'[o] = service[o]
<1>1. CASE service' = service BY <1>1
<1>2. ASSUME NEW s \in Services, DeleteService(s) PROVE service'[o] # Absent /\ (o \in queue' \/ service'[o] = service[o])
  BY <1>2, DeleteServiceEffect DEF DeleteService
<1>3. ASSUME NEW s \in Services, NEW svc \in Specs, CreateService(s, svc)
      PROVE service'[o] # Absent /\ (o \in queue' \/ service'[o] = service[o])
  BY <1>3 DEF CreateService, TypeOK
<1>4. ASSUME NEW s \in Services, NEW svc \in Specs, UpdateService(s, svc)
      PROVE service'[o] # Absent /\ (o \in queue' \/ service'[o] = service[o])
  BY <1>4, RouteAssumption, AbsentAssumption DEF UpdateService, TypeOK
<1>5. ASSUME NEW s \in Services, ServiceGone(s) PROVE service'[o] # Absent /\ (o \in queue' \/ service'[o] = service[o])
  BY <1>5 DEF ServiceGone, TypeOK
<1>6. ASSUME NEW refs, ChangeConfig(refs) PROVE service' = service BY <1>6 DEF ChangeConfig
<1> QED BY <1>1, <1>2, <1>3, <1>4, <1>5, <1>6, Frame

LEMMA PassStep == TypeOK /\ PassInv /\ Next => PassInv'
<1> SUFFICES ASSUME TypeOK, PassInv, Next, worker'.at = "reconcile", ~worker'.former
             PROVE  /\ service'[worker'.svc] # Absent
                    /\ worker'.svc \notin queue' => service'[worker'.svc].auth = worker'.auth
                    /\ \A r \in Elements(worker'.todo) \ missed' : Uses(worker.svc, r)'
  BY DEF PassInv, Elements
<1>m. missed \subseteq missed' BY Frame
<1>w. worker \in Workers /\ worker.todo \in RouteLists BY DEF TypeOK, Workers
<1>i. Idle.at = "idle" BY IdleTypes
<1>1. ASSUME NEW s \in Services, Reconcile(s)
      PROVE  /\ service'[worker'.svc] # Absent
             /\ worker'.svc \notin queue' => service'[worker'.svc].auth = worker'.auth
             /\ \A r \in Elements(worker'.todo) \ missed' : Uses(worker.svc, r)'
  <2>1. /\ worker'.svc = s /\ service[s] # Absent /\ worker'.auth = service[s].auth
        /\ Elements(worker'.todo) = routesOf(s) /\ ~service[s].stopped
    BY <1>1, ReconcileEffect
  <2>2. UNCHANGED <<service, config>> BY <1>1 DEF Reconcile, cluster
  <2>3. service'[s] = service[s] /\ routesOf(s)' = routesOf(s) BY <2>2, SameCluster
  <2>4. \A r \in Elements(worker'.todo) : Uses(worker.svc, r)' BY <2>1, <2>3 DEF Uses, routesOf, mergedRefs
  <2> QED BY <2>1, <2>3, <2>4
<1>2. CASE \A s \in Services : ~Reconcile(s)
  <2>1. /\ worker.at = "reconcile" /\ worker'.svc = worker.svc /\ worker'.auth = worker.auth /\ ~worker.former
        /\ Elements(worker'.todo) \subseteq Elements(worker.todo)
        /\ ~ServiceGone(worker.svc)
    <3>1. CASE reconcileHTTPRouteAuthpolicy
      <4>1. UNCHANGED service BY <3>1 DEF reconcileHTTPRouteAuthpolicy, cluster
      <4>2. ~Missing BY DEF Missing
      <4>3. Elements(worker'.todo) \subseteq Elements(worker.todo)
        BY <3>1, <4>2, LoopEffect DEF Skipped, Wrote, Handled
      <4>4. ~ServiceGone(worker.svc)
        BY <3>1, <4>1, AbsentAssumption DEF ServiceGone, TypeOK, reconcileHTTPRouteAuthpolicy
      <4> QED BY <3>1, <4>3, <4>4, LoopEffect
    <3>2. CASE worker' = worker
      <4>1. ~ServiceGone(worker.svc)
        <5>1. worker.svc \in Services BY <3>2 DEF TypeOK
        <5> QED BY <3>2, <5>1, GoneEffect
      <4> QED BY <3>2, <4>1
    <3>3. ASSUME NEW s \in Services, ServiceGone(s) PROVE worker' = worker
      BY <3>3, GoneEffect
    <3>4. ~reconcilePosture /\ ~CallFails /\ ~Restart BY <1>i DEF reconcilePosture, CallFails, Restart
    <3>5. ~deleteHTTPRouteAuthPolicies BY <1>i, DeleteEffect
    <3> QED BY <1>2, <3>1, <3>2, <3>3, <3>4, <3>5, Frame
  <2>2. worker.svc \in Services /\ worker.todo # << >> BY <2>1 DEF TypeOK
  <2>3. /\ service[worker.svc] # Absent
        /\ worker.svc \notin queue => service[worker.svc].auth = worker.auth
        /\ \A r \in Elements(worker.todo) \ missed : Uses(worker.svc, r)
    BY <2>1 DEF PassInv
  <2>4. service'[worker.svc] # Absent /\ (worker.svc \in queue' \/ service'[worker.svc] = service[worker.svc])
    BY <2>1, <2>2, <2>3, AuthKept
  <2>5. ~Restart BY <1>i DEF Restart
  <2>6. worker.svc \in queue => worker.svc \in queue' BY <1>2, <2>5, QueueKept
  <2>7. ASSUME NEW r \in Elements(worker'.todo) \ missed' PROVE Uses(worker.svc, r)'
    <3>1. r \in Elements(worker.todo) \ missed BY <1>m, <2>1
    <3>2. r \in Routes BY <1>w, <2>2, <3>1, ListFacts
    <3>3. PICK o \in Services : o = worker.svc BY <2>2
    <3>4. Uses(o, r) /\ ~ServiceGone(o) BY <2>1, <2>3, <3>1, <3>3
    <3>5. Uses(o, r)' BY <3>2, <3>4, UsesKept
    <3> QED BY SMT, <2>1, <3>3, <3>5 DEF Uses, routesOf, mergedRefs
  <2> QED BY <2>1, <2>3, <2>4, <2>6, <2>7
<1> QED BY <1>1, <1>2

\* The policies of a service that is gone are marked.
LEMMA OwnerGone ==
    ASSUME TypeOK, NEW r \in Routes, policy[r] # Absent, ServiceGone(policy[r].owner)
    PROVE  policy'[r].former
<1>1. policy[r] \in PolicyRecord BY DEF TypeOK
<1>2. policy'[r] = [policy[r] EXCEPT !.former = TRUE] BY DEF ServiceGone
<1> QED BY <1>1, <1>2 DEF PolicyRecord

\* The policy of a route is gone, as it was, marked by a deletion of its owner,
\* edited by a user, or written by the pass.
Same(r) ==
  /\ policy[r] # Absent /\ ~policy[r].former /\ policy'[r].owner = policy[r].owner
  /\ policy'[r].managed => policy[r].managed \/ policy'[r].owner \in queue' \cup {Absent}
Written(r) ==
  /\ worker.at = "reconcile" /\ ~worker.auth /\ ~worker.former /\ worker.svc \in Services
  /\ policy'[r].owner = worker.svc /\ r \in Elements(worker.todo) /\ UNCHANGED <<service, config>>

LEMMA PolicyStep ==
    ASSUME TypeOK, Next, NEW r \in Routes, policy'[r] # Absent, ~policy'[r].former
    PROVE  (Same(r) /\ ~ServiceGone(policy[r].owner)) \/ Written(r)
<1> SUFFICES Same(r) \/ Written(r) BY OwnerGone DEF Same
<1>1. policy'[r] = policy[r] => Same(r) BY DEF Same
<1>2. ASSUME NEW x \in Routes, store(x, Absent) PROVE Same(r)
  <2>1. x # r /\ policy'[r] = policy[r] BY <1>2, StoreEffect
  <2> QED BY <1>1, <2>1
<1>3. ASSUME NEW s \in Services, ServiceGone(s) PROVE Same(r)
  BY <1>1, <1>3, GoneEffect
<1>4. CASE reconcileHTTPRouteAuthpolicy
  <2>1. UNCHANGED <<service, config>> BY <1>4 DEF reconcileHTTPRouteAuthpolicy, cluster
  <2>2. CASE policy'[r] = policy[r] BY <1>1, <2>2
  <2>3. CASE policy'[r] # policy[r]
    <3>1. PICK ap \in PolicyRecord \cup {Absent} : Wrote(Head(worker.todo), ap) BY <1>4, <2>3, LoopEffect DEF Missing, Skipped
    <3>a. Head(worker.todo) \in Routes /\ store(Head(worker.todo), ap) BY <1>4, <3>1, LoopEffect DEF Wrote
    <3>2. Head(worker.todo) = r /\ policy'[r] = ap BY <2>3, <3>a, StoreEffect
    <3>3. worker.at = "reconcile" /\ worker.svc \in Services /\ r \in Elements(worker.todo) BY <1>4, <3>2, LoopEffect
    <3>4. ~worker.auth /\ ap.owner = worker.svc /\ ~worker.former BY <2>3, <3>1, <3>2 DEF Wrote
    <3> QED BY <2>1, <3>2, <3>3, <3>4 DEF Written
  <2> QED BY <2>2, <2>3
<1>5. CASE deleteHTTPRouteAuthPolicies
  BY <1>2, <1>5, DeleteEffect
<1>6. ASSUME NEW x \in Routes, Collect(x) \/ DeletePolicy(x) PROVE Same(r)
  BY <1>2, <1>6, DeletePolicyIsStore DEF Collect
<1>7. ASSUME NEW x \in Routes, NEW edit \in {"changed", "added", "toggle"}, EditPolicy(x, edit) PROVE Same(r)
  <2>1. CASE x # r BY <1>1, <1>7, <2>1, EditEffect
  <2>2. CASE x = r BY <1>7, <2>2, EditEffect DEF Same
  <2> QED BY <2>1, <2>2
<1>8. ASSUME NEW s \in Services, Reconcile(s) \/ DeleteService(s) PROVE Same(r) BY <1>1, <1>8 DEF Reconcile, DeleteService
<1>9. ASSUME NEW s \in Services, NEW svc \in Specs, CreateService(s, svc) \/ UpdateService(s, svc) PROVE Same(r)
  BY <1>1, <1>9 DEF CreateService, UpdateService
<1>10. ASSUME NEW refs, ChangeConfig(refs) PROVE Same(r) BY <1>1, <1>10 DEF ChangeConfig
<1>11. ASSUME NEW x \in Routes, ChangeRoute(x) PROVE Same(r) BY <1>1, <1>11 DEF ChangeRoute
<1>12. reconcilePosture \/ globalResync => Same(r) BY <1>1 DEF reconcilePosture, globalResync
<1>13. CallFails \/ Restart => Same(r) BY <1>1 DEF CallFails, Restart
<1>14. Worker => Same(r) \/ Written(r) BY <1>4, <1>5, <1>8, <1>12 DEF Worker
<1>15. Cluster => Same(r) BY <1>3, <1>6 DEF Cluster
<1>16. Environment => Same(r) BY <1>6, <1>7, <1>8, <1>9, <1>10, <1>11, <1>12, <1>13 DEF Environment
<1> QED BY <1>14, <1>15, <1>16 DEF Next

LEMMA OwnerStep == TypeOK /\ PassInv /\ OwnerInv /\ Next => OwnerInv'
<1> SUFFICES ASSUME TypeOK, PassInv, OwnerInv, Next, NEW r \in Routes, r \notin missed', policy'[r] # Absent, ~policy'[r].former
             PROVE  policy'[r].owner \in Services /\ Uses(policy[r].owner, r)'
  BY DEF OwnerInv
<1>m. r \notin missed BY Frame
<1>1. CASE Same(r) /\ ~ServiceGone(policy[r].owner)
  <2>1. policy[r].owner \in Services /\ Uses(policy[r].owner, r) BY <1>1, <1>m DEF OwnerInv, Same
  <2>2. PICK o \in Services : o = policy[r].owner BY <2>1
  <2>3. Uses(o, r)' BY <1>1, <2>1, <2>2, UsesKept
  <2>4. policy'[r].owner = o BY <1>1, <2>2 DEF Same
  <2> QED BY SMT, <2>3, <2>4 DEF Uses, routesOf, mergedRefs
<1>2. CASE Written(r)
  <2>1. PICK o \in Services : o = worker.svc BY <1>2 DEF Written
  <2>2. Uses(o, r) BY <1>2, <1>m, <2>1 DEF Written, PassInv
  <2>3. UNCHANGED <<service, config>> /\ policy'[r].owner = o BY <1>2, <2>1 DEF Written
  <2>4. Uses(o, r)' BY <2>2, <2>3, UsesSame
  <2> QED BY SMT, <2>3, <2>4 DEF Uses, routesOf, mergedRefs
<1> QED BY <1>1, <1>2, PolicyStep

\* A removal that is due stays due until the pass makes it.
LEMMA RemovesKept ==
    ASSUME TypeOK, Next, NEW o \in Services, NEW r \in Routes, policy'[r] # Absent, policy'[r].managed, policy[r].managed,
           Uses(o, r), Removes(o, r), ~ServiceGone(o), policy[r] # Absent
    PROVE  Removes(o, r)'
<1> SUFFICES ASSUME o \in Live', service'[o].auth PROVE o \in queue' \/ (Handles(o, r)' /\ worker'.auth)
  BY DEF Removes
<1>1. service[o] # Absent BY DEF Uses
<1>2. CASE service'[o] # service[o] BY <1>1, <1>2, AuthKept
<1>3. CASE service'[o] = service[o]
  <2>1. o \in queue \/ (Handles(o, r) /\ worker.auth) BY <1>3 DEF Removes, Live
  <2>2. ~service[o].deleting /\ r \in routesOf(o) /\ ~service[o].stopped BY <1>3 DEF Live, Uses
  <2>3. ASSUME NEW s \in Services, Reconcile(s) PROVE o \in queue' \/ (Handles(o, r)' /\ worker'.auth)
    <3>1. o \in queue BY <2>1, <2>3 DEF Handles, Reconcile
    <3>2. CASE o # s BY <2>3, <3>1, <3>2, ReconcileEffect
    <3>3. CASE o = s /\ o \notin queue'
      <4>1. worker'.at = "reconcile" BY <1>1, <2>2, <2>3, <3>3, ReconcileEffect
      <4>2. worker'.svc = o /\ worker'.auth = service[o].auth /\ Elements(worker'.todo) = routesOf(o)
        BY <2>3, <3>3, <4>1, ReconcileEffect
      <4> QED BY <1>3, <2>2, <4>1, <4>2 DEF Handles, Elements
    <3> QED BY <3>2, <3>3
  <2>4. CASE Restart BY <1>1, <2>4 DEF Restart, existing
  <2>5. CASE (\A s \in Services : ~Reconcile(s)) /\ ~Restart
    <3>1. CASE o \in queue BY <2>5, <3>1, QueueKept
    <3>2. CASE Handles(o, r) /\ worker.auth
      <4>1. worker.at = "reconcile" /\ worker.svc = o BY <3>2 DEF Handles
      <4>2. CASE reconcileHTTPRouteAuthpolicy
        <5>1. ~Missing BY <3>2 DEF Missing
        <5>2. Head(worker.todo) # r
          <6>1. Skipped(Head(worker.todo)) => Head(worker.todo) # r BY DEF Skipped
          <6>2. ASSUME NEW ap \in PolicyRecord \cup {Absent}, Wrote(Head(worker.todo), ap) PROVE Head(worker.todo) # r
            <7>1. Head(worker.todo) \in Routes /\ store(Head(worker.todo), ap) /\ ap = Absent BY <3>2, <4>2, <6>2, LoopEffect DEF Wrote
            <7>2. policy'[Head(worker.todo)] = Absent BY <7>1, StoreEffect
            <7> QED BY <7>2
          <6> QED BY <4>2, <5>1, <6>1, <6>2, LoopEffect
        <5>3. Handled(Head(worker.todo)) BY <4>2, <5>1, LoopEffect DEF Skipped, Wrote
        <5>4. worker'.svc = o /\ worker'.auth BY <3>2, <4>1, <4>2, LoopEffect
        <5>5. worker'.at = "reconcile" /\ r \in Elements(worker'.todo) BY <3>2, <5>2, <5>3 DEF Handled, Handles
        <5> QED BY <5>4, <5>5 DEF Handles, Elements
      <4>3. CASE worker' = worker BY <3>2, <4>3 DEF Handles, Elements
      <4>4. CASE CallFails BY <4>1, <4>4 DEF CallFails
      <4>5. ~reconcilePosture /\ ~deleteHTTPRouteAuthPolicies BY <4>1 DEF reconcilePosture, deleteHTTPRouteAuthPolicies
      <4>6. ASSUME NEW s \in Services, ServiceGone(s) PROVE worker' = worker
        BY <4>1, <4>6, GoneEffect
      <4> QED BY <2>5, <4>2, <4>3, <4>4, <4>5, <4>6, Frame
    <3> QED BY <2>1, <3>1, <3>2
  <2> QED BY <2>3, <2>4, <2>5
<1> QED BY <1>2, <1>3

LEMMA RestoredStep == TypeOK /\ PassInv /\ OwnerInv /\ RestoredInv /\ Next => RestoredInv'
<1> SUFFICES ASSUME TypeOK, PassInv, OwnerInv, RestoredInv, Next,
                    NEW r \in Routes, r \notin missed', policy'[r] # Absent, policy'[r].managed, ~policy'[r].former
             PROVE  Removes(policy[r].owner, r)'
  BY DEF RestoredInv
<1>m. r \notin missed BY Frame
<1>1. CASE Same(r) /\ ~ServiceGone(policy[r].owner)
  <2>1. policy[r] # Absent /\ policy[r].owner \in Services /\ Uses(policy[r].owner, r) BY <1>1, <1>m DEF OwnerInv, Same
  <2>2. PICK o \in Services : o = policy[r].owner BY <2>1
  <2>3. policy'[r].owner = o BY <1>1, <2>2 DEF Same
  <2>4. Removes(o, r)'
    <3>1. CASE policy[r].managed
      <4>1. Removes(o, r) BY <1>1, <1>m, <2>2, <3>1 DEF RestoredInv, Same
      <4> QED BY <1>1, <2>1, <2>2, <3>1, <4>1, RemovesKept
    <3>2. CASE ~policy[r].managed
      <4>1. o \in queue' BY <1>1, <2>3, <3>2, AbsentAssumption DEF Same
      <4> QED BY <4>1 DEF Removes
    <3> QED BY <3>1, <3>2
  <2> QED BY <2>3, <2>4 DEF Removes, Handles, Elements
<1>2. CASE Written(r)
  <2>1. PICK o \in Services : o = worker.svc BY <1>2 DEF Written
  <2>2. UNCHANGED <<service, config>> /\ policy'[r].owner = o /\ worker.at = "reconcile" /\ ~worker.auth /\ ~worker.former
    BY <1>2, <2>1 DEF Written
  <2>3. service[o] # Absent /\ (o \notin queue => ~service[o].auth) BY <2>1, <2>2 DEF PassInv
  <2>4. o \in queue => o \in queue'
    <3>1. CASE Restart BY <2>3, <3>1 DEF Restart, existing
    <3>2. \A s \in Services : ~Reconcile(s) BY <2>2 DEF Reconcile
    <3> QED BY <3>1, <3>2, QueueKept
  <2>5. Removes(o, r)' BY <2>2, <2>3, <2>4 DEF Removes
  <2> QED BY <2>2, <2>5 DEF Removes, Handles, Elements
<1> QED BY <1>1, <1>2, PolicyStep

---------------------------------------------------------------------------
(* Members of the group that disagree. *)

Settled == {s \in Running : s \notin queue /\ ~OnPass(s)}
Authenticating == {s \in Settled : service[s].auth}
Open == {s \in Settled : ~service[s].auth}

\* The members that had their pass and disagree have been reported together.
ReportedInv ==
  Authenticating # {} /\ Open # {} => \E w \in warned : Authenticating \subseteq w[1] /\ Open \subseteq w[2]

LEMMA FewerSettled ==
    ASSUME ReportedInv, warned \subseteq warned',
           \A s \in Settled' : s \in Settled /\ service'[s] = service[s]
    PROVE  ReportedInv'
<1>1. Authenticating' \subseteq Authenticating /\ Open' \subseteq Open BY DEF Authenticating, Open
<1> SUFFICES ASSUME Authenticating' # {}, Open' # {}
             PROVE  \E w \in warned' : Authenticating' \subseteq w[1] /\ Open' \subseteq w[2]
  BY DEF ReportedInv
<1>2. PICK w \in warned : Authenticating \subseteq w[1] /\ Open \subseteq w[2] BY <1>1 DEF ReportedInv
<1> QED BY <1>1, <1>2

LEMMA SettledFacts ==
    ASSUME NEW s \in Settled'
    PROVE  /\ s \in Services /\ service'[s] # Absent /\ ~service'[s].deleting /\ ~service'[s].stopped
           /\ s \notin queue' /\ ~OnPass(s)' /\ s \in Running'
BY DEF Settled, Running, Live

LEMMA ReportedStep == TypeOK /\ ReportedInv /\ Next => ReportedInv'
<1> SUFFICES ASSUME TypeOK, ReportedInv, Next PROVE ReportedInv' OBVIOUS
<1>g. ASSUME warned \subseteq warned', UNCHANGED <<service, config>>, queue \subseteq queue',
             \A s \in Services : OnPass(s) => OnPass(s)' \/ s \in queue'
      PROVE  ReportedInv'
  <2>1. Running' = Running /\ \A s \in Services : service'[s] = service[s] BY <1>g, SameCluster
  <2>2. \A s \in Settled' : s \in Settled BY <1>g, <2>1, SettledFacts DEF Settled
  <2> QED BY <1>g, <2>1, <2>2, FewerSettled, SettledFacts
<1>c. ASSUME NEW z \in Services, z \in queue' \/ z \notin Running', warned' = warned, config' = config, queue \subseteq queue',
             \A s \in Services : s # z => service'[s] = service[s] /\ (OnPass(s) => OnPass(s)')
      PROVE  ReportedInv'
  <2>1. ASSUME NEW s \in Settled' PROVE s \in Settled /\ service'[s] = service[s]
    <3>1. s \in Services /\ s # z /\ s \notin queue' /\ ~OnPass(s)' /\ s \in Running' BY <1>c, <2>1, SettledFacts
    <3>2. service'[s] = service[s] /\ ~OnPass(s) /\ s \notin queue BY <1>c, <3>1
    <3>3. s \in Running BY <1>c, <3>1, <3>2, OtherServices
    <3> QED BY <3>2, <3>3 DEF Settled
  <2> QED BY <1>c, <2>1, FewerSettled
<1>w. ASSUME UNCHANGED worker, NEW s \in Services PROVE OnPass(s) => OnPass(s)' BY <1>w DEF OnPass
<1>1. ASSUME NEW z \in Services, Reconcile(z) PROVE ReportedInv'
  <2>1. UNCHANGED <<service, config, warned>> BY <1>1 DEF Reconcile, cluster
  <2>2. Running' = Running /\ \A s \in Services : service'[s] = service[s] BY <2>1, SameCluster
  <2>3. ASSUME NEW s \in Settled' PROVE s \in Settled
    <3>1. /\ s \in Services /\ service[s] # Absent /\ ~service[s].deleting /\ ~service[s].stopped
          /\ s \notin queue' /\ ~OnPass(s)' /\ s \in Running
      BY <2>2, <2>3, SettledFacts
    <3>2. ~OnPass(s) BY <1>1 DEF Reconcile, OnPass
    <3>3. s # z
      <4> SUFFICES ASSUME s = z PROVE FALSE OBVIOUS
      <4>1. worker'.at = "reconcile" BY <1>1, <3>1, ReconcileEffect
      <4>2. worker'.svc = s BY <1>1, <4>1, ReconcileEffect
      <4> QED BY <3>1, <4>1, <4>2 DEF OnPass
    <3>4. s \notin queue BY <1>1, <3>1, <3>3, ReconcileEffect
    <3> QED BY <3>1, <3>2, <3>4 DEF Settled
  <2> QED BY <2>1, <2>2, <2>3, FewerSettled, SettledFacts
<1>2. CASE reconcileHTTPRouteAuthpolicy
  <2>1. UNCHANGED <<service, config, warned>> BY <1>2 DEF reconcileHTTPRouteAuthpolicy, cluster
  <2>2. queue \subseteq queue'
    BY <1>2, LoopEffect, StoreEffect DEF Missing, Skipped, Wrote
  <2>3. \A s \in Services : OnPass(s) => OnPass(s)' BY <1>2, LoopEffect DEF OnPass
  <2> QED BY <1>g, <2>1, <2>2, <2>3
<1>3. CASE reconcilePosture
  <2>1. UNCHANGED <<service, config>> BY <1>3 DEF reconcilePosture, cluster
  <2>2. Running' = Running /\ \A s \in Services : service'[s] = service[s] BY <2>1, SameCluster
  <2>3. Authenticating' \subseteq mismatch[1] /\ Open' \subseteq mismatch[2]
    BY <2>2 DEF Authenticating, Open, Settled, Running, mismatch, Live
  <2>4. CASE {} \in {mismatch[1], mismatch[2]}
    <3>1. Authenticating' = {} \/ Open' = {} BY <2>3, <2>4
    <3> QED BY <3>1 DEF ReportedInv
  <2>5. CASE ~({} \in {mismatch[1], mismatch[2]})
    <3>1. mismatch \in warned' BY <1>3, <2>5 DEF reconcilePosture
    <3> QED BY <2>3, <3>1 DEF ReportedInv
  <2> QED BY <2>4, <2>5
<1>4. CASE deleteHTTPRouteAuthPolicies
  <2>1. UNCHANGED <<service, config, warned>> BY <1>4 DEF deleteHTTPRouteAuthPolicies, cluster
  <2>2. worker.at = "delete" /\ queue \subseteq queue' BY <1>4, DeleteEffect, StoreEffect
  <2>3. \A s \in Services : ~OnPass(s) BY <2>2 DEF OnPass
  <2> QED BY <1>g, <2>1, <2>2, <2>3
<1>5. ASSUME NEW s \in Services, ServiceGone(s) PROVE ReportedInv'
  <2>1. warned' = warned /\ config' = config /\ queue \subseteq queue' /\ s \in queue' BY <1>5 DEF ServiceGone
  <2>2. \A t \in Services : t # s => service'[t] = service[t] BY <1>5 DEF ServiceGone, TypeOK
  <2>3. \A t \in Services : OnPass(t) => OnPass(t)' BY <1>5, GoneEffect DEF OnPass
  <2> QED BY <1>c, <2>1, <2>2, <2>3
<1>6. ASSUME NEW x \in Routes, Collect(x) \/ DeletePolicy(x) PROVE ReportedInv'
  <2>1. store(x, Absent) /\ UNCHANGED <<service, config, worker, warned>>
    BY <1>6, DeletePolicyIsStore DEF Collect, DeletePolicy, cluster
  <2>2. queue \subseteq queue' BY <2>1, StoreEffect
  <2> QED BY <1>g, <1>w, <2>1, <2>2
<1>7. ASSUME NEW s \in Services, DeleteService(s) PROVE ReportedInv'
  <2>1. warned' = warned /\ config' = config /\ queue \subseteq queue' /\ s \in queue' /\ worker' = worker BY <1>7 DEF DeleteService
  <2>2. \A t \in Services : t # s => service'[t] = service[t] BY <1>7, DeleteServiceEffect
  <2> QED BY <1>c, <1>w, <2>1, <2>2
<1>8. ASSUME NEW s \in Services, NEW svc \in Specs, CreateService(s, svc) \/ UpdateService(s, svc) PROVE ReportedInv'
  <2>1. warned' = warned /\ config' = config /\ queue \subseteq queue' /\ s \in queue' /\ worker' = worker
    BY <1>8 DEF CreateService, UpdateService
  <2>2. \A t \in Services : t # s => service'[t] = service[t] BY <1>8 DEF CreateService, UpdateService, TypeOK
  <2> QED BY <1>c, <1>w, <2>1, <2>2
<1>9. ASSUME NEW refs, ChangeConfig(refs) PROVE ReportedInv'
  <2>1. UNCHANGED <<service, worker, warned, queue>> BY <1>9 DEF ChangeConfig
  <2>2. Settled' = Settled BY <2>1 DEF Settled, Running, Live, OnPass
  <2> QED BY <2>1, <2>2, FewerSettled
<1>10. ASSUME NEW x \in Routes, ChangeRoute(x) PROVE ReportedInv'
  BY <1>10, <1>g, <1>w DEF ChangeRoute
<1>11. ASSUME NEW x \in Routes, NEW edit \in {"changed", "added", "toggle"}, EditPolicy(x, edit) PROVE ReportedInv'
  <2>1. UNCHANGED <<service, config, worker, warned>> BY <1>11 DEF EditPolicy, cluster
  <2>2. queue \subseteq queue' BY <1>11, EditEffect
  <2> QED BY <1>g, <1>w, <2>1, <2>2
<1>12. CASE globalResync
  <2>1. UNCHANGED <<service, config, worker, warned>> /\ queue \subseteq queue' BY <1>12 DEF globalResync, cluster
  <2> QED BY <1>g, <1>w, <2>1
<1>13. CASE CallFails
  <2>1. UNCHANGED <<service, config, warned>> /\ queue' = queue \cup {worker.svc} BY <1>13 DEF CallFails, cluster
  <2>2. \A s \in Services : OnPass(s) => s \in queue' BY <2>1 DEF OnPass
  <2> QED BY <1>g, <2>1, <2>2
<1>14. CASE Restart
  <2>1. service' = service /\ queue' = existing BY <1>14 DEF Restart, cluster
  <2>2. Settled' = {} BY <2>1 DEF Settled, Running, Live, existing
  <2> QED BY <2>2 DEF ReportedInv, Open
<1> QED BY <1>1, <1>2, <1>3, <1>4, <1>5, <1>6, <1>7, <1>8, <1>9, <1>10, <1>11, <1>12, <1>13, <1>14
        DEF Next, Worker, Cluster, Environment

---------------------------------------------------------------------------
(* The theorems. *)

Inv == TypeOK /\ ServedInv /\ PassInv /\ OwnerInv /\ RestoredInv /\ ReportedInv

LEMMA InitInv == Init => Inv
<1> SUFFICES ASSUME Init PROVE Inv OBVIOUS
<1>1. TypeOK BY InitTypes
<1>2. worker.at = "idle" /\ queue = Live /\ \A r \in Routes : policy[r] = Absent BY IdleTypes DEF Init
<1>3. ServedInv BY <1>2, AnonymousFacts DEF ServedInv, Answered
<1>4. PassInv /\ OwnerInv /\ RestoredInv BY <1>2 DEF PassInv, OwnerInv, RestoredInv
<1>5. ReportedInv BY <1>2 DEF ReportedInv, Open, Settled, Running
<1> QED BY <1>1, <1>3, <1>4, <1>5 DEF Inv

LEMMA InvStep == Inv /\ [Next]_vars => Inv'
<1> SUFFICES ASSUME Inv, [Next]_vars PROVE Inv' OBVIOUS
<1>1. TypeOK' BY TypeStep DEF Inv
<1>2. CASE Next
  <2>1. ServedInv' BY <1>2, ServedWorker, ServedEnvironment DEF Inv, Next
  <2>2. PassInv' /\ OwnerInv' /\ RestoredInv' BY <1>2, PassStep, OwnerStep, RestoredStep DEF Inv
  <2>3. ReportedInv' BY <1>2, ReportedStep DEF Inv
  <2> QED BY <1>1, <2>1, <2>2, <2>3 DEF Inv
<1>3. CASE UNCHANGED vars
  <2>1. UNCHANGED <<service, config, routes, policy, queue, worker, warned, changes, missed>> BY <1>3 DEF vars, cluster
  <2>2. ServedInv'
    <3>1. \A r \in Routes : Anonymous(r)' = Anonymous(r) BY <2>1, SameCluster
    <3>2. \A r \in Routes : \A s : Answered(r, s) => Answered(r, s)' BY <2>1 DEF Answered, Handles, OnPass, Suits, Elements
    <3> QED BY <2>1, <3>1, <3>2 DEF Inv, ServedInv
  <2>p. PassInv'
    <3>1. \A r : Uses(worker.svc, r) => Uses(worker.svc, r)' BY <2>1 DEF Uses, routesOf, mergedRefs
    <3> QED BY <2>1, <3>1 DEF Inv, PassInv, Elements
  <2>3. OwnerInv'
    <3>1. \A r \in Routes : Uses(policy[r].owner, r) => Uses(policy[r].owner, r)' BY <2>1 DEF Uses, routesOf, mergedRefs
    <3> QED BY <2>1, <3>1 DEF Inv, OwnerInv
  <2>4. RestoredInv'
    <3>1. \A r \in Routes : Removes(policy[r].owner, r) => Removes(policy[r].owner, r)' BY <2>1 DEF Removes, Handles, Live, Elements
    <3> QED BY <2>1, <3>1 DEF Inv, RestoredInv
  <2>5. ReportedInv'
    <3>1. Settled' = Settled BY <2>1 DEF Settled, Running, Live, OnPass
    <3> QED BY <2>1, <3>1, FewerSettled DEF Inv
  <2> QED BY <1>1, <2>2, <2>p, <2>3, <2>4, <2>5 DEF Inv
<1> QED BY <1>2, <1>3

LEMMA InvImplies == Inv => PoliciesFollowAuth /\ MismatchReported
<1> SUFFICES ASSUME Inv, Quiet
             PROVE  /\ \A r \in Routes \ missed : Anonymous(r) # {} => policy[r] # Absent /\ (policy[r].managed => policy[r].edit # "changed")
                    /\ \A r \in Routes \ missed : policy[r] # Absent /\ policy[r].managed => Anonymous(r) # {}
                    /\ Running = Live /\ mismatch[1] # {} /\ mismatch[2] # {} =>
                         \E w \in warned : mismatch[1] \subseteq w[1] /\ mismatch[2] \subseteq w[2]
  BY DEF PoliciesFollowAuth, AnonymousServed, AuthenticationRestored, MismatchReported
<1>q. /\ queue = {} /\ worker.at = "idle"
      /\ \A s \in Services : service[s] = Absent \/ ~service[s].deleting
      /\ \A r \in Routes : policy[r] = Absent \/ ~policy[r].former
  BY DEF Quiet
<1>1. ASSUME NEW r \in Routes \ missed, Anonymous(r) # {}
      PROVE  policy[r] # Absent /\ (policy[r].managed => policy[r].edit # "changed")
  <2>1. PICK s \in Anonymous(r) : TRUE BY <1>1
  <2>2. Answered(r, s) BY <1>1 DEF Inv, ServedInv
  <2> QED BY <1>q, <2>2 DEF Answered, Handles, OnPass, Suits
<1>2. ASSUME NEW r \in Routes \ missed, policy[r] # Absent, policy[r].managed PROVE Anonymous(r) # {}
  <2>1. ~policy[r].former BY <1>q, <1>2
  <2> DEFINE o == policy[r].owner
  <2>2. o \in Services /\ Uses(o, r) /\ Removes(o, r) BY <1>2, <2>1 DEF Inv, OwnerInv, RestoredInv
  <2>3. service[o] # Absent /\ ~service[o].deleting /\ r \in routesOf(o) /\ ~service[o].stopped BY <1>q, <2>2 DEF Uses
  <2>4. ~service[o].auth BY <1>q, <2>2, <2>3 DEF Removes, Handles, Live
  <2>5. o \in Anonymous(r) BY <2>2, <2>3, <2>4 DEF Anonymous, Running, Live
  <2> QED BY <2>5
<1>3. ASSUME Running = Live, mismatch[1] # {}, mismatch[2] # {}
      PROVE  \E w \in warned : mismatch[1] \subseteq w[1] /\ mismatch[2] \subseteq w[2]
  <2>1. Settled = Live BY <1>3, <1>q DEF Settled, OnPass
  <2>2. Authenticating = mismatch[1] /\ Open = mismatch[2] BY <2>1 DEF Authenticating, Open, mismatch
  <2> QED BY <1>3, <2>2 DEF Inv, ReportedInv
<1> QED BY <1>1, <1>2, <1>3

LEMMA Invariance == Spec => []Inv
BY InitInv, InvStep, PTL DEF Spec

\* Whatever the services, the routes they share and the order of passes, failed
\* calls, restarts, edits and deletions: once httpRouteAuthPolicyProcessDelta
\* has nothing left to do, a route is anonymous exactly if a running service
\* without authentication uses it, routes no watch speaks of aside.
THEOREM PoliciesAreRight == Spec => []PoliciesFollowAuth
BY Invariance, InvImplies, PTL

\* For any group of services: once every member had its pass, reconcilePosture
\* has reported the members that disagree about authentication, all of them
\* together in one warning.
THEOREM MismatchesAreReported == Spec => []MismatchReported
BY Invariance, InvImplies, PTL

=============================================================================
