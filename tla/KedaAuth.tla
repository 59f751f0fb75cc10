------------------------------ MODULE KedaAuth ------------------------------
(***************************************************************************)
(* The KEDA Prometheus credentials (serving/reconcilers/                   *)
(* keda_prometheus_auth.go): a ServiceAccount, a Secret, a Role, a         *)
(* RoleBinding and a TriggerAuthentication that all InferenceServices and  *)
(* LLMInferenceServices of a namespace share through owner references.     *)
(* The two controllers have a worker each.  A worker reads a resource in   *)
(* one step and writes it in the next, under the API server's optimistic   *)
(* lock; the list of services that decides about deletion and each of the  *)
(* deletions that follow are steps too.                                    *)
(***************************************************************************)
EXTENDS Naturals, FiniteSets, Sequences

CONSTANTS
  Services,     \* names of services, of one namespace
  KindOf,       \* [Services -> {"isvc", "llm"}]
  Resources,    \* the shared resources, in the order of reconcile
  Annotated,    \* those that carry the annotations of the reconciled service
  Anns,         \* the annotations of services
  NoAnn,        \* no annotations
  Specs,        \* [Services -> the specs users give the service]
  Nothing,      \* no such object
  MaxKedaChanges  \* bound on changes in the cluster and on failed calls

Names == {Resources[i] : i \in 1..Len(Resources)}
Kinds == {"isvc", "llm"}

\* A service: its own spec declares a Prometheus trigger, a base
\* configuration adds one, force-stopped, annotations, deletion timestamp.
ServiceRecord ==
  [declares : BOOLEAN, inherits : BOOLEAN, stopped : BOOLEAN, ann : Anns \cup {NoAnn}, deleting : BOOLEAN]

\* An owner reference names a service that exists now or a former one.
Reference == [svc : Services, former : BOOLEAN]

ResourceRecord == [owners : SUBSET Reference, ann : Anns \cup {NoAnn}]

ASSUME KindAssumption == KindOf \in [Services -> Kinds]
ASSUME ResourcesAssumption == Resources \in Seq(STRING) /\ Len(Resources) > 0
ASSUME KedaSpecsAssumption ==
  \A s \in Services : \A svc \in Specs[s] :
    svc \in ServiceRecord /\ ~svc.deleting /\ (KindOf[s] = "isvc" => ~svc.inherits /\ ~svc.stopped)
ASSUME NothingAssumption == Nothing \notin Services \cup ServiceRecord \cup ResourceRecord
ASSUME KedaBoundAssumption == MaxKedaChanges \in Nat

VARIABLES
  svcs,      \* [Services -> ServiceRecord or Nothing]
  resource,  \* [Names -> ResourceRecord or Nothing]
  queue,     \* services waiting to be reconciled
  worker,    \* [Kinds -> position, service and what was read]
  kedaChanges,  \* changes and failures so far
  missed,    \* services whose last pass found a resource there when creating it
  lapsed     \* credentials without an owner may have lost the pass that deletes them

kedaVars == <<svcs, resource, queue, worker, kedaChanges, missed, lapsed>>

Idle == [at |-> "idle", svc |-> Nothing, i |-> 1, seen |-> Nothing, ann |-> NoAnn,
         former |-> FALSE, upsert |-> FALSE, deleting |-> FALSE, last |-> FALSE, failed |-> FALSE]

WorkerRecord ==
  [at : {"idle", "check", "read", "write", "list", "delete", "last", "finish", "error"},
   svc : Services \cup {Nothing}, i : 1..Len(Resources), seen : ResourceRecord \cup {Nothing},
   ann : Anns \cup {NoAnn}, former : BOOLEAN, upsert : BOOLEAN, deleting : BOOLEAN, last : BOOLEAN, failed : BOOLEAN]

KedaTypeOK ==
  /\ svcs \in [Services -> ServiceRecord \cup {Nothing}]
  /\ resource \in [Names -> ResourceRecord \cup {Nothing}]
  /\ queue \subseteq Services
  /\ worker \in [Kinds -> WorkerRecord]
  /\ \A k \in Kinds :
       IF worker[k].at = "idle" THEN worker[k].svc = Nothing
       ELSE worker[k].svc \in Services /\ KindOf[worker[k].svc] = k
  /\ kedaChanges \in 0..MaxKedaChanges
  /\ missed \subseteq Services
  /\ lapsed \in BOOLEAN

Active == {s \in Services : svcs[s] # Nothing /\ ~svcs[s].deleting}

\* reconcile sees the spec merged with the base configurations, the cleanup
\* sees the spec the service declares itself.
Needs(s) == svcs[s].declares \/ svcs[s].inherits

KedaChange == kedaChanges < MaxKedaChanges /\ kedaChanges' = kedaChanges + 1

at(k, step) == worker' = [worker EXCEPT ![k].at = step]

\* The watches reach every owner of a resource, old or new.
ownersOf(r) == IF r = Nothing THEN {} ELSE {ref.svc : ref \in r.owners}

put(n, r) ==
  /\ resource' = [resource EXCEPT ![n] = r]
  /\ queue' = queue \cup IF r = resource[n] THEN {} ELSE ownersOf(resource[n]) \cup ownersOf(r)

---------------------------------------------------------------------------
(* One pass of a controller. *)

KedaInit ==
  /\ svcs = [s \in Services |-> Nothing]
  /\ resource = [n \in Names |-> Nothing]
  /\ queue = {}
  /\ worker = [k \in Kinds |-> Idle]
  /\ kedaChanges = 0
  /\ missed = {}
  /\ lapsed = FALSE

\* A stopped LLMInferenceService is left alone; an InferenceService that is
\* gone may have been the last of its namespace.
Reconcile(s) ==
  LET k == KindOf[s]
      svc == svcs[s]
      start == [Idle EXCEPT !.svc = s, !.ann = svc.ann, !.deleting = svc.deleting]
      notFound == IF k = "isvc" THEN [Idle EXCEPT !.svc = s, !.at = "last"] ELSE Idle
  IN  /\ worker[k].at = "idle"
      /\ s \in queue
      /\ queue' = queue \ {s}
      /\ worker' = [worker EXCEPT ![k] =
           IF svc = Nothing THEN notFound
           ELSE IF svc.deleting THEN [start EXCEPT !.at = "check"]
           ELSE IF k = "llm" /\ svc.stopped THEN Idle
           ELSE IF Needs(s) THEN [start EXCEPT !.at = "read", !.upsert = TRUE]
           ELSE [start EXCEPT !.at = "check"]]
      /\ missed' = missed \ {s}
      /\ UNCHANGED <<svcs, resource, kedaChanges, lapsed>>

Get(k) ==
  /\ worker[k].at = "read"
  /\ worker' = [worker EXCEPT ![k].at = "write", ![k].seen = resource[Resources[worker[k].i]]]
  /\ UNCHANGED <<svcs, resource, queue, kedaChanges, missed, lapsed>>

\* Where a pass goes once the service's references are dealt with.  Errors do
\* not keep a deleted InferenceService from the cleanup of the namespace.
onward(w) ==
  IF w.deleting /\ ~w.last /\ (w.failed => KindOf[w.svc] = "isvc") THEN "last"
  ELSE IF w.failed THEN "error"
  ELSE "finish"

\* The ServiceAccount stands for the whole set.
removeOwnerReferenceIfPresent(k) ==
  /\ worker[k].at = "check"
  /\ at(k, IF resource[Resources[1]] # Nothing THEN "read" ELSE onward(worker[k]))
  /\ UNCHANGED <<svcs, resource, queue, kedaChanges, missed, lapsed>>

\* Where the worker goes after the last resource of a loop.
after(w) ==
  IF w.upsert THEN "finish"
  ELSE IF w.at # "delete" /\ ~w.failed THEN "list"
  ELSE onward(w)

\* On to the next resource, or out of the loop.
step(w) ==
  IF w.i < Len(Resources)
  THEN [w EXCEPT !.i = @ + 1, !.seen = Nothing, !.at = IF w.at = "delete" THEN "delete" ELSE "read"]
  ELSE [w EXCEPT !.i = 1, !.seen = Nothing, !.at = after(w)]

advance(k) == worker' = [worker EXCEPT ![k] = step(worker[k])]

\* The reference of the same name is replaced, its uid may be new.
upsertOwnerReference(ref, owners) == {o \in owners : o.svc # ref.svc} \cup {ref}

annotations(n, ann) == IF n \in Annotated THEN ann ELSE NoAnn

\* What the service's reconcile expects of a resource it has read.
expected(k, n) ==
  LET w == worker[k]
      ref == [svc |-> w.svc, former |-> w.former]
  IN  [owners |-> IF w.seen = Nothing THEN {ref} ELSE upsertOwnerReference(ref, w.seen.owners),
       ann |-> annotations(n, w.ann)]

\* Mutant: the annotations are compared exactly.
upToDate_exact(k, n) ==
  LET want == expected(k, n) IN worker[k].seen.owners = want.owners /\ want.ann = worker[k].seen.ann

\* DeepDerivative: a service without annotations accepts any.
upToDate(k, n) ==
  LET want == expected(k, n) IN worker[k].seen.owners = want.owners /\ want.ann \in {NoAnn, worker[k].seen.ann}

retry(k) == at(k, "read") /\ UNCHANGED <<resource, queue, missed>>

giveUp(k) ==
  /\ worker' = [worker EXCEPT ![k] = Idle]
  /\ queue' = queue \cup {worker[k].svc}

\* Create or update one resource.  A create that finds the resource there is
\* taken for done; a conflicting update reads again; one that finds the
\* resource gone fails.
reconcile(k) ==
  LET n == Resources[worker[k].i]
      s == worker[k].svc
      seen == worker[k].seen
  IN  /\ worker[k].at = "write"
      /\ worker[k].upsert
      /\ \/ /\ seen = Nothing
            /\ advance(k)
            /\ IF resource[n] = Nothing
               THEN put(n, expected(k, n)) /\ UNCHANGED missed
               ELSE missed' = missed \cup {s} /\ UNCHANGED <<resource, queue>>
         \/ /\ seen # Nothing
            /\ upToDate(k, n)
            /\ advance(k)
            /\ UNCHANGED <<resource, queue, missed>>
         \/ /\ seen # Nothing
            /\ ~upToDate(k, n)
            /\ \/ resource[n] = seen /\ advance(k) /\ put(n, expected(k, n)) /\ UNCHANGED missed
               \/ resource[n] \notin {seen, Nothing} /\ retry(k)
               \/ resource[n] = Nothing /\ giveUp(k) /\ UNCHANGED <<resource, missed>>
      /\ UNCHANGED <<svcs, kedaChanges, lapsed>>

\* Remove the service's reference, by uid, from one resource.
removeOwnerReferenceFromObject(k) ==
  LET n == Resources[worker[k].i]
      seen == worker[k].seen
      owners == IF seen = Nothing THEN {} ELSE seen.owners
      rest == owners \ {[svc |-> worker[k].svc, former |-> worker[k].former]}
  IN  /\ worker[k].at = "write"
      /\ ~worker[k].upsert
      /\ \/ /\ rest = owners \/ resource[n] = Nothing
            /\ advance(k)
            /\ UNCHANGED <<resource, queue, missed>>
         \/ /\ rest # owners
            /\ resource[n] # Nothing
            /\ \/ resource[n] = seen /\ advance(k) /\ put(n, [seen EXCEPT !.owners = rest]) /\ UNCHANGED missed
               \/ resource[n] # seen /\ retry(k)
      /\ UNCHANGED <<svcs, kedaChanges, lapsed>>

\* Mutant: a service that is being deleted counts.
inUse_deleting == \E s \in Services : svcs[s] # Nothing /\ svcs[s].declares

\* Does a service that is not being deleted still ask for the credentials?
inUse == \E s \in Active : svcs[s].declares

cleanupNamespaceIfUnused(k) ==
  /\ worker[k].at = "list"
  /\ at(k, IF inUse THEN onward(worker[k]) ELSE "delete")
  /\ UNCHANGED <<svcs, resource, queue, kedaChanges, missed, lapsed>>

cleanupNamespace(k) ==
  /\ worker[k].at = "delete"
  /\ put(Resources[worker[k].i], Nothing)
  /\ advance(k)
  /\ UNCHANGED <<svcs, kedaChanges, missed, lapsed>>

\* DeleteResourcesIfNoIsvcExists and DeleteResourcesIfNoLLMIsvcExists: the
\* last service of its kind runs the cleanup of the namespace once more.
DeleteResourcesIfNoneExists(k) ==
  /\ worker[k].at = "last"
  /\ worker' = [worker EXCEPT ![k].at = IF ~\E s \in Active : KindOf[s] = k THEN "list"
                                        ELSE IF worker[k].failed THEN "error" ELSE "finish",
                              ![k].last = TRUE]
  /\ UNCHANGED <<svcs, resource, queue, kedaChanges, missed, lapsed>>

\* The references to a service that is gone dangle.
dangling(r, s) ==
  IF r = Nothing THEN Nothing
  ELSE [r EXCEPT !.owners = {IF o.svc = s THEN [o EXCEPT !.former = TRUE] ELSE o : o \in @}]

gone(s, w) ==
  /\ svcs' = [svcs EXCEPT ![s] = Nothing]
  /\ queue' = queue \cup {s}
  /\ resource' = [n \in Names |-> dangling(resource[n], s)]
  /\ worker' = [k \in Kinds |-> [w[k] EXCEPT !.seen = dangling(@, s), !.former = @ \/ w[k].svc = s]]

\* The end of a pass; a deleted InferenceService loses its finalizer.
Finish(k) ==
  LET idle == [worker EXCEPT ![k] = Idle]
  IN  /\ worker[k].at = "finish"
      /\ IF k = "isvc" /\ worker[k].deleting
         THEN gone(worker[k].svc, idle)
         ELSE worker' = idle /\ UNCHANGED <<svcs, resource, queue>>
      /\ UNCHANGED <<kedaChanges, missed, lapsed>>

\* A pass with errors comes back.
Fail(k) ==
  /\ worker[k].at = "error"
  /\ giveUp(k)
  /\ UNCHANGED <<svcs, resource, kedaChanges, missed, lapsed>>

\* reconcile stops at the first error.  The removal of references and the
\* deletion go on to the next resource and return their errors at the end.
CallFails(k) ==
  LET w == [worker[k] EXCEPT !.failed = TRUE]
  IN  /\ w.at \notin {"idle", "error"}
      /\ KedaChange
      /\ \/ /\ w.upsert \/ w.at \in {"last", "finish"}
            /\ giveUp(k)
         \/ /\ ~w.upsert
            /\ w.at \in {"check", "list"}
            /\ worker' = [worker EXCEPT ![k] = [w EXCEPT !.at = onward(w)]]
            /\ UNCHANGED queue
         \/ /\ ~w.upsert
            /\ w.at \in {"read", "write", "delete"}
            /\ worker' = [worker EXCEPT ![k] = step(w)]
            /\ UNCHANGED queue
      /\ lapsed' = (lapsed \/ ~w.upsert)
      /\ UNCHANGED <<svcs, resource, missed>>

KedaRestart ==
  /\ KedaChange
  /\ lapsed' = (lapsed \/ \E k \in Kinds : worker[k].at # "idle" /\ ~worker[k].upsert)
  /\ worker' = [k \in Kinds |-> Idle]
  /\ queue' = {s \in Services : svcs[s] # Nothing}
  /\ UNCHANGED <<svcs, resource, missed>>

---------------------------------------------------------------------------
(* Changes in the cluster. *)

CreateService(s, svc) ==
  /\ KedaChange
  /\ svcs[s] = Nothing
  /\ svcs' = [svcs EXCEPT ![s] = svc]
  /\ queue' = queue \cup {s}
  /\ UNCHANGED <<resource, worker, missed, lapsed>>

UpdateService(s, svc) ==
  /\ KedaChange
  /\ s \in Active
  /\ svcs[s] # svc
  /\ svcs' = [svcs EXCEPT ![s] = svc]
  /\ queue' = queue \cup {s}
  /\ UNCHANGED <<resource, worker, missed, lapsed>>

DeleteService(s) ==
  /\ KedaChange
  /\ s \in Active
  /\ svcs' = [svcs EXCEPT ![s].deleting = TRUE]
  /\ queue' = queue \cup {s}
  /\ UNCHANGED <<resource, worker, missed, lapsed>>

\* The finalizers of an LLMInferenceService belong to other controllers,
\* which do not wait for this one.
ServiceGone(s) ==
  /\ KindOf[s] = "llm"
  /\ svcs[s] # Nothing
  /\ svcs[s].deleting
  /\ gone(s, worker)
  /\ lapsed' = (lapsed \/ \E n \in Names : resource[n] # Nothing /\ ownersOf(resource[n]) = {})
  /\ UNCHANGED <<kedaChanges, missed>>

DeleteResource(n) ==
  /\ KedaChange
  /\ resource[n] # Nothing
  /\ put(n, Nothing)
  /\ UNCHANGED <<svcs, worker, missed, lapsed>>

\* The garbage collector deletes a resource none of whose owners exists, and
\* drops dangling references from one that has another owner.
Collect(n) ==
  /\ resource[n] # Nothing
  /\ \E o \in resource[n].owners : o.former
  /\ LET present == {o \in resource[n].owners : ~o.former}
     IN  put(n, IF present = {} THEN Nothing ELSE [resource[n] EXCEPT !.owners = present])
  /\ UNCHANGED <<svcs, worker, kedaChanges, missed, lapsed>>

Environment ==
  \/ \E s \in Services :
       \/ DeleteService(s)
       \/ \E svc \in Specs[s] : CreateService(s, svc) \/ UpdateService(s, svc)
  \/ \E n \in Names : DeleteResource(n)
  \/ \E k \in Kinds : CallFails(k)
  \/ KedaRestart

Worker(k) ==
  \/ \E s \in Services : KindOf[s] = k /\ Reconcile(s)
  \/ removeOwnerReferenceIfPresent(k)
  \/ Get(k)
  \/ reconcile(k)
  \/ removeOwnerReferenceFromObject(k)
  \/ cleanupNamespaceIfUnused(k)
  \/ cleanupNamespace(k)
  \/ DeleteResourcesIfNoneExists(k)
  \/ Finish(k)
  \/ Fail(k)

Cluster == (\E s \in Services : ServiceGone(s)) \/ (\E n \in Names : Collect(n))

KedaNext == (\E k \in Kinds : Worker(k)) \/ Cluster \/ Environment

KedaSpec == KedaInit /\ [][KedaNext]_kedaVars

\* Both workers, the garbage collector and the other finalizers' controllers
\* keep running, and the queues are first in first out.
FairKedaSpec ==
  /\ KedaSpec
  /\ \A k \in Kinds : WF_kedaVars(Worker(k))
  /\ \A s \in Services : SF_kedaVars(Reconcile(s))
  /\ WF_kedaVars(Cluster)

---------------------------------------------------------------------------
(* Properties. *)

Quiet ==
  /\ queue = {}
  /\ \A k \in Kinds : worker[k].at = "idle"
  /\ \A s \in Services : svcs[s] = Nothing \/ ~svcs[s].deleting
  /\ \A n \in Names : resource[n] = Nothing \/ \A o \in resource[n].owners : ~o.former

Running == {s \in Active : ~(KindOf[s] = "llm" /\ svcs[s].stopped)}

\* When both controllers have nothing left to do, a running service that
\* needs the credentials co-owns every one of them, whoever else created,
\* shared, released or cleaned them up meanwhile.
CredentialsComplete ==
  Quiet => \A s \in Running \ missed : Needs(s) =>
    \A n \in Names : resource[n] # Nothing /\ [svc |-> s, former |-> FALSE] \in resource[n].owners

\* When both controllers have nothing left to do, no service needs the
\* credentials and none is stopped, the ServiceAccount, and the access it
\* gives, is gone from the namespace, unless the pass that was to delete it
\* after its last owner reference had gone failed, or found its
\* LLMInferenceService gone.  A stopped service is left alone: it keeps its
\* references until it runs again or is deleted.
CredentialsRemoved ==
  (Quiet /\ ~lapsed /\ \A s \in Active : s \in Running /\ ~Needs(s)) => resource[Resources[1]] = Nothing

\* At rest, the namespace has the credentials exactly if a service needs them,
\* and then complete and co-owned by every service that does: no worker's
\* write drops another's reference, and no cleanup races an addition.
CredentialsFollowNeed == CredentialsComplete /\ CredentialsRemoved

\* Services that need the credentials and carry different annotations.
AnnotationsDiffer ==
  \E s, t \in Running : Needs(s) /\ Needs(t) /\ svcs[s].ann # svcs[t].ann /\ NoAnn \notin {svcs[s].ann, svcs[t].ann}

\* Once the cluster stops changing both workers come to rest: co-owners whose
\* annotations agree do not keep updating the resources they share.
KedaComesToRest == <>[](Quiet \/ AnnotationsDiffer)
=============================================================================
