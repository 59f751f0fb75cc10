------------------------------- MODULE Admission -------------------------------
(***************************************************************************)
(* The admission of InferenceServices and LLMInferenceServices: the       *)
(* mutating webhooks (connections first, HardwareProfile second) and the   *)
(* validating ones, over a sequence of requests between which the          *)
(* connection Secrets and the HardwareProfiles change.                     *)
(*                                                                         *)
(* The model follows one service of one of the two kinds. "shape" is what  *)
(* a profile's resources are put in: for an InferenceService "main" says   *)
(* that predictor.model is set and "none" that it is nil; for an           *)
(* LLMInferenceService it says whether the template has no container, a    *)
(* container "main", or only others. The deprecated spelling of a          *)
(* connection type (uri-v1, oci-v1) is the type it stands for. A node      *)
(* selector is one value per key, a resource list the count of one         *)
(* resource (0 when the resource is absent).                               *)
(***************************************************************************)
EXTENDS Integers, Sequences, FiniteSets

CONSTANTS
    Kinds,        \* the kinds of services checked: "isvc", "llm"
    Secrets,      \* names of connection Secrets
    SecretSpecs,  \* [type, data]: what a connection Secret may hold
    Profiles,     \* names of HardwareProfiles
    Namespaces,   \* the namespaces profiles live in; Home among them
    Home,         \* the namespace of the service
    ProfileSpecs, \* what a HardwareProfile may ask for
    FirstSecrets, \* the Secrets, and
    FirstProfiles,\* the HardwareProfiles, there may be at first
    Manifests,    \* the services users create
    Edits(_),     \* what an update may turn a stored service into
    Templates,    \* the ResourceClaimTemplates of the namespace
    Own,          \* a value users put in a field themselves
    None,         \* an empty name, annotation or field
    Absent,       \* an object that does not exist
    MaxChanges    \* requests and changes of Secrets and profiles explored

VARIABLES
    kind,         \* the kind of the service
    service,      \* the stored service, or Absent
    secret,       \* the connection Secrets
    profile,      \* the HardwareProfiles, by name and namespace
    accounts,     \* Secrets whose ServiceAccount <secret>-sa exists
    changes,      \* changes made so far
    history       \* what the checked properties except; see Update

vars == <<kind, service, secret, profile, accounts, changes, history>>

Types == {"s3", "uri", "oci"}

Nowhere == [from |-> None, value |-> None, path |-> None]

(* The fields of a service the two webhooks read or write. "uri" is        *)
(* storageUri or spec.model.uri with the place it was taken from.          *)
ServiceFields ==
    {"conn", "path", "injected", "sa", "pull", "uri", "key", "storagePath", "profile", "profileNs",
     "nodes", "tols", "queue", "requests", "limits", "podClaim", "claim", "managed", "shape",
     "canaries", "deleting"}

Clean == [retyped |-> FALSE, overridden |-> FALSE, reshaped |-> FALSE, skipped |-> FALSE]

-----------------------------------------------------------------------------
(***************************************************************************)
(* Connections.                                                            *)
(***************************************************************************)
NoConnection == [name |-> None, type |-> None, path |-> None]

connectionType(s) ==
    IF secret[s].type = "unlabelled" THEN None ELSE secret[s].type

(* The connection the annotations of an incoming service name, and whether *)
(* it can be used.                                                         *)
ValidateConnectionAnnotation(svc) ==
    svc.conn # None =>
        /\ secret[svc.conn] # Absent
        /\ connectionType(svc.conn) \in Types

newConnection(svc) ==
    IF svc.conn = None THEN NoConnection
    ELSE [name |-> svc.conn, type |-> connectionType(svc.conn), path |-> svc.path]

GetOldConnectionInfo_missing(old) ==
    IF old.conn = None \/ secret[old.conn] = Absent THEN NoConnection
    ELSE [name |-> old.conn, path |-> old.path, type |-> connectionType(old.conn)]

(* The type of the old connection is the one its Secret has NOW; what was  *)
(* injected is remembered only for a Secret that is gone.                  *)
GetOldConnectionInfo(old) ==
    IF old.conn = None THEN NoConnection
    ELSE [name |-> old.conn, path |-> old.path,
          type |-> IF secret[old.conn] = Absent THEN old.injected ELSE connectionType(old.conn)]

DetermineAction(oldConn, newConn) ==
    CASE oldConn.name # None /\ newConn.name = None -> "remove"
      [] oldConn.name = None /\ newConn.name = None -> "none"
      [] oldConn.name = None /\ newConn.name # None -> "inject"
      [] OTHER ->
            IF \/ oldConn.type # newConn.type
               \/ oldConn.name # newConn.name
               \/ newConn.type = "s3" /\ oldConn.path # newConn.path
            THEN "replace" ELSE "none"

InjectServiceAccountName(name, s) ==
    IF name = None THEN s ELSE name

RemoveServiceAccountName_always(name, s) == None

RemoveServiceAccountName(name, s) ==
    IF name = s THEN None ELSE name

without(list, entries) == SelectSeq(list, LAMBDA e : e \notin entries)

entriesOf(list) == {list[i] : i \in DOMAIN list}

InjectOCIImagePullSecrets(list, s) ==
    IF s \in entriesOf(list) THEN list ELSE Append(list, s)

(* Why an injection refuses the request.                                   *)
injectable(c) ==
    /\ c.type = "uri" => secret[c.name].data # None
    /\ c.type = "s3" /\ kind = "llm" => secret[c.name].data # None /\ c.path # None

performISVCInjection(svc, old, c) ==
    LET oldPath == IF old = Absent THEN None ELSE old.storagePath
    IN  CASE c.type = "oci" ->
                [svc EXCEPT !.pull = InjectOCIImagePullSecrets(@, c.name), !.injected = c.type]
          [] c.type = "uri" ->
                [svc EXCEPT !.uri = [from |-> c.name, value |-> secret[c.name].data, path |-> None],
                            !.shape = "main", !.injected = c.type]
          [] c.type = "s3" ->
                [svc EXCEPT !.sa = InjectServiceAccountName(@, c.name),
                            !.shape = "main",
                            !.key = c.name,
                            !.storagePath = IF @ # None THEN @
                                            ELSE IF c.path # None THEN c.path ELSE oldPath,
                            !.injected = c.type]

performLLMISVCInjection(svc, c) ==
    CASE c.type = "oci" ->
            [svc EXCEPT !.pull = InjectOCIImagePullSecrets(@, c.name), !.injected = c.type]
      [] c.type = "uri" ->
            [svc EXCEPT !.uri = [from |-> c.name, value |-> secret[c.name].data, path |-> None],
                        !.injected = c.type]
      [] c.type = "s3" ->
            [svc EXCEPT !.sa = InjectServiceAccountName(@, c.name),
                        !.uri = [from |-> c.name, value |-> secret[c.name].data, path |-> c.path],
                        !.injected = c.type]

(* A type outside the three removes nothing, no type at all removes        *)
(* everything. An InferenceService keeps an S3 location apart from a       *)
(* storageUri, an LLMInferenceService has one field for both.              *)
performISVCCleanup(svc, c) ==
    LET s3 == c.type \in {"s3", None}
    IN  [svc EXCEPT
            !.sa = IF s3 THEN RemoveServiceAccountName(@, c.name) ELSE @,
            !.key = IF s3 THEN None ELSE @,
            !.storagePath = IF s3 THEN None ELSE @,
            !.uri = IF c.type \in {"uri", None} THEN Nowhere ELSE @,
            !.pull = IF c.type \in {"oci", None} THEN without(@, {c.name}) ELSE @,
            !.injected = None]

performLLMISVCCleanup(svc, c) ==
    [svc EXCEPT
        !.sa = IF c.type \in {"s3", None} THEN RemoveServiceAccountName(@, c.name) ELSE @,
        !.uri = IF c.type \in {"s3", "uri", None} THEN Nowhere ELSE @,
        !.pull = IF c.type \in {"oci", None} THEN without(@, {c.name}) ELSE @,
        !.injected = None]

connectionAction(svc, old) ==
    IF old # Absent THEN DetermineAction(GetOldConnectionInfo(old), newConnection(svc))
    ELSE IF svc.conn = None THEN "none" ELSE "inject"

connectionsAdmit_always(svc, old) ==
    /\ ValidateConnectionAnnotation(svc)
    /\ connectionAction(svc, old) \in {"inject", "replace"} => injectable(newConnection(svc))

(* Whether the connection part of a webhook lets a request through; a      *)
(* service that is being deleted it does not look at.                      *)
connectionsAdmit(svc, old) ==
    ~svc.deleting =>
        /\ ValidateConnectionAnnotation(svc)
        /\ connectionAction(svc, old) \in {"inject", "replace"} => injectable(newConnection(svc))

(* What was injected for the old connection goes before what the new one   *)
(* needs is injected.                                                      *)
applyConnectionsAPI_injectFirst(svc, old) ==
    LET action == connectionAction(svc, old)
        injected == IF action \in {"inject", "replace"}
                    THEN performISVCInjection(svc, old, newConnection(svc)) ELSE svc
    IN  IF svc.deleting THEN svc
        ELSE IF action \in {"remove", "replace"}
             THEN performISVCCleanup(injected, GetOldConnectionInfo(old))
        ELSE injected

applyConnectionsAPI(svc, old) ==
    LET action == connectionAction(svc, old)
        removed == IF action \in {"remove", "replace"}
                   THEN performISVCCleanup(svc, GetOldConnectionInfo(old)) ELSE svc
    IN  IF svc.deleting THEN svc
        ELSE IF action \in {"inject", "replace"}
             THEN performISVCInjection(removed, old, newConnection(svc))
        ELSE removed

applyLLMISVCDefaults(svc, old) ==
    LET action == connectionAction(svc, old)
        removed == IF action \in {"remove", "replace"}
                   THEN performLLMISVCCleanup(svc, GetOldConnectionInfo(old)) ELSE svc
    IN  IF svc.deleting THEN svc
        ELSE IF action \in {"inject", "replace"}
             THEN performLLMISVCInjection(removed, newConnection(svc))
        ELSE removed

connected(svc, old) ==
    IF kind = "isvc" THEN applyConnectionsAPI(svc, old) ELSE applyLLMISVCDefaults(svc, old)

(* The ServiceAccount is made before the fields are injected, and stays    *)
(* when the request is refused afterwards. A dry run makes none.           *)
CreateServiceAccountIfNeeded(svc, old, dryRun) ==
    IF /\ ~svc.deleting
       /\ ValidateConnectionAnnotation(svc)
       /\ connectionAction(svc, old) \in {"inject", "replace"}
       /\ newConnection(svc).type = "s3"
       /\ ~dryRun
    THEN {svc.conn} ELSE {}

-----------------------------------------------------------------------------
(***************************************************************************)
(* Hardware profiles.                                                      *)
(***************************************************************************)
ProfileRef(svc) ==
    [name |-> svc.profile, ns |-> IF svc.profileNs = None THEN Home ELSE svc.profileNs]

ProfileReferenceChanged(old, svc, initialAssignmentChanged) ==
    IF old = Absent \/ (old # Absent /\ ProfileRef(old).name = None)
    THEN initialAssignmentChanged /\ ProfileRef(svc).name # None
    ELSE ProfileRef(svc).name = None \/ ProfileRef(svc) # ProfileRef(old)

(* A profile cannot be resolved when it is missing or a count is invalid.  *)
resolvable(ref) ==
    profile[ref] # Absent /\ ~profile[ref].invalid

(* A profile with a Kueue queue has no node scheduling.                    *)
parseProfile(ref) ==
    IF profile[ref].queue # None
    THEN [profile[ref] EXCEPT !.nodes = [k \in DOMAIN @ |-> None], !.tols = <<>>]
    ELSE profile[ref]

oldProfileSelected(old) == old # Absent /\ old.profile # None

(* A claim "hwp-dra" that is not the profile's refuses the first profile.  *)
claimFree(svc, old, template) ==
    \/ oldProfileSelected(old)
    \/ svc.podClaim = template
    \/ svc.podClaim = None /\ ~svc.claim

(* The claims are only touched when the reference changes, and need a      *)
(* model to go to, or a container "main", which is made if there is none   *)
(* at all.                                                                 *)
reconcileISVCHardwareProfileDRA(svc, old, template) ==
    ProfileReferenceChanged(old, svc, TRUE) /\ template # None =>
        svc.shape = "main" /\ claimFree(svc, old, template)

reconcileLLMHardwareProfileDRA(svc, old, template) ==
    ProfileReferenceChanged(old, svc, TRUE) /\ template # None =>
        svc.shape # "other" /\ claimFree(svc, old, template)

ReconcileDRAClaims(svc, old, template) ==
    IF ~ProfileReferenceChanged(old, svc, TRUE) THEN svc
    ELSE IF template # None
         THEN [svc EXCEPT !.podClaim = template, !.claim = TRUE, !.shape = "main"]
    ELSE IF oldProfileSelected(old) THEN [svc EXCEPT !.podClaim = None, !.claim = FALSE]
    ELSE svc

HasDRAClaim(svc) == svc.podClaim # None \/ svc.claim

(* An LLMInferenceService with KServe's own DRA annotation takes no        *)
(* profile with claims.                                                    *)
applyLLMHardwareProfileDRA(svc, old, template) ==
    /\ svc.managed =>
          ~IF ProfileReferenceChanged(old, svc, TRUE) THEN template # None
           ELSE svc.profile # None /\ HasDRAClaim(svc)
    /\ reconcileLLMHardwareProfileDRA(svc, old, template)

(* Requests and limits are filled in separately, and never replaced.       *)
ApplyToIsvcResources(svc, p) ==
    LET requests == IF svc.requests = 0 THEN p.count ELSE svc.requests
    IN  IF p.count = 0 \/ svc.shape # "main" THEN svc
        ELSE [svc EXCEPT !.requests = requests, !.limits = IF @ = 0 THEN requests ELSE @]

ApplyToLLMIsvcResources(svc, p) ==
    IF p.count = 0 THEN svc
    ELSE ApplyToIsvcResources([svc EXCEPT !.shape = IF @ = "none" THEN "main" ELSE @], p)

MergeNodeScheduling_doubled(svc, p) ==
    [svc EXCEPT !.nodes = [k \in DOMAIN @ |-> IF p.nodes[k] # None THEN p.nodes[k] ELSE @[k]],
                !.tols = p.tols \o @]

MergeNodeScheduling(svc, p) ==
    [svc EXCEPT !.nodes = [k \in DOMAIN @ |-> IF p.nodes[k] # None THEN p.nodes[k] ELSE @[k]],
                !.tols = p.tols \o without(@, entriesOf(p.tols))]

SetNodeScheduling(svc, p) ==
    [svc EXCEPT !.nodes = p.nodes, !.tols = p.tols]

RemoveNodeScheduling(svc, p) ==
    [svc EXCEPT !.nodes = [k \in DOMAIN @ |-> IF @[k] = p.nodes[k] THEN None ELSE @[k]],
                !.tols = without(@, entriesOf(p.tols))]

(* The old profile is read as it is now; one that cannot be resolved       *)
(* leaves its stanzas behind.                                              *)
handleHWPRemovalISVC(svc, old) ==
    LET ref == ProfileRef(old)
        p == parseProfile(ref)
        removed == [RemoveNodeScheduling(svc, p) EXCEPT !.queue = IF p.queue # None THEN None ELSE @]
    IN  IF ~oldProfileSelected(old) THEN svc
        ELSE [(IF resolvable(ref) THEN removed ELSE svc) EXCEPT !.profileNs = None]

(* The same, on the template.                                              *)
handleHWPRemovalLLMISVC(svc, old) == handleHWPRemovalISVC(svc, old)

ProfileChanged(old, svc) ==
    ProfileReferenceChanged(old, svc, FALSE)

cleared_never(svc, old) == svc

(* A changed reference clears what the old profile and the user asked for  *)
(* before the new profile is applied.                                      *)
cleared(svc, old) ==
    IF ProfileChanged(old, svc)
    THEN [svc EXCEPT !.nodes = [k \in DOMAIN @ |-> None], !.tols = <<>>, !.queue = None]
    ELSE svc

ApplyKueueLabel(svc, p) == [svc EXCEPT !.queue = p.queue]

templateOf(svc) ==
    IF svc.profile = None THEN None ELSE parseProfile(ProfileRef(svc)).template

applyHardwareProfile(svc, old) ==
    LET p == parseProfile(ProfileRef(svc))
        claimed == ReconcileDRAClaims(svc, old, templateOf(svc))
        stamped == [claimed EXCEPT !.profileNs = ProfileRef(svc).ns]
        sized == ApplyToIsvcResources(cleared(stamped, old), p)
    IN  IF svc.deleting THEN svc
        ELSE IF svc.profile = None THEN handleHWPRemovalISVC(claimed, old)
        ELSE IF p.queue # None THEN ApplyKueueLabel(sized, p)
        ELSE IF ProfileChanged(old, svc) THEN SetNodeScheduling(sized, p)
        ELSE MergeNodeScheduling(sized, p)

(* An LLMInferenceService whose containers do not include "main" only gets *)
(* a warning event.                                                        *)
emitContainerValidationEvent(svc) == svc.shape = "other"

asksForNodes(p) == p.tols # <<>> \/ \E k \in DOMAIN p.nodes : p.nodes[k] # None

applyHardwareProfileLLMISVC(svc, old) ==
    LET p == parseProfile(ProfileRef(svc))
        claimed == ReconcileDRAClaims(svc, old, templateOf(svc))
        stamped == [claimed EXCEPT !.profileNs = ProfileRef(svc).ns]
        sized == ApplyToLLMIsvcResources(cleared(stamped, old), p)
    IN  IF svc.deleting THEN svc
        ELSE IF svc.profile = None THEN handleHWPRemovalLLMISVC(claimed, old)
        ELSE IF emitContainerValidationEvent(claimed) THEN stamped
        ELSE IF p.queue # None THEN ApplyKueueLabel(sized, p)
        ELSE IF ~asksForNodes(p) THEN sized
        ELSE IF ProfileChanged(old, svc) THEN SetNodeScheduling(sized, p)
        ELSE MergeNodeScheduling(sized, p)

profileAdmits(svc, old) ==
    ~svc.deleting =>
        /\ svc.profile # None => resolvable(ProfileRef(svc))
        /\ IF kind = "isvc" THEN reconcileISVCHardwareProfileDRA(svc, old, templateOf(svc))
           ELSE applyLLMHardwareProfileDRA(svc, old, templateOf(svc))

-----------------------------------------------------------------------------
(***************************************************************************)
(* The validating webhooks see what the mutating ones made of the service. *)
(***************************************************************************)
MaxCanaryCount == 3

validateCanaryCount(svc) == svc.canaries <= MaxCanaryCount

ValidateResourceClaimTemplate(template) == template \in Templates

validateISVCHardwareProfileDRA(svc, old) ==
    svc.profile # None /\ ProfileReferenceChanged(old, svc, TRUE) =>
        /\ resolvable(ProfileRef(svc))
        /\ templateOf(svc) # None =>
              svc.shape = "main" /\ ValidateResourceClaimTemplate(templateOf(svc))

(* An LLMInferenceService with claims is validated at every update.        *)
validateLLMHardwareProfileDRA(svc, old) ==
    LET changed == ProfileReferenceChanged(old, svc, TRUE)
        active == IF changed THEN templateOf(svc) # None ELSE HasDRAClaim(svc)
    IN  svc.profile # None =>
            /\ changed => resolvable(ProfileRef(svc))
            /\ active =>
                  /\ ~svc.managed /\ svc.shape # "other"
                  /\ changed => ValidateResourceClaimTemplate(templateOf(svc))

(* Whether a request is admitted, and as what it is stored.                *)
Default(svc, old) ==
    IF kind = "isvc" THEN applyHardwareProfile(connected(svc, old), old)
    ELSE applyHardwareProfileLLMISVC(connected(svc, old), old)

validated(svc, old) ==
    IF kind = "isvc" THEN validateCanaryCount(svc) /\ validateISVCHardwareProfileDRA(svc, old)
    ELSE validateLLMHardwareProfileDRA(svc, old)

admitted(svc, old) ==
    /\ connectionsAdmit(svc, old)
    /\ profileAdmits(connected(svc, old), old)
    /\ validated(Default(svc, old), old)

-----------------------------------------------------------------------------
(***************************************************************************)
(* Requests, and what changes between them. A refused request and a dry    *)
(* run store nothing.                                                      *)
(***************************************************************************)
Init ==
    /\ kind \in Kinds
    /\ service = Absent
    /\ secret \in FirstSecrets
    /\ profile \in FirstProfiles
    /\ accounts = {}
    /\ changes = 0
    /\ history = Clean

Change == changes < MaxChanges /\ changes' = changes + 1

(* A creation in the application namespace, or under too long a name, is   *)
(* refused and is not a step of this model.                                *)
Create(svc, dryRun) ==
    /\ service = Absent
    /\ Change
    /\ accounts' = accounts \cup CreateServiceAccountIfNeeded(svc, Absent, dryRun)
    /\ service' = IF admitted(svc, Absent) /\ ~dryRun THEN Default(svc, Absent) ELSE service
    /\ history' = Clean
    /\ UNCHANGED <<kind, secret, profile>>

(* What the properties except, recorded when an update is stored:          *)
(*   retyped     the connection Secret had another type than was injected; *)
(*   overridden  the user replaced injected fields, the connection staying;*)
(*   reshaped    the profile was changed while it was in use;              *)
(*   skipped     another profile was selected while there was no "main".   *)
remember(svc, old) ==
    LET action == connectionAction(svc, old)
        stays == svc.deleting \/ action = "none"
        skipped == kind = "llm" /\ emitContainerValidationEvent(svc)
    IN  [retyped |-> \/ history.retyped
                     \/ /\ old.conn # None
                        /\ secret[old.conn] # Absent
                        /\ old.injected \notin {None, connectionType(old.conn)},
         overridden |-> stays /\ \/ history.overridden
                                 \/ <<svc.uri, svc.key, svc.storagePath, svc.pull>>
                                        # <<old.uri, old.key, old.storagePath, old.pull>>,
         reshaped |-> history.reshaped /\ (~ProfileChanged(old, svc) \/ svc.profile = None \/ skipped),
         skipped |-> IF ProfileChanged(old, svc) /\ svc.profile # None THEN skipped ELSE history.skipped]

Update(svc, dryRun) ==
    /\ service # Absent /\ svc.deleting = service.deleting
    /\ Change
    /\ accounts' = accounts \cup CreateServiceAccountIfNeeded(svc, service, dryRun)
    /\ IF admitted(svc, service) /\ ~dryRun
       THEN /\ service' = Default(svc, service)
            /\ history' = remember(svc, service)
       ELSE UNCHANGED <<service, history>>
    /\ UNCHANGED <<kind, secret, profile>>

Delete ==
    /\ service # Absent /\ ~service.deleting
    /\ Change
    /\ service' = [service EXCEPT !.deleting = TRUE]
    /\ UNCHANGED <<kind, secret, profile, accounts, history>>

(* A controller takes its finalizer off: an update like any other, retried *)
(* for as long as it is refused.                                           *)
RemoveFinalizer ==
    /\ service # Absent /\ service.deleting
    /\ admitted(service, service)
    /\ service' = Absent
    /\ UNCHANGED <<kind, secret, profile, accounts, changes, history>>

ChangeSecret(s, spec) ==
    /\ Change
    /\ secret[s] # spec
    /\ secret' = [secret EXCEPT ![s] = spec]
    /\ UNCHANGED <<kind, service, profile, accounts, history>>

ChangeProfile(ref, spec) ==
    /\ Change
    /\ profile[ref] # spec
    /\ profile' = [profile EXCEPT ![ref] = spec]
    /\ history' = [history EXCEPT !.reshaped =
                     @ \/ (service # Absent /\ service.profile # None /\ ProfileRef(service) = ref)]
    /\ UNCHANGED <<kind, service, secret, accounts>>

Next ==
    \/ \E svc \in Manifests, dryRun \in BOOLEAN : Create(svc, dryRun)
    \/ service # Absent /\ \E svc \in Edits(service), dryRun \in BOOLEAN : Update(svc, dryRun)
    \/ Delete
    \/ RemoveFinalizer
    \/ \E s \in Secrets, spec \in SecretSpecs \cup {Absent} : ChangeSecret(s, spec)
    \/ \E ref \in DOMAIN profile, spec \in ProfileSpecs \cup {Absent} : ChangeProfile(ref, spec)

Spec == Init /\ [][Next]_vars

(* Controllers retry the removal of their finalizers.                      *)
FairSpec == Spec /\ WF_vars(RemoveFinalizer)

-----------------------------------------------------------------------------
(***************************************************************************)
(* Properties.                                                             *)
(***************************************************************************)
TypeOK ==
    /\ kind \in Kinds
    /\ service # Absent =>
          /\ DOMAIN service = ServiceFields
          /\ service.conn \in Secrets \cup {None}
          /\ service.injected \in Types \cup {None}
          /\ service.key \in Secrets \cup {None, Own}
          /\ service.profile \in Profiles \cup {None}
          /\ service.profileNs \in Namespaces \cup {None}
          /\ service.shape \in {"none", "main", "other"}
          /\ service.podClaim \in Templates \cup {None}
          /\ {service.deleting, service.claim, service.managed} \subseteq BOOLEAN
    /\ accounts \subseteq Secrets
    /\ changes \in 0..MaxChanges

Live == service # Absent /\ ~service.deleting

(* A service that names a connection can load its model through it: the    *)
(* injected fields are those of that connection, with the path the         *)
(* annotation names, and the ServiceAccount an S3 connection needs exists. *)
(* Excepted are fields users replaced by hand and a Secret whose type was  *)
(* changed under the service.                                              *)
ConnectionServed ==
    Live /\ service.conn # None /\ ~history.overridden /\ ~history.retyped =>
        /\ service.injected = "oci" => service.conn \in entriesOf(service.pull)
        /\ service.injected = "uri" => service.uri.from = service.conn
        /\ service.injected = "s3" =>
              /\ service.sa # None
              /\ service.sa \in Secrets => service.sa = service.conn
              /\ service.conn \in accounts
              /\ IF kind = "llm"
                 THEN service.uri.from = service.conn /\ service.uri.path = service.path
                 ELSE service.key = service.conn
        /\ service.injected # None

(* No field still points at a connection the service no longer names,      *)
(* however connections were added, changed, removed or deleted before, so  *)
(* long as no Secret changed its type while it was in use.                 *)
NoForeignConnection ==
    Live /\ ~history.retyped =>
        /\ ({service.sa, service.key, service.uri.from} \cup entriesOf(service.pull)) \cap Secrets
              \subseteq {service.conn}
        /\ service.conn = None => service.injected = None

ProfileNodes == UNION {{p.nodes[k] : k \in DOMAIN p.nodes} : p \in ProfileSpecs} \ {None}
ProfileTols == UNION {entriesOf(p.tols) : p \in ProfileSpecs}
ProfileQueues == {p.queue : p \in ProfileSpecs} \ {None}

(* Every node selector, toleration and queue that comes from a profile     *)
(* comes from the one the service names now, after any sequence of         *)
(* assignments, switches and removals. Excepted are a profile changed      *)
(* while in use, and one selected while the containers had no "main".      *)
SchedulingCurrent ==
    LET p == parseProfile(ProfileRef(service))
        named == service.profile # None
    IN  Live /\ ~history.reshaped /\ ~history.skipped =>
            /\ \A k \in DOMAIN service.nodes :
                  service.nodes[k] \in ProfileNodes => named /\ service.nodes[k] = p.nodes[k]
            /\ \A t \in entriesOf(service.tols) :
                  t \in ProfileTols => named /\ t \in entriesOf(p.tols)
            /\ service.queue \in ProfileQueues => named /\ service.queue = p.queue

(* The container of a service never uses a claim its Pod does not declare, *)
(* and a service without a profile has no claim left.                      *)
ClaimsOfProfile ==
    Live =>
        /\ service.claim => service.podClaim # None
        /\ service.podClaim # None => service.profile # None

(* What a service has of hardware profiles, scheduling and claims, is what *)
(* the profile it names now gives it.                                      *)
ProfileCurrent == SchedulingCurrent /\ ClaimsOfProfile

(* An admission settles at once: a stored service that is written again    *)
(* takes up what has changed in its profile, and a second write changes    *)
(* nothing more and is not refused. Controllers write the services over    *)
(* and over; a list that grew, or a field that flipped, at every write     *)
(* would restart the model each time.                                      *)
AdmissionSettles ==
    LET stored == Default(service, service)
    IN  Live /\ admitted(service, service) =>
            admitted(stored, stored) /\ Default(stored, stored) = stored

(* Whatever else a request changes, a ServiceAccount and pull secrets the  *)
(* user chose are kept, and so are their node selectors and tolerations    *)
(* unless the profile itself sets that key or the request switches from    *)
(* one profile to another.                                                 *)
UsersValuesKept ==
    Live => \A svc \in Edits(service) :
        admitted(svc, service) =>
            LET stored == Default(svc, service)
            IN  /\ svc.sa = Own => stored.sa = Own
                /\ Own \in entriesOf(svc.pull) => Own \in entriesOf(stored.pull)
                /\ ~(ProfileChanged(service, svc) /\ svc.profile # None) =>
                      /\ Own \in entriesOf(svc.tols) => Own \in entriesOf(stored.tols)
                      /\ \A k \in DOMAIN svc.nodes :
                            svc.nodes[k] = Own =>
                                \/ stored.nodes[k] = Own
                                \/ svc.profile # None /\ parseProfile(ProfileRef(svc)).nodes[k] # None

(* A service that is being deleted goes, whatever has become of its        *)
(* connection Secret and its profile: the webhooks never refuse the update *)
(* that takes the finalizer off.                                           *)
DeletionCompletes ==
    (service # Absent /\ service.deleting) ~> (service = Absent)
=============================================================================
