----------------------------- MODULE NimAccount -----------------------------
(***************************************************************************)
(* The NIM account controller (internal/controller/nim): a chain of        *)
(* handlers that validates an NGC API key and keeps a ConfigMap, a Template *)
(* and a pull Secret, with the account's status as its only memory.        *)
(*                                                                         *)
(* One account name, so one worker.  A step is one API call with the code  *)
(* before it; everybody else moves between two steps.                      *)
(*                                                                         *)
(* Abstractions.                                                           *)
(*  - the account lives in the application namespace, so the ConfigMap     *)
(*    that air-gapped mode expects and the generated one have one name;    *)
(*  - a time in the status is absent, recent, or older than its refresh    *)
(*    rate, and "newer" is LastSuccessfulValidation.After(                 *)
(*    LastSuccessfulConfigRefresh); LastAccountCheck only makes every      *)
(*    status that carries it a new one; times of different writes differ;  *)
(*  - a condition is True or not; a True one keeps the generation and the  *)
(*    mode (air-gapped or not, in its message), which decide whether       *)
(*    SetStatusCondition reports a change;                                 *)
(*  - labels and contents of the resources, but for the key in the pull    *)
(*    Secret, are left out;                                                *)
(*  - the account informer may skip versions; the Secret read is current.  *)
(***************************************************************************)
EXTENDS Naturals, Sequences

CONSTANTS
    MaxIncarnations,  \* accounts of this name created
    MaxGen,           \* generations of a spec
    MaxIds,           \* UIDs of the objects stored under one name
    MaxEvents,        \* bound on what users, time and faults do
    StaleReads,       \* may the account read from the cache be outdated?
    Happenings        \* which kinds of environment events occur

AllHappenings == {"create", "delete", "finalizer", "spec", "key", "force", "airGapped",
                  "drift", "ageKey", "ageConfig", "fail", "restart", "removed"}

ASSUME BoundsAssumption ==
    MaxIncarnations \in Nat \ {0} /\ MaxGen \in Nat \ {0} /\ MaxIds \in Nat \ {0} /\ MaxEvents \in Nat
ASSUME SwitchAssumption == StaleReads \in BOOLEAN
ASSUME HappeningsAssumption == Happenings \subseteq AllHappenings

VARIABLES
    acct, cache,  \* the account: stored, and in the informer cache
    born,         \* accounts of this name created so far
    key, force,   \* the API key Secret and its force-validation annotation
    airGapped,    \* the DataScienceCluster's flag
    res,          \* ConfigMap, Template and pull Secret
    queued,       \* the request key is in the work queue
    mode,         \* NIM_STATE, and whether the cleanup runner still has to run
    pc,           \* where the worker is
    rd,           \* the account it read
    air,          \* the flag it read
    secret,       \* the key its APIKeyManager loaded
    pend,         \* the status it is about to write, and what comes then
    events,       \* how many bounded events have happened
    faulted       \* a call has failed, or the process has restarted

worker == <<pc, rd, air, secret, pend>>
vars == <<acct, cache, born, key, force, airGapped, res, queued, mode, worker, events, faulted>>

-----------------------------------------------------------------------------
(* Data.                                                                   *)

Kinds == {"config", "template", "pull"}
Conditions == Kinds \cup {"key", "account"}
Secrets == {"absent", "empty", "good", "bad"}
Ages == {"nil", "recent", "old"}
Finalizers == {"nim", "other", "third"}
Afterwards == {"requeue", "stop", "error", "failConfig", "failPull"}

Condition == [ok : BOOLEAN, gen : 0..MaxGen, air : BOOLEAN]
NotTrue == [ok |-> FALSE, gen |-> 0, air |-> FALSE]

Statuses == [refs : [Kinds -> 0..MaxIds], cond : [Conditions -> Condition],
             valAt : Ages, cfgAt : Ages, newer : BOOLEAN]
NoStatus == [refs |-> [k \in Kinds |-> 0], cond |-> [c \in Conditions |-> NotTrue],
             valAt |-> "nil", cfgAt |-> "nil", newer |-> FALSE]

Accounts == [uid : 0..MaxIncarnations, deleting : BOOLEAN, fins : Seq(Finalizers),
             gen : 1..MaxGen, status : Statuses]
NoAccount == [uid |-> 0, deleting |-> FALSE, fins |-> <<>>, gen |-> 1, status |-> NoStatus]
NewAccount(uid) == [NoAccount EXCEPT !.uid = uid]

\* owner: the account the owner reference names, 0 for an object of a user;
\* val: the key in a pull Secret.
Objects == [uid : 0..MaxIds, owner : 0..MaxIncarnations, val : Secrets]
NoObject == [uid |-> 0, owner |-> 0, val |-> "absent"]

NoWrite == [status |-> NoStatus, next |-> "stop", stamped |-> FALSE]

\* The operators of SequencesExt, restated so that the proofs' context is small.
Contains(s, e) == \E i \in 1..Len(s) : s[i] = e
RemoveAt(s, i) == SubSeq(s, 1, i - 1) \o SubSeq(s, i + 1, Len(s))

\* The API server drops a deleted account once its last finalizer is gone.
Settle(a) == IF a.deleting /\ a.fins = <<>> THEN NoAccount ELSE a

\* A UID for a new object that no status still remembers.
FreshIds(k) ==
    LET used == {res[k].uid, acct.status.refs[k], cache.status.refs[k],
                 rd.status.refs[k], pend.status.refs[k]}
    IN  {i \in (1..MaxIds) \ used : \A j \in 1..(i - 1) : j \in used}

Init ==
    /\ acct = NewAccount(1) /\ cache = NewAccount(1) /\ born = 1
    /\ key = "good" /\ force = FALSE /\ airGapped = FALSE
    /\ res = [k \in Kinds |-> NoObject]
    /\ queued = TRUE /\ mode = "managed"
    /\ pc = "idle" /\ rd = NoAccount /\ air = FALSE /\ secret = "absent" /\ pend = NoWrite
    /\ events = 0 /\ faulted = FALSE

-----------------------------------------------------------------------------
(* Steps of the worker.                                                    *)

Happens(h) ==
    /\ h \in Happenings /\ events < MaxEvents /\ events' = events + 1
    /\ faulted' = (faulted \/ h \in {"fail", "restart", "removed"})
Calm == UNCHANGED <<events, faulted>>

\* With fresh reads the informer delivers before anything else moves.
Delivered == StaleReads \/ cache = acct

At(l) == pc = l /\ Delivered /\ UNCHANGED <<born, key, airGapped, mode>>
Keeps == UNCHANGED <<acct, cache, force>>

\* The reconcile returns: with an error or RequeueAfter the key is queued again.
Return(again) ==
    /\ pc' = "idle" /\ rd' = NoAccount /\ air' = FALSE /\ secret' = "absent" /\ pend' = NoWrite
    /\ queued' = (queued \/ again)

Continue(l) == pc' = l /\ UNCHANGED <<rd, air, pend, queued>>

\* The handler calls UpdateStatus with st and then does what next says.
\* stamped: st carries a new time, so it differs from what the cache holds.
WriteStatus(st, next, stamped) ==
    pc' = "update" /\ pend' = [status |-> st, next |-> next, stamped |-> stamped] /\ UNCHANGED <<rd, air>>

\* CleanupResources: deletes by the names in the status of the worker's copy,
\* all of them or, if calls fail, some.  Deletions raise events (Owns).
\* Mutant of Referenced: the Template is forgotten.
MutantReferenced == {k \in Kinds : k # "template" /\ rd.status.refs[k] # 0}
Referenced == {k \in Kinds : rd.status.refs[k] # 0}
CleanupResources(gone) ==
    /\ res' = [k \in Kinds |-> IF k \in gone THEN NoObject ELSE res[k]]
    /\ queued' = (queued \/ res' # res)

\* loadSecret and loadKey note a failing deletion and go on: the clean status
\* then forgets a resource that is still there.
CleanupPartly == Happens("fail") /\ \E gone \in SUBSET Referenced : CleanupResources(gone)
CleanupAnyway == (CleanupResources(Referenced) /\ Calm) \/ CleanupPartly

CondTrue(a, mde) == [ok |-> TRUE, gen |-> a.gen, air |-> mde]
WithCond(st, c, cnd) == [st EXCEPT !.cond[c] = cnd]
FailedStatus(st, c) == [st EXCEPT !.cond[c] = NotTrue, !.cond["account"] = NotTrue]

\* The clean status keeps the times of the last successes.
makeCleanStatusForAccountFailure(st) ==
    [st EXCEPT !.refs = [k \in Kinds |-> 0], !.cond = [c \in Conditions |-> NotTrue]]

ReadAccount ==
    /\ At("idle") /\ queued /\ mode = "managed" /\ queued' = FALSE
    /\ rd' = cache
    /\ pc' = IF cache.uid = 0 THEN "idle" ELSE "start"
    /\ Keeps /\ Calm /\ UNCHANGED <<res, air, secret, pend>>

Finalized(a) == Contains(a.fins, "nim")

\* The update carries UID and resource version.
AddFinalizer ==
    /\ At("start") /\ ~rd.deleting /\ ~Finalized(rd)
    /\ acct' = IF rd = acct THEN [acct EXCEPT !.fins = Append(@, "nim")] ELSE acct
    /\ Return(acct.uid # 0)
    /\ Calm /\ UNCHANGED <<cache, force, res>>

CleanupDeleted ==
    /\ At("start") /\ rd.deleting /\ Finalized(rd)
    /\ CleanupResources(Referenced)
    /\ pc' = "unfinalize"
    /\ Keeps /\ Calm /\ UNCHANGED <<rd, air, secret, pend>>

\* slices.Index(account.Finalizers, ...) of the copy; zero-based in the patch.
\* Mutant of NimIndex: one position too far.
MutantNimIndex == 1 + CHOOSE i \in 1..Len(rd.fins) : rd.fins[i] = "nim"
NimIndex == CHOOSE i \in 1..Len(rd.fins) : rd.fins[i] = "nim" /\ \A j \in 1..(i - 1) : rd.fins[j] # "nim"

\* The JSON patch names the position only: it applies to whatever is stored.
RemoveFinalizer ==
    /\ At("unfinalize")
    /\ acct' = IF NimIndex \in 1..Len(acct.fins)
                 THEN Settle([acct EXCEPT !.fins = RemoveAt(@, NimIndex)]) ELSE acct
    /\ Return(acct.uid # 0 /\ NimIndex > Len(acct.fins))
    /\ Calm /\ UNCHANGED <<cache, force, res>>

NothingToFinalize ==
    /\ At("start") /\ rd.deleting /\ ~Finalized(rd)
    /\ Return(FALSE) /\ Keeps /\ Calm /\ UNCHANGED res

\* Mutant of StartHandlers: the handlers run whether or not the account is held.
MutantStartHandlers ==
    /\ At("start") /\ ~rd.deleting /\ air' = airGapped /\ pc' = "validate" /\ secret' = "unread"
    /\ Keeps /\ Calm /\ UNCHANGED <<res, rd, pend, queued>>

\* IsNimAirGapped returns false on any lookup error.
StartHandlers ==
    /\ At("start") /\ ~rd.deleting /\ Finalized(rd)
    /\ \/ air' = airGapped /\ Calm
       \/ air' = FALSE /\ airGapped /\ Happens("fail")
    /\ pc' = "validate" /\ secret' = "unread"
    /\ Keeps /\ UNCHANGED <<res, rd, pend, queued>>

-----------------------------------------------------------------------------
(* ValidationHandler.                                                      *)

\* Mutant of Validated: the time is not set.
MutantValidated(mde) == [WithCond(rd.status, "key", CondTrue(rd, mde)) EXCEPT !.newer = TRUE]
Validated(mde) ==
    [WithCond(rd.status, "key", CondTrue(rd, mde)) EXCEPT !.valAt = "recent", !.newer = TRUE]

\* SetStatusCondition reports a change.
CondUpdated(c, mde) == rd.status.cond[c] # CondTrue(rd, mde)

ValidateAirGapped ==
    /\ At("validate") /\ air
    /\ IF CondUpdated("key", TRUE) \/ rd.status.valAt = "nil"
         THEN WriteStatus(Validated(TRUE), "requeue", TRUE) /\ UNCHANGED queued
         ELSE Continue("config")
    /\ Keeps /\ Calm /\ UNCHANGED <<res, secret>>

\* loadSecret: a missing Secret, and one that cannot be read, are cleaned up.
LoadSecretFails ==
    /\ At("validate") /\ ~air
    /\ \/ /\ key = "absent" /\ CleanupResources(Referenced) /\ Calm
          /\ WriteStatus(makeCleanStatusForAccountFailure(rd.status), "stop", TRUE)
       \/ /\ CleanupPartly
          /\ WriteStatus(makeCleanStatusForAccountFailure(rd.status), "error", TRUE)
    /\ Keeps /\ UNCHANGED secret

shouldValidate ==
    force \/ ~(rd.status.cond["key"].ok /\ rd.status.valAt # "nil") \/ rd.status.valAt = "old"

SkipValidation ==
    /\ At("validate") /\ ~air /\ key # "absent" /\ ~shouldValidate
    /\ secret' = key /\ Continue("config")
    /\ Keeps /\ Calm /\ UNCHANGED res

\* shouldReconcile removes the annotation of the forced validation.  The event
\* this raises adds nothing, every outcome queues the account again; a patch that
\* fails is a removal followed by ForceValidation.
Validating ==
    /\ At("validate") /\ ~air /\ key # "absent" /\ shouldValidate
    /\ force' = FALSE /\ UNCHANGED <<acct, cache>>

RuntimesUnavailable ==
    /\ Validating /\ Happens("fail")
    /\ WriteStatus(FailedStatus(rd.status, "key"), "error", TRUE)
    /\ UNCHANGED <<res, queued, secret>>

\* loadKey.
KeyDataMissing ==
    /\ Validating /\ key = "empty" /\ CleanupAnyway
    /\ WriteStatus(makeCleanStatusForAccountFailure(rd.status), "error", TRUE)
    /\ UNCHANGED secret

\* Any error of ValidateApiKey, an unreachable registry included, rejects the key.
KeyRejected ==
    /\ Validating
    /\ \/ key = "bad" /\ Calm
       \/ key = "good" /\ Happens("fail")
    /\ CleanupResources(Referenced)
    /\ WriteStatus(makeCleanStatusForAccountFailure(rd.status), "stop", TRUE)
    /\ UNCHANGED secret

KeyValidated ==
    /\ Validating /\ key = "good" /\ CondUpdated("key", FALSE) /\ Calm
    /\ WriteStatus(Validated(FALSE), "requeue", TRUE)
    /\ UNCHANGED <<res, queued, secret>>

\* The condition did not change: nothing is written, the time included.
KeyStillValid ==
    /\ Validating /\ key = "good" /\ ~CondUpdated("key", FALSE) /\ Calm
    /\ Return(TRUE) /\ UNCHANGED res

-----------------------------------------------------------------------------
(* ConfigMapHandler.                                                       *)

\* The expected ConfigMap is referenced whether it exists or not.
ConfigAirGapped ==
    /\ At("config") /\ air
    /\ IF CondUpdated("config", TRUE) \/ rd.status.cfgAt = "nil" \/ rd.status.refs["config"] = 0
         THEN /\ WriteStatus([WithCond(rd.status, "config", CondTrue(rd, TRUE))
                                EXCEPT !.refs["config"] = 1, !.cfgAt = "recent", !.newer = FALSE],
                             "requeue", TRUE)
              /\ UNCHANGED queued
         ELSE Continue("template")
    /\ Keeps /\ Calm /\ UNCHANGED <<res, secret>>

shouldRefresh ==
    /\ rd.status.cond["key"].ok
    /\ \/ rd.status.refs["config"] = 0
       \/ res["config"].uid = 0
       \/ ~rd.status.cond["config"].ok \/ rd.status.cfgAt = "nil"
       \/ rd.status.newer
       \/ rd.status.cfgAt = "old"

SkipConfig ==
    /\ At("config") /\ ~air /\ ~shouldRefresh
    /\ Continue("template") /\ Keeps /\ Calm /\ UNCHANGED <<res, secret>>

\* Server-side apply with force.  Without a reference in the status the default
\* configuration makes the account the owner; with one, the existing object's
\* configuration is extracted and its owner stays, unless the object cannot be
\* read and the default is used after all.
Applied(k, v) ==
    IF res[k].uid # 0
      THEN {[res[k] EXCEPT !.owner = o, !.val = v] :
              o \in IF rd.status.refs[k] = 0 THEN {rd.uid} ELSE {rd.uid, res[k].owner}}
      ELSE {[uid |-> i, owner |-> rd.uid, val |-> v] : i \in IF k = "config" THEN {1} ELSE FreshIds(k)}

Apply(k, obj) ==
    /\ res' = [res EXCEPT ![k] = obj]
    /\ queued' = (queued \/ obj # res[k])

RefreshConfig ==
    /\ At("config") /\ ~air /\ shouldRefresh /\ secret = "good"
    /\ \E obj \in Applied("config", "absent") : Apply("config", obj)
    /\ WriteStatus([WithCond(rd.status, "config", CondTrue(rd, FALSE))
                      EXCEPT !.refs["config"] = 1, !.cfgAt = "recent", !.newer = FALSE],
                   "requeue", TRUE)
    /\ Keeps /\ Calm /\ UNCHANGED secret

\* No models for the key, or a failing call.
RefreshConfigFails ==
    /\ At("config") /\ ~air /\ shouldRefresh
    /\ \/ secret = "bad" /\ Calm
       \/ Happens("fail")
    /\ WriteStatus(FailedStatus(rd.status, "config"), "error", TRUE)
    /\ Keeps /\ UNCHANGED <<res, queued, secret>>

\* loadKey cleans up and writes the clean status; then the handler writes its
\* own failure, based on the copy read at the start.
KeyMissingForConfig ==
    /\ At("config") /\ ~air /\ shouldRefresh /\ secret = "empty" /\ CleanupAnyway
    /\ WriteStatus(makeCleanStatusForAccountFailure(rd.status), "failConfig", TRUE)
    /\ Keeps /\ UNCHANGED secret

-----------------------------------------------------------------------------
(* TemplateHandler and PullSecretHandler.                                  *)

\* The last two handlers write the status if reference or condition changed.
Reconciled(k, obj, l) ==
    /\ Apply(k, obj)
    /\ IF rd.status.refs[k] # obj.uid \/ CondUpdated(k, FALSE)
         THEN WriteStatus([WithCond(rd.status, k, CondTrue(rd, FALSE)) EXCEPT !.refs[k] = obj.uid],
                          "requeue", FALSE)
         ELSE pc' = l /\ UNCHANGED <<rd, air, pend>>

ReconcileTemplate ==
    /\ At("template")
    /\ \E obj \in Applied("template", "absent") : Reconciled("template", obj, "pull")
    /\ Keeps /\ Calm /\ UNCHANGED secret

\* GetAPIKey: in air-gapped mode nothing loaded the Secret before.
LoadedKey == IF secret = "unread" THEN key ELSE secret

ReconcilePullSecret ==
    /\ At("pull") /\ LoadedKey \in {"good", "bad"}
    /\ \E obj \in Applied("pull", LoadedKey) : Reconciled("pull", obj, "healthy")
    /\ secret' = LoadedKey
    /\ Keeps /\ Calm

KeyMissingForPullSecret ==
    /\ At("pull")
    /\ \/ LoadedKey \in {"absent", "empty"} /\ CleanupAnyway
       \/ secret = "unread" /\ CleanupPartly
    /\ WriteStatus(makeCleanStatusForAccountFailure(rd.status), "failPull", TRUE)
    /\ Keeps /\ UNCHANGED secret

ApplyFails(k) ==
    /\ At(k) /\ k \in {"template", "pull"} /\ Happens("fail")
    /\ WriteStatus(FailedStatus(rd.status, k), "error", TRUE)
    /\ Keeps /\ UNCHANGED <<res, queued, secret>>

AccountSuccess ==
    /\ At("healthy")
    /\ WriteStatus(WithCond(rd.status, "account", CondTrue(rd, FALSE)), "stop", TRUE)
    /\ Keeps /\ Calm /\ UNCHANGED <<res, queued, secret>>

-----------------------------------------------------------------------------
(* UpdateStatus.                                                           *)

\* Where the handler goes on; again: the update failed, or raised an event.
Resume(again) ==
    IF pend.next \in {"failConfig", "failPull"}
      THEN /\ WriteStatus(FailedStatus(rd.status, IF pend.next = "failPull" THEN "pull" ELSE "config"),
                          "error", TRUE)
           /\ UNCHANGED <<secret, queued>>
      ELSE Return(again \/ pend.next # "stop")

\* The cached account differs from the status: the update is sent with the
\* resource version of the cached copy.  An update that changes nothing but
\* LastAccountCheck raises an event unless it is stored in the same second.
Sent == cache.uid # 0 /\ (pend.stamped \/ cache.status # pend.status)

UpdateStatus ==
    /\ At("update") /\ Calm
    /\ IF Sent /\ cache = acct
         THEN /\ acct' = [acct EXCEPT !.status = pend.status]
              /\ \E event \in {FALSE, acct' = acct} : Resume(event)
         ELSE acct' = acct /\ Resume(Sent)
    /\ UNCHANGED <<cache, force, res>>

\* Failing calls of Reconcile itself and of UpdateStatus.
CallFails ==
    /\ At(pc) /\ Happens("fail")
    /\ \/ /\ pc = "unfinalize" \/ (pc = "start" /\ ~rd.deleting /\ ~Finalized(rd))
          /\ Return(TRUE)
       \/ pc = "update" /\ Resume(TRUE)
    /\ Keeps /\ UNCHANGED res

\* Some of the deletions fail; the error ends the reconcile.
CleanupFails ==
    /\ Happens("fail")
    /\ \/ At("start") /\ rd.deleting /\ Finalized(rd) /\ Keeps
       \/ Validating /\ key \in {"bad", "good"}
    /\ \E gone \in SUBSET Referenced :
         res' = [k \in Kinds |-> IF k \in gone THEN NoObject ELSE res[k]]
    /\ Return(TRUE)

Restart(m) ==
    /\ Delivered /\ pc' = "idle" /\ rd' = NoAccount /\ air' = FALSE /\ secret' = "absent" /\ pend' = NoWrite
    /\ mode' = m /\ cache' = acct /\ queued' = TRUE
    /\ \/ m = (IF mode = "managed" THEN "managed" ELSE "cleaning") /\ Happens("restart")
       \/ m = (IF mode = "managed" THEN "cleaning" ELSE "managed") /\ Happens("removed")
    /\ UNCHANGED <<acct, born, key, force, airGapped, res>>

\* NIM_STATE=removed: no reconciler, but once per start the cleanup runner.  It
\* only logs what fails: the list of accounts, deletions, the status update.
CleanupRunner ==
    LET listed == {k \in Kinds : cache.status.refs[k] # 0}
        cleaned == IF cache = acct /\ acct.uid # 0 THEN [acct EXCEPT !.status = NoStatus] ELSE acct
    IN  /\ Delivered /\ mode = "cleaning" /\ mode' = "removed"
        /\ \E gone \in SUBSET listed :
             /\ acct' \in {cleaned, acct}
             /\ res' = [k \in Kinds |-> IF k \in gone THEN NoObject ELSE res[k]]
             /\ IF gone = listed /\ acct' = cleaned THEN Calm ELSE Happens("fail")
        /\ UNCHANGED <<cache, born, key, force, airGapped, queued, worker>>

-----------------------------------------------------------------------------
(* The environment.                                                        *)

\* The informer delivers the account; For(&Account{}) queues its key.
Sync ==
    /\ cache # acct /\ cache' = acct /\ queued' = TRUE
    /\ UNCHANGED <<acct, born, key, force, airGapped, res, mode, worker, events, faulted>>

Env(h) == Delivered /\ Happens(h) /\ UNCHANGED <<cache, born, mode, worker>>

Create ==
    /\ Delivered /\ Happens("create") /\ acct.uid = 0 /\ born < MaxIncarnations
    /\ born' = born + 1 /\ acct' = NewAccount(born + 1)
    /\ UNCHANGED <<cache, key, force, airGapped, res, queued, mode, worker>>

Delete ==
    /\ Env("delete") /\ acct.uid # 0 /\ ~acct.deleting
    /\ acct' = Settle([acct EXCEPT !.deleting = TRUE])
    /\ UNCHANGED <<key, force, airGapped, res, queued>>

\* Others add their finalizers and remove them.
AddOther(f) ==
    /\ Env("finalizer") /\ acct.uid # 0 /\ ~acct.deleting /\ ~Contains(acct.fins, f)
    /\ acct' = [acct EXCEPT !.fins = Append(@, f)]
    /\ UNCHANGED <<key, force, airGapped, res, queued>>

RemoveOther(f) ==
    /\ Delivered
    /\ \E i \in 1..Len(acct.fins) :
         acct.fins[i] = f /\ acct' = Settle([acct EXCEPT !.fins = RemoveAt(@, i)])
    /\ UNCHANGED <<cache, born, key, force, airGapped, res, queued, mode, worker, events, faulted>>

ChangeSpec ==
    /\ Env("spec") /\ acct.uid # 0 /\ acct.gen < MaxGen
    /\ acct' = [acct EXCEPT !.gen = @ + 1]
    /\ UNCHANGED <<key, force, airGapped, res, queued>>

\* The Secret's watch queues the accounts that name it.
ChangeKey(v) ==
    /\ Env("key") /\ v # key /\ key' = v /\ queued' = (queued \/ cache.uid # 0)
    /\ force' = (force /\ v # "absent")
    /\ UNCHANGED <<acct, airGapped, res>>

ForceValidation ==
    /\ Env("force") /\ ~force /\ key # "absent" /\ force' = TRUE
    /\ queued' = (queued \/ cache.uid # 0)
    /\ UNCHANGED <<acct, key, airGapped, res>>

\* Nothing watches the DataScienceCluster; the informers' resync does the rest.
ToggleAirGapped ==
    /\ Env("airGapped") /\ airGapped' = ~airGapped
    /\ UNCHANGED <<acct, key, force, res, queued>>

\* A user deletes a resource, or provides the ConfigMap of air-gapped mode.
Drift(k) ==
    /\ Env("drift") /\ res[k].uid # 0 /\ res' = [res EXCEPT ![k] = NoObject]
    /\ queued' = (queued \/ res[k].owner # 0)
    /\ UNCHANGED <<acct, key, force, airGapped>>

ProvideConfig ==
    /\ Env("drift") /\ airGapped /\ res["config"].uid = 0
    /\ res' = [res EXCEPT !["config"] = [NoObject EXCEPT !.uid = 1]]
    /\ UNCHANGED <<acct, key, force, airGapped, queued>>

\* A refresh rate passes: a recent time is old in every copy of the status.
Old(t) == IF t = "recent" THEN "old" ELSE t
AgedKey(st) == [st EXCEPT !.valAt = Old(@)]
AgedConfig(st) == [st EXCEPT !.cfgAt = Old(@)]

Age(h, Aged(_)) ==
    /\ Delivered /\ Happens(h)
    /\ acct' = [acct EXCEPT !.status = Aged(@)] /\ cache' = [cache EXCEPT !.status = Aged(@)]
    /\ rd' = [rd EXCEPT !.status = Aged(@)] /\ pend' = [pend EXCEPT !.status = Aged(@)]
    /\ UNCHANGED <<born, key, force, airGapped, res, queued, mode, pc, air, secret>>
AgeValidation == Age("ageKey", AgedKey)
AgeConfig == Age("ageConfig", AgedConfig)

\* The informers' periodic resync queues every cached account.
Resync ==
    /\ Delivered /\ cache.uid # 0 /\ ~queued /\ queued' = TRUE
    /\ UNCHANGED <<acct, cache, born, key, force, airGapped, res, mode, worker, events, faulted>>

\* The garbage collector removes what a gone account owned.
Collect(k) ==
    /\ Delivered /\ res[k].owner # 0 /\ res[k].owner # acct.uid
    /\ res' = [res EXCEPT ![k] = NoObject] /\ queued' = TRUE
    /\ UNCHANGED <<acct, cache, born, key, force, airGapped, mode, worker, events, faulted>>

-----------------------------------------------------------------------------
Reconcile ==
    \/ ReadAccount \/ AddFinalizer \/ CleanupDeleted \/ RemoveFinalizer \/ NothingToFinalize
    \/ StartHandlers \/ ValidateAirGapped \/ LoadSecretFails \/ SkipValidation
    \/ RuntimesUnavailable \/ KeyDataMissing \/ KeyRejected \/ KeyValidated \/ KeyStillValid
    \/ ConfigAirGapped \/ SkipConfig \/ RefreshConfig \/ RefreshConfigFails \/ KeyMissingForConfig
    \/ ReconcileTemplate \/ ReconcilePullSecret \/ KeyMissingForPullSecret
    \/ \E k \in Kinds : ApplyFails(k)
    \/ AccountSuccess \/ UpdateStatus \/ CallFails \/ CleanupFails

Others ==
    \/ Create \/ Delete \/ ChangeSpec \/ ForceValidation \/ ToggleAirGapped \/ ProvideConfig
    \/ AgeValidation \/ AgeConfig \/ Resync
    \/ \E f \in Finalizers \ {"nim"} : AddOther(f) \/ RemoveOther(f)
    \/ \E v \in Secrets : ChangeKey(v)
    \/ \E k \in Kinds : Drift(k) \/ Collect(k)
    \/ \E m \in {"managed", "cleaning"} : Restart(m)

Next == Reconcile \/ CleanupRunner \/ Sync \/ Others

Spec == Init /\ [][Next]_vars

\* The work queue hands out queued keys, the manager runs its runnables, the
\* informer delivers and resyncs, and the garbage collector runs.  Users, time
\* and faults owe nothing, except that others release their finalizers.
Fairness ==
    /\ WF_vars(Reconcile /\ Calm) /\ WF_vars(CleanupRunner) /\ WF_vars(Sync) /\ WF_vars(Resync)
    /\ \A k \in Kinds : WF_vars(Collect(k))
    /\ \A f \in Finalizers \ {"nim"} : WF_vars(acct.deleting /\ RemoveOther(f))

FairSpec == Spec /\ Fairness

-----------------------------------------------------------------------------
(* Properties.                                                             *)

\* Types of the variables.
TypeOK ==
    /\ acct \in Accounts /\ cache \in Accounts /\ rd \in Accounts
    /\ born \in 1..MaxIncarnations
    /\ key \in Secrets /\ force \in BOOLEAN /\ airGapped \in BOOLEAN
    /\ res \in [Kinds -> Objects]
    /\ queued \in BOOLEAN /\ mode \in {"managed", "cleaning", "removed"}
    /\ pc \in {"idle", "start", "unfinalize", "validate", "config", "template", "pull", "healthy", "update"}
    /\ air \in BOOLEAN /\ secret \in Secrets \cup {"unread"}
    /\ pend \in [status : Statuses, next : Afterwards, stamped : BOOLEAN]
    /\ events \in 0..MaxEvents /\ faulted \in BOOLEAN

\* A status that calls the key valid has the time of a validation, whatever
\* mixture of failures, outdated copies, mode changes and cleanups produced it:
\* ConfigMapHandler.shouldReconcile dereferences LastSuccessfulValidation
\* relying on the condition alone (configmap_handler.go:237).
ValidationHasTime ==
    \A st \in {acct.status, cache.status, rd.status, pend.status} :
        st.cond["key"].ok => st.valAt # "nil"

\* With fresh reads, an account that nobody is deleting and that owns a
\* resource carries the cleanup finalizer, so that no deletion bypasses the
\* cleanup of Reconcile.
OwnsOnlyWhenHeld ==
    \A k \in Kinds : res[k].owner # 0 /\ res[k].owner = acct.uid /\ ~acct.deleting => Finalized(acct)

\* With fresh reads and no faults: once the controller has nothing left to do
\* for an account, it has declared the account healthy with the references of
\* the Template and pull Secret that exist, or it has removed them and forgotten
\* all references.  No chain of handlers stops half-way without being queued.
Settled == pc = "idle" /\ ~queued /\ cache = acct /\ mode = "managed" /\ acct.uid # 0 /\ ~acct.deleting
SettledHealthyOrClean ==
    Settled /\ ~faulted =>
        \/ /\ \A c \in Conditions : acct.status.cond[c].ok
           /\ \A k \in {"template", "pull"} : res[k].uid # 0 /\ acct.status.refs[k] = res[k].uid
        \/ /\ \A c \in Conditions : ~acct.status.cond[c].ok
           /\ acct.status.refs = NoStatus.refs
           /\ \A k \in Kinds : res[k].owner # acct.uid

\* An account that stays, with a valid key and an enabled controller, becomes
\* and stays healthy, with all resources in place and the key in the pull
\* Secret, while no validation gets older than its refresh rate.
Stays == mode = "managed" /\ acct.uid # 0 /\ ~acct.deleting
Healthy ==
    /\ \A c \in Conditions : acct.status.cond[c].ok
    /\ \A k \in {"template", "pull"} : res[k].uid # 0 /\ acct.status.refs[k] = res[k].uid
    /\ airGapped \/ res["config"].uid # 0
    /\ res["pull"].val = key
EventuallyHealthy == <>[](Stays /\ key = "good" /\ acct.status.valAt # "old") => <>[]Healthy

\* An account whose key Secret stays away ends up without resources, references
\* and positive conditions (loadSecret), unless the cluster is air-gapped.
EventuallyClean ==
    <>[](Stays /\ key = "absent" /\ ~airGapped /\ ~faulted) =>
        <>[](acct.status.refs = NoStatus.refs /\ \A k \in Kinds : res[k].owner = 0 /\ ~acct.status.cond[k].ok)

\* With the controller enabled, deleting an account ends: the finalizer is
\* removed although the patch may hit an outdated position and fail, and nothing
\* that the account owned outlives it, even what a failing call or a restart
\* kept out of the status.
DeletionCompletes ==
    <>[](mode = "managed") =>
        \A u \in 1..MaxIncarnations :
            (acct.uid = u /\ acct.deleting) ~> (acct.uid # u /\ \A k \in Kinds : res[k].owner # u)

\* Under fair scheduling an account ends up healthy, clean or gone, as its key
\* and its deletion ask (HandleReconcile and cleanupDeletedAccount).
AccountsConverge == EventuallyHealthy /\ EventuallyClean /\ DeletionCompletes

\* LastSuccessfulValidation is "the last time we validated successfully"
\* (account_types.go:36): while the key stays valid, a time older than the
\* refresh rate is eventually replaced.
EventuallyRevalidated ==
    <>[](Stays /\ key = "good" /\ ~airGapped) => (acct.status.valAt = "old" ~> acct.status.valAt = "recent")
=============================================================================
