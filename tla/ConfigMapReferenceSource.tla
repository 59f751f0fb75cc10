---------------------- MODULE ConfigMapReferenceSource ----------------------
(***************************************************************************)
(* ConfigMapReferenceSource (internal/informercache/configmap_source.go):  *)
(* one metadata-only informer for every ConfigMap some owner refers to.    *)
(* SetReference is called from event handlers, Start and WaitForSync once  *)
(* by the controller; each call takes the mutex several times, and between *)
(* two of its critical sections the other calls run.  A step is a critical *)
(* section with the unlocked code before it.                               *)
(***************************************************************************)
EXTENDS Naturals, FiniteSets

CONSTANTS
    Owners,    \* objects that hold a reference
    Refs,      \* ConfigMaps that can be referred to
    NoRef,     \* no reference (a nil argument)
    Callers,   \* goroutines that call SetReference
    Starter,   \* the goroutine that calls Start and WaitForSync
    MaxCalls   \* bound on the calls of SetReference

ASSUME RefsAssumption == NoRef \notin Refs
ASSUME ThreadsAssumption == Starter \notin Callers
ASSUME CallsAssumption == MaxCalls \in Nat

VARIABLES
    references,  \* the reference of each owner
    started,     \* Start has run its first critical section
    informers,   \* keys of the informers map
    live,        \* informers of each ConfigMap that run and are not cancelled
    synced,      \* those in the map whose HasSynced is true
    pc, todo,    \* where each goroutine is, the references it still loops over
    cur,         \* and the one it is starting
    calls,       \* calls of SetReference so far
    failed       \* an informer could not be built or started

sourceVars == <<references, started, informers, live, synced, pc, todo, cur, calls, failed>>

Threads == Callers \cup {Starter}

SourceInit ==
    /\ references = [o \in Owners |-> NoRef]
    /\ started = FALSE
    /\ informers = {} /\ live = [r \in Refs |-> 0] /\ synced = {}
    /\ pc = [t \in Threads |-> "idle"]
    /\ todo = [t \in Threads |-> {}]
    /\ cur = [t \in Threads |-> NoRef]
    /\ calls = 0 /\ failed = FALSE

-----------------------------------------------------------------------------
\* currentReferencesLocked, and isReferencedLocked as membership.
currentReferences == {references[o] : o \in Owners} \ {NoRef}

SetReference(t, o, r) ==
    /\ t \in Callers /\ pc[t] = "idle" /\ calls < MaxCalls
    /\ calls' = calls + 1
    /\ references' = [references EXCEPT ![o] = r]
    /\ IF started
         THEN /\ todo' = [todo EXCEPT ![t] = currentReferences']
              /\ pc' = [pc EXCEPT ![t] = "next"]
         ELSE UNCHANGED <<todo, pc>>
    /\ UNCHANGED <<started, informers, live, synced, cur, failed>>

\* Fault: started is published without the references of that moment.
StartNoReferences ==
    /\ pc[Starter] = "idle"
    /\ started' = TRUE
    /\ pc' = [pc EXCEPT ![Starter] = "next"]
    /\ UNCHANGED <<references, informers, live, synced, todo, cur, calls, failed>>

Start ==
    /\ pc[Starter] = "idle"
    /\ started' = TRUE
    /\ todo' = [todo EXCEPT ![Starter] = currentReferences]
    /\ pc' = [pc EXCEPT ![Starter] = "next"]
    /\ UNCHANGED <<references, informers, live, synced, cur, calls, failed>>

\* The first critical section of startReference: skip what is there already.
StartReference(t, r) ==
    /\ pc[t] = "next" /\ r \in todo[t]
    /\ todo' = [todo EXCEPT ![t] = @ \ {r}]
    /\ IF r \in informers \/ ~started
         THEN UNCHANGED <<pc, cur>>
         ELSE pc' = [pc EXCEPT ![t] = "commit"] /\ cur' = [cur EXCEPT ![t] = r]
    /\ UNCHANGED <<references, started, informers, live, synced, calls, failed>>

\* Fault: the map is not looked at again.
MayCommitNoRecheck(r) == r \in currentReferences

\* Fault: the reference is not looked at again.
MayCommitUnreferenced(r) == r \notin informers

\* The second critical section: whether the new informer is still wanted.
MayCommit(r) == r \notin informers /\ r \in currentReferences

CommitReference(t) ==
    /\ pc[t] = "commit"
    /\ LET r == cur[t]
       IN  IF MayCommit(r)
             THEN /\ informers' = informers \cup {r}
                  /\ live' = [live EXCEPT ![r] = @ + 1]
                  /\ synced' = synced \ {r}
             ELSE UNCHANGED <<informers, live, synced>>
    /\ pc' = [pc EXCEPT ![t] = "next"] /\ cur' = [cur EXCEPT ![t] = NoRef]
    /\ UNCHANGED <<references, started, todo, calls, failed>>

\* The informer cannot be built or started: the call returns, the rest of its
\* loop and stopUnreferenced do not run, and the caller logs the error.
StartReferenceFails(t) ==
    /\ pc[t] = "commit"
    /\ failed' = TRUE
    /\ pc' = [pc EXCEPT ![t] = IF t = Starter THEN "done" ELSE "idle"]
    /\ todo' = [todo EXCEPT ![t] = {}] /\ cur' = [cur EXCEPT ![t] = NoRef]
    /\ UNCHANGED <<references, started, informers, live, synced, calls>>

\* Fault: the informers are cancelled but stay in the map.
stopUnreferencedNoDelete(t) ==
    /\ t \in Callers /\ pc[t] = "next" /\ todo[t] = {}
    /\ live' = [r \in Refs |-> IF r \in informers \ currentReferences THEN 0 ELSE live[r]]
    /\ pc' = [pc EXCEPT ![t] = "idle"]
    /\ UNCHANGED <<references, started, informers, synced, todo, cur, calls, failed>>

stopUnreferenced(t) ==
    /\ t \in Callers /\ pc[t] = "next" /\ todo[t] = {}
    /\ LET unreferenced == informers \ currentReferences
       IN  /\ informers' = informers \ unreferenced
           /\ live' = [r \in Refs |-> IF r \in unreferenced THEN live[r] - 1 ELSE live[r]]
           /\ synced' = synced \ unreferenced
    /\ pc' = [pc EXCEPT ![t] = "idle"]
    /\ UNCHANGED <<references, started, todo, cur, calls, failed>>

\* Start returns and the controller calls WaitForSync.
StartReturns ==
    /\ pc[Starter] = "next" /\ todo[Starter] = {}
    /\ pc' = [pc EXCEPT ![Starter] = "wait"]
    /\ UNCHANGED <<references, started, informers, live, synced, todo, cur, calls, failed>>

\* One poll of WaitForSync that finds every informer of the map synced.
WaitForSync ==
    /\ pc[Starter] = "wait" /\ informers \subseteq synced
    /\ pc' = [pc EXCEPT ![Starter] = "done"]
    /\ UNCHANGED <<references, started, informers, live, synced, todo, cur, calls, failed>>

\* informer.Run lists its ConfigMap.
InformerSyncs(r) ==
    /\ r \in informers \ synced /\ live[r] > 0
    /\ synced' = synced \cup {r}
    /\ UNCHANGED <<references, started, informers, live, pc, todo, cur, calls, failed>>

Call(t) ==
    \/ \E r \in Refs : StartReference(t, r)
    \/ CommitReference(t) \/ StartReferenceFails(t) \/ stopUnreferenced(t)

Startup == Start \/ StartReturns \/ WaitForSync

SourceNext ==
    \/ \E t \in Callers, o \in Owners, r \in Refs \cup {NoRef} : SetReference(t, o, r)
    \/ \E t \in Threads : Call(t)
    \/ Startup
    \/ \E r \in Refs : InformerSyncs(r)

\* Goroutines are scheduled and the API server answers a list.
SourceFairness ==
    /\ \A t \in Threads : WF_sourceVars(Call(t))
    /\ WF_sourceVars(Startup)
    /\ \A r \in Refs : WF_sourceVars(InformerSyncs(r))

SourceSpec == SourceInit /\ [][SourceNext]_sourceVars
FairSourceSpec == SourceSpec /\ SourceFairness

-----------------------------------------------------------------------------
(* Properties.                                                             *)

\* Every variable stays in its range, a goroutine between the two critical
\* sections of startReference has a reference, and nothing runs before Start.
SourceTypeOK ==
    /\ references \in [Owners -> Refs \cup {NoRef}]
    /\ started \in BOOLEAN
    /\ informers \in SUBSET Refs /\ live \in [Refs -> Nat] /\ synced \in SUBSET informers
    /\ pc \in [Threads -> {"idle", "next", "commit", "wait", "done"}]
    /\ todo \in [Threads -> SUBSET Refs]
    /\ cur \in [Threads -> Refs \cup {NoRef}]
    /\ calls \in 0..MaxCalls /\ failed \in BOOLEAN
    /\ \A t \in Threads : pc[t] = "commit" => cur[t] # NoRef
    /\ \A t \in Threads : pc[t] \notin {"next", "commit"} => todo[t] = {}
    /\ \A t \in Callers : pc[t] \notin {"wait", "done"}
    /\ ~started => informers = {} /\ \A t \in Threads : pc[t] = "idle"

\* configmap_source.go:140: "maintains one exact metadata-only informer for
\* each namespaced reference".  The map and the running informers agree: two
\* calls that start the same reference leave one informer, and none keeps
\* running after it was dropped from the map.
OneInformer ==
    \A r \in Refs : live[r] = IF r \in informers THEN 1 ELSE 0

\* The goroutine still has to start r.
WillStart(t, r) == r \in todo[t] \/ (pc[t] = "commit" /\ cur[t] = r)

\* Unless a start failed, a reference without an informer is somebody's work in progress, whatever
\* order the calls' critical sections ran in.
ReferencesCovered ==
    ~failed /\ started =>
        \A r \in currentReferences \ informers : \E t \in Threads : WillStart(t, r)

\* Unless a start failed, an informer nobody refers to any more will be stopped
\* by a call that has not reached stopUnreferenced yet.
StaleWillStop ==
    ~failed => (informers \subseteq currentReferences \/ \E t \in Callers : pc[t] # "idle")

\* Unless a start failed: when no call is in progress the informers are exactly those referred to.
WatchesReferences ==
    ~failed /\ started /\ (\A t \in Threads : pc[t] \notin {"next", "commit"})
      => informers = currentReferences

\* The source implements its promise: a ConfigMap is watched only from a
\* moment it is referred to until a moment it is not.
Promise == INSTANCE WatchedReferences WITH watched <- informers

ImplementsPromise == Promise!Spec

\* "SetReference registers or updates an owner's ConfigMap reference": once
\* the owners stop changing, every reference ends up watched and nothing else,
\* unless a start failed (its error is logged and nothing tries again).
EventuallyWatched == <>[](~failed => informers = currentReferences)

\* The controller's start-up does not hang: WaitForSync returns although
\* informers are replaced while it polls.
WaitReturns == <>(pc[Starter] = "done")

\* The source gets where it is going: references end up watched, and the
\* start-up that waits for them ends.
SourceConverges == EventuallyWatched /\ WaitReturns

=============================================================================
