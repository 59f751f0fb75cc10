-------------------------- MODULE NimAccountProofs --------------------------
(***************************************************************************)
(* Theorems about NimAccount, for all bounds and all kinds of events.      *)
(***************************************************************************)
EXTENDS NimAccount, TLAPS

\* The concatenation of two lists.
LEMMA ConcatFacts ==
    ASSUME NEW S, NEW s \in Seq(S), NEW t \in Seq(S)
    PROVE  s \o t \in Seq(S) /\ Len(s \o t) = Len(s) + Len(t)
  OBVIOUS

\* Removing a position of a finalizer list leaves a finalizer list with the
\* entries of the other positions (the JSON patch of Reconcile).
LEMMA RemoveAtFacts ==
    ASSUME NEW S, NEW s \in Seq(S), NEW i \in 1..Len(s)
    PROVE  /\ RemoveAt(s, i) \in Seq(S)
           /\ \A e : Contains(s, e) /\ s[i] # e => Contains(RemoveAt(s, i), e)
<1> DEFINE t == RemoveAt(s, i)
           a == SubSeq(s, 1, i - 1)
           b == SubSeq(s, i + 1, Len(s))
<1>0. Len(s) \in Nat /\ i \in Nat /\ i >= 1 /\ i <= Len(s)
  OBVIOUS
<1>1. a \in Seq(S) /\ Len(a) = i - 1 /\ \A j \in 1..(i - 1) : a[j] = s[j]
  BY <1>0
<1>2. b \in Seq(S) /\ Len(b) = Len(s) - i /\ \A j \in 1..(Len(s) - i) : b[j] = s[i + j]
  BY <1>0
<1> HIDE DEF a, b
<1>t. t = a \o b
  BY DEF RemoveAt, a, b, t
<1> HIDE DEF t
<1>3. t \in Seq(S) /\ Len(t) = Len(s) - 1
  <2>1. a \o b \in Seq(S) /\ Len(a \o b) = Len(a) + Len(b)
    BY <1>1, <1>2, ConcatFacts, Zenon
  <2>2. t \in Seq(S)
    BY <2>1, <1>t
  <2>3. Len(t) = (i - 1) + (Len(s) - i)
    BY <2>1, <1>1, <1>2, <1>t
  <2> QED
    BY <2>2, <2>3, <1>0
<1>4. ASSUME NEW j \in 1..Len(s), j < i PROVE j \in 1..Len(t) /\ t[j] = s[j]
  <2>1. j \in 1..Len(a) /\ j \in 1..Len(t)
    BY <1>0, <1>1, <1>3, <1>4
  <2>2. (a \o b)[j] = a[j]
    BY <2>1, <1>1, <1>2
  <2> QED
    BY <2>1, <2>2, <1>0, <1>1, <1>t
<1>5. ASSUME NEW j \in 1..Len(s), j > i PROVE j - 1 \in 1..Len(t) /\ t[j - 1] = s[j]
  <2>1. j - 1 \in 1..Len(t) /\ j - 1 > Len(a) /\ j - i \in 1..(Len(s) - i) /\ i + (j - i) = j
    BY <1>0, <1>1, <1>3, <1>5
  <2>2. t[j - 1] = b[j - 1 - Len(a)]
    BY <2>1, <1>0, <1>1, <1>2, <1>t
  <2> QED
    BY <2>1, <2>2, <1>0, <1>1, <1>2
<1>6. ASSUME NEW e, Contains(s, e), s[i] # e PROVE Contains(t, e)
  <2>1. PICK j \in 1..Len(s) : s[j] = e
    BY <1>6 DEF Contains
  <2>2. j < i \/ j > i
    BY <2>1, <1>6
  <2> QED
    BY <2>1, <2>2, <1>4, <1>5, ZenonT(40), Zenon DEF Contains
<1> QED
  BY <1>3, <1>6 DEF t

\* Appending a finalizer keeps the others.
LEMMA AppendFacts ==
    ASSUME NEW S, NEW s \in Seq(S), NEW f \in S
    PROVE  /\ Append(s, f) \in Seq(S)
           /\ \A e : Contains(Append(s, f), e) <=> (e = f \/ Contains(s, e))
<1>1. Append(s, f) \in Seq(S) /\ Len(Append(s, f)) = Len(s) + 1 /\ Append(s, f)[Len(s) + 1] = f
  OBVIOUS
<1>2. \A j \in 1..Len(s) : Append(s, f)[j] = s[j]
  OBVIOUS
<1>3. Len(s) \in Nat
  OBVIOUS
<1> QED
  BY <1>1, <1>2, <1>3 DEF Contains

-----------------------------------------------------------------------------
(* Types.                                                                  *)

\* The empty status and account are well typed.
LEMMA InitialData ==
    NoStatus \in Statuses /\ NoAccount \in Accounts /\ NoObject \in Objects
    /\ NotTrue \in Condition
<1>1. NotTrue \in Condition
  BY BoundsAssumption DEF NotTrue, Condition
<1>2. NoStatus \in Statuses
  BY <1>1, BoundsAssumption DEF NoStatus, Statuses, Ages
<1>3. NoAccount \in Accounts
  BY <1>2, BoundsAssumption DEF NoAccount, Accounts
<1> QED
  BY <1>1, <1>2, <1>3, BoundsAssumption DEF NoObject, Objects, Secrets

\* The statuses that handlers compute are well typed, and those that are
\* computed without a validation call no key valid that was not.
LEMMA StatusFacts ==
    ASSUME NEW st \in Statuses
    PROVE  /\ \A c \in Conditions, cnd \in Condition :
                /\ WithCond(st, c, cnd) \in Statuses
                /\ WithCond(st, c, cnd).valAt = st.valAt
                /\ c # "key" => WithCond(st, c, cnd).cond["key"] = st.cond["key"]
           /\ \A c \in Conditions :
                /\ FailedStatus(st, c) \in Statuses
                /\ FailedStatus(st, c).valAt = st.valAt
                /\ FailedStatus(st, c).cond["key"].ok => st.cond["key"].ok
           /\ makeCleanStatusForAccountFailure(st) \in Statuses
           /\ ~makeCleanStatusForAccountFailure(st).cond["key"].ok
<1>1. ASSUME NEW c \in Conditions, NEW cnd \in Condition
      PROVE  /\ WithCond(st, c, cnd) \in Statuses
             /\ WithCond(st, c, cnd).valAt = st.valAt
             /\ c # "key" => WithCond(st, c, cnd).cond["key"] = st.cond["key"]
  BY DEF WithCond, Statuses, Conditions
<1>2. ASSUME NEW c \in Conditions
      PROVE  /\ FailedStatus(st, c) \in Statuses
             /\ FailedStatus(st, c).valAt = st.valAt
             /\ FailedStatus(st, c).cond["key"].ok => st.cond["key"].ok
  <2>1. c \in DOMAIN st.cond /\ "account" \in DOMAIN st.cond /\ "key" \in DOMAIN st.cond
    BY DEF Statuses, Conditions
  <2>2. FailedStatus(st, c) = [st EXCEPT !.cond = [[st.cond EXCEPT ![c] = NotTrue] EXCEPT !["account"] = NotTrue]]
    BY <2>1, ZenonT(40), Zenon DEF FailedStatus, Statuses
  <2>3. [[st.cond EXCEPT ![c] = NotTrue] EXCEPT !["account"] = NotTrue] \in [Conditions -> Condition]
    BY InitialData DEF Statuses, Conditions
  <2>4. FailedStatus(st, c).cond["key"] \in {NotTrue, st.cond["key"]}
    BY <2>1, <2>2 DEF Statuses
  <2>5. FailedStatus(st, c) \in Statuses /\ FailedStatus(st, c).valAt = st.valAt
    BY <2>2, <2>3 DEF Statuses
  <2> QED
    BY <2>4, <2>5 DEF NotTrue
<1>3. makeCleanStatusForAccountFailure(st) \in Statuses
  <2>1. [k \in Kinds |-> 0] \in [Kinds -> 0..MaxIds]
    BY BoundsAssumption
  <2>2. [c \in Conditions |-> NotTrue] \in [Conditions -> Condition]
    BY InitialData
  <2> QED
    BY <2>1, <2>2, Zenon, Zenon DEF makeCleanStatusForAccountFailure, Statuses
<1>4. ~makeCleanStatusForAccountFailure(st).cond["key"].ok
  BY DEF makeCleanStatusForAccountFailure, Statuses, Conditions, NotTrue
<1> QED
  BY <1>1, <1>2, <1>3, <1>4

\* The types of the worker's variables.
PcSet == {"idle", "start", "unfinalize", "validate", "config", "template", "pull", "healthy", "update"}
Writes == [status : Statuses, next : Afterwards, stamped : BOOLEAN]
WorkerOK ==
    /\ pc \in PcSet /\ rd \in Accounts /\ air \in BOOLEAN
    /\ secret \in Secrets \cup {"unread"} /\ pend \in Writes

\* The types of the rest.
ClusterOK ==
    /\ acct \in Accounts /\ cache \in Accounts /\ born \in 1..MaxIncarnations
    /\ key \in Secrets /\ force \in BOOLEAN /\ airGapped \in BOOLEAN
    /\ res \in [Kinds -> Objects]
    /\ queued \in BOOLEAN /\ mode \in {"managed", "cleaning", "removed"}
    /\ events \in 0..MaxEvents /\ faulted \in BOOLEAN

\* TypeOK is the conjunction of the two.
LEMMA TypeSplit == (TypeOK <=> WorkerOK /\ ClusterOK) /\ (TypeOK' <=> WorkerOK' /\ ClusterOK')
  BY DEF TypeOK, WorkerOK, ClusterOK, PcSet, Writes

\* A returning reconcile leaves a typed, idle worker.
LEMMA ReturnFacts ==
    ASSUME TypeOK, NEW b \in BOOLEAN, Return(b)
    PROVE  WorkerOK' /\ queued' \in BOOLEAN
<1>1. NoWrite \in Writes
  BY InitialData DEF NoWrite, Writes, Afterwards
<1> QED
  BY <1>1, InitialData, ZenonT(40), Zenon DEF Return, WorkerOK, PcSet, Secrets, TypeOK

\* A handler that writes a typed status leaves a typed worker.
LEMMA WriteFacts ==
    ASSUME TypeOK, NEW st \in Statuses, NEW nx \in Afterwards, NEW b \in BOOLEAN,
           WriteStatus(st, nx, b), secret' \in Secrets \cup {"unread"}
    PROVE  WorkerOK'
  BY DEF WriteStatus, WorkerOK, PcSet, Writes, TypeOK

\* The resources stay typed when some are removed or one is applied.
LEMMA ResourceFacts ==
    ASSUME TypeOK
    PROVE  /\ \A gone : [k \in Kinds |-> IF k \in gone THEN NoObject ELSE res[k]] \in [Kinds -> Objects]
           /\ \A k \in Kinds, obj \in Objects : [res EXCEPT ![k] = obj] \in [Kinds -> Objects]
           /\ \A k \in Kinds, v \in Secrets : Applied(k, v) \subseteq Objects
<1>1. \A gone : [k \in Kinds |-> IF k \in gone THEN NoObject ELSE res[k]] \in [Kinds -> Objects]
  BY InitialData DEF TypeOK
<1>2. \A k \in Kinds, obj \in Objects : [res EXCEPT ![k] = obj] \in [Kinds -> Objects]
  BY DEF TypeOK
<1>3. ASSUME NEW k \in Kinds, NEW v \in Secrets PROVE Applied(k, v) \subseteq Objects
  <2>1. CASE res[k].uid # 0
    <3>1. res[k] \in Objects /\ rd.uid \in 0..MaxIncarnations
      BY DEF TypeOK, Accounts
    <3>2. \A o \in 0..MaxIncarnations : [res[k] EXCEPT !.owner = o, !.val = v] \in Objects
      BY <3>1, Zenon DEF Objects
    <3>3. res[k].owner \in 0..MaxIncarnations
      BY <3>1 DEF Objects
    <3> QED
      BY <2>1, <3>1, <3>2, <3>3, Zenon, Zenon DEF Applied
  <2>2. CASE res[k].uid = 0
    <3>1. \A i \in (IF k = "config" THEN {1} ELSE FreshIds(k)) : i \in 0..MaxIds
      BY BoundsAssumption DEF FreshIds
    <3>2. Applied(k, v) = {[uid |-> i, owner |-> rd.uid, val |-> v] : i \in IF k = "config" THEN {1} ELSE FreshIds(k)}
      BY <2>2 DEF Applied
    <3> QED
      BY <3>1, <3>2, SMTT(30) DEF TypeOK, Objects, Accounts
  <2> QED
    BY <2>1, <2>2
<1> QED
  BY <1>1, <1>2, <1>3

\* The event counter stays in its range, and the note of faults a Boolean.
LEMMA CounterFacts ==
    ASSUME TypeOK
    PROVE  /\ Calm => events' \in 0..MaxEvents /\ faulted' \in BOOLEAN
           /\ \A h : Happens(h) => events' \in 0..MaxEvents /\ faulted' \in BOOLEAN
<1>1. Calm => events' \in 0..MaxEvents /\ faulted' \in BOOLEAN
  BY DEF TypeOK, Calm
<1>2. ASSUME NEW h, Happens(h) PROVE events' \in 0..MaxEvents /\ faulted' \in BOOLEAN
  <2>1. events' \in 0..MaxEvents
    BY <1>2, BoundsAssumption DEF TypeOK, Happens
  <2>2. faulted' \in BOOLEAN
    BY <1>2, Zenon, Zenon DEF Happens
  <2> QED
    BY <2>1, <2>2
<1> QED
  BY <1>1, <1>2

\* So they do in a cleanup, complete or not.
LEMMA CleanupFacts ==
    ASSUME TypeOK, (CleanupResources(Referenced) /\ Calm) \/ CleanupAnyway \/ CleanupPartly
    PROVE  /\ res' \in [Kinds -> Objects] /\ queued' \in BOOLEAN
           /\ events' \in 0..MaxEvents /\ faulted' \in BOOLEAN
           /\ \E gone : CleanupResources(gone)
<1>1. \A gone : CleanupResources(gone) => res' \in [Kinds -> Objects] /\ queued' \in BOOLEAN
  BY ResourceFacts DEF CleanupResources, TypeOK
<1>2. Calm \/ Happens("fail")
  BY DEF CleanupAnyway, CleanupPartly
<1>3. events' \in 0..MaxEvents /\ faulted' \in BOOLEAN
  BY <1>2, CounterFacts
<1>4. \E gone : CleanupResources(gone)
  BY Zenon, Zenon DEF CleanupAnyway, CleanupPartly
<1> QED
  BY <1>1, <1>3, <1>4

\* The True conditions, and the statuses of a success, are typed.
LEMMA SuccessFacts ==
    ASSUME TypeOK, NEW mde \in BOOLEAN
    PROVE  /\ CondTrue(rd, mde) \in Condition
           /\ Validated(mde) \in Statuses /\ Validated(mde).valAt = "recent"
           /\ \A c \in Conditions : WithCond(rd.status, c, CondTrue(rd, mde)) \in Statuses
<1>0. rd.status \in Statuses
  BY DEF TypeOK, Accounts
<1>1. CondTrue(rd, mde) \in Condition
  BY BoundsAssumption DEF CondTrue, Condition, TypeOK, Accounts
<1>2. \A c \in Conditions : WithCond(rd.status, c, CondTrue(rd, mde)) \in Statuses
  BY <1>0, <1>1, StatusFacts, Zenon
<1>3. Validated(mde) \in Statuses /\ Validated(mde).valAt = "recent"
  BY <1>2, ZenonT(40), Zenon DEF Validated, Statuses, Conditions, Ages
<1> QED
  BY <1>1, <1>2, <1>3

\* What every step of the worker leaves typed without further argument.
LEMMA AtFacts ==
    ASSUME TypeOK, NEW l, At(l)
    PROVE  /\ born' \in 1..MaxIncarnations /\ key' \in Secrets /\ airGapped' \in BOOLEAN
           /\ mode' \in {"managed", "cleaning", "removed"}
  BY DEF At, TypeOK

\* Dropping a deleted account whose list is empty, changing its list or its
\* status, gives an account.
LEMMA AccountFacts ==
    ASSUME NEW a \in Accounts
    PROVE  /\ Settle(a) \in Accounts /\ a.status \in Statuses /\ a.fins \in Seq(Finalizers)
           /\ \A s \in Seq(Finalizers) : [a EXCEPT !.fins = s] \in Accounts
           /\ \A st \in Statuses : [a EXCEPT !.status = st] \in Accounts
           /\ \A b \in BOOLEAN : [a EXCEPT !.deleting = b] \in Accounts
  BY InitialData DEF Settle, Accounts

\* The steps before the handlers keep the types.
LEMMA TypeStart ==
    ASSUME TypeOK, ReadAccount \/ AddFinalizer \/ CleanupDeleted \/ RemoveFinalizer
                   \/ NothingToFinalize \/ StartHandlers
    PROVE  TypeOK'
<1> USE DEF TypeOK
<1>1. CASE ReadAccount
  <2>1. ClusterOK'
    BY <1>1, AtFacts, CounterFacts, ZenonT(40), Zenon DEF ReadAccount, Keeps, ClusterOK
  <2>2. WorkerOK'
    BY <1>1 DEF ReadAccount, WorkerOK, PcSet, Writes
  <2> QED
    BY <2>1, <2>2, TypeSplit
<1>2. CASE AddFinalizer
  <2>1. [acct EXCEPT !.fins = Append(@, "nim")] \in Accounts
    BY AccountFacts, AppendFacts, ZenonT(40), Zenon DEF Finalizers
  <2>2. acct' \in Accounts
    BY <1>2, <2>1 DEF AddFinalizer
  <2>3. WorkerOK' /\ queued' \in BOOLEAN
    BY <1>2, ReturnFacts, ZenonT(40), Zenon DEF AddFinalizer
  <2>4. ClusterOK'
    BY <1>2, <2>2, <2>3, AtFacts, CounterFacts, SMTT(30) DEF AddFinalizer, ClusterOK
  <2> QED
    BY <2>3, <2>4, TypeSplit
<1>3. CASE CleanupDeleted
  <2>1. ClusterOK'
    BY <1>3, AtFacts, CounterFacts, ResourceFacts DEF CleanupDeleted, CleanupResources, Keeps, ClusterOK
  <2>2. WorkerOK'
    BY <1>3 DEF CleanupDeleted, WorkerOK, PcSet, Writes
  <2> QED
    BY <2>1, <2>2, TypeSplit
<1>4. CASE RemoveFinalizer
  <2>1. acct' \in Accounts
    <3>1. CASE NimIndex \in 1..Len(acct.fins)
      <4>1. RemoveAt(acct.fins, NimIndex) \in Seq(Finalizers)
        BY <3>1, AccountFacts, RemoveAtFacts
      <4>2. Settle([acct EXCEPT !.fins = RemoveAt(acct.fins, NimIndex)]) \in Accounts
        BY <4>1, AccountFacts
      <4> QED
        BY <1>4, <3>1, <4>2 DEF RemoveFinalizer
    <3>2. CASE NimIndex \notin 1..Len(acct.fins)
      BY <1>4, <3>2 DEF RemoveFinalizer
    <3> QED
      BY <3>1, <3>2
  <2>2. WorkerOK' /\ queued' \in BOOLEAN
    BY <1>4, ReturnFacts, ZenonT(40), Zenon DEF RemoveFinalizer
  <2>3. ClusterOK'
    BY <1>4, <2>1, <2>2, AtFacts, CounterFacts DEF RemoveFinalizer, ClusterOK
  <2> QED
    BY <2>2, <2>3, TypeSplit
<1>5. CASE NothingToFinalize
  <2>1. WorkerOK' /\ queued' \in BOOLEAN
    BY <1>5, ReturnFacts, ZenonT(40), Zenon DEF NothingToFinalize
  <2>2. ClusterOK'
    BY <1>5, <2>1, AtFacts, CounterFacts DEF NothingToFinalize, Keeps, ClusterOK
  <2> QED
    BY <2>1, <2>2, TypeSplit
<1>6. CASE StartHandlers
  <2>1. ClusterOK'
    BY <1>6, AtFacts, CounterFacts DEF StartHandlers, Keeps, ClusterOK
  <2>2. WorkerOK'
    BY <1>6, Zenon, Zenon DEF StartHandlers, WorkerOK, PcSet, Writes
  <2> QED
    BY <2>1, <2>2, TypeSplit
<1> QED
  BY <1>1, <1>2, <1>3, <1>4, <1>5, <1>6

\* A handler's step leaves the account alone: types follow from the rest.
LEMMA HandlerType ==
    ASSUME TypeOK, NEW l, At(l), UNCHANGED <<acct, cache>>, force' \in BOOLEAN,
           res' \in [Kinds -> Objects], queued' \in BOOLEAN,
           events' \in 0..MaxEvents, faulted' \in BOOLEAN, WorkerOK'
    PROVE  TypeOK'
<1>1. ClusterOK'
  BY AtFacts DEF ClusterOK, TypeOK
<1> QED
  BY <1>1, TypeSplit

\* ValidationHandler keeps the types.
LEMMA TypeValidation ==
    ASSUME TypeOK, ValidateAirGapped \/ LoadSecretFails \/ SkipValidation \/ RuntimesUnavailable
                   \/ KeyDataMissing \/ KeyRejected \/ KeyValidated \/ KeyStillValid
    PROVE  TypeOK'
<1> DEFINE clean == makeCleanStatusForAccountFailure(rd.status)
<1>s. rd.status \in Statuses /\ clean \in Statuses /\ FailedStatus(rd.status, "key") \in Statuses
  <2>1. rd.status \in Statuses
    BY DEF TypeOK, Accounts
  <2> QED
    BY <2>1, StatusFacts, Zenon DEF Conditions
<1>n. {"requeue", "stop", "error", "failConfig", "failPull"} = Afterwards
  BY DEF Afterwards
<1>t. /\ res \in [Kinds -> Objects] /\ queued \in BOOLEAN /\ force \in BOOLEAN /\ key \in Secrets
      /\ secret \in Secrets \cup {"unread"} /\ rd \in Accounts /\ air \in BOOLEAN /\ pend \in Writes
  BY DEF TypeOK, Writes
<1>c. ASSUME CleanupResources(Referenced) PROVE res' \in [Kinds -> Objects] /\ queued' \in BOOLEAN
  BY <1>c, <1>t, ResourceFacts DEF CleanupResources
<1> HIDE DEF clean
<1>1. CASE ValidateAirGapped
  <2>1. WorkerOK' /\ queued' \in BOOLEAN
    <3>1. CASE CondUpdated("key", TRUE) \/ rd.status.valAt = "nil"
      BY <1>1, <3>1, <1>n, <1>t, SuccessFacts, WriteFacts, ZenonT(40), Zenon DEF ValidateAirGapped
    <3>2. CASE ~(CondUpdated("key", TRUE) \/ rd.status.valAt = "nil")
      BY <1>1, <3>2, <1>t DEF ValidateAirGapped, Continue, WorkerOK, PcSet
    <3> QED
      BY <3>1, <3>2, Zenon, Zenon
  <2> QED
    BY <1>1, <2>1, <1>t, HandlerType, CounterFacts DEF ValidateAirGapped, Keeps
<1>2. CASE LoadSecretFails
  <2>1. WorkerOK'
    BY <1>2, <1>s, <1>n, <1>t, WriteFacts, ZenonT(40), Zenon DEF LoadSecretFails, clean
  <2> QED
    BY <1>2, <2>1, <1>t, CleanupFacts, HandlerType, Zenon, Zenon DEF LoadSecretFails, Keeps
<1>3. CASE SkipValidation
  <2>1. WorkerOK' /\ queued' \in BOOLEAN
    BY <1>3, <1>t DEF SkipValidation, Continue, WorkerOK, PcSet
  <2> QED
    BY <1>3, <2>1, <1>t, HandlerType, CounterFacts DEF SkipValidation, Keeps
<1>4. CASE RuntimesUnavailable
  <2>1. WorkerOK'
    BY <1>4, <1>s, <1>n, <1>t, WriteFacts, Zenon, Zenon DEF RuntimesUnavailable
  <2> QED
    BY <1>4, <2>1, <1>t, HandlerType, CounterFacts, Zenon, Zenon DEF RuntimesUnavailable, Validating
<1>5. CASE KeyDataMissing
  <2>1. WorkerOK'
    BY <1>5, <1>s, <1>n, <1>t, WriteFacts, Zenon, Zenon DEF KeyDataMissing, clean
  <2> QED
    BY <1>5, <2>1, <1>t, CleanupFacts, HandlerType, Zenon, Zenon DEF KeyDataMissing, Validating
<1>6. CASE KeyRejected
  <2>1. WorkerOK'
    BY <1>6, <1>s, <1>n, <1>t, WriteFacts, Zenon, Zenon DEF KeyRejected, clean
  <2> QED
    BY <1>6, <2>1, <1>t, <1>c, HandlerType, CounterFacts, Zenon, Zenon DEF KeyRejected, Validating
<1>7. CASE KeyValidated
  <2>1. WorkerOK'
    BY <1>7, <1>n, <1>t, SuccessFacts, WriteFacts, Zenon, Zenon DEF KeyValidated
  <2> QED
    BY <1>7, <2>1, <1>t, HandlerType, CounterFacts, Zenon, Zenon DEF KeyValidated, Validating
<1>8. CASE KeyStillValid
  <2>1. WorkerOK' /\ queued' \in BOOLEAN
    BY <1>8, ReturnFacts, ZenonT(40), Zenon DEF KeyStillValid
  <2> QED
    BY <1>8, <2>1, <1>t, HandlerType, CounterFacts, Zenon, Zenon DEF KeyStillValid, Validating
<1> QED
  BY <1>1, <1>2, <1>3, <1>4, <1>5, <1>6, <1>7, <1>8

\* The status a successful configuration writes is typed.
LEMMA ConfigFacts ==
    ASSUME TypeOK, NEW mde \in BOOLEAN
    PROVE  LET st == WithCond(rd.status, "config", CondTrue(rd, mde))
               new == [st EXCEPT !.refs["config"] = 1, !.cfgAt = "recent", !.newer = FALSE]
           IN  new \in Statuses /\ new.cond = st.cond /\ new.valAt = st.valAt
<1> DEFINE st == WithCond(rd.status, "config", CondTrue(rd, mde))
<1>0. "config" \in Conditions
  BY DEF Conditions, Kinds
<1>1. st \in Statuses
  BY <1>0, SuccessFacts
<1> HIDE DEF st
<1>2. LET new == [st EXCEPT !.refs["config"] = 1, !.cfgAt = "recent", !.newer = FALSE]
      IN  new \in Statuses /\ new.cond = st.cond /\ new.valAt = st.valAt
  <2>1. [st.refs EXCEPT !["config"] = 1] \in [Kinds -> 0..MaxIds]
    <3>1. st.refs \in [Kinds -> 0..MaxIds]
      BY <1>1 DEF Statuses
    <3>2. 1 \in 0..MaxIds
      BY BoundsAssumption
    <3> QED
      BY <3>1, <3>2, Zenon, Zenon
  <2> DEFINE r == [st.refs EXCEPT !["config"] = 1]
  <2>2. [st EXCEPT !.refs["config"] = 1, !.cfgAt = "recent", !.newer = FALSE]
          = [st EXCEPT !.refs = r, !.cfgAt = "recent", !.newer = FALSE]
    BY <1>1 DEF Statuses
  <2> HIDE DEF r
  <2>3. LET new == [st EXCEPT !.refs = r, !.cfgAt = "recent", !.newer = FALSE]
        IN  new \in Statuses /\ new.cond = st.cond /\ new.valAt = st.valAt
    BY <1>1, <2>1, ZenonT(40), Zenon DEF Statuses, Ages, r
  <2> QED
    BY <2>2, <2>3
<1> QED
  BY <1>2 DEF st

\* ConfigMapHandler keeps the types.
LEMMA TypeConfig ==
    ASSUME TypeOK, ConfigAirGapped \/ SkipConfig \/ RefreshConfig \/ RefreshConfigFails \/ KeyMissingForConfig
    PROVE  TypeOK'
<1>s. /\ makeCleanStatusForAccountFailure(rd.status) \in Statuses
      /\ FailedStatus(rd.status, "config") \in Statuses
  <2>1. rd.status \in Statuses
    BY DEF TypeOK, Accounts
  <2>2. "config" \in Conditions
    BY DEF Conditions, Kinds
  <2> QED
    BY <2>1, <2>2, StatusFacts
<1>n. {"requeue", "stop", "error", "failConfig", "failPull"} = Afterwards
  BY DEF Afterwards
<1>t. /\ res \in [Kinds -> Objects] /\ queued \in BOOLEAN /\ force \in BOOLEAN /\ key \in Secrets
      /\ secret \in Secrets \cup {"unread"} /\ rd \in Accounts /\ air \in BOOLEAN /\ pend \in Writes
  BY DEF TypeOK, Writes
<1>1. CASE ConfigAirGapped
  <2>1. WorkerOK' /\ queued' \in BOOLEAN
    <3> DEFINE new == [WithCond(rd.status, "config", CondTrue(rd, TRUE))
                         EXCEPT !.refs["config"] = 1, !.cfgAt = "recent", !.newer = FALSE]
    <3>0. new \in Statuses
      BY ConfigFacts, Zenon, Zenon
    <3>1. CASE WriteStatus(new, "requeue", TRUE) /\ UNCHANGED <<queued, secret>>
      <4> HIDE DEF new
      <4> QED
        BY <3>0, <3>1, <1>n, <1>t, WriteFacts, Zenon, Zenon
    <3>2. CASE Continue("template") /\ UNCHANGED secret
      BY <3>2, <1>t DEF Continue, WorkerOK, PcSet
    <3> QED
      BY <1>1, <3>1, <3>2, ZenonT(40), Zenon DEF ConfigAirGapped
  <2> QED
    BY <1>1, <2>1, <1>t, HandlerType, CounterFacts DEF ConfigAirGapped, Keeps
<1>2. CASE SkipConfig
  <2>1. WorkerOK' /\ queued' \in BOOLEAN
    BY <1>2, <1>t DEF SkipConfig, Continue, WorkerOK, PcSet
  <2> QED
    BY <1>2, <2>1, <1>t, HandlerType, CounterFacts DEF SkipConfig, Keeps
<1>3. CASE RefreshConfig
  <2> DEFINE new == [WithCond(rd.status, "config", CondTrue(rd, FALSE))
                       EXCEPT !.refs["config"] = 1, !.cfgAt = "recent", !.newer = FALSE]
  <2>0. new \in Statuses /\ WriteStatus(new, "requeue", TRUE)
    BY <1>3, ConfigFacts, ZenonT(40), Zenon DEF RefreshConfig
  <2> HIDE DEF new
  <2>1. WorkerOK'
    BY <1>3, <2>0, <1>n, <1>t, WriteFacts, ZenonT(40), Zenon DEF RefreshConfig
  <2>2. res' \in [Kinds -> Objects] /\ queued' \in BOOLEAN
    <3>1. PICK obj \in Applied("config", "absent") : Apply("config", obj)
      BY <1>3 DEF RefreshConfig
    <3>2. obj \in Objects
      BY <3>1, ResourceFacts DEF Kinds, Secrets
    <3> QED
      BY <3>1, <3>2, <1>t, ResourceFacts DEF Apply, Kinds
  <2> QED
    BY <1>3, <2>1, <2>2, <1>t, HandlerType, CounterFacts DEF RefreshConfig, Keeps
<1>4. CASE RefreshConfigFails
  <2>1. WorkerOK'
    BY <1>4, <1>s, <1>n, <1>t, WriteFacts, ZenonT(40), Zenon DEF RefreshConfigFails
  <2> QED
    BY <1>4, <2>1, <1>t, HandlerType, CounterFacts DEF RefreshConfigFails, Keeps
<1>5. CASE KeyMissingForConfig
  <2>1. WorkerOK'
    BY <1>5, <1>s, <1>n, <1>t, WriteFacts, ZenonT(40), Zenon DEF KeyMissingForConfig
  <2>2. res' \in [Kinds -> Objects] /\ queued' \in BOOLEAN
    BY <1>5, CleanupFacts DEF KeyMissingForConfig
  <2> QED
    BY <1>5, <2>1, <2>2, <1>t, CleanupFacts, HandlerType DEF KeyMissingForConfig, Keeps
<1> QED
  BY <1>1, <1>2, <1>3, <1>4, <1>5

\* What a Template or pull Secret handler leaves.
LEMMA ReconciledFacts ==
    ASSUME TypeOK, NEW k \in {"template", "pull"}, NEW obj \in Objects, NEW l \in PcSet,
           Reconciled(k, obj, l), secret' \in Secrets \cup {"unread"}
    PROVE  /\ WorkerOK' /\ res' \in [Kinds -> Objects] /\ queued' \in BOOLEAN
           /\ rd' = rd
           /\ pend' = pend \/ (pend'.status.cond["key"] = rd.status.cond["key"] /\ pend'.status.valAt = rd.status.valAt)
<1> DEFINE st == WithCond(rd.status, k, CondTrue(rd, FALSE))
           new == [st EXCEPT !.refs[k] = obj.uid]
<1>0. rd.status \in Statuses /\ CondTrue(rd, FALSE) \in Condition /\ k \in Conditions /\ k \in Kinds /\ k # "key"
  <2>1. k \in Conditions /\ k \in Kinds /\ k # "key"
    BY DEF Conditions, Kinds
  <2>2. rd.status \in Statuses
    BY DEF TypeOK, Accounts
  <2> QED
    BY <2>1, <2>2, SuccessFacts, Zenon, Zenon
<1>1. st \in Statuses /\ st.cond["key"] = rd.status.cond["key"] /\ st.valAt = rd.status.valAt
  <2>1. \A c \in Conditions, cnd \in Condition :
          /\ WithCond(rd.status, c, cnd) \in Statuses
          /\ WithCond(rd.status, c, cnd).valAt = rd.status.valAt
          /\ c # "key" => WithCond(rd.status, c, cnd).cond["key"] = rd.status.cond["key"]
    BY <1>0, StatusFacts, ZenonT(40), Zenon
  <2> QED
    BY <1>0, <2>1, Zenon, Zenon
<1> HIDE DEF st
<1>2. new \in Statuses /\ new.cond = st.cond /\ new.valAt = st.valAt
  BY <1>0, <1>1 DEF Statuses, Objects
<1> HIDE DEF new
<1>3. res' \in [Kinds -> Objects] /\ queued' \in BOOLEAN
  BY <1>0, ResourceFacts DEF Reconciled, Apply, TypeOK
<1>4. CASE WriteStatus(new, "requeue", FALSE)
  <2>1. WorkerOK'
    BY <1>2, <1>4, WriteFacts, ZenonT(40), Zenon DEF Afterwards
  <2>2. pend'.status = new /\ rd' = rd
    BY <1>4 DEF WriteStatus
  <2> QED
    BY <1>1, <1>2, <1>3, <2>1, <2>2
<1>5. CASE pc' = l /\ UNCHANGED <<rd, air, pend>>
  BY <1>3, <1>5 DEF WorkerOK, TypeOK, Writes
<1> QED
  BY <1>4, <1>5, Zenon, Zenon DEF Reconciled, new, st

\* What follows an update of the status.
LEMMA ResumeFacts ==
    ASSUME TypeOK, NEW b \in BOOLEAN, Resume(b)
    PROVE  /\ WorkerOK' /\ queued' \in BOOLEAN
           /\ \/ rd' = NoAccount /\ pend' = NoWrite
              \/ rd' = rd /\ \E c \in Kinds : pend'.status = FailedStatus(rd.status, c)
<1>1. CASE pend.next \in {"failConfig", "failPull"}
  <2> DEFINE c == IF pend.next = "failPull" THEN "pull" ELSE "config"
  <2>1. c \in Kinds /\ c \in Conditions /\ rd.status \in Statuses
    BY DEF Kinds, Conditions, TypeOK, Accounts
  <2>2. WriteStatus(FailedStatus(rd.status, c), "error", TRUE) /\ UNCHANGED <<secret, queued>>
    BY <1>1, Zenon, Zenon DEF Resume
  <2> HIDE DEF c
  <2>3. FailedStatus(rd.status, c) \in Statuses
    BY <2>1, StatusFacts
  <2>4. secret' \in Secrets \cup {"unread"} /\ queued' \in BOOLEAN /\ "error" \in Afterwards
    BY <2>2 DEF TypeOK, Afterwards
  <2>5. WorkerOK'
    BY <2>2, <2>3, <2>4, WriteFacts, ZenonT(40), Zenon
  <2>6. rd' = rd /\ pend'.status = FailedStatus(rd.status, c)
    BY <2>2 DEF WriteStatus
  <2> QED
    BY <2>1, <2>4, <2>5, <2>6
<1>2. CASE pend.next \notin {"failConfig", "failPull"}
  <2>1. PICK a \in BOOLEAN : Return(a)
    BY <1>2, ZenonT(40), Zenon DEF Resume
  <2>2. rd' = NoAccount /\ pend' = NoWrite
    BY <2>1 DEF Return
  <2> QED
    BY <2>1, <2>2, ReturnFacts
<1> QED
  BY <1>1, <1>2

\* The last two handlers, the final status and failing calls keep the types.
LEMMA TypeLast ==
    ASSUME TypeOK,
           \/ ReconcileTemplate \/ ReconcilePullSecret \/ KeyMissingForPullSecret
           \/ (\E k \in Kinds : ApplyFails(k)) \/ AccountSuccess \/ UpdateStatus \/ CallFails \/ CleanupFails
    PROVE  TypeOK'
<1>s. /\ rd.status \in Statuses /\ makeCleanStatusForAccountFailure(rd.status) \in Statuses
      /\ \A c \in Conditions : FailedStatus(rd.status, c) \in Statuses
  <2>1. rd.status \in Statuses
    BY DEF TypeOK, Accounts
  <2> QED
    BY <2>1, StatusFacts
<1>n. {"requeue", "stop", "error", "failConfig", "failPull"} = Afterwards
  BY DEF Afterwards
<1>t. /\ res \in [Kinds -> Objects] /\ queued \in BOOLEAN /\ force \in BOOLEAN /\ key \in Secrets
      /\ secret \in Secrets \cup {"unread"} /\ rd \in Accounts /\ air \in BOOLEAN /\ pend \in Writes
  BY DEF TypeOK, Writes
<1>k. LoadedKey \in Secrets
  BY <1>t DEF LoadedKey
<1>a. "template" \in Kinds /\ "pull" \in Kinds /\ "absent" \in Secrets /\ "account" \in Conditions
      /\ "pull" \in PcSet /\ "healthy" \in PcSet
  BY DEF Kinds, Secrets, Conditions, PcSet
<1>1. CASE ReconcileTemplate
  <2>1. PICK obj \in Applied("template", "absent") : Reconciled("template", obj, "pull")
    BY <1>1 DEF ReconcileTemplate
  <2>2. obj \in Objects
    BY <2>1, <1>a, ResourceFacts
  <2>3. secret' \in Secrets \cup {"unread"}
    BY <1>1, <1>t DEF ReconcileTemplate
  <2>4. WorkerOK' /\ res' \in [Kinds -> Objects] /\ queued' \in BOOLEAN
    BY <2>1, <2>2, <2>3, <1>a, ReconciledFacts
  <2> QED
    BY <1>1, <2>4, <1>t, HandlerType, CounterFacts DEF ReconcileTemplate, Keeps
<1>2. CASE ReconcilePullSecret
  <2>1. PICK obj \in Applied("pull", LoadedKey) : Reconciled("pull", obj, "healthy")
    BY <1>2 DEF ReconcilePullSecret
  <2>2. obj \in Objects
    BY <2>1, <1>a, <1>k, ResourceFacts
  <2>3. secret' \in Secrets \cup {"unread"}
    BY <1>2, <1>k DEF ReconcilePullSecret
  <2>4. WorkerOK' /\ res' \in [Kinds -> Objects] /\ queued' \in BOOLEAN
    BY <2>1, <2>2, <2>3, <1>a, ReconciledFacts
  <2> QED
    BY <1>2, <2>4, <1>t, HandlerType, CounterFacts DEF ReconcilePullSecret, Keeps
<1>3. CASE KeyMissingForPullSecret
  <2>1. WorkerOK'
    BY <1>3, <1>s, <1>n, <1>t, WriteFacts, ZenonT(40), Zenon DEF KeyMissingForPullSecret
  <2>2. res' \in [Kinds -> Objects] /\ queued' \in BOOLEAN
    BY <1>3, CleanupFacts DEF KeyMissingForPullSecret
  <2> QED
    BY <1>3, <2>1, <2>2, <1>t, CleanupFacts, HandlerType DEF KeyMissingForPullSecret, Keeps
<1>4. ASSUME NEW k \in Kinds, ApplyFails(k) PROVE TypeOK'
  <2>1. k \in Conditions
    BY DEF Conditions
  <2>2. WorkerOK'
    BY <1>4, <2>1, <1>s, <1>n, <1>t, WriteFacts, ZenonT(40), Zenon DEF ApplyFails
  <2> QED
    BY <1>4, <2>2, <1>t, HandlerType, CounterFacts DEF ApplyFails, Keeps
<1>5. CASE AccountSuccess
  <2>1. WithCond(rd.status, "account", CondTrue(rd, FALSE)) \in Statuses
    BY <1>a, SuccessFacts, Zenon, Zenon
  <2>2. WorkerOK'
    BY <1>5, <2>1, <1>n, <1>t, WriteFacts, Zenon, Zenon DEF AccountSuccess
  <2> QED
    BY <1>5, <2>2, <1>t, HandlerType, CounterFacts DEF AccountSuccess, Keeps
<1>6. CASE UpdateStatus
  <2>1. PICK b \in BOOLEAN : Resume(b)
    BY <1>6, ZenonT(40), Zenon DEF UpdateStatus, Sent
  <2>2. WorkerOK' /\ queued' \in BOOLEAN
    BY <2>1, ResumeFacts
  <2>3. [acct EXCEPT !.status = pend.status] \in Accounts
    BY AccountFacts DEF TypeOK
  <2>4. acct' \in Accounts
    BY <1>6, <2>3, ZenonT(40), Zenon DEF UpdateStatus, TypeOK
  <2>5. ClusterOK'
    BY <1>6, <2>2, <2>4, AtFacts, CounterFacts, SMTT(30) DEF UpdateStatus, ClusterOK, TypeOK
  <2> QED
    BY <2>2, <2>5, TypeSplit
<1>7. CASE CallFails
  <2>1. WorkerOK' /\ queued' \in BOOLEAN
    BY <1>7, ReturnFacts, ResumeFacts, ZenonT(40), Zenon DEF CallFails
  <2> QED
    BY <1>7, <2>1, <1>t, HandlerType, CounterFacts DEF CallFails, Keeps
<1>8. CASE CleanupFails
  <2>1. WorkerOK' /\ queued' \in BOOLEAN
    BY <1>8, ReturnFacts, Zenon, Zenon DEF CleanupFails
  <2>2. res' \in [Kinds -> Objects]
    BY <1>8, ResourceFacts DEF CleanupFails
  <2>3. PICK l : At(l) /\ UNCHANGED <<acct, cache>> /\ force' \in BOOLEAN
    BY <1>8, <1>t, ZenonT(40), Zenon DEF CleanupFails, Validating, Keeps
  <2> QED
    BY <1>8, <2>1, <2>2, <2>3, HandlerType, CounterFacts DEF CleanupFails
<1> QED
  BY <1>1, <1>2, <1>3, <1>4, <1>5, <1>6, <1>7, <1>8

\* An aged status is typed and keeps its condition and whether it has a time.
LEMMA AgeFacts ==
    ASSUME NEW st \in Statuses
    PROVE  /\ AgedKey(st) \in Statuses /\ AgedConfig(st) \in Statuses
           /\ AgedKey(st).cond = st.cond /\ AgedConfig(st).cond = st.cond
           /\ (AgedKey(st).valAt = "nil") <=> (st.valAt = "nil")
           /\ AgedConfig(st).valAt = st.valAt
  BY DEF AgedKey, AgedConfig, Old, Statuses, Ages

\* Restarts, the cleanup runner and the informer keep the types.
LEMMA TypeManager ==
    ASSUME TypeOK, CleanupRunner \/ Sync \/ (\E m \in {"managed", "cleaning"} : Restart(m))
    PROVE  TypeOK'
<1>1. CASE CleanupRunner
  <2>1. res' \in [Kinds -> Objects]
    BY <1>1, ResourceFacts DEF CleanupRunner
  <2>2. acct' \in Accounts
    BY <1>1, AccountFacts, InitialData DEF CleanupRunner, TypeOK
  <2>3. events' \in 0..MaxEvents /\ faulted' \in BOOLEAN
    BY <1>1, CounterFacts DEF CleanupRunner
  <2> QED
    BY <1>1, <2>1, <2>2, <2>3 DEF CleanupRunner, TypeOK, worker
<1>2. CASE Sync
  BY <1>2 DEF Sync, TypeOK, worker
<1>3. ASSUME NEW m \in {"managed", "cleaning"}, Restart(m) PROVE TypeOK'
  <2>1. WorkerOK'
    BY <1>3, InitialData, ZenonT(40), Zenon DEF Restart, WorkerOK, PcSet, Secrets, NoWrite, Writes, Afterwards
  <2>2. events' \in 0..MaxEvents /\ faulted' \in BOOLEAN
    BY <1>3, CounterFacts DEF Restart
  <2>3. ClusterOK'
    BY <1>3, <2>2 DEF Restart, ClusterOK, TypeOK
  <2> QED
    BY <2>1, <2>3, TypeSplit
<1> QED
  BY <1>1, <1>2, <1>3

\* A new account is typed.
LEMMA NewAccountFacts ==
    ASSUME NEW u \in 0..MaxIncarnations PROVE NewAccount(u) \in Accounts
<1>1. NoAccount \in Accounts
  BY InitialData
<1> QED
  BY <1>1 DEF NewAccount, Accounts

\* Users, other controllers, time and the garbage collector keep the types.
LEMMA TypeOthers ==
    ASSUME TypeOK, Others
    PROVE  TypeOK'
<1>0. /\ acct \in Accounts /\ acct.fins \in Seq(Finalizers) /\ acct.gen \in 1..MaxGen
      /\ res \in [Kinds -> Objects] /\ queued \in BOOLEAN
  BY DEF TypeOK, Accounts
<1>1. CASE Create
  <2>0. born + 1 \in 1..MaxIncarnations /\ born + 1 \in 0..MaxIncarnations
    BY <1>1, BoundsAssumption DEF Create, TypeOK
  <2>1. NewAccount(born + 1) \in Accounts
    BY <2>0, NewAccountFacts
  <2> QED
    BY <1>1, <2>0, <2>1, CounterFacts DEF Create, TypeOK, worker
<1>2. CASE Delete
  <2>1. acct' \in Accounts
    BY <1>2, <1>0, AccountFacts, Zenon, Zenon DEF Delete
  <2> QED
    BY <1>2, <2>1, CounterFacts DEF Delete, Env, TypeOK, worker
<1>3. CASE ChangeSpec
  <2>1. acct' \in Accounts
    BY <1>3, <1>0, BoundsAssumption DEF ChangeSpec, Accounts
  <2> QED
    BY <1>3, <2>1, CounterFacts DEF ChangeSpec, Env, TypeOK, worker
<1>4. CASE ForceValidation
  BY <1>4, CounterFacts DEF ForceValidation, Env, TypeOK, worker
<1>5. CASE ToggleAirGapped
  BY <1>5, CounterFacts DEF ToggleAirGapped, Env, TypeOK, worker
<1>6. CASE ProvideConfig
  <2>1. [NoObject EXCEPT !.uid = 1] \in Objects
    BY InitialData, BoundsAssumption DEF Objects
  <2>2. res' \in [Kinds -> Objects]
    BY <1>6, <2>1, ResourceFacts DEF ProvideConfig, Kinds
  <2> QED
    BY <1>6, <2>2, CounterFacts DEF ProvideConfig, Env, TypeOK, worker
<1>7. CASE AgeValidation \/ AgeConfig
  <2>0. acct.status \in Statuses /\ cache.status \in Statuses /\ rd.status \in Statuses /\ pend.status \in Statuses
    BY DEF TypeOK, Accounts
  <2>1. acct' \in Accounts /\ cache' \in Accounts /\ rd' \in Accounts
    BY <1>7, <2>0, AgeFacts, AccountFacts DEF AgeValidation, AgeConfig, Age, TypeOK
  <2>2. pend' \in [status : Statuses, next : Afterwards, stamped : BOOLEAN]
    BY <1>7, <2>0, AgeFacts DEF AgeValidation, AgeConfig, Age, TypeOK
  <2> QED
    BY <1>7, <2>1, <2>2, CounterFacts DEF AgeValidation, AgeConfig, Age, TypeOK
<1>8. CASE Resync
  BY <1>8 DEF Resync, TypeOK, worker
<1>9. ASSUME NEW f \in Finalizers \ {"nim"}, AddOther(f) PROVE TypeOK'
  <2>1. acct' \in Accounts
    <3>1. Append(acct.fins, f) \in Seq(Finalizers)
      BY <1>0, AppendFacts
    <3> QED
      BY <1>9, <3>1, <1>0, AccountFacts, Zenon, Zenon DEF AddOther
  <2> QED
    BY <1>9, <2>1, CounterFacts DEF AddOther, Env, TypeOK, worker
<1>10. ASSUME NEW f \in Finalizers \ {"nim"}, RemoveOther(f) PROVE TypeOK'
  <2>1. PICK i \in 1..Len(acct.fins) : acct' = Settle([acct EXCEPT !.fins = RemoveAt(@, i)])
    BY <1>10 DEF RemoveOther
  <2>2. RemoveAt(acct.fins, i) \in Seq(Finalizers)
    BY <1>0, RemoveAtFacts
  <2>3. acct' \in Accounts
    BY <2>1, <2>2, <1>0, AccountFacts
  <2> QED
    BY <1>10, <2>3 DEF RemoveOther, TypeOK, worker
<1>11. ASSUME NEW v \in Secrets, ChangeKey(v) PROVE TypeOK'
  BY <1>11, CounterFacts DEF ChangeKey, Env, TypeOK, worker
<1>12. ASSUME NEW k \in Kinds, Drift(k) \/ Collect(k) PROVE TypeOK'
  <2>1. res' \in [Kinds -> Objects]
    BY <1>12, InitialData, ResourceFacts DEF Drift, Collect
  <2> QED
    <3>1. CASE Drift(k)
      BY <3>1, <2>1, CounterFacts DEF Drift, Env, TypeOK, worker
    <3>2. CASE Collect(k)
      BY <3>2, <2>1 DEF Collect, TypeOK, worker
    <3> QED
      BY <1>12, <3>1, <3>2, Zenon
<1>13. CASE \E m \in {"managed", "cleaning"} : Restart(m)
  BY <1>13, TypeManager
<1> QED
  BY <1>1, <1>2, <1>3, <1>4, <1>5, <1>6, <1>7, <1>8, <1>9, <1>10, <1>11, <1>12, <1>13, Zenon DEF Others

\* The type invariant is inductive.
LEMMA TypeStep == TypeOK /\ [Next]_vars => TypeOK'
<1> SUFFICES ASSUME TypeOK, [Next]_vars PROVE TypeOK'
  OBVIOUS
<1>1. CASE Reconcile
  BY <1>1, TypeStart, TypeValidation, TypeConfig, TypeLast DEF Reconcile
<1>2. CASE CleanupRunner \/ Sync
  BY <1>2, TypeManager
<1>3. CASE Others
  BY <1>3, TypeOthers
<1>4. CASE UNCHANGED vars
  BY <1>4 DEF vars, worker, TypeOK
<1> QED
  BY <1>1, <1>2, <1>3, <1>4 DEF Next

\* The initial state is typed.
LEMMA TypeInit == Init => TypeOK
<1>1. NewAccount(1) \in Accounts
  <2>1. 1 \in 0..MaxIncarnations
    BY BoundsAssumption
  <2> QED
    BY <2>1, NewAccountFacts
<1>2. [k \in Kinds |-> NoObject] \in [Kinds -> Objects]
  BY InitialData
<1>3. NoWrite \in [status : Statuses, next : Afterwards, stamped : BOOLEAN]
  BY InitialData DEF NoWrite, Afterwards
<1>4. 1 \in 1..MaxIncarnations /\ 0 \in 0..MaxEvents
  BY BoundsAssumption
<1> QED
  BY <1>1, <1>2, <1>3, <1>4, InitialData, ZenonT(40), Zenon DEF Init, TypeOK, Secrets

\* The variables keep their types, for every bound.
THEOREM TypeCorrect == Spec => []TypeOK
  BY TypeInit, TypeStep, PTL DEF Spec

-----------------------------------------------------------------------------
(* The time of the validation.                                             *)

\* What ValidationHasTime says of one status.
HasTime(st) == st.cond["key"].ok => st.valAt # "nil"

\* ValidationHasTime, now and in the next state, is HasTime of the four statuses.
LEMMA TimeSplit ==
    /\ ValidationHasTime <=> HasTime(acct.status) /\ HasTime(cache.status) /\ HasTime(rd.status) /\ HasTime(pend.status)
    /\ ValidationHasTime' <=> HasTime(acct'.status) /\ HasTime(cache'.status) /\ HasTime(rd'.status) /\ HasTime(pend'.status)
  BY Zenon DEF ValidationHasTime, HasTime

\* The statuses without a validation, and the ones handlers compute, have it.
LEMMA TimeData ==
    /\ HasTime(NoStatus) /\ HasTime(NoAccount.status) /\ HasTime(NoWrite.status)
    /\ \A u : HasTime(NewAccount(u).status)
<1>1. HasTime(NoStatus)
  BY DEF HasTime, NoStatus, NotTrue, Conditions
<1>2. NoAccount.status = NoStatus /\ NoWrite.status = NoStatus
  BY DEF NoAccount, NoWrite
<1>3. \A u : NewAccount(u).status = NoStatus
  BY DEF NewAccount, NoAccount
<1> QED
  BY <1>1, <1>2, <1>3

\* The worker writes HasTime statuses when its copy is one.
LEMMA TimeHandlers ==
    ASSUME TypeOK, HasTime(rd.status)
    PROVE  /\ HasTime(makeCleanStatusForAccountFailure(rd.status))
           /\ \A c \in Conditions : HasTime(FailedStatus(rd.status, c))
           /\ \A c \in Conditions \ {"key"}, cnd \in Condition : HasTime(WithCond(rd.status, c, cnd))
           /\ \A mde \in BOOLEAN : HasTime(Validated(mde))
<1>0. rd.status \in Statuses
  BY DEF TypeOK, Accounts
<1>1. HasTime(makeCleanStatusForAccountFailure(rd.status))
  BY <1>0, StatusFacts DEF HasTime
<1>2. \A c \in Conditions : HasTime(FailedStatus(rd.status, c))
  BY <1>0, StatusFacts, ZenonT(40), ZenonT(40) DEF HasTime
<1>3. ASSUME NEW c \in Conditions \ {"key"}, NEW cnd \in Condition PROVE HasTime(WithCond(rd.status, c, cnd))
  <2>1. \A cc \in Conditions, cn \in Condition :
          /\ WithCond(rd.status, cc, cn) \in Statuses
          /\ WithCond(rd.status, cc, cn).valAt = rd.status.valAt
          /\ cc # "key" => WithCond(rd.status, cc, cn).cond["key"] = rd.status.cond["key"]
    BY <1>0, StatusFacts, ZenonT(40), Zenon
  <2>2. c \in Conditions /\ c # "key"
    OBVIOUS
  <2>3. /\ WithCond(rd.status, c, cnd).valAt = rd.status.valAt
        /\ WithCond(rd.status, c, cnd).cond["key"] = rd.status.cond["key"]
    BY <2>1, <2>2, Zenon, Zenon
  <2> QED
    BY <2>3 DEF HasTime
<1>4. \A mde \in BOOLEAN : HasTime(Validated(mde))
  BY SuccessFacts DEF HasTime
<1> QED
  BY <1>1, <1>2, <1>3, <1>4

\* A step that writes no account, and ends or prepares such a status, is fine.
LEMMA TimeWorker ==
    ASSUME TypeOK, ValidationHasTime, acct'.status = acct.status \/ HasTime(acct'.status), UNCHANGED cache,
           \/ \E b \in BOOLEAN : Return(b)
           \/ \E st, nx, b : HasTime(st) /\ WriteStatus(st, nx, b)
           \/ UNCHANGED <<rd, pend>>
    PROVE  ValidationHasTime'
<1>1. CASE \E b \in BOOLEAN : Return(b)
  BY <1>1, TimeSplit, TimeData DEF Return
<1>2. ASSUME NEW st, NEW nx, NEW b, HasTime(st), WriteStatus(st, nx, b) PROVE ValidationHasTime'
  <2>1. rd' = rd /\ pend'.status = st
    BY <1>2, Zenon DEF WriteStatus
  <2> QED
    BY <1>2, <2>1, TimeSplit
<1>3. CASE UNCHANGED <<rd, pend>>
  BY <1>3, TimeSplit
<1> QED
  BY <1>1, <1>2, <1>3

\* The steps of Reconcile before the handlers, and ValidationHandler.
LEMMA TimeFirst ==
    ASSUME TypeOK, ValidationHasTime,
           \/ ReadAccount \/ AddFinalizer \/ CleanupDeleted \/ RemoveFinalizer \/ NothingToFinalize \/ StartHandlers
           \/ ValidateAirGapped \/ LoadSecretFails \/ SkipValidation \/ RuntimesUnavailable
           \/ KeyDataMissing \/ KeyRejected \/ KeyValidated \/ KeyStillValid
    PROVE  ValidationHasTime'
<1>0. HasTime(rd.status) /\ "key" \in Conditions
  BY TimeSplit DEF Conditions
<1>1. CASE ReadAccount
  BY <1>1, TimeSplit DEF ReadAccount, Keeps
<1>2. CASE AddFinalizer
  <2>1. acct'.status = acct.status
    BY <1>2 DEF AddFinalizer, TypeOK, Accounts
  <2> QED
    BY <1>2, <2>1, TimeWorker, ZenonT(40), Zenon DEF AddFinalizer
<1>3. CASE RemoveFinalizer
  <2>1. acct'.status = acct.status \/ HasTime(acct'.status)
    BY <1>3, TimeData DEF RemoveFinalizer, Settle, TypeOK, Accounts
  <2> QED
    BY <1>3, <2>1, TimeWorker, ZenonT(40), Zenon DEF RemoveFinalizer
<1>4. CASE CleanupDeleted \/ NothingToFinalize \/ StartHandlers
  BY <1>4, TimeWorker, ZenonT(40), Zenon DEF CleanupDeleted, NothingToFinalize, StartHandlers, Keeps
<1>5. CASE ValidateAirGapped
  BY <1>5, <1>0, TimeWorker, TimeHandlers, Zenon, Zenon DEF ValidateAirGapped, Continue, Keeps
<1>6. CASE LoadSecretFails \/ KeyDataMissing \/ KeyRejected
  BY <1>6, <1>0, TimeWorker, TimeHandlers, ZenonT(40), Zenon DEF LoadSecretFails, KeyDataMissing, KeyRejected, Validating, Keeps
<1>7. CASE SkipValidation \/ KeyStillValid
  BY <1>7, TimeWorker, Zenon, Zenon DEF SkipValidation, KeyStillValid, Continue, Validating, Keeps
<1>8. CASE RuntimesUnavailable \/ KeyValidated
  BY <1>8, <1>0, TimeWorker, TimeHandlers, ZenonT(40), Zenon DEF RuntimesUnavailable, KeyValidated, Validating
<1> QED
  BY <1>1, <1>2, <1>3, <1>4, <1>5, <1>6, <1>7, <1>8

\* The other handlers.
LEMMA TimeLast ==
    ASSUME TypeOK, ValidationHasTime,
           \/ ConfigAirGapped \/ SkipConfig \/ RefreshConfig \/ RefreshConfigFails \/ KeyMissingForConfig
           \/ ReconcileTemplate \/ ReconcilePullSecret \/ KeyMissingForPullSecret
           \/ (\E k \in Kinds : ApplyFails(k)) \/ AccountSuccess \/ UpdateStatus \/ CallFails \/ CleanupFails
    PROVE  ValidationHasTime'
<1>0. /\ HasTime(rd.status) /\ HasTime(pend.status)
      /\ "config" \in Conditions \ {"key"} /\ "account" \in Conditions \ {"key"} /\ Kinds \subseteq Conditions
  BY TimeSplit DEF Conditions, Kinds
<1>c. ASSUME NEW mde \in BOOLEAN
      PROVE  HasTime([WithCond(rd.status, "config", CondTrue(rd, mde))
                        EXCEPT !.refs["config"] = 1, !.cfgAt = "recent", !.newer = FALSE])
  <2>1. HasTime(WithCond(rd.status, "config", CondTrue(rd, mde)))
    BY <1>0, TimeHandlers, SuccessFacts
  <2> QED
    BY <2>1, ConfigFacts, ZenonT(40), Zenon DEF HasTime
<1>1. CASE ConfigAirGapped
  BY <1>1, <1>c, TimeWorker, ZenonT(40), Zenon DEF ConfigAirGapped, Continue, Keeps
<1>2. CASE SkipConfig
  BY <1>2, TimeWorker DEF SkipConfig, Continue, Keeps
<1>3. CASE RefreshConfig
  BY <1>3, <1>c, TimeWorker, ZenonT(40), Zenon DEF RefreshConfig, Keeps
<1>4. CASE RefreshConfigFails \/ KeyMissingForConfig \/ KeyMissingForPullSecret
  BY <1>4, <1>0, TimeWorker, TimeHandlers, ZenonT(40), Zenon DEF RefreshConfigFails, KeyMissingForConfig, KeyMissingForPullSecret, Keeps
<1>5. CASE ReconcileTemplate \/ ReconcilePullSecret
  <2>1. PICK k \in {"template", "pull"}, obj \in Objects, l \in PcSet :
          Reconciled(k, obj, l) /\ secret' \in Secrets \cup {"unread"}
    <3>1. "template" \in Kinds /\ "pull" \in Kinds /\ "absent" \in Secrets /\ "pull" \in PcSet /\ "healthy" \in PcSet
          /\ LoadedKey \in Secrets
      BY DEF Kinds, Secrets, PcSet, LoadedKey, TypeOK
    <3>2. secret' \in Secrets \cup {"unread"}
      BY <1>5, <3>1 DEF ReconcileTemplate, ReconcilePullSecret, TypeOK
    <3>3. CASE ReconcileTemplate
      BY <3>1, <3>2, <3>3, ResourceFacts DEF ReconcileTemplate
    <3>4. CASE ReconcilePullSecret
      BY <3>1, <3>2, <3>4, ResourceFacts, Zenon DEF ReconcilePullSecret
    <3> QED
      BY <1>5, <3>3, <3>4
  <2>2. rd' = rd /\ (pend' = pend \/ (/\ pend'.status.cond["key"] = rd.status.cond["key"]
                                      /\ pend'.status.valAt = rd.status.valAt))
    BY <2>1, ReconciledFacts
  <2>3. HasTime(pend'.status)
    BY <2>2, <1>0 DEF HasTime
  <2>4. UNCHANGED <<acct, cache>>
    BY <1>5 DEF ReconcileTemplate, ReconcilePullSecret, Keeps
  <2> QED
    BY <2>2, <2>3, <2>4, TimeSplit, ZenonT(40), Zenon
<1>6. ASSUME NEW k \in Kinds, ApplyFails(k) PROVE ValidationHasTime'
  BY <1>6, <1>0, TimeWorker, TimeHandlers, ZenonT(40), Zenon DEF ApplyFails, Keeps
<1>7. CASE AccountSuccess
  BY <1>7, <1>0, TimeWorker, TimeHandlers, SuccessFacts, ZenonT(40), Zenon DEF AccountSuccess, Keeps
<1>r. ASSUME NEW b \in BOOLEAN, Resume(b) PROVE HasTime(rd'.status) /\ HasTime(pend'.status)
  BY <1>r, <1>0, ResumeFacts, TimeData, TimeHandlers, ZenonT(40), Zenon
<1>8. CASE UpdateStatus
  <2>1. PICK b \in BOOLEAN : Resume(b)
    BY <1>8, Zenon, Zenon DEF UpdateStatus, Sent
  <2>2. acct'.status = acct.status \/ acct'.status = pend.status
    BY <1>8, ZenonT(40), Zenon DEF UpdateStatus, TypeOK, Accounts
  <2>3. UNCHANGED cache
    BY <1>8 DEF UpdateStatus
  <2> QED
    BY <2>1, <2>2, <2>3, <1>0, <1>r, TimeSplit, ZenonT(40), Zenon
<1>9. CASE CallFails
  <2>1. CASE Resume(TRUE)
    BY <1>9, <2>1, <1>r, TimeSplit, Zenon, Zenon DEF CallFails, Keeps
  <2>2. CASE Return(TRUE)
    BY <1>9, <2>2, TimeWorker, Zenon, Zenon DEF CallFails, Keeps
  <2> QED
    BY <1>9, <2>1, <2>2, Zenon, Zenon DEF CallFails
<1>10. CASE CleanupFails
  BY <1>10, TimeWorker, ZenonT(40), Zenon DEF CleanupFails, Validating, Keeps
<1> QED
  BY <1>1, <1>2, <1>3, <1>4, <1>5, <1>6, <1>7, <1>8, <1>9, <1>10

\* The environment.
LEMMA TimeOthers ==
    ASSUME TypeOK, ValidationHasTime, CleanupRunner \/ Sync \/ Others
    PROVE  ValidationHasTime'
<1>0. /\ acct.status \in Statuses /\ cache.status \in Statuses /\ rd.status \in Statuses /\ pend.status \in Statuses
      /\ HasTime(acct.status) /\ HasTime(cache.status) /\ HasTime(rd.status) /\ HasTime(pend.status)
  BY TimeSplit DEF TypeOK, Accounts
<1>1. CASE CleanupRunner
  BY <1>1, <1>0, TimeSplit, TimeData, Zenon DEF CleanupRunner, worker, TypeOK, Accounts
<1>2. CASE Sync
  BY <1>2, TimeSplit, SMTT(30) DEF Sync, worker
<1>3. CASE Create
  BY <1>3, TimeSplit, TimeData DEF Create, worker
<1>4. CASE Delete \/ ChangeSpec
  <2>1. acct'.status = acct.status \/ acct' = NoAccount
    BY <1>4, Zenon DEF Delete, ChangeSpec, Settle, TypeOK, Accounts
  <2> QED
    BY <1>4, <2>1, TimeSplit, TimeData DEF Delete, ChangeSpec, Env, worker
<1>5. CASE ForceValidation \/ ToggleAirGapped \/ ProvideConfig \/ Resync
  BY <1>5, TimeSplit DEF ForceValidation, ToggleAirGapped, ProvideConfig, Resync, Env, worker
<1>6. CASE AgeValidation
  <2>1. /\ acct'.status = AgedKey(acct.status) /\ cache'.status = AgedKey(cache.status)
        /\ rd'.status = AgedKey(rd.status) /\ pend'.status = AgedKey(pend.status)
    BY <1>6 DEF AgeValidation, Age, TypeOK, Accounts
  <2>2. \A st \in Statuses : HasTime(st) => HasTime(AgedKey(st))
    BY AgeFacts DEF HasTime
  <2> QED
    BY <1>0, <2>1, <2>2, TimeSplit
<1>7. CASE AgeConfig
  <2>1. /\ acct'.status = AgedConfig(acct.status) /\ cache'.status = AgedConfig(cache.status)
        /\ rd'.status = AgedConfig(rd.status) /\ pend'.status = AgedConfig(pend.status)
    BY <1>7 DEF AgeConfig, Age, TypeOK, Accounts
  <2>2. \A st \in Statuses : HasTime(st) => HasTime(AgedConfig(st))
    BY AgeFacts DEF HasTime
  <2> QED
    BY <1>0, <2>1, <2>2, TimeSplit
<1>8. ASSUME NEW f \in Finalizers \ {"nim"}, AddOther(f) \/ RemoveOther(f) PROVE ValidationHasTime'
  <2>1. acct'.status = acct.status \/ acct' = NoAccount
    BY <1>8 DEF AddOther, RemoveOther, Settle, TypeOK, Accounts
  <2> QED
    BY <1>8, <2>1, TimeSplit, TimeData DEF AddOther, RemoveOther, Env, worker
<1>9. ASSUME NEW v \in Secrets, ChangeKey(v) PROVE ValidationHasTime'
  BY <1>9, TimeSplit, Zenon DEF ChangeKey, Env, worker
<1>10. ASSUME NEW k \in Kinds, Drift(k) \/ Collect(k) PROVE ValidationHasTime'
  BY <1>10, TimeSplit DEF Drift, Collect, Env, worker
<1>11. ASSUME NEW m \in {"managed", "cleaning"}, Restart(m) PROVE ValidationHasTime'
  BY <1>11, TimeSplit, TimeData, ZenonT(40), Zenon DEF Restart
<1> QED
  BY <1>1, <1>2, <1>3, <1>4, <1>5, <1>6, <1>7, <1>8, <1>9, <1>10, <1>11, Zenon DEF Others

\* Whatever failures, outdated copies and cleanups come together, a status
\* that calls the key valid has the time that shouldReconcile dereferences.
THEOREM ValidationTimeKnown == Spec => []ValidationHasTime
<1>1. Init => ValidationHasTime
  BY TimeSplit, TimeData DEF Init
<1>2. TypeOK /\ ValidationHasTime /\ [Next]_vars => ValidationHasTime'
  <2> SUFFICES ASSUME TypeOK, ValidationHasTime, [Next]_vars PROVE ValidationHasTime'
    OBVIOUS
  <2>1. CASE Reconcile
    BY <2>1, TimeFirst, TimeLast DEF Reconcile
  <2>2. CASE UNCHANGED vars
    BY <2>2, TimeSplit, ZenonT(40), Zenon DEF vars, worker
  <2> QED
    BY <2>1, <2>2, TimeOthers DEF Next
<1> QED
  BY <1>1, <1>2, TypeCorrect, PTL DEF Spec

-----------------------------------------------------------------------------
(* The finalizer, with fresh reads.                                        *)

\* The worker is beyond the point where its copy must carry the finalizer.
Handling == pc \notin {"idle", "start"} \/ (pc = "start" /\ Finalized(rd))

\* While it is, the stored account is the one it read and still held: only
\* this worker removes the finalizer.
CopyStillHeld ==
    /\ Handling => rd.uid # 0 /\ acct.uid = rd.uid /\ Finalized(acct) /\ (rd.deleting => acct.deleting)
    /\ pc = "unfinalize" => rd.deleting

\* No resource belongs to an account that is still to be created.
OwnersBorn ==
    /\ acct.uid <= born
    /\ \A k \in Kinds : res[k].owner <= born

HeldInv == TypeOK /\ CopyStillHeld /\ OwnersBorn /\ OwnsOnlyWhenHeld

\* Steps that change neither account nor worker, except for its place, and add
\* no resource keep the invariant.
LEMMA HeldQuiet ==
    ASSUME HeldInv, TypeOK', acct'.uid = acct.uid, acct'.fins = acct.fins, born' = born,
           acct.deleting => acct'.deleting,
           \A k \in Kinds : res'[k] = NoObject \/ res'[k].owner = res[k].owner,
           \/ pc' = "idle"
           \/ /\ Handling /\ rd'.uid = rd.uid /\ rd'.deleting = rd.deleting /\ pc' # "unfinalize"
           \/ /\ pc' = pc /\ rd'.uid = rd.uid /\ rd'.deleting = rd.deleting /\ rd'.fins = rd.fins
    PROVE  HeldInv'
<1>0. NoObject.owner = 0 /\ born \in Nat
  BY SMTT(30) DEF NoObject, HeldInv, TypeOK
<1>1. \A k \in Kinds : res'[k].owner = 0 \/ res'[k].owner = res[k].owner
  BY <1>0, SMTT(30)
<1>2. OwnersBorn'
  BY <1>0, <1>1 DEF HeldInv, OwnersBorn
<1>3. Finalized(acct) => Finalized(acct')
  BY DEF Finalized
<1>4. OwnsOnlyWhenHeld'
  BY <1>1, <1>3, Zenon, Zenon DEF HeldInv, OwnsOnlyWhenHeld, TypeOK, Accounts
<1>5. CopyStillHeld'
  <2>1. CASE pc' = "idle"
    BY <2>1, Zenon DEF CopyStillHeld, Handling
  <2>2. CASE Handling /\ rd'.uid = rd.uid /\ rd'.deleting = rd.deleting /\ pc' # "unfinalize"
    BY <2>2, <1>3, Zenon DEF CopyStillHeld, HeldInv, Handling
  <2>3. CASE pc' = pc /\ rd'.uid = rd.uid /\ rd'.deleting = rd.deleting /\ rd'.fins = rd.fins
    <3>1. Handling' => Handling
      BY <2>3 DEF Handling, Finalized
    <3> QED
      BY <2>3, <3>1, <1>3, Zenon DEF CopyStillHeld, HeldInv
  <2> QED
    BY <2>1, <2>2, <2>3, SMTT(30)
<1> QED
  BY <1>2, <1>4, <1>5, Zenon DEF HeldInv

\* Applying a resource keeps it: its owner is the account of the copy.
LEMMA HeldApply ==
    ASSUME HeldInv, TypeOK', acct' = acct, born' = born, Handling, rd' = rd, pc' # "unfinalize",
           \A k \in Kinds : res'[k].owner \in {res[k].owner, rd.uid}
    PROVE  HeldInv'
<1>1. rd.uid = acct.uid /\ Finalized(acct)
  BY DEF HeldInv, CopyStillHeld
<1>2. OwnersBorn'
  BY <1>1 DEF HeldInv, OwnersBorn
<1>3. OwnsOnlyWhenHeld'
  BY <1>1, Zenon DEF OwnsOnlyWhenHeld
<1>4. CopyStillHeld'
  BY <1>1, Zenon DEF CopyStillHeld, HeldInv, Handling
<1> QED
  BY <1>2, <1>3, <1>4 DEF HeldInv

\* What a server-side apply makes of the resources.
LEMMA AppliedOwner ==
    ASSUME TypeOK, NEW k \in Kinds, NEW v, NEW obj \in Applied(k, v), Apply(k, obj)
    PROVE  \A j \in Kinds : res'[j].owner \in {res[j].owner, rd.uid}
<1>1. obj.owner \in {res[k].owner, rd.uid}
  <2>1. CASE res[k].uid # 0
    <3>1. PICK o \in {rd.uid, res[k].owner} : obj = [res[k] EXCEPT !.owner = o, !.val = v]
      BY <2>1, Zenon DEF Applied
    <3>2. obj.owner = o
      BY <3>1, Zenon DEF TypeOK, Objects
    <3> QED
      BY <3>1, <3>2, Zenon
  <2>2. CASE res[k].uid = 0
    BY <2>2 DEF Applied
  <2> QED
    BY <2>1, <2>2
<1> QED
  BY <1>1 DEF Apply, TypeOK

\* The steps before the handlers.
LEMMA HeldStart ==
    ASSUME ~StaleReads, HeldInv, TypeOK',
           ReadAccount \/ AddFinalizer \/ CleanupDeleted \/ RemoveFinalizer \/ NothingToFinalize \/ StartHandlers
    PROVE  HeldInv'
<1>t. TypeOK /\ acct \in Accounts /\ acct.fins \in Seq(Finalizers)
  BY Zenon DEF HeldInv, TypeOK, Accounts
<1>1. CASE ReadAccount
  <2>1. rd' = acct /\ UNCHANGED <<acct, born, res>> /\ pc' = (IF acct.uid = 0 THEN "idle" ELSE "start")
    BY <1>1 DEF ReadAccount, At, Delivered, Keeps
  <2>2. CopyStillHeld'
    BY <2>1, Zenon DEF CopyStillHeld, Handling, Finalized
  <2> QED
    BY <2>1, <2>2 DEF HeldInv, OwnersBorn, OwnsOnlyWhenHeld, Finalized
<1>2. CASE AddFinalizer
  <2>1. /\ acct'.uid = acct.uid /\ acct'.deleting = acct.deleting /\ UNCHANGED <<born, res>> /\ pc' = "idle"
        /\ acct'.fins = acct.fins \/ acct'.fins = Append(acct.fins, "nim")
    BY <1>2, <1>t DEF AddFinalizer, At, Return, Accounts
  <2>n. "nim" \in Finalizers
    BY DEF Finalizers
  <2>a. Contains(acct.fins, "nim") => Contains(Append(acct.fins, "nim"), "nim")
    BY <2>n, <1>t, AppendFacts
  <2>2. Finalized(acct) => Finalized(acct')
    BY <2>1, <2>a, Zenon, Zenon DEF Finalized
  <2> QED
    BY <2>1, <2>2 DEF HeldInv, CopyStillHeld, Handling, OwnersBorn, OwnsOnlyWhenHeld
<1>3. CASE CleanupDeleted
  <2>1. /\ UNCHANGED <<acct, born, rd>> /\ pc' = "unfinalize" /\ rd.deleting /\ Handling
        /\ \A k \in Kinds : res'[k] = NoObject \/ res'[k] = res[k]
    BY <1>3, Zenon DEF CleanupDeleted, At, Keeps, CleanupResources, Handling
  <2>2. \A k \in Kinds : res'[k].owner = 0 \/ res'[k].owner = res[k].owner
    BY <2>1, SMTT(30) DEF NoObject
  <2>3. OwnersBorn'
    <3>1. born \in Nat /\ acct.uid <= born /\ \A k \in Kinds : res[k].owner <= born
      BY <1>t DEF HeldInv, OwnersBorn, TypeOK
    <3>2. \A k \in Kinds : res'[k].owner <= born
      BY <2>2, <3>1, SMT
    <3> QED
      BY <2>1, <3>1, <3>2, Zenon DEF OwnersBorn
  <2>4. OwnsOnlyWhenHeld'
    BY <2>1, <2>2, Zenon DEF HeldInv, OwnsOnlyWhenHeld
  <2>5. CopyStillHeld'
    BY <2>1, Zenon DEF HeldInv, CopyStillHeld
  <2> QED
    BY <2>3, <2>4, <2>5, Zenon DEF HeldInv
<1>4. CASE RemoveFinalizer
  <2>1. UNCHANGED <<born, res>> /\ pc' = "idle" /\ acct.deleting
    BY <1>4 DEF RemoveFinalizer, At, Return, HeldInv, CopyStillHeld, Handling
  <2>2. acct' = NoAccount \/ (acct'.uid = acct.uid /\ acct'.deleting)
    BY <1>4, <2>1, <1>t, Zenon DEF RemoveFinalizer, Settle, Accounts
  <2>3. acct'.uid <= born
    <3>1. acct.uid <= born /\ born \in Nat
      BY <1>t DEF HeldInv, OwnersBorn, TypeOK
    <3> QED
      BY <2>2, <3>1, SMT DEF NoAccount
  <2>4. OwnsOnlyWhenHeld'
    BY <2>2, SMTT(30) DEF OwnsOnlyWhenHeld, NoAccount
  <2> QED
    BY <2>1, <2>3, <2>4 DEF HeldInv, CopyStillHeld, Handling, OwnersBorn
<1>5. CASE NothingToFinalize
  BY <1>5, HeldQuiet, Zenon DEF NothingToFinalize, At, Return, Keeps
<1>6. CASE StartHandlers
  <2>1. Handling
    BY <1>6 DEF StartHandlers, At, Handling
  <2> QED
    BY <1>6, <2>1, HeldQuiet, Zenon DEF StartHandlers, At, Keeps
<1> QED
  BY <1>1, <1>2, <1>3, <1>4, <1>5, <1>6, Zenon

\* The handlers.
LEMMA HeldHandlers ==
    ASSUME HeldInv, TypeOK',
           \/ ValidateAirGapped \/ LoadSecretFails \/ SkipValidation \/ RuntimesUnavailable
           \/ KeyDataMissing \/ KeyRejected \/ KeyValidated \/ KeyStillValid
           \/ ConfigAirGapped \/ SkipConfig \/ RefreshConfig \/ RefreshConfigFails \/ KeyMissingForConfig
           \/ ReconcileTemplate \/ ReconcilePullSecret \/ KeyMissingForPullSecret
           \/ (\E k \in Kinds : ApplyFails(k)) \/ AccountSuccess \/ UpdateStatus \/ CallFails \/ CleanupFails
    PROVE  HeldInv'
<1>t. TypeOK
  BY DEF HeldInv
<1>k. "config" \in Kinds /\ "template" \in Kinds /\ "pull" \in Kinds
  BY DEF Kinds
<1>c. ASSUME NEW gone, res' = [k \in Kinds |-> IF k \in gone THEN NoObject ELSE res[k]]
      PROVE  \A k \in Kinds : res'[k] = NoObject \/ res'[k].owner = res[k].owner
  BY <1>c, SMTT(30)
<1>1. CASE ValidateAirGapped \/ SkipValidation \/ RuntimesUnavailable \/ KeyValidated
  BY <1>1, HeldQuiet, ZenonT(40), Zenon DEF ValidateAirGapped, SkipValidation, RuntimesUnavailable, KeyValidated, Validating,
     At, Keeps, WriteStatus, Continue, Handling
<1>2. CASE KeyStillValid
  BY <1>2, HeldQuiet, ZenonT(40), Zenon DEF KeyStillValid, Validating, At, Return
<1>g. ASSUME (CleanupResources(Referenced) /\ Calm) \/ CleanupAnyway \/ CleanupPartly
      PROVE  \A k \in Kinds : res'[k] = NoObject \/ res'[k].owner = res[k].owner
  BY <1>g, <1>c, <1>t, CleanupFacts, Zenon, Zenon DEF CleanupResources
<1>3. CASE LoadSecretFails \/ KeyDataMissing
  BY <1>3, <1>g, HeldQuiet, ZenonT(40), Zenon DEF LoadSecretFails, KeyDataMissing, Validating, At, Keeps, WriteStatus, Handling
<1>13. CASE KeyRejected
  BY <1>13, <1>c, HeldQuiet, ZenonT(40), Zenon DEF KeyRejected, Validating, At, WriteStatus, CleanupResources, Handling
<1>4. CASE ConfigAirGapped \/ SkipConfig \/ RefreshConfigFails \/ AccountSuccess
  BY <1>4, HeldQuiet, Zenon, Zenon DEF ConfigAirGapped, SkipConfig, RefreshConfigFails, AccountSuccess,
     At, Keeps, WriteStatus, Continue, Handling
<1>5. CASE KeyMissingForConfig \/ KeyMissingForPullSecret
  BY <1>5, <1>g, HeldQuiet, ZenonT(40), Zenon DEF KeyMissingForConfig, KeyMissingForPullSecret, At, Keeps, WriteStatus, Handling
<1>6. CASE RefreshConfig
  <2>1. \A j \in Kinds : res'[j].owner \in {res[j].owner, rd.uid}
    BY <1>6, <1>t, <1>k, AppliedOwner, SMTT(30) DEF RefreshConfig
  <2> QED
    BY <1>6, <2>1, HeldApply DEF RefreshConfig, At, Keeps, WriteStatus, Handling
<1>7. CASE ReconcileTemplate
  <2>1. \A j \in Kinds : res'[j].owner \in {res[j].owner, rd.uid}
    BY <1>7, <1>t, <1>k, AppliedOwner DEF ReconcileTemplate, Reconciled
  <2>2. rd' = rd /\ pc' # "unfinalize"
    BY <1>7, Zenon, Zenon DEF ReconcileTemplate, Reconciled, WriteStatus
  <2> QED
    BY <1>7, <2>1, <2>2, HeldApply, Zenon, Zenon DEF ReconcileTemplate, At, Keeps, Handling
<1>8. CASE ReconcilePullSecret
  <2>1. \A j \in Kinds : res'[j].owner \in {res[j].owner, rd.uid}
    BY <1>8, <1>t, <1>k, AppliedOwner DEF ReconcilePullSecret, Reconciled
  <2>2. rd' = rd /\ pc' # "unfinalize"
    BY <1>8, Zenon, ZenonT(40) DEF ReconcilePullSecret, Reconciled, WriteStatus
  <2> QED
    BY <1>8, <2>1, <2>2, HeldApply, Zenon, Zenon DEF ReconcilePullSecret, At, Keeps, Handling
<1>9. CASE \E k \in Kinds : ApplyFails(k)
  BY <1>9, HeldQuiet, SMTT(30) DEF ApplyFails, At, Keeps, WriteStatus, Handling
<1>r. ASSUME NEW b, Resume(b), pc = "update"
      PROVE  pc' = "idle" \/ (Handling /\ rd' = rd /\ pc' # "unfinalize")
  BY <1>r DEF Resume, Return, WriteStatus, Handling
<1>10. CASE UpdateStatus
  <2>1. PICK b : Resume(b)
    BY <1>10, Zenon, Zenon DEF UpdateStatus
  <2>2. acct'.uid = acct.uid /\ acct'.fins = acct.fins /\ acct'.deleting = acct.deleting
    BY <1>10, <1>t, Zenon, Zenon DEF UpdateStatus, TypeOK, Accounts
  <2> QED
    BY <1>10, <2>1, <2>2, <1>r, HeldQuiet DEF UpdateStatus, At
<1>11. CASE CallFails
  <2>1. UNCHANGED <<acct, born, res>>
    BY <1>11, Zenon DEF CallFails, At, Keeps
  <2>2. pc' = "idle" \/ (Handling /\ rd' = rd /\ pc' # "unfinalize")
    BY <1>11, <1>r, Zenon DEF CallFails, Return
  <2> QED
    BY <2>1, <2>2, HeldQuiet, Zenon
<1>12. CASE CleanupFails
  <2>1. UNCHANGED <<acct, born>> /\ pc' = "idle"
    BY <1>12, Zenon DEF CleanupFails, Validating, At, Keeps, Return
  <2>2. \A k \in Kinds : res'[k] = NoObject \/ res'[k].owner = res[k].owner
    BY <1>12, <1>c, Zenon DEF CleanupFails
  <2> QED
    BY <2>1, <2>2, HeldQuiet, Zenon
<1> QED
  BY <1>1, <1>2, <1>3, <1>4, <1>5, <1>6, <1>7, <1>8, <1>9, <1>10, <1>11, <1>12, <1>13, SMTT(30)

\* The environment.
LEMMA HeldOthers ==
    ASSUME HeldInv, TypeOK', CleanupRunner \/ Sync \/ Others
    PROVE  HeldInv'
<1>t. /\ TypeOK /\ acct \in Accounts /\ cache \in Accounts /\ rd \in Accounts
      /\ acct.fins \in Seq(Finalizers) /\ res \in [Kinds -> Objects]
  BY Zenon, Zenon DEF HeldInv, TypeOK, Accounts
<1>b. born \in Nat
  BY DEF HeldInv, TypeOK
<1>c. ASSUME NEW gone, res' = [k \in Kinds |-> IF k \in gone THEN NoObject ELSE res[k]]
      PROVE  \A k \in Kinds : res'[k] = NoObject \/ res'[k].owner = res[k].owner
  BY <1>c
<1>f. \A a \in Accounts : Finalized(a) => a.fins # <<>>
  BY DEF Finalized, Contains, Accounts
<1>1. CASE CleanupRunner
  <2>1. acct'.uid = acct.uid /\ acct'.fins = acct.fins /\ acct'.deleting = acct.deleting
    BY <1>1, <1>t, Zenon DEF CleanupRunner, Accounts
  <2> QED
    BY <1>1, <2>1, <1>c, HeldQuiet DEF CleanupRunner, worker
<1>2. CASE Sync \/ ForceValidation \/ ToggleAirGapped \/ Resync
  BY <1>2, HeldQuiet, SMTT(30) DEF Sync, ForceValidation, ToggleAirGapped, Resync, Env, worker
<1>3. CASE Create
  <2>1. acct.uid = 0 /\ acct'.uid = born + 1 /\ born' = born + 1 /\ UNCHANGED <<res, pc, rd>>
    BY <1>3 DEF Create, NewAccount, NoAccount, worker
  <2>2. ~Handling
    BY <2>1, SMTT(30) DEF HeldInv, CopyStillHeld
  <2>3. OwnersBorn' /\ OwnsOnlyWhenHeld'
    BY <2>1, <1>t, <1>b DEF HeldInv, OwnersBorn, OwnsOnlyWhenHeld, Objects
  <2> QED
    BY <2>1, <2>2, <2>3, Zenon, Zenon DEF HeldInv, CopyStillHeld, Handling, Finalized
<1>4. CASE ChangeSpec
  <2>1. acct'.uid = acct.uid /\ acct'.fins = acct.fins /\ acct'.deleting = acct.deleting
    BY <1>4, <1>t, Zenon DEF ChangeSpec, Accounts
  <2> QED
    BY <1>4, <2>1, HeldQuiet DEF ChangeSpec, Env, worker
<1>5. CASE ProvideConfig
  <2>1. \A k \in Kinds : res'[k].owner = 0 \/ res'[k] = res[k]
    BY <1>5, <1>t DEF ProvideConfig, NoObject
  <2>2. UNCHANGED <<acct, born, pc, rd>>
    BY <1>5, Zenon DEF ProvideConfig, Env, worker
  <2>3. OwnersBorn' /\ OwnsOnlyWhenHeld'
    BY <2>1, <2>2, <1>t, <1>b DEF HeldInv, OwnersBorn, OwnsOnlyWhenHeld, Finalized
  <2> QED
    BY <2>2, <2>3 DEF HeldInv, CopyStillHeld, Handling, Finalized
<1>6. CASE AgeValidation \/ AgeConfig
  <2>1. /\ acct'.uid = acct.uid /\ acct'.fins = acct.fins /\ acct'.deleting = acct.deleting
        /\ rd'.uid = rd.uid /\ rd'.fins = rd.fins /\ rd'.deleting = rd.deleting
    BY <1>6, <1>t, SMTT(30) DEF AgeValidation, AgeConfig, Age, Accounts
  <2> QED
    BY <1>6, <2>1, HeldQuiet DEF AgeValidation, AgeConfig, Age
<1>7. ASSUME NEW v \in Secrets, ChangeKey(v) PROVE HeldInv'
  BY <1>7, HeldQuiet, Zenon DEF ChangeKey, Env, worker
<1>8. ASSUME NEW k \in Kinds, Drift(k) \/ Collect(k) PROVE HeldInv'
  <2>1. \A j \in Kinds : res'[j] = NoObject \/ res'[j].owner = res[j].owner
    BY <1>8, <1>t, Zenon DEF Drift, Collect
  <2> QED
    BY <1>8, <2>1, HeldQuiet, Zenon DEF Drift, Collect, Env, worker
<1>9. ASSUME NEW m \in {"managed", "cleaning"}, Restart(m) PROVE HeldInv'
  BY <1>9, HeldQuiet DEF Restart
\* Changes of the account by others: a held account stays, and stays held.
<1>h. ASSUME UNCHANGED <<born, res, pc, rd>>,
             \/ acct' = NoAccount /\ ~Finalized(acct)
             \/ /\ acct'.uid = acct.uid /\ (acct.deleting => acct'.deleting)
                /\ Finalized(acct) => Finalized(acct')
      PROVE  HeldInv'
  <2>1. OwnersBorn'
    <3>1. acct.uid <= born /\ \A k \in Kinds : res[k].owner <= born
      BY Zenon DEF HeldInv, OwnersBorn
    <3>n. NoAccount.uid = 0
      BY DEF NoAccount
    <3>a. acct'.uid = 0 \/ acct'.uid = acct.uid
      BY <1>h, <3>n, Zenon
    <3>2. acct'.uid <= born
      BY <1>b, <3>1, <3>a, SMT
    <3> QED
      BY <1>h, <3>1, <3>2, Zenon DEF OwnersBorn
  <2>2. OwnsOnlyWhenHeld'
    BY <1>h, <1>t DEF HeldInv, OwnsOnlyWhenHeld, NoAccount, Accounts
  <2>3. CopyStillHeld'
    BY <1>h, Zenon DEF HeldInv, CopyStillHeld, Handling
  <2> QED
    BY <2>1, <2>2, <2>3, Zenon DEF HeldInv
<1>10. CASE Delete
  <2>1. \/ acct' = NoAccount /\ acct.fins = <<>>
        \/ acct'.uid = acct.uid /\ acct'.deleting /\ acct'.fins = acct.fins
    BY <1>10, <1>t DEF Delete, Settle, Accounts
  <2>2. UNCHANGED <<born, res, pc, rd>>
    BY <1>10 DEF Delete, Env, worker
  <2> QED
    BY <2>1, <2>2, <1>h, <1>f, <1>t DEF Finalized
<1>11. ASSUME NEW f \in Finalizers \ {"nim"}, AddOther(f) PROVE HeldInv'
  <2>1. acct'.uid = acct.uid /\ acct'.deleting = acct.deleting /\ acct'.fins = Append(acct.fins, f)
    BY <1>11, <1>t, SMTT(30) DEF AddOther, Accounts
  <2>2. Finalized(acct) => Finalized(acct')
    BY <2>1, <1>t, AppendFacts DEF Finalized
  <2>3. UNCHANGED <<born, res, pc, rd>>
    BY <1>11, Zenon DEF AddOther, Env, worker
  <2> QED
    BY <2>1, <2>2, <2>3, <1>h
<1>12. ASSUME NEW f \in Finalizers \ {"nim"}, RemoveOther(f) PROVE HeldInv'
  <2>1. PICK i \in 1..Len(acct.fins) :
          acct.fins[i] = f /\ acct' = Settle([acct EXCEPT !.fins = RemoveAt(@, i)])
    BY <1>12 DEF RemoveOther
  <2> DEFINE s == RemoveAt(acct.fins, i)
  <2>2. s \in Seq(Finalizers) /\ (Contains(acct.fins, "nim") => Contains(s, "nim"))
    BY <2>1, <1>t, RemoveAtFacts
  <2>3. Contains(s, "nim") => s # <<>>
    BY <2>2 DEF Contains
  <2> HIDE DEF s
  <2>4. \/ acct' = NoAccount /\ s = <<>>
        \/ acct'.uid = acct.uid /\ acct'.deleting = acct.deleting /\ acct'.fins = s
    BY <2>1, <1>t DEF Settle, Accounts, s
  <2>5. UNCHANGED <<born, res, pc, rd>>
    BY <1>12 DEF RemoveOther, worker
  <2> QED
    BY <2>2, <2>3, <2>4, <2>5, <1>h DEF Finalized
<1> QED
  BY <1>1, <1>2, <1>3, <1>4, <1>5, <1>6, <1>7, <1>8, <1>9, <1>10, <1>11, <1>12, Zenon DEF Others

\* The invariant holds at the start.
LEMMA HeldInit == ASSUME Init PROVE HeldInv
<1>1. TypeOK
  BY TypeInit
<1>2. CopyStillHeld
  BY DEF Init, CopyStillHeld, Handling
<1>3. OwnersBorn /\ OwnsOnlyWhenHeld
  BY DEF Init, OwnersBorn, OwnsOnlyWhenHeld, NewAccount, NoAccount, NoObject
<1> QED
  BY <1>1, <1>2, <1>3 DEF HeldInv

\* Every step keeps it.
LEMMA HeldStep == ASSUME ~StaleReads, HeldInv, [Next]_vars PROVE HeldInv'
<1>1. TypeOK'
  BY TypeStep DEF HeldInv
<1>2. CASE Reconcile
  BY <1>1, <1>2, HeldStart, HeldHandlers DEF Reconcile
<1>3. CASE CleanupRunner \/ Sync \/ Others
  BY <1>1, <1>3, HeldOthers, Zenon
<1>4. CASE UNCHANGED vars
  BY <1>1, <1>4, HeldQuiet DEF vars, worker
<1> QED
  BY <1>2, <1>3, <1>4 DEF Next

\* With fresh reads an account that owns resources and is not being deleted
\* carries the finalizer, so that its deletion passes through the cleanup.
THEOREM HeldWhileOwning == ASSUME ~StaleReads PROVE Spec => []OwnsOnlyWhenHeld
<1>1. HeldInv => OwnsOnlyWhenHeld
  BY Zenon DEF HeldInv
<1> QED
  BY <1>1, HeldInit, HeldStep, PTL DEF Spec

-----------------------------------------------------------------------------
(* Where the handlers come to rest, with fresh reads and no faults.        *)

\* The status says that every condition holds; it has the references of the
\* Template and of the pull Secret that exist; it is the clean status.
AllOk(st) == \A c \in Conditions : st.cond[c].ok
InPlace(k, st) == res[k].uid # 0 /\ st.refs[k] = res[k].uid
Clean(st) == (\A c \in Conditions : ~st.cond[c].ok) /\ \A k \in Kinds : st.refs[k] = 0

\* What the account owns is referenced by its status, or by the status about to
\* be written over it: a cleanup by references misses nothing.
OwnedReferenced ==
    \A k \in Kinds : res[k].owner # 0 /\ res[k].owner = acct.uid =>
        /\ pc # "update" => acct.status.refs[k] # 0
        /\ pc = "update" => pend.status.refs[k] # 0

\* The handlers work with the stored references.
CopyRefs == Handling /\ pc # "update" => rd.status.refs = acct.status.refs

\* Losing a Template or a pull Secret raises an event.
OwnedKinds == \A k \in {"template", "pull"} : res[k].uid # 0 => res[k].owner # 0

\* A handler that lets the chain go on has found its condition set and its
\* resource in place; if it is no longer, the account is queued again.
ChainInv ==
    /\ pc \in {"config", "template", "pull", "healthy"} => rd.status.cond["key"].ok
    /\ pc \in {"template", "pull", "healthy"} => rd.status.cond["config"].ok
    /\ pc \in {"pull", "healthy"} => rd.status.cond["template"].ok /\ (queued \/ InPlace("template", rd.status))
    /\ pc = "healthy" => rd.status.cond["pull"].ok /\ (queued \/ InPlace("pull", rd.status))

\* The status that ends the chain is a clean one or a healthy one.
StopInv ==
    pc = "update" =>
        /\ pend.next \in {"failConfig", "failPull"} => Clean(pend.status)
        /\ pend.next = "stop" =>
             \/ Clean(pend.status)
             \/ AllOk(pend.status) /\ (queued \/ \A k \in {"template", "pull"} : InPlace(k, pend.status))

\* An account that the worker read as deleted is, unless an event is under way.
DeletedInv == pc = "start" /\ rd.deleting /\ ~queued /\ cache = acct => acct.deleting

\* At rest the stored status is a clean one or a healthy one.
RestInv ==
    pc = "idle" /\ ~queued /\ cache = acct /\ acct.uid # 0 /\ ~acct.deleting =>
        \/ Clean(acct.status)
        \/ AllOk(acct.status) /\ \A k \in {"template", "pull"} : InPlace(k, acct.status)

Orderly ==
    /\ mode = "managed"
    /\ OwnedReferenced /\ CopyRefs /\ OwnedKinds /\ ChainInv /\ StopInv /\ DeletedInv /\ RestInv

SettleInv == HeldInv /\ (~faulted => Orderly)

\* What the statuses that handlers compute keep of the copy's.
LEMMA StatusParts ==
    ASSUME NEW st \in Statuses
    PROVE  /\ \A c \in Conditions, cnd \in Condition :
                /\ WithCond(st, c, cnd).refs = st.refs
                /\ WithCond(st, c, cnd).cond = [st.cond EXCEPT ![c] = cnd]
           /\ \A c \in Conditions : FailedStatus(st, c).refs = st.refs
           /\ Clean(makeCleanStatusForAccountFailure(st))
<1>1. ASSUME NEW c \in Conditions, NEW cnd \in Condition
      PROVE  /\ WithCond(st, c, cnd).refs = st.refs
             /\ WithCond(st, c, cnd).cond = [st.cond EXCEPT ![c] = cnd]
  BY Zenon DEF WithCond, Statuses
<1>2. ASSUME NEW c \in Conditions PROVE FailedStatus(st, c).refs = st.refs
  BY Zenon DEF FailedStatus, Statuses
<1>3. Clean(makeCleanStatusForAccountFailure(st))
  <2>1. /\ makeCleanStatusForAccountFailure(st).refs = [k \in Kinds |-> 0]
        /\ makeCleanStatusForAccountFailure(st).cond = [c \in Conditions |-> NotTrue]
    BY Zenon DEF makeCleanStatusForAccountFailure, Statuses
  <2>2. ~NotTrue.ok
    BY DEF NotTrue
  <2> QED
    BY <2>1, <2>2 DEF Clean
<1> QED
  BY <1>1, <1>2, <1>3

\* The status of a success, based on the copy.
LEMMA SuccessParts ==
    ASSUME TypeOK, NEW mde \in BOOLEAN, NEW c \in Conditions
    PROVE  /\ WithCond(rd.status, c, CondTrue(rd, mde)) \in Statuses
           /\ WithCond(rd.status, c, CondTrue(rd, mde)).refs = rd.status.refs
           /\ WithCond(rd.status, c, CondTrue(rd, mde)).cond = [rd.status.cond EXCEPT ![c] = CondTrue(rd, mde)]
<1>1. rd.status \in Statuses
  BY Zenon DEF TypeOK, Accounts
<1>2. CondTrue(rd, mde) \in Condition /\ WithCond(rd.status, c, CondTrue(rd, mde)) \in Statuses
  BY SuccessFacts, Zenon
<1>3. PICK cnd \in Condition : cnd = CondTrue(rd, mde)
  BY <1>2, Zenon
<1>4. WithCond(rd.status, c, cnd).refs = rd.status.refs /\ WithCond(rd.status, c, cnd).cond = [rd.status.cond EXCEPT ![c] = cnd]
  BY <1>1, Zenon DEF WithCond, Statuses
<1> QED
  BY <1>2, <1>3, <1>4, Zenon

\* A condition that an update would not change holds.
LEMMA NotUpdated ==
    ASSUME NEW c, NEW mde, ~CondUpdated(c, mde)
    PROVE  rd.status.cond[c].ok
<1>1. CondTrue(rd, mde).ok
  BY DEF CondTrue
<1> QED
  BY <1>1, Zenon DEF CondUpdated

\* Without a fault no call fails, and a cleanup removes all it is to remove.
LEMMA Faultless ==
    ASSUME ~faulted'
    PROVE  /\ ~Happens("fail") /\ ~Happens("restart") /\ ~Happens("removed")
           /\ ~CleanupPartly
           /\ CleanupAnyway => CleanupResources(Referenced) /\ Calm
           /\ Calm => ~faulted
           /\ \A h : Happens(h) => ~faulted
<1>1. ~Happens("fail") /\ ~Happens("restart") /\ ~Happens("removed") /\ \A h : Happens(h) => ~faulted
  BY Zenon DEF Happens
<1> QED
  BY <1>1, Zenon DEF CleanupPartly, CleanupAnyway, Calm

\* A handler that is about to write a status.
LEMMA WriteOrderly ==
    ASSUME Orderly, pc' = "update", acct'.uid = acct.uid, mode' = mode,
           \A k \in Kinds : res'[k].owner # 0 /\ res'[k].owner = acct.uid => pend'.status.refs[k] # 0,
           OwnedKinds', StopInv'
    PROVE  Orderly'
<1>1. OwnedReferenced'
  BY Zenon DEF OwnedReferenced
<1>2. CopyRefs' /\ ChainInv' /\ DeletedInv' /\ RestInv'
  BY SMT DEF CopyRefs, ChainInv, DeletedInv, RestInv
<1> QED
  BY <1>1, <1>2, Zenon DEF Orderly

\* The references of the copy cover what the account owns.
LEMMA CopyCovers ==
    ASSUME TypeOK, Orderly, Handling, pc # "update", NEW k \in Kinds,
           res[k].owner # 0, res[k].owner = acct.uid
    PROVE  rd.status.refs[k] # 0
  BY Zenon DEF Orderly, OwnedReferenced, CopyRefs

\* A status with the references of the copy that does not end the chain.
LEMMA RefsOrderly ==
    ASSUME TypeOK, Orderly, Handling, pc # "update", pc' = "update", UNCHANGED <<acct, mode, res>>,
           pend'.status.refs = rd.status.refs, pend'.next \in {"requeue", "error"}
    PROVE  Orderly'
<1>1. \A k \in Kinds : res'[k].owner # 0 /\ res'[k].owner = acct.uid => pend'.status.refs[k] # 0
  BY CopyCovers, Zenon
<1>2. OwnedKinds'
  BY Zenon DEF Orderly, OwnedKinds
<1>3. StopInv'
  BY SMT DEF StopInv
<1> QED
  BY <1>1, <1>2, <1>3, WriteOrderly, Zenon

\* A cleanup by the references of the copy leaves nothing of the account's.
LEMMA CleanupOwned ==
    ASSUME TypeOK, Orderly, Handling, pc # "update", CleanupResources(Referenced)
    PROVE  /\ \A k \in Kinds : ~(res'[k].owner # 0 /\ res'[k].owner = acct.uid)
           /\ OwnedKinds'
           /\ \A k \in Kinds : res'[k] = NoObject \/ res'[k] = res[k]
<1>1. \A k \in Kinds : res'[k] = (IF k \in Referenced THEN NoObject ELSE res[k])
  BY Zenon DEF CleanupResources
<1>2. NoObject.owner = 0 /\ NoObject.uid = 0
  BY DEF NoObject
<1>3. ASSUME NEW k \in Kinds, res'[k].owner # 0, res'[k].owner = acct.uid PROVE FALSE
  <2>1. k \notin Referenced
    BY <1>1, <1>2, <1>3, Zenon
  <2>2. res'[k] = res[k]
    BY <1>1, <2>1, Zenon
  <2>3. rd.status.refs[k] # 0
    BY <1>3, <2>2, CopyCovers, Zenon
  <2> QED
    BY <2>1, <2>3, Zenon DEF Referenced
<1>4. \A k \in Kinds : res'[k] = NoObject \/ res'[k] = res[k]
  BY <1>1, Zenon
<1>5. ASSUME NEW k \in {"template", "pull"}, res'[k].uid # 0 PROVE res'[k].owner # 0
  <2>1. k \in Kinds
    BY Zenon DEF Kinds
  <2>2. res'[k] = res[k]
    BY <1>2, <1>4, <1>5, <2>1, Zenon
  <2> QED
    BY <1>5, <2>2, Zenon DEF Orderly, OwnedKinds
<1>6. OwnedKinds'
  BY <1>5, Zenon DEF OwnedKinds
<1> QED
  BY <1>3, <1>4, <1>6, Zenon

\* The clean status, after a cleanup.
LEMMA CleanOrderly ==
    ASSUME TypeOK, Orderly, Handling, pc # "update", CleanupResources(Referenced), UNCHANGED <<acct, mode>>,
           pc' = "update", pend'.status = makeCleanStatusForAccountFailure(rd.status)
    PROVE  Orderly'
<1>1. Clean(pend'.status)
  <2>1. rd.status \in Statuses
    BY DEF TypeOK, Accounts
  <2> QED
    BY <2>1, StatusParts, Zenon
<1>2. StopInv'
  BY <1>1, Zenon DEF StopInv
<1> QED
  BY <1>2, CleanupOwned, WriteOrderly, Zenon

\* With fresh reads a step of the worker finds the cache up to date.
LEMMA AtFresh ==
    ASSUME ~StaleReads, NEW l, At(l)
    PROVE  pc = l /\ cache = acct /\ mode' = mode
  BY Zenon DEF At, Delivered

\* A pass that goes on to its next handler.
LEMMA GoesOn ==
    ASSUME HeldInv, Orderly, Handling, pc # "update", pc' \notin {"idle", "start", "update"},
           UNCHANGED <<acct, mode, res, rd>>, ChainInv'
    PROVE  Orderly'
<1>1. OwnedReferenced'
  BY Zenon DEF Orderly, OwnedReferenced
<1>2. CopyRefs' /\ OwnedKinds'
  BY Zenon DEF Orderly, CopyRefs, OwnedKinds
<1>3. StopInv' /\ DeletedInv' /\ RestInv'
  BY SMT DEF StopInv, DeletedInv, RestInv
<1> QED
  BY <1>1, <1>2, <1>3, Zenon DEF Orderly

\* A pass that ends without touching resources and the stored status.
LEMMA Ends ==
    ASSUME Orderly, pc # "update", pc' = "idle", UNCHANGED <<mode, res>>, RestInv',
           acct'.uid # 0 => acct'.uid = acct.uid /\ acct'.status = acct.status
    PROVE  Orderly'
<1>1. OwnedReferenced'
  <2> SUFFICES ASSUME NEW k \in Kinds, res[k].owner # 0, res[k].owner = acct'.uid
               PROVE  acct'.status.refs[k] # 0
    BY SMT DEF OwnedReferenced
  <2>1. res[k].owner = acct.uid /\ acct'.status = acct.status
    BY Zenon
  <2> QED
    BY <2>1, Zenon DEF Orderly, OwnedReferenced
<1>2. OwnedKinds'
  BY Zenon DEF Orderly, OwnedKinds
<1>3. CopyRefs' /\ ChainInv' /\ StopInv' /\ DeletedInv'
  BY SMT DEF CopyRefs, ChainInv, StopInv, DeletedInv, Handling
<1> QED
  BY <1>1, <1>2, <1>3, Zenon DEF Orderly

\* The steps before the handlers.
LEMMA OrderlyStart ==
    ASSUME ~StaleReads, HeldInv, Orderly, ~faulted',
           ReadAccount \/ AddFinalizer \/ CleanupDeleted \/ RemoveFinalizer \/ NothingToFinalize \/ StartHandlers
    PROVE  Orderly'
<1>t. TypeOK /\ acct \in Accounts
  BY Zenon DEF HeldInv, TypeOK
<1>1. CASE ReadAccount
  <2>1. /\ pc = "idle" /\ rd' = acct /\ cache = acct /\ UNCHANGED <<acct, cache, mode, res>>
        /\ pc' = (IF acct.uid = 0 THEN "idle" ELSE "start")
    BY <1>1, AtFresh, Zenon DEF ReadAccount, Keeps
  <2>2. pc' # "update" /\ pc' \notin {"config", "template", "pull", "healthy"}
    BY <2>1, Zenon
  <2>3. OwnedReferenced'
    BY <2>1, <2>2, SMT DEF Orderly, OwnedReferenced
  <2>4. CopyRefs' /\ OwnedKinds'
    BY <2>1, Zenon DEF Orderly, CopyRefs, OwnedKinds
  <2>5. ChainInv' /\ StopInv'
    BY <2>2, SMT DEF ChainInv, StopInv
  <2>6. DeletedInv' /\ RestInv'
    BY <2>1, SMT DEF DeletedInv, RestInv
  <2> QED
    BY <2>1, <2>3, <2>4, <2>5, <2>6, Zenon DEF Orderly
<1>2. CASE AddFinalizer
  <2>1. pc = "start" /\ pc' = "idle" /\ UNCHANGED <<mode, res, cache>> /\ (acct.uid # 0 => queued')
    BY <1>2, AtFresh, Zenon DEF AddFinalizer, Return
  <2>2. acct'.uid = acct.uid /\ acct'.status = acct.status
    BY <1>2, <1>t, Zenon DEF AddFinalizer, Accounts
  <2>3. RestInv'
    BY <2>1, <2>2, Zenon DEF RestInv
  <2>4. pc # "update"
    BY <2>1, SMT
  <2> QED
    BY <2>1, <2>2, <2>3, <2>4, Ends, Zenon
<1>3. CASE CleanupDeleted
  <2>1. /\ pc = "start" /\ pc' = "unfinalize" /\ UNCHANGED <<acct, cache, mode, rd>> /\ Handling
        /\ CleanupResources(Referenced)
    BY <1>3, AtFresh, Zenon DEF CleanupDeleted, Keeps, Handling
  <2>2. pc # "update" /\ pc' # "update" /\ pc' \notin {"idle", "start", "config", "template", "pull", "healthy"}
    BY <2>1, SMT
  <2>3. /\ \A k \in Kinds : ~(res'[k].owner # 0 /\ res'[k].owner = acct.uid)
        /\ OwnedKinds'
    BY <2>1, <2>2, <1>t, CleanupOwned, Zenon
  <2>4. OwnedReferenced'
    BY <2>1, <2>3, Zenon DEF OwnedReferenced
  <2>5. CopyRefs'
    BY <2>1, <2>2, Zenon DEF Orderly, CopyRefs
  <2>6. ChainInv' /\ StopInv' /\ DeletedInv' /\ RestInv'
    BY <2>2, SMT DEF ChainInv, StopInv, DeletedInv, RestInv
  <2> QED
    BY <2>1, <2>3, <2>4, <2>5, <2>6, Zenon DEF Orderly
<1>4. CASE RemoveFinalizer
  <2>1. pc = "unfinalize" /\ pc' = "idle" /\ UNCHANGED <<mode, res>>
    BY <1>4, AtFresh, Zenon DEF RemoveFinalizer, Return
  <2>2. acct.deleting /\ pc # "update"
    BY <2>1, SMT DEF HeldInv, CopyStillHeld, Handling
  <2>3. acct' = NoAccount \/ (acct'.uid = acct.uid /\ acct'.deleting /\ acct'.status = acct.status)
    BY <1>4, <2>2, <1>t, Zenon DEF RemoveFinalizer, Settle, Accounts
  <2>4. NoAccount.uid = 0
    BY DEF NoAccount
  <2>5. RestInv'
    BY <2>3, <2>4, Zenon DEF RestInv
  <2> QED
    BY <2>1, <2>2, <2>3, <2>4, <2>5, Ends, Zenon
<1>5. CASE NothingToFinalize
  <2>1. /\ pc = "start" /\ pc' = "idle" /\ UNCHANGED <<mode, res, acct, cache>>
        /\ rd.deleting /\ cache = acct /\ queued' = (queued \/ FALSE)
    BY <1>5, AtFresh, Zenon DEF NothingToFinalize, Return, Keeps
  <2>2. RestInv'
    BY <2>1, Zenon DEF Orderly, DeletedInv, RestInv
  <2>3. pc # "update"
    BY <2>1, SMT
  <2> QED
    BY <2>1, <2>2, <2>3, Ends, Zenon
<1>6. CASE StartHandlers
  <2>1. /\ pc = "start" /\ pc' = "validate" /\ UNCHANGED <<mode, res, acct, rd>> /\ Handling
    BY <1>6, AtFresh, Zenon DEF StartHandlers, Keeps, Handling
  <2>2. pc # "update" /\ pc' \notin {"idle", "start", "update"} /\ ChainInv'
    BY <2>1, SMT DEF ChainInv
  <2> QED
    BY <2>1, <2>2, GoesOn, Zenon
<1> QED
  BY <1>1, <1>2, <1>3, <1>4, <1>5, <1>6

\* The steps of the validation.
LEMMA OrderlyValidation ==
    ASSUME ~StaleReads, HeldInv, Orderly, ~faulted',
           \/ ValidateAirGapped \/ LoadSecretFails \/ SkipValidation \/ RuntimesUnavailable
           \/ KeyDataMissing \/ KeyRejected \/ KeyValidated \/ KeyStillValid
    PROVE  Orderly'
<1>t. TypeOK /\ rd.status \in Statuses
  BY Zenon DEF HeldInv, TypeOK, Accounts
<1>a. pc = "validate" /\ cache = acct /\ UNCHANGED <<acct, cache, mode>>
  BY AtFresh, Zenon DEF ValidateAirGapped, LoadSecretFails, SkipValidation, RuntimesUnavailable,
     KeyDataMissing, KeyRejected, KeyValidated, KeyStillValid, Validating, Keeps
<1>b. Handling /\ pc # "update"
  BY <1>a, SMT DEF Handling
<1>v. \A mde \in BOOLEAN : Validated(mde).refs = rd.status.refs
  <2> SUFFICES ASSUME NEW mde \in BOOLEAN PROVE Validated(mde).refs = rd.status.refs
    OBVIOUS
  <2>1. "key" \in Conditions
    BY Zenon DEF Conditions
  <2>2. /\ WithCond(rd.status, "key", CondTrue(rd, mde)) \in Statuses
        /\ WithCond(rd.status, "key", CondTrue(rd, mde)).refs = rd.status.refs
    BY <2>1, <1>t, SuccessParts, Zenon
  <2> QED
    BY <2>2, Zenon DEF Validated, Statuses
<1>c. ASSUME NEW mde \in BOOLEAN, NEW b, WriteStatus(Validated(mde), "requeue", b), res' = res
      PROVE  Orderly'
  <2>1. pc' = "update" /\ pend'.status.refs = rd.status.refs /\ pend'.next \in {"requeue", "error"}
    BY <1>c, <1>v, SMT DEF WriteStatus
  <2> QED
    BY <1>a, <1>b, <1>c, <1>t, <2>1, RefsOrderly, Zenon
<1>n. pc' = "config" => pc' \notin {"idle", "start", "update"}
  BY SMT
<1>d. ASSUME Continue("config"), res' = res, rd.status.cond["key"].ok PROVE Orderly'
  <2>1. ChainInv'
    BY <1>d, SMT DEF ChainInv, Continue
  <2> QED
    BY <1>a, <1>b, <1>d, <1>n, <2>1, GoesOn, Zenon DEF Continue
<1>e. ASSUME CleanupResources(Referenced), NEW nx, NEW b,
             WriteStatus(makeCleanStatusForAccountFailure(rd.status), nx, b)
      PROVE  Orderly'
  <2>1. pc' = "update" /\ pend'.status = makeCleanStatusForAccountFailure(rd.status)
    BY <1>e DEF WriteStatus
  <2> QED
    BY <1>a, <1>b, <1>e, <1>t, <2>1, CleanOrderly, Zenon
<1>1. CASE ValidateAirGapped
  <2>1. CASE WriteStatus(Validated(TRUE), "requeue", TRUE)
    BY <1>1, <2>1, <1>c, Zenon DEF ValidateAirGapped
  <2>2. CASE Continue("config") /\ ~CondUpdated("key", TRUE)
    <3>1. rd.status.cond["key"].ok
      BY <2>2, NotUpdated, Zenon
    <3> QED
      BY <1>1, <2>2, <3>1, <1>d, Zenon DEF ValidateAirGapped
  <2> QED
    BY <1>1, <2>1, <2>2, Zenon DEF ValidateAirGapped
<1>2. CASE LoadSecretFails
  BY <1>2, <1>e, Faultless, Zenon DEF LoadSecretFails
<1>3. CASE SkipValidation
  BY <1>3, <1>d, Zenon DEF SkipValidation, shouldValidate
<1>4. CASE RuntimesUnavailable
  BY <1>4, Faultless, Zenon DEF RuntimesUnavailable
<1>5. CASE KeyDataMissing
  BY <1>5, <1>e, Faultless, Zenon DEF KeyDataMissing
<1>6. CASE KeyRejected
  BY <1>6, <1>e, Faultless, Zenon DEF KeyRejected
<1>7. CASE KeyValidated
  BY <1>7, <1>c, Zenon DEF KeyValidated
<1>8. CASE KeyStillValid
  <2>1. pc' = "idle" /\ res' = res /\ queued'
    BY <1>8, Zenon DEF KeyStillValid, Return
  <2>2. RestInv'
    BY <2>1, Zenon DEF RestInv
  <2> QED
    BY <1>a, <1>b, <2>1, <2>2, Ends, Zenon
<1> QED
  BY <1>1, <1>2, <1>3, <1>4, <1>5, <1>6, <1>7, <1>8

\* What a server-side apply makes of a resource: it exists, and it belongs to
\* the account of the copy or to whom it belonged.
LEMMA AppliedObject ==
    ASSUME TypeOK, NEW k \in Kinds, NEW v \in Secrets, NEW obj \in Applied(k, v)
    PROVE  /\ obj \in Objects /\ obj.uid # 0
           /\ obj.owner = rd.uid \/ (res[k].uid # 0 /\ obj.owner = res[k].owner)
<1>1. obj \in Objects
  BY ResourceFacts, Zenon
<1>2. CASE res[k].uid # 0
  <2>1. PICK o \in {rd.uid, res[k].owner} : obj = [res[k] EXCEPT !.owner = o, !.val = v]
    BY <1>2, Zenon DEF Applied
  <2>2. obj.uid = res[k].uid /\ obj.owner = o
    BY <2>1, Zenon DEF TypeOK, Objects
  <2> QED
    BY <1>1, <1>2, <2>1, <2>2, Zenon
<1>3. CASE res[k].uid = 0
  <2>1. \A i \in (IF k = "config" THEN {1} ELSE FreshIds(k)) : i # 0
    BY SMT DEF FreshIds
  <2>2. PICK i \in (IF k = "config" THEN {1} ELSE FreshIds(k)) : obj = [uid |-> i, owner |-> rd.uid, val |-> v]
    BY <1>3, Zenon DEF Applied
  <2>3. obj.uid = i /\ obj.owner = rd.uid
    BY <2>2
  <2> QED
    BY <1>1, <2>1, <2>2, <2>3, Zenon
<1> QED
  BY <1>2, <1>3

\* The steps of the ConfigMap's handler.
LEMMA OrderlyConfig ==
    ASSUME ~StaleReads, HeldInv, Orderly, ~faulted',
           ConfigAirGapped \/ SkipConfig \/ RefreshConfig \/ RefreshConfigFails \/ KeyMissingForConfig
    PROVE  Orderly'
<1>t. TypeOK /\ rd.status \in Statuses
  BY Zenon DEF HeldInv, TypeOK, Accounts
<1>a. pc = "config" /\ cache = acct /\ UNCHANGED <<acct, cache, mode>>
  BY AtFresh, Zenon DEF ConfigAirGapped, SkipConfig, RefreshConfig, RefreshConfigFails, KeyMissingForConfig, Keeps
<1>b. Handling /\ pc # "update" /\ rd.status.cond["key"].ok
  BY <1>a, SMT DEF Handling, Orderly, ChainInv
<1>k. "config" \in Conditions /\ "config" \in Kinds /\ "absent" \in Secrets
  BY Zenon DEF Conditions, Kinds, Secrets
\* The status of a success.
<1>w. ASSUME NEW mde \in BOOLEAN, NEW b,
             WriteStatus([WithCond(rd.status, "config", CondTrue(rd, mde))
                            EXCEPT !.refs["config"] = 1, !.cfgAt = "recent", !.newer = FALSE], "requeue", b)
      PROVE  /\ pc' = "update" /\ pend'.next = "requeue" /\ pend'.status.refs["config"] = 1
             /\ \A k \in Kinds \ {"config"} : pend'.status.refs[k] = rd.status.refs[k]
  <2> DEFINE st == WithCond(rd.status, "config", CondTrue(rd, mde))
             new == [st EXCEPT !.refs["config"] = 1, !.cfgAt = "recent", !.newer = FALSE]
  <2>1. st \in Statuses /\ st.refs = rd.status.refs
    BY <1>k, <1>t, SuccessParts, Zenon
  <2> HIDE DEF st
  <2>2. new.refs = [st.refs EXCEPT !["config"] = 1]
    BY <2>1, Zenon DEF Statuses
  <2>3. new.refs["config"] = 1 /\ \A k \in Kinds \ {"config"} : new.refs[k] = st.refs[k]
    BY <2>1, <2>2, <1>k, Zenon DEF Statuses
  <2> HIDE DEF new
  <2>4. pc' = "update" /\ pend' = [status |-> new, next |-> "requeue", stamped |-> b]
    BY <1>w, Zenon DEF WriteStatus, new, st
  <2> QED
    BY <2>1, <2>3, <2>4
<1>s. pend'.next \in {"requeue", "error"} => StopInv'
  BY SMT DEF StopInv
<1>1. CASE ConfigAirGapped
  <2>1. CASE CondUpdated("config", TRUE) \/ rd.status.cfgAt = "nil" \/ rd.status.refs["config"] = 0
    <3>1. res' = res /\ WriteStatus([WithCond(rd.status, "config", CondTrue(rd, TRUE))
                                EXCEPT !.refs["config"] = 1, !.cfgAt = "recent", !.newer = FALSE], "requeue", TRUE)
      BY <1>1, <2>1, Zenon DEF ConfigAirGapped
    <3>2. /\ pc' = "update" /\ pend'.next = "requeue" /\ pend'.status.refs["config"] = 1
          /\ \A k \in Kinds \ {"config"} : pend'.status.refs[k] = rd.status.refs[k]
      BY <3>1, <1>w, Zenon
    <3>3. pend'.status.refs["config"] # 0
      BY <3>2, SMT
    <3>4. \A k \in Kinds : res'[k].owner # 0 /\ res'[k].owner = acct.uid => pend'.status.refs[k] # 0
      BY <1>a, <1>b, <1>t, <3>1, <3>2, <3>3, CopyCovers, Zenon
    <3>5. OwnedKinds'
      BY <3>1, Zenon DEF Orderly, OwnedKinds
    <3> QED
      BY <1>a, <1>s, <3>2, <3>4, <3>5, WriteOrderly, Zenon
  <2>2. CASE Continue("template") /\ ~CondUpdated("config", TRUE)
    <3>1. rd.status.cond["config"].ok /\ pc' = "template" /\ res' = res /\ rd' = rd
      BY <1>1, <2>2, NotUpdated, Zenon DEF ConfigAirGapped, Continue
    <3>2. ChainInv' /\ pc' \notin {"idle", "start", "update"}
      BY <1>b, <3>1, SMT DEF ChainInv
    <3> QED
      BY <1>a, <1>b, <3>1, <3>2, GoesOn, Zenon
  <2> QED
    BY <1>1, <2>1, <2>2, Zenon DEF ConfigAirGapped
<1>2. CASE SkipConfig
  <2>1. rd.status.cond["config"].ok /\ pc' = "template" /\ res' = res /\ rd' = rd
    BY <1>2, <1>b, Zenon DEF SkipConfig, shouldRefresh, Continue
  <2>2. ChainInv' /\ pc' \notin {"idle", "start", "update"}
    BY <1>b, <2>1, SMT DEF ChainInv
  <2> QED
    BY <1>a, <1>b, <2>1, <2>2, GoesOn, Zenon
<1>3. CASE RefreshConfig
  <2>1. /\ pc' = "update" /\ pend'.next = "requeue" /\ pend'.status.refs["config"] = 1
        /\ \A k \in Kinds \ {"config"} : pend'.status.refs[k] = rd.status.refs[k]
    BY <1>3, <1>w, Zenon DEF RefreshConfig
  <2>2. \A k \in Kinds \ {"config"} : res'[k] = res[k]
    BY <1>3, <1>t, Zenon DEF RefreshConfig, Apply, TypeOK
  <2>3. pend'.status.refs["config"] # 0
    BY <2>1, SMT
  <2>4. \A k \in Kinds : res'[k].owner # 0 /\ res'[k].owner = acct.uid => pend'.status.refs[k] # 0
    BY <1>a, <1>b, <1>t, <2>1, <2>2, <2>3, CopyCovers, Zenon
  <2>5. \A k \in {"template", "pull"} : k \in Kinds \ {"config"}
    BY SMT DEF Kinds
  <2>6. OwnedKinds'
    BY <2>2, <2>5, Zenon DEF Orderly, OwnedKinds
  <2> QED
    BY <1>a, <1>s, <2>1, <2>4, <2>6, WriteOrderly, Zenon
<1>4. CASE RefreshConfigFails
  <2>1. WriteStatus(FailedStatus(rd.status, "config"), "error", TRUE) /\ res' = res
    BY <1>4, Zenon DEF RefreshConfigFails
  <2>2. pc' = "update" /\ pend'.status = FailedStatus(rd.status, "config") /\ pend'.next \in {"requeue", "error"}
    BY <2>1, SMT DEF WriteStatus
  <2>3. FailedStatus(rd.status, "config").refs = rd.status.refs
    BY <1>k, <1>t, StatusParts, Zenon
  <2> QED
    BY <1>a, <1>b, <1>t, <2>1, <2>2, <2>3, RefsOrderly, Zenon
<1>5. CASE KeyMissingForConfig
  <2>1. CleanupResources(Referenced)
    BY <1>5, Faultless, Zenon DEF KeyMissingForConfig
  <2>2. pc' = "update" /\ pend'.status = makeCleanStatusForAccountFailure(rd.status)
    BY <1>5 DEF KeyMissingForConfig, WriteStatus
  <2> QED
    BY <1>a, <1>b, <1>t, <2>1, <2>2, CleanOrderly, Zenon
<1> QED
  BY <1>1, <1>2, <1>3, <1>4, <1>5, Zenon

\* A handler of the last two that applied its resource: what the account owns
\* is referenced, by the status it writes or by the copy, and the resource is
\* in place in the latter case.
LEMMA ReconciledOrderly ==
    ASSUME HeldInv, Orderly, Handling, pc # "update", UNCHANGED <<acct, mode>>,
           NEW k \in {"template", "pull"}, NEW v \in Secrets, NEW obj \in Applied(k, v), NEW l,
           l \notin {"idle", "start", "update"}, Reconciled(k, obj, l)
    PROVE  \/ Orderly'
           \/ /\ pc' = l /\ rd' = rd /\ (InPlace(k, rd.status))' /\ rd.status.cond[k].ok
              /\ \A j \in Kinds \ {k} : res'[j] = res[j]
              /\ ChainInv' => Orderly'
<1>t. TypeOK /\ rd.status \in Statuses /\ res \in [Kinds -> Objects]
  BY Zenon DEF HeldInv, TypeOK, Accounts
<1>k. k \in Kinds /\ k \in Conditions
  BY Zenon DEF Kinds, Conditions
<1>o. obj.uid # 0 /\ (obj.owner = rd.uid \/ (res[k].uid # 0 /\ obj.owner = res[k].owner))
  BY <1>t, <1>k, AppliedObject, Zenon
<1>r. res'[k] = obj /\ \A j \in Kinds \ {k} : res'[j] = res[j]
  BY <1>t, <1>k, Zenon DEF Reconciled, Apply
<1>h. rd.uid = acct.uid /\ rd.uid # 0 /\ rd.status.refs = acct.status.refs
  BY Zenon DEF HeldInv, CopyStillHeld, Orderly, CopyRefs
<1>1. OwnedKinds'
  <2> SUFFICES ASSUME NEW j \in {"template", "pull"}, res'[j].uid # 0 PROVE res'[j].owner # 0
    BY Zenon DEF OwnedKinds
  <2>1. j \in Kinds
    BY Zenon DEF Kinds
  <2>2. CASE j # k
    BY <1>r, <2>1, <2>2, Zenon DEF Orderly, OwnedKinds
  <2>3. CASE j = k /\ obj.owner = rd.uid
    BY <1>r, <1>h, <2>3, Zenon
  <2>4. CASE j = k /\ obj.owner # rd.uid
    <3>1. res[k].uid # 0 /\ obj.owner = res[k].owner
      BY <1>o, <2>4, Zenon
    <3> QED
      BY <1>r, <2>4, <3>1, Zenon DEF Orderly, OwnedKinds
  <2> QED
    BY <2>2, <2>3, <2>4
<1>2. CASE rd.status.refs[k] # obj.uid \/ CondUpdated(k, FALSE)
  <2> DEFINE st == WithCond(rd.status, k, CondTrue(rd, FALSE))
             new == [st EXCEPT !.refs[k] = obj.uid]
  <2>1. st \in Statuses /\ st.refs = rd.status.refs
    BY <1>k, <1>t, SuccessParts, Zenon
  <2> HIDE DEF st
  <2>2. new.refs[k] = obj.uid /\ \A j \in Kinds \ {k} : new.refs[j] = st.refs[j]
    BY <2>1, <1>k, Zenon DEF Statuses
  <2> HIDE DEF new
  <2>3. pc' = "update" /\ pend' = [status |-> new, next |-> "requeue", stamped |-> FALSE]
    BY <1>2, Zenon DEF Reconciled, WriteStatus, new, st
  <2>4. pend'.status = new /\ pend'.next = "requeue"
    BY <2>3
  <2>5. \A j \in Kinds : res'[j].owner # 0 /\ res'[j].owner = acct.uid => pend'.status.refs[j] # 0
    BY <1>o, <1>r, <1>t, <2>1, <2>2, <2>4, CopyCovers, Zenon
  <2>6. StopInv'
    BY <2>4, SMT DEF StopInv
  <2> QED
    BY <1>1, <2>3, <2>5, <2>6, WriteOrderly, Zenon
<1>3. CASE rd.status.refs[k] = obj.uid /\ ~CondUpdated(k, FALSE)
  <2>1. pc' = l /\ rd' = rd
    BY <1>3, Zenon DEF Reconciled
  <2>2. rd.status.cond[k].ok
    BY <1>3, NotUpdated, Zenon
  <2>3. (InPlace(k, rd.status))'
    BY <1>3, <1>o, <1>r, <2>1, Zenon DEF InPlace
  <2>4. ASSUME ChainInv' PROVE Orderly'
    <3>1. \A j \in Kinds : res'[j].owner # 0 /\ res'[j].owner = acct.uid => acct.status.refs[j] # 0
      BY <1>3, <1>o, <1>r, <1>h, <1>t, CopyCovers, Zenon
    <3>2. pc' # "update"
      BY <2>1, Zenon
    <3>3. OwnedReferenced'
      BY <3>1, <3>2, Zenon DEF OwnedReferenced
    <3>4. CopyRefs'
      BY <1>h, <2>1, Zenon DEF CopyRefs
    <3>5. StopInv' /\ DeletedInv' /\ RestInv'
      <4>1. pc' # "idle" /\ pc' # "start"
        BY <2>1, Zenon
      <4> QED
        BY <3>2, <4>1, Zenon DEF StopInv, DeletedInv, RestInv
    <3> QED
      BY <1>1, <2>4, <3>3, <3>4, <3>5, Zenon DEF Orderly
  <2> QED
    BY <1>r, <2>1, <2>2, <2>3, <2>4, Zenon
<1> QED
  BY <1>2, <1>3, Zenon

\* The steps of the Template's and the pull Secret's handlers.
LEMMA OrderlyResources ==
    ASSUME ~StaleReads, HeldInv, Orderly, ~faulted',
           \/ ReconcileTemplate \/ ReconcilePullSecret \/ KeyMissingForPullSecret
           \/ (\E k \in Kinds : ApplyFails(k)) \/ AccountSuccess
    PROVE  Orderly'
<1>t. TypeOK /\ rd.status \in Statuses /\ key \in Secrets
  BY Zenon DEF HeldInv, TypeOK, Accounts
<1>1. CASE ReconcileTemplate
  <2>1. pc = "template" /\ UNCHANGED <<acct, mode>>
    BY <1>1, AtFresh, Zenon DEF ReconcileTemplate, Keeps
  <2>2. Handling /\ pc # "update" /\ rd.status.cond["key"].ok /\ rd.status.cond["config"].ok
    <3>1. pc \notin {"idle", "start"} /\ pc # "update"
      BY <2>1, SMT
    <3> QED
      BY <2>1, <3>1, Zenon DEF Handling, Orderly, ChainInv
  <2>3. PICK obj \in Applied("template", "absent") : Reconciled("template", obj, "pull")
    BY <1>1, Zenon DEF ReconcileTemplate
  <2>4. "absent" \in Secrets /\ "template" \in {"template", "pull"} /\ "pull" \notin {"idle", "start", "update"}
    BY SMT DEF Secrets
  <2>5. \/ Orderly'
        \/ /\ pc' = "pull" /\ rd' = rd /\ (InPlace("template", rd.status))' /\ rd.status.cond["template"].ok
           /\ ChainInv' => Orderly'
    BY <2>1, <2>2, <2>3, <2>4, ReconciledOrderly, Zenon
  <2>6. ASSUME pc' = "pull", rd' = rd, (InPlace("template", rd.status))', rd.status.cond["template"].ok
        PROVE  ChainInv'
    <3>1. pc' # "healthy"
      BY <2>6, SMT
    <3> QED
      BY <2>2, <2>6, <3>1, Zenon DEF ChainInv
  <2> QED
    BY <2>5, <2>6, Zenon
<1>2. CASE ReconcilePullSecret
  <2>1. pc = "pull" /\ UNCHANGED <<acct, mode>>
    BY <1>2, AtFresh, Zenon DEF ReconcilePullSecret, Keeps
  <2>2. /\ Handling /\ pc # "update" /\ rd.status.cond["key"].ok /\ rd.status.cond["config"].ok
        /\ rd.status.cond["template"].ok /\ (queued \/ InPlace("template", rd.status))
    <3>1. pc \notin {"idle", "start"} /\ pc # "update"
      BY <2>1, SMT
    <3> QED
      BY <2>1, <3>1, Zenon DEF Handling, Orderly, ChainInv
  <2>3. LoadedKey \in Secrets
    BY <1>2, Zenon DEF ReconcilePullSecret, Secrets
  <2>p. PICK v : v = LoadedKey
    OBVIOUS
  <2>4. PICK obj \in Applied("pull", v) : Reconciled("pull", obj, "healthy")
    BY <1>2, <2>p, Zenon DEF ReconcilePullSecret
  <2>5. "pull" \in {"template", "pull"} /\ "healthy" \notin {"idle", "start", "update"} /\ v \in Secrets
    BY <2>3, <2>p, SMT
  <2>6. \/ Orderly'
        \/ /\ pc' = "healthy" /\ rd' = rd /\ (InPlace("pull", rd.status))' /\ rd.status.cond["pull"].ok
           /\ \A j \in Kinds \ {"pull"} : res'[j] = res[j]
           /\ ChainInv' => Orderly'
    BY <2>1, <2>2, <2>4, <2>5, ReconciledOrderly, Zenon
  <2>7. ASSUME pc' = "healthy", rd' = rd, (InPlace("pull", rd.status))', rd.status.cond["pull"].ok,
               \A j \in Kinds \ {"pull"} : res'[j] = res[j]
        PROVE  ChainInv'
    <3>1. queued => queued'
      BY <2>4, Zenon DEF Reconciled, Apply
    <3>2. res'["template"] = res["template"]
      BY <2>7, SMT DEF Kinds
    <3>3. queued' \/ (InPlace("template", rd.status))'
      BY <2>2, <2>7, <3>1, <3>2, Zenon DEF InPlace
    <3> QED
      BY <2>2, <2>7, <3>3, Zenon DEF ChainInv
  <2> QED
    BY <2>6, <2>7, Zenon
<1>3. CASE KeyMissingForPullSecret
  <2>1. pc = "pull" /\ UNCHANGED <<acct, mode>>
    BY <1>3, AtFresh, Zenon DEF KeyMissingForPullSecret, Keeps
  <2>2. Handling /\ pc # "update"
    BY <2>1, SMT DEF Handling
  <2>3. CleanupResources(Referenced)
    BY <1>3, Faultless, Zenon DEF KeyMissingForPullSecret
  <2>4. pc' = "update" /\ pend'.status = makeCleanStatusForAccountFailure(rd.status)
    BY <1>3 DEF KeyMissingForPullSecret, WriteStatus
  <2> QED
    BY <1>t, <2>1, <2>2, <2>3, <2>4, CleanOrderly, Zenon
<1>4. CASE \E k \in Kinds : ApplyFails(k)
  BY <1>4, Faultless, Zenon DEF ApplyFails
<1>5. CASE AccountSuccess
  <2>1. pc = "healthy" /\ UNCHANGED <<acct, mode, res, queued>>
    BY <1>5, AtFresh, Zenon DEF AccountSuccess, Keeps
  <2>2. /\ Handling /\ pc # "update"
        /\ \A c \in Kinds \cup {"key"} : rd.status.cond[c].ok
        /\ queued \/ \A k \in {"template", "pull"} : InPlace(k, rd.status)
    <3>1. /\ rd.status.cond["key"].ok /\ rd.status.cond["config"].ok
          /\ rd.status.cond["template"].ok /\ rd.status.cond["pull"].ok
          /\ queued \/ (InPlace("template", rd.status) /\ InPlace("pull", rd.status))
      BY <2>1, Zenon DEF Orderly, ChainInv
    <3>2. pc \notin {"idle", "start", "update"} BY <2>1, SMT
    <3>3. \A c \in Kinds \cup {"key"} : rd.status.cond[c].ok BY <3>1, Zenon DEF Kinds
    <3> QED BY <3>1, <3>2, <3>3, Zenon DEF Handling
  <2> DEFINE new == WithCond(rd.status, "account", CondTrue(rd, FALSE))
  <2>3. "account" \in Conditions
    BY Zenon DEF Conditions
  <2>4. new.refs = rd.status.refs /\ new.cond = [rd.status.cond EXCEPT !["account"] = CondTrue(rd, FALSE)]
    BY <1>t, <2>3, SuccessParts, Zenon
  <2>5. pc' = "update" /\ pend' = [status |-> new, next |-> "stop", stamped |-> TRUE]
    BY <1>5, Zenon DEF AccountSuccess, WriteStatus
  <2> HIDE DEF new
  <2>6. CondTrue(rd, FALSE).ok
    BY DEF CondTrue
  <2>7. AllOk(new)
    BY <1>t, <2>2, <2>4, <2>6, Zenon DEF AllOk, Conditions, Statuses
  <2>8. pend'.status = new /\ pend'.next = "stop"
    BY <2>5
  <2>9. queued' \/ \A k \in {"template", "pull"} : (InPlace(k, pend.status))'
    BY <2>1, <2>2, <2>4, <2>8, Zenon DEF InPlace
  <2>10. StopInv'
    <3>1. AllOk(pend'.status)
      BY <2>7, <2>8, Zenon
    <3> QED
      BY <3>1, <2>8, <2>9, SMT DEF StopInv
  <2>11. OwnedKinds'
    BY <2>1, Zenon DEF Orderly, OwnedKinds
  <2>12. \A k \in Kinds : res'[k].owner # 0 /\ res'[k].owner = acct.uid => pend'.status.refs[k] # 0
    BY <1>t, <2>1, <2>2, <2>4, <2>8, CopyCovers, Zenon
  <2> QED
    BY <2>1, <2>5, <2>10, <2>11, <2>12, WriteOrderly, Zenon
<1> QED
  BY <1>1, <1>2, <1>3, <1>4, <1>5, Zenon

\* The update of the status.
LEMMA OrderlyUpdate ==
    ASSUME ~StaleReads, HeldInv, Orderly, ~faulted', UpdateStatus
    PROVE  Orderly'
<1>t. TypeOK /\ acct \in Accounts /\ rd.status \in Statuses
  BY Zenon DEF HeldInv, TypeOK, Accounts
<1>a. pc = "update" /\ cache = acct /\ UNCHANGED <<mode, res, cache>>
  BY AtFresh, Zenon DEF UpdateStatus
<1>1. acct'.uid = acct.uid /\ acct'.deleting = acct.deleting
  BY <1>t, Zenon DEF UpdateStatus, Accounts
<1>2. acct.uid # 0 => acct'.status = pend.status
  BY <1>a, <1>t, Zenon DEF UpdateStatus, Accounts, Sent
<1>3. PICK b : Resume(b)
  BY Zenon DEF UpdateStatus
<1>k. OwnedKinds'
  BY <1>a, Zenon DEF Orderly, OwnedKinds
<1>r. ASSUME NEW k \in Kinds, res[k].owner # 0, res[k].owner = acct.uid PROVE pend.status.refs[k] # 0
  BY <1>a, <1>r, Zenon DEF Orderly, OwnedReferenced
<1>4. CASE pend.next \in {"failConfig", "failPull"}
  <2>1. Clean(pend.status)
    BY <1>4, <1>a, Zenon DEF Orderly, StopInv
  <2>2. \A k \in Kinds : ~(res[k].owner # 0 /\ res[k].owner = acct.uid)
    BY <2>1, <1>r, Zenon DEF Clean
  <2>3. PICK c : WriteStatus(FailedStatus(rd.status, c), "error", TRUE)
    BY <1>3, <1>4, Zenon DEF Resume
  <2>4. pc' = "update" /\ pend'.next = "error"
    BY <2>3 DEF WriteStatus
  <2>5. StopInv'
    BY <2>4, SMT DEF StopInv
  <2> QED
    BY <1>a, <1>1, <1>k, <2>2, <2>4, <2>5, WriteOrderly, Zenon
<1>5. CASE pend.next \notin {"failConfig", "failPull"}
  <2>1. pc' = "idle" /\ (queued \/ pend.next # "stop" => queued')
    BY <1>3, <1>5, Zenon DEF Resume, Return
  <2>2. OwnedReferenced'
    <3> SUFFICES ASSUME NEW k \in Kinds, res[k].owner # 0, res[k].owner = acct.uid
                 PROVE  acct'.status.refs[k] # 0
      BY <1>a, <1>1, <2>1, SMT DEF OwnedReferenced
    <3>1. acct'.status = pend.status
      BY <1>2, Zenon
    <3> QED
      BY <1>r, <3>1, Zenon
  <2>3. CopyRefs' /\ ChainInv' /\ StopInv' /\ DeletedInv'
    BY <2>1, SMT DEF CopyRefs, ChainInv, StopInv, DeletedInv, Handling
  <2>4. RestInv'
    <3> SUFFICES ASSUME ~queued', acct'.uid # 0
                 PROVE  \/ Clean(acct'.status)
                        \/ AllOk(acct'.status) /\ \A k \in {"template", "pull"} : (InPlace(k, acct.status))'
      BY Zenon DEF RestInv
    <3>1. pend.next = "stop" /\ ~queued /\ acct'.status = pend.status
      BY <1>1, <1>2, <2>1, Zenon
    <3>2. \/ Clean(pend.status)
          \/ AllOk(pend.status) /\ \A k \in {"template", "pull"} : InPlace(k, pend.status)
      BY <1>a, <3>1, Zenon DEF Orderly, StopInv
    <3> QED
      BY <1>a, <3>1, <3>2, Zenon DEF InPlace
  <2> QED
    BY <1>a, <1>k, <2>2, <2>3, <2>4, Zenon DEF Orderly
<1> QED
  BY <1>4, <1>5

\* A change of the account by others: the informer has yet to deliver it.
LEMMA OrderlyAccount ==
    ASSUME HeldInv, HeldInv', Orderly, cache = acct, UNCHANGED <<cache, res, queued, mode, worker>>,
           \/ acct'.uid = 0
           \/ acct'.uid = acct.uid /\ acct'.status = acct.status
           \/ acct.uid = 0 /\ \A k \in Kinds : res[k].owner # acct'.uid
    PROVE  Orderly'
<1>w. UNCHANGED <<pc, rd, pend>>
  BY Zenon DEF worker
<1>1. OwnedReferenced'
  <2> SUFFICES ASSUME NEW k \in Kinds, res[k].owner # 0, res[k].owner = acct'.uid
               PROVE  /\ pc # "update" => acct'.status.refs[k] # 0
                      /\ pc = "update" => pend.status.refs[k] # 0
    BY <1>w, Zenon DEF OwnedReferenced
  <2>1. res[k].owner = acct.uid /\ acct'.status = acct.status
    BY Zenon
  <2> QED
    BY <2>1, Zenon DEF Orderly, OwnedReferenced
<1>2. CopyRefs'
  <2> SUFFICES ASSUME Handling, pc # "update" PROVE rd.status.refs = acct'.status.refs
    BY <1>w, Zenon DEF CopyRefs, Handling, Finalized
  <2>1. acct.uid # 0
    BY Zenon DEF HeldInv, CopyStillHeld
  <2>2. Handling'
    BY <1>w, Zenon DEF Handling, Finalized
  <2>3. acct'.uid # 0
    BY <2>2, Zenon DEF HeldInv, CopyStillHeld
  <2> QED
    BY <2>1, <2>3, Zenon DEF Orderly, CopyRefs
<1>3. OwnedKinds' /\ ChainInv' /\ StopInv'
  <2>1. OwnedKinds'
    BY Zenon DEF Orderly, OwnedKinds
  <2>2. ChainInv'
    BY <1>w, Zenon DEF Orderly, ChainInv, InPlace
  <2>3. StopInv'
    BY <1>w, Zenon DEF Orderly, StopInv, InPlace
  <2> QED
    BY <2>1, <2>2, <2>3
<1>4. DeletedInv' /\ RestInv'
  <2>1. cache' = acct' => acct' = acct
    BY Zenon
  <2>2. DeletedInv'
    BY <1>w, <2>1, Zenon DEF Orderly, DeletedInv
  <2>3. RestInv'
    BY <1>w, <2>1, Zenon DEF Orderly, RestInv, InPlace
  <2> QED
    BY <2>2, <2>3
<1> QED
  BY <1>1, <1>2, <1>3, <1>4, Zenon DEF Orderly

\* The account and the worker stay, the account may be queued, and resources
\* may go: of a Template or a pull Secret with an event.
LEMMA OrderlyResource ==
    ASSUME Orderly, UNCHANGED <<acct, mode, worker>>, cache' = cache \/ queued',
           queued => queued',
           \A k \in Kinds : \/ res'[k] = res[k]
                            \/ res'[k].owner = 0 /\ (k # "config" => queued' /\ res'[k].uid = 0)
    PROVE  Orderly'
<1>w. UNCHANGED <<pc, rd, pend>>
  BY Zenon DEF worker
<1>k. \A k \in {"template", "pull"} : k \in Kinds /\ k # "config"
  BY SMT DEF Kinds
<1>1. OwnedReferenced'
  BY <1>w, Zenon DEF Orderly, OwnedReferenced
<1>2. CopyRefs'
  BY <1>w, Zenon DEF Orderly, CopyRefs, Handling, Finalized
<1>3. OwnedKinds'
  BY <1>k, Zenon DEF Orderly, OwnedKinds
<1>p. queued' \/ \A k \in {"template", "pull"} : res'[k] = res[k]
  BY <1>k, Zenon
<1>4. ChainInv'
  BY <1>w, <1>p, Zenon DEF Orderly, ChainInv, InPlace
<1>5. StopInv'
  BY <1>w, <1>p, Zenon DEF Orderly, StopInv, InPlace
<1>6. DeletedInv'
  BY <1>w, Zenon DEF Orderly, DeletedInv
<1>7. RestInv'
  BY <1>w, <1>p, Zenon DEF Orderly, RestInv, InPlace
<1> QED
  BY <1>1, <1>2, <1>3, <1>4, <1>5, <1>6, <1>7, Zenon DEF Orderly

\* Time passes: the references and the conditions stay, in every copy.
LEMMA OrderlyAge ==
    ASSUME ~StaleReads, HeldInv, Orderly, AgeValidation \/ AgeConfig
    PROVE  Orderly'
<1>t. /\ acct \in Accounts /\ rd \in Accounts /\ pend \in Writes
      /\ acct.status \in Statuses /\ rd.status \in Statuses /\ pend.status \in Statuses
  BY Zenon DEF HeldInv, TypeOK, Accounts, Writes
<1>a. cache = acct /\ UNCHANGED <<res, queued, mode, pc>>
  BY Zenon DEF AgeValidation, AgeConfig, Age, Delivered
<1>s. \A st \in Statuses : /\ AgedKey(st).refs = st.refs /\ AgedKey(st).cond = st.cond
                           /\ AgedConfig(st).refs = st.refs /\ AgedConfig(st).cond = st.cond
  BY Zenon DEF AgedKey, AgedConfig, Statuses
<1>1. /\ acct'.uid = acct.uid /\ acct'.deleting = acct.deleting
      /\ acct'.status.refs = acct.status.refs /\ acct'.status.cond = acct.status.cond
  <2>1. acct'.status = AgedKey(acct.status) \/ acct'.status = AgedConfig(acct.status)
    BY <1>t, Zenon DEF AgeValidation, AgeConfig, Age, Accounts
  <2>2. acct'.uid = acct.uid /\ acct'.deleting = acct.deleting
    BY <1>t, Zenon DEF AgeValidation, AgeConfig, Age, Accounts
  <2> QED
    BY <1>s, <1>t, <2>1, <2>2, Zenon
<1>2. /\ rd'.fins = rd.fins /\ rd'.deleting = rd.deleting
      /\ rd'.status.refs = rd.status.refs /\ rd'.status.cond = rd.status.cond
  <2>1. rd'.status = AgedKey(rd.status) \/ rd'.status = AgedConfig(rd.status)
    BY <1>t, Zenon DEF AgeValidation, AgeConfig, Age, Accounts
  <2>2. rd'.fins = rd.fins /\ rd'.deleting = rd.deleting
    BY <1>t, Zenon DEF AgeValidation, AgeConfig, Age, Accounts
  <2> QED
    BY <1>s, <1>t, <2>1, <2>2, Zenon
<1>3. /\ pend'.next = pend.next
      /\ pend'.status.refs = pend.status.refs /\ pend'.status.cond = pend.status.cond
  <2>1. pend'.status = AgedKey(pend.status) \/ pend'.status = AgedConfig(pend.status)
    BY <1>t, Zenon DEF AgeValidation, AgeConfig, Age, Writes
  <2>2. pend'.next = pend.next
    BY <1>t, Zenon DEF AgeValidation, AgeConfig, Age, Writes
  <2> QED
    BY <1>s, <1>t, <2>1, <2>2, Zenon
<1>4. OwnedReferenced' /\ OwnedKinds'
  BY <1>a, <1>1, <1>3, Zenon DEF Orderly, OwnedReferenced, OwnedKinds
<1>5. CopyRefs'
  BY <1>a, <1>1, <1>2, Zenon DEF Orderly, CopyRefs, Handling, Finalized
<1>6. ChainInv'
  BY <1>a, <1>2, Zenon DEF Orderly, ChainInv, InPlace
<1>7. StopInv'
  BY <1>a, <1>3, Zenon DEF Orderly, StopInv, InPlace, Clean, AllOk
<1>8. DeletedInv'
  BY <1>a, <1>1, <1>2, Zenon DEF Orderly, DeletedInv
<1>9. RestInv'
  BY <1>a, <1>1, Zenon DEF Orderly, RestInv, InPlace, Clean, AllOk
<1> QED
  BY <1>a, <1>4, <1>5, <1>6, <1>7, <1>8, <1>9, Zenon DEF Orderly

\* The environment.
LEMMA OrderlyOthers ==
    ASSUME ~StaleReads, HeldInv, HeldInv', Orderly, ~faulted', CleanupRunner \/ Sync \/ Others
    PROVE  Orderly'
<1>t. /\ TypeOK /\ acct \in Accounts /\ acct.fins \in Seq(Finalizers) /\ res \in [Kinds -> Objects]
  BY Zenon DEF HeldInv, TypeOK, Accounts
<1>n. NoAccount.uid = 0 /\ NoObject.owner = 0 /\ NoObject.uid = 0
  BY DEF NoAccount, NoObject
<1>1. CASE CleanupRunner
  <2>1. mode = "managed" /\ mode = "cleaning"
    BY <1>1, Zenon DEF CleanupRunner, Orderly
  <2> QED
    BY <2>1, SMT
<1>2. CASE Sync \/ ForceValidation \/ ToggleAirGapped \/ Resync
  <2>1. UNCHANGED <<acct, mode, worker, res>> /\ (cache' = cache \/ queued') /\ (queued => queued')
    <3>1. CASE Sync
      BY <3>1, Zenon DEF Sync
    <3>2. CASE ForceValidation
      BY <3>2, Zenon DEF ForceValidation, Env
    <3>3. CASE ToggleAirGapped
      BY <3>3, Zenon DEF ToggleAirGapped, Env
    <3>4. CASE Resync
      BY <3>4, Zenon DEF Resync
    <3> QED
      BY <1>2, <3>1, <3>2, <3>3, <3>4, Zenon
  <2> QED
    BY <2>1, OrderlyResource, Zenon
<1>3. CASE Create
  <2>1. cache = acct /\ UNCHANGED <<cache, res, queued, mode, worker>> /\ acct.uid = 0
    BY <1>3, Zenon DEF Create, Delivered
  <2>2. acct'.uid = born + 1 /\ born \in Nat
    BY <1>3, <1>t DEF Create, NewAccount, NoAccount, TypeOK
  <2>3. \A k \in Kinds : res[k].owner # acct'.uid
    <3>1. \A k \in Kinds : res[k].owner <= born /\ res[k].owner \in Nat
      BY <1>t, BoundsAssumption, SMT DEF HeldInv, OwnersBorn, Objects
    <3> QED
      BY <2>2, <3>1, SMT
  <2> QED
    BY <2>1, <2>3, OrderlyAccount, Zenon
<1>4. CASE Delete \/ ChangeSpec
  <2>1. cache = acct /\ UNCHANGED <<cache, res, queued, mode, worker>>
    BY <1>4, Zenon DEF Delete, ChangeSpec, Env, Delivered
  <2>2. acct' = NoAccount \/ (acct'.uid = acct.uid /\ acct'.status = acct.status)
    BY <1>4, <1>t, Zenon DEF Delete, ChangeSpec, Settle, Accounts
  <2> QED
    BY <1>n, <2>1, <2>2, OrderlyAccount, Zenon
<1>5. CASE ProvideConfig
  <2>1. UNCHANGED <<acct, mode, worker, queued, cache>>
    BY <1>5, Zenon DEF ProvideConfig, Env
  <2>2. [NoObject EXCEPT !.uid = 1].owner = 0
    BY DEF NoObject
  <2>3. \A k \in Kinds : res'[k] = res[k] \/ (res'[k].owner = 0 /\ k = "config")
    BY <1>5, <1>t, <2>2, Zenon DEF ProvideConfig
  <2> QED
    BY <2>1, <2>3, OrderlyResource, Zenon
<1>6. CASE AgeValidation \/ AgeConfig
  BY <1>6, OrderlyAge, Zenon
<1>7. ASSUME NEW v \in Secrets, ChangeKey(v) PROVE Orderly'
  <2>1. UNCHANGED <<acct, mode, worker, res>> /\ cache' = cache /\ (queued => queued')
    BY <1>7, Zenon DEF ChangeKey, Env
  <2> QED
    BY <2>1, OrderlyResource, Zenon
<1>8. ASSUME NEW k \in Kinds, Drift(k) \/ Collect(k) PROVE Orderly'
  <2>1. UNCHANGED <<acct, mode, worker, cache>> /\ (queued => queued')
    BY <1>8, Zenon DEF Drift, Collect, Env
  <2>2. res'[k] = NoObject /\ \A j \in Kinds \ {k} : res'[j] = res[j]
    BY <1>8, <1>t, Zenon DEF Drift, Collect
  <2>3. k # "config" => queued'
    <3> SUFFICES ASSUME k # "config", Drift(k) PROVE queued'
      BY <1>8, Zenon DEF Collect
    <3>1. k \in {"template", "pull"}
      BY SMT DEF Kinds
    <3>2. res[k].owner # 0
      BY <3>1, Zenon DEF Drift, Orderly, OwnedKinds
    <3> QED
      BY <3>2, Zenon DEF Drift
  <2>4. \A j \in Kinds : res'[j] = res[j] \/ (res'[j].owner = 0 /\ (j # "config" => queued' /\ res'[j].uid = 0))
    <3>1. res'[k].owner = 0 /\ res'[k].uid = 0
      BY <1>n, <2>2, Zenon
    <3> QED
      BY <2>2, <2>3, <3>1, Zenon
  <2> QED
    BY <2>1, <2>4, OrderlyResource, Zenon
<1>9. ASSUME NEW m \in {"managed", "cleaning"}, Restart(m) PROVE Orderly'
  BY <1>9, Faultless, Zenon DEF Restart
<1>10. ASSUME NEW f \in Finalizers \ {"nim"}, AddOther(f) \/ RemoveOther(f) PROVE Orderly'
  <2>1. cache = acct /\ UNCHANGED <<cache, res, queued, mode, worker>>
    BY <1>10, Zenon DEF AddOther, RemoveOther, Env, Delivered
  <2>2. acct' = NoAccount \/ (acct'.uid = acct.uid /\ acct'.status = acct.status)
    BY <1>10, <1>t, Zenon DEF AddOther, RemoveOther, Settle, Accounts
  <2> QED
    BY <1>n, <2>1, <2>2, OrderlyAccount, Zenon
<1> QED
  BY <1>1, <1>2, <1>3, <1>4, <1>5, <1>6, <1>7, <1>8, <1>9, <1>10, Zenon DEF Others

\* A fault is never forgotten.
LEMMA FaultStep == ASSUME [Next]_vars, ~faulted' PROVE ~faulted
<1>1. CASE Reconcile
  <2>1. Calm \/ \E h : Happens(h)
    BY <1>1, Zenon DEF Reconcile, ReadAccount, AddFinalizer, CleanupDeleted, RemoveFinalizer, NothingToFinalize,
       StartHandlers, ValidateAirGapped, LoadSecretFails, SkipValidation, RuntimesUnavailable, KeyDataMissing,
       KeyRejected, KeyValidated, KeyStillValid, ConfigAirGapped, SkipConfig, RefreshConfig, RefreshConfigFails,
       KeyMissingForConfig, ReconcileTemplate, ReconcilePullSecret, KeyMissingForPullSecret, ApplyFails,
       AccountSuccess, UpdateStatus, CallFails, CleanupFails, CleanupAnyway, CleanupPartly
  <2> QED
    BY <2>1, Faultless, Zenon
<1>2. CASE CleanupRunner \/ Sync \/ Others
  <2>1. faulted' = faulted \/ Calm \/ \E h : Happens(h)
    BY <1>2, Zenon DEF CleanupRunner, Sync, Others, Env, Create, Delete, ChangeSpec, ForceValidation, ToggleAirGapped,
       ProvideConfig, AgeValidation, AgeConfig, Age, Resync, AddOther, RemoveOther, ChangeKey, Drift, Collect, Restart
  <2> QED
    BY <2>1, Faultless, Zenon
<1>3. CASE UNCHANGED vars
  BY <1>3, Zenon DEF vars
<1> QED
  BY <1>1, <1>2, <1>3, Zenon DEF Next

\* With fresh reads and without faults an account at rest is healthy, with the
\* references of the Template and the pull Secret that exist, or clean, with
\* nothing left of its resources: no chain of handlers stops half-way.
THEOREM SettlesHealthyOrClean == ASSUME ~StaleReads PROVE Spec => []SettledHealthyOrClean
<1>1. Init => SettleInv
  <2> SUFFICES ASSUME Init PROVE SettleInv
    OBVIOUS
  <2>1. HeldInv
    BY HeldInit
  <2>2. \A k \in Kinds : res[k].owner = 0 /\ res[k].uid = 0
    BY DEF Init, NoObject
  <2>3. \A k \in {"template", "pull"} : k \in Kinds
    BY Zenon DEF Kinds
  <2>4. OwnedReferenced /\ OwnedKinds
    BY <2>2, <2>3, Zenon DEF OwnedReferenced, OwnedKinds
  <2>5. CopyRefs /\ ChainInv /\ StopInv /\ DeletedInv /\ RestInv /\ mode = "managed"
    <3>1. pc = "idle" /\ queued /\ mode = "managed"
      BY Zenon DEF Init
    <3> QED
      BY <3>1, SMT DEF CopyRefs, Handling, ChainInv, StopInv, DeletedInv, RestInv
  <2> QED
    BY <2>1, <2>4, <2>5, Zenon DEF SettleInv, Orderly
<1>2. SettleInv /\ [Next]_vars => SettleInv'
  <2> SUFFICES ASSUME SettleInv, [Next]_vars, ~faulted' PROVE Orderly'
    BY HeldStep, Zenon DEF SettleInv
  <2>1. HeldInv /\ HeldInv' /\ Orderly
    BY HeldStep, FaultStep, Zenon DEF SettleInv
  <2>2. CASE Reconcile
    <3>1. ~CallFails /\ ~CleanupFails
      BY Faultless, Zenon DEF CallFails, CleanupFails
    <3> QED
      BY <2>1, <2>2, <3>1, OrderlyStart, OrderlyValidation, OrderlyConfig, OrderlyResources, OrderlyUpdate, Zenon
         DEF Reconcile
  <2>3. CASE CleanupRunner \/ Sync \/ Others
    BY <2>1, <2>3, OrderlyOthers, Zenon
  <2>4. CASE UNCHANGED vars
    <3>1. UNCHANGED <<acct, mode, worker, cache, queued, res>>
      BY <2>4, Zenon DEF vars
    <3> QED
      BY <2>1, <3>1, OrderlyResource, Zenon
  <2> QED
    BY <2>2, <2>3, <2>4, Zenon DEF Next
<1>3. SettleInv => SettledHealthyOrClean
  <2> SUFFICES ASSUME HeldInv, Orderly, Settled
               PROVE  \/ /\ \A c \in Conditions : acct.status.cond[c].ok
                         /\ \A k \in {"template", "pull"} : res[k].uid # 0 /\ acct.status.refs[k] = res[k].uid
                      \/ /\ \A c \in Conditions : ~acct.status.cond[c].ok
                         /\ acct.status.refs = NoStatus.refs
                         /\ \A k \in Kinds : res[k].owner # acct.uid
    BY Zenon DEF SettleInv, SettledHealthyOrClean
  <2>1. \/ Clean(acct.status)
        \/ AllOk(acct.status) /\ \A k \in {"template", "pull"} : InPlace(k, acct.status)
    BY Zenon DEF Settled, Orderly, RestInv
  <2>2. CASE Clean(acct.status)
    <3>1. acct.status.refs \in [Kinds -> 0..MaxIds]
      BY Zenon DEF HeldInv, TypeOK, Accounts, Statuses
    <3>2. acct.status.refs = NoStatus.refs
      <4>1. NoStatus.refs = [k \in Kinds |-> 0]
        BY DEF NoStatus
      <4> QED
        BY <2>2, <3>1, <4>1, Zenon DEF Clean
    <3>3. pc # "update" /\ acct.uid # 0
      BY SMT DEF Settled
    <3>4. \A k \in Kinds : res[k].owner # acct.uid
      BY <2>2, <3>3, Zenon DEF Clean, Orderly, OwnedReferenced
    <3> QED
      BY <2>2, <3>2, <3>4, Zenon DEF Clean
  <2>3. CASE AllOk(acct.status) /\ \A k \in {"template", "pull"} : InPlace(k, acct.status)
    BY <2>3, Zenon DEF AllOk, InPlace
  <2> QED
    BY <2>1, <2>2, <2>3, Zenon
<1> QED
  BY <1>1, <1>2, <1>3, PTL DEF Spec
=============================================================================
