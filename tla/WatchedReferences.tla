-------------------------- MODULE WatchedReferences -------------------------
(***************************************************************************)
(* What a source of events for referenced objects promises: every owner    *)
(* holds at most one reference, a watch is opened only on an object that   *)
(* is referenced at that moment, and closed only when nobody refers to it. *)
(***************************************************************************)
CONSTANTS Owners, Refs, NoRef

VARIABLES references, watched

Referenced == {references[o] : o \in Owners} \ {NoRef}

Init == references = [o \in Owners |-> NoRef] /\ watched = {}

Refer(o, r) ==
    /\ references' = [references EXCEPT ![o] = r]
    /\ UNCHANGED watched

Watch(r) ==
    /\ r \in Referenced
    /\ watched' = watched \cup {r}
    /\ UNCHANGED references

Unwatch ==
    /\ watched' = watched \cap Referenced
    /\ UNCHANGED references

Next ==
    \/ \E o \in Owners, r \in Refs \cup {NoRef} : Refer(o, r)
    \/ \E r \in Refs : Watch(r)
    \/ Unwatch

Spec == Init /\ [][Next]_<<references, watched>>
=============================================================================
