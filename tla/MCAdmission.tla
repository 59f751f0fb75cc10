------------------------------ MODULE MCAdmission ------------------------------
(* Instances of Admission. Users change one thing per request, or send the *)
(* manifest they created the service with.                                 *)
EXTENDS Admission

CONSTANTS s1, s2, h1, h2, t1, t2

S3 == [type |-> "s3", data |-> "bucket"]
URI == [type |-> "uri", data |-> "place"]
OCI == [type |-> "oci", data |-> None]

Unlabelled == [type |-> "unlabelled", data |-> None]

MCSecretSpecs == {S3, URI, OCI, Unlabelled, [URI EXCEPT !.data = None]}

MCFirstSecrets ==
    {[s \in {s1, s2} |-> S3],
     [s \in {s1, s2} |-> IF s = s1 THEN S3 ELSE URI],
     [s \in {s1, s2} |-> IF s = s1 THEN URI ELSE OCI]}

Plain == [count |-> 0, template |-> None, queue |-> None, nodes |-> [k \in {"zone"} |-> None],
          tols |-> <<>>, invalid |-> FALSE]

Nodes == [Plain EXCEPT !.count = 2, !.nodes = [k \in {"zone"} |-> "a"], !.tols = <<"gpu">>]
Claims == [Plain EXCEPT !.template = t1, !.tols = <<"gpu", "large">>]
Queue == [Plain EXCEPT !.template = t1, !.queue = "batch", !.tols = <<"gpu">>]

MCProfileSpecs == {Nodes, Claims, Queue, [Nodes EXCEPT !.invalid = TRUE], [Claims EXCEPT !.template = t2]}

MCFirstProfiles ==
    {[ref \in [name : Profiles, ns : Namespaces] |-> IF ref.name = h1 THEN Nodes ELSE Claims],
     [ref \in [name : Profiles, ns : Namespaces] |-> IF ref.name = h1 THEN Queue ELSE Nodes]}

Manifest ==
    [conn |-> None, path |-> None, injected |-> None, sa |-> None, pull |-> <<>>, uri |-> Nowhere,
     key |-> None, storagePath |-> None, profile |-> None, profileNs |-> None,
     nodes |-> [k \in {"zone"} |-> None], tols |-> <<>>, queue |-> None, requests |-> 0, limits |-> 0,
     podClaim |-> None, claim |-> FALSE, managed |-> FALSE, shape |-> "main", canaries |-> 0,
     deleting |-> FALSE]

MCManifests ==
    {Manifest,
     [Manifest EXCEPT !.sa = Own, !.pull = <<Own>>, !.conn = s1, !.path = "p"],
     [Manifest EXCEPT !.nodes = [k \in {"zone"} |-> Own], !.tols = <<Own>>, !.profile = h1],
     [Manifest EXCEPT !.conn = s1, !.path = "p", !.profile = h1, !.shape = "none", !.limits = 1]}

(* Without its container a service has no resources and no claim; an       *)
(* InferenceService without a model has no location either.                *)
reshape(svc, shape) ==
    [svc EXCEPT !.shape = shape, !.requests = 0, !.limits = 0, !.claim = FALSE,
                !.uri = IF kind = "isvc" THEN Nowhere ELSE @,
                !.key = None, !.storagePath = None]

MCEdits(svc) ==
    UNION {{[svc EXCEPT !.conn = c] : c \in Secrets \cup {None}},
           {[svc EXCEPT !.path = p] : p \in {"p", "q", None}},
           {[svc EXCEPT !.sa = Own], [svc EXCEPT !.pull = Append(@, Own)],
            [svc EXCEPT !.uri = [Nowhere EXCEPT !.from = Own]],
            [svc EXCEPT !.storagePath = IF kind = "isvc" THEN Own ELSE @]},
           {[svc EXCEPT !.profile = h] : h \in Profiles \cup {None}},
           {[svc EXCEPT !.profileNs = n] : n \in Namespaces},
           {[svc EXCEPT !.nodes = [k \in {"zone"} |-> Own]], [svc EXCEPT !.tols = Append(@, Own)],
            [svc EXCEPT !.queue = Own], [svc EXCEPT !.managed = ~@], [svc EXCEPT !.canaries = 4]},
           {reshape(svc, shape) : shape \in {"none"} \cup (IF kind = "llm" THEN {"other"} ELSE {})},
           {[svc EXCEPT !.shape = "main"]},
           {[Manifest EXCEPT !.conn = svc.conn, !.path = svc.path, !.profile = svc.profile,
                              !.deleting = svc.deleting]}}
=============================================================================
