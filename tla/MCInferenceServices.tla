------------------------ MODULE MCInferenceServices ------------------------
(* The InferenceServices model for TLC: a service i1 with rich specs, a      *)
(* service i2 that shares its ServiceAccount, and one graph.                 *)
EXTENDS InferenceServices

MCServices == {"i1", "i2"}

MCSpec == [visibility |-> "none", auth |-> "none", account |-> "", transformer |-> FALSE, explainer |-> FALSE,
           canary |-> <<>>, multiNode |-> FALSE, model |-> "named"]

MCSpecs ==
  [s \in MCServices |->
     IF s = "i1"
     THEN {[MCSpec EXCEPT !.visibility = "exposed", !.auth = "true", !.account = "custom"],
           [MCSpec EXCEPT !.visibility = "exposed", !.transformer = TRUE, !.canary = <<20>>, !.account = "custom"],
           [MCSpec EXCEPT !.visibility = "cluster-local", !.auth = "True", !.explainer = TRUE, !.model = "auto"],
           [MCSpec EXCEPT !.visibility = "exposed", !.auth = "true", !.canary = <<60, 60>>, !.multiNode = TRUE, !.model = "none"]}
     ELSE {[MCSpec EXCEPT !.auth = "true", !.account = "custom", !.model = "none"],
           [MCSpec EXCEPT !.model = "unformatted"]}]

MCBackends ==
  [s \in MCServices |->
     IF s = "i1"
     THEN {[b \in {"predictor"} |-> {"http", "https"}],
           [b \in {"predictor", "canary"} |-> {"http"}],
           [b \in BackendNames |-> {"http", "https"}]}
     ELSE {}]

\* i1 may be there with a predictor, or with all of its backends.
MCExisting ==
  LET with(e) == [s \in MCServices |-> IF s = "i1" THEN e ELSE Absent]
  IN  {with(Absent),
       with([spec |-> [MCSpec EXCEPT !.visibility = "exposed", !.auth = "true", !.account = "custom"],
             backends |-> [b \in {"predictor"} |-> {"http", "https"}]]),
       with([spec |-> [MCSpec EXCEPT !.visibility = "exposed", !.transformer = TRUE, !.canary = <<20>>, !.account = "custom"],
             backends |-> [b \in BackendNames |-> {"http", "https"}]])}

MCGraphSpecs ==
  {[raw |-> TRUE, local |-> FALSE, steps |-> {[name |-> "i1", url |-> Absent]}],
   [raw |-> TRUE, local |-> TRUE, steps |-> {[name |-> Absent, url |-> [svc |-> "i1", backend |-> "predictor", port |-> "http"]]}],
   [raw |-> FALSE, local |-> FALSE, steps |-> {[name |-> "i2", url |-> Absent]}]}

MCRuntimeSpecs ==
  {[port |-> "p1", path |-> "metrics", kind |-> "supported", autoSelect |-> TRUE],
   [port |-> "malformed", path |-> "metrics", kind |-> "supported", autoSelect |-> FALSE]}
=============================================================================
