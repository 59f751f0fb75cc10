---------------------------- MODULE MCGatewayAuth ----------------------------
(* Small instances of GatewayAuth. *)
EXTENDS GatewayAuth, TLC

CONSTANTS g1, g2, s1, c1, c2, nil

MCGateways == {g1, g2}
MCServices == {s1}
MCGwNs == g1 :> "ingress" @@ g2 :> "app"
MCSvcNs == s1 :> "app"

managedGw == [managed |-> TRUE, platform |-> FALSE, tls |-> FALSE, scrape |-> TRUE, grid |-> "none", from |-> {"All"}]

MCProfiles ==
  {managedGw,
   [managedGw EXCEPT !.from = {"Selector"}, !.grid = "valid"],
   [managedGw EXCEPT !.grid = "invalid"],
   [managedGw EXCEPT !.managed = FALSE, !.from = {"Same"}],
   [managedGw EXCEPT !.scrape = FALSE, !.tls = TRUE]}

run(refs, base) == [stopped |-> FALSE, refs |-> refs, base |-> base]

MCSpecs == {run({g2}, << >>), run({}, <<c1>>), [run({g2}, << >>) EXCEPT !.stopped = TRUE]}
MCRefSets == {{g1}, {g2}}
noConfig == [c \in {c1} |-> [ns \in {"app", "system"} |-> Absent]]
MCStart ==
  {[gateway |-> g1 :> managedGw @@ g2 :> gw, service |-> s1 :> svc, default |-> g1,
    config |-> [noConfig EXCEPT ![c1]["system"] = {g2}]] :
     gw \in {managedGw, [managedGw EXCEPT !.platform = TRUE]}, svc \in {run({}, <<c1>>)}}

\* Two configurations, and a service that may permute them.
PermSpecs == {run({}, <<c1, c2>>), run({}, <<c2, c1>>)}
PermStart ==
  {[gateway |-> g1 :> managedGw @@ g2 :> managedGw, service |-> s1 :> run({}, <<c1, c2>>), default |-> g1,
    config |-> c1 :> ("app" :> Absent @@ "system" :> {g2}) @@ c2 :> ("app" :> Absent @@ "system" :> {g1})]}

=============================================================================
