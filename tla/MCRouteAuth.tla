----------------------------- MODULE MCRouteAuth -----------------------------
(* A small instance of RouteAuth: two services that can share a route. *)
EXTENDS RouteAuth, TLC

CONSTANTS s1, s2, r1, r2

MCDefaultRoute == s1 :> r1 @@ s2 :> r2

open(refs) == [auth |-> FALSE, stopped |-> FALSE, refs |-> refs, based |-> FALSE, deleting |-> FALSE]

MCSpecs ==
  {open(<<r1, r2>>), open(<< >>),
   [open(<<r1, r2>>) EXCEPT !.auth = TRUE],
   [open(<< >>) EXCEPT !.based = TRUE],
   [open(<< >>) EXCEPT !.stopped = TRUE, !.auth = TRUE]}

MCBaseRefs == {<<r2>>}

=============================================================================
