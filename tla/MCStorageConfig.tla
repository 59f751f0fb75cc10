--------------------------- MODULE MCStorageConfig ---------------------------
(* The StorageConfig model for TLC: two data connections, one bundle each.   *)
EXTENDS StorageConfig

MCConnectionSpecs ==
  {[managed |-> TRUE, dashboard |-> TRUE, keys |-> 1, https |-> TRUE],
   [managed |-> TRUE, dashboard |-> TRUE, keys |-> 2, https |-> FALSE],
   [managed |-> FALSE, dashboard |-> TRUE, keys |-> 1, https |-> TRUE],
   [managed |-> TRUE, dashboard |-> FALSE, keys |-> 1, https |-> TRUE]}
=============================================================================
