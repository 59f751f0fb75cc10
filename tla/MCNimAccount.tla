---------------------------- MODULE MCNimAccount ----------------------------
(* Instances of NimAccount for TLC.                                         *)
EXTENDS NimAccount
=============================================================================
