------------------------------- MODULE MCRayTls -------------------------------
(* The RayTls model for TLC. *)
EXTENDS RayTls
=============================================================================
