--------------------- MODULE MCConfigMapReferenceSource ---------------------
(* Instances of ConfigMapReferenceSource for TLC.                          *)
EXTENDS ConfigMapReferenceSource
=============================================================================
