--------------------------- MODULE MCGridProvider ---------------------------
(* The instance of GridProvider for TLC; Grid.cfg gives the constants.     *)
EXTENDS GridProvider, TLC
=============================================================================
