-------------------------------- MODULE MCMap --------------------------------
(* Small instances of Map for TLC. *)
EXTENDS Map
==============================================================================
