------------------------------- MODULE MCStream -------------------------------
(* Small instances of Stream for TLC. *)
EXTENDS Stream
==============================================================================
