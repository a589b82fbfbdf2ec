------------------------------- MODULE MCEvent -------------------------------
(* Small instances of Event for TLC. *)
EXTENDS Event
==============================================================================
