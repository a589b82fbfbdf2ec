------------------------------- MODULE MCAsync -------------------------------
(* Small instances of Async for TLC. *)
EXTENDS Async
==============================================================================
