------------------------------- MODULE MCQueue -------------------------------
(* Small instances of Queue for TLC. *)
EXTENDS Queue, TLC

AnyThread == Permutations(Producers) \cup Permutations(Consumers)
==============================================================================
