------------------------------- MODULE MCPool -------------------------------
(* Small instances of Pool for TLC. *)
EXTENDS Pool, TLC

Addresses == Permutations(Items)
==============================================================================
