------------------------------- MODULE Channel -------------------------------
(****************************************************************************)
(* What a byte stream or a queue promises: elements come out in the order   *)
(* in which they were put in, each once.  An element is known by its        *)
(* number, which is its place in that order.                                *)
(****************************************************************************)
EXTENDS Naturals, Sequences

VARIABLES
  put,   \* number of elements put in
  got    \* what came out so far

Init == put = 0 /\ got = <<>>

Put(n) == n > 0 /\ put' = put + n /\ UNCHANGED got

Numbers(from, n) == [k \in 1 .. n |-> from + k]

Get(n) ==
  /\ n \in 1 .. put - Len(got)
  /\ got' = got \o Numbers(Len(got), n)
  /\ UNCHANGED put

Next == (\E n \in 1 .. put' - put : Put(n)) \/ (\E n \in 1 .. put - Len(got) : Get(n))

Spec == Init /\ [][Next]_<<put, got>>
==============================================================================
