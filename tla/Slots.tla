-------------------------------- MODULE Slots --------------------------------
(****************************************************************************)
(* What a pool promises, and what Reactor takes for granted: an object that  *)
(* is handed out is in nobody's hands, and the size is the number of those   *)
(* that are.                                                                 *)
(****************************************************************************)
EXTENDS FiniteSets, Naturals

CONSTANT Objects

VARIABLES used, size

Init == used = {} /\ size = 0

Malloc(x) == x \notin used /\ used' = used \cup {x} /\ size' = size + 1
Free(x)   == x \in used /\ used' = used \ {x} /\ size' = size - 1

\* The pool is destroyed with everything in it.
Reset == used' = {} /\ size' = 0

Next == Reset \/ \E x \in Objects : Malloc(x) \/ Free(x)

Spec == Init /\ [][Next]_<<used, size>>
==============================================================================
