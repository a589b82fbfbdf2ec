----------------------------- MODULE Dictionary -----------------------------
(****************************************************************************)
(* What a map promises: a finite function that keeps the first value of a    *)
(* key until the key is erased, and gives back (releases) every entry once.  *)
(****************************************************************************)
EXTENDS FiniteSets

CONSTANTS Keys, Values

VARIABLES
  entries,   \* pairs of a key and its value
  answer     \* the last call and what it returned or released

Of(k) == {e \in entries : e[1] = k}

NoAnswer == <<"none", {}>>

Init == entries = {} /\ answer = NoAnswer

\* A call begins, and what the last one returned is history.
Begin == answer' = NoAnswer /\ UNCHANGED entries

\* A key that is there keeps its value, and what was to be inserted is released.
Insert(k, v) ==
  IF Of(k) = {} THEN /\ entries' = entries \cup {<<k, v>>}
                     /\ answer' = <<"released", {}>>
  ELSE /\ answer' = <<"released", {<<k, v>>}>>
       /\ UNCHANGED entries

Erase(k) ==
  /\ entries' = entries \ Of(k)
  /\ answer' = <<"released", Of(k)>>

At(k) == answer' = <<"found", Of(k)>> /\ UNCHANGED entries

Clear == entries' = {} /\ answer' = <<"released", entries>>

Next ==
  \/ \E k \in Keys, v \in Values : Insert(k, v)
  \/ \E k \in Keys : Erase(k) \/ At(k)
  \/ Clear \/ Begin

Spec == Init /\ [][Next]_<<entries, answer>>
==============================================================================
