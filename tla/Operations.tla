------------------------------ MODULE Operations ------------------------------
(****************************************************************************)
(* What the core promises to those who use it: operations that have names    *)
(* of their own, instead of addresses that come again.  The callback of an   *)
(* operation is called while it is pending, and it is its own until the      *)
(* operation was cancelled or has had its last call; it is over only after   *)
(* that, and the loop ends when none is pending.                             *)
(****************************************************************************)
EXTENDS Naturals

CONSTANT NoOp

VARIABLES
  started,  \* how many there were: their numbers are the names
  pending,  \* those that are not over
  silent,   \* those whose own callback is not called any more
  turn,     \* the one whose callback runs, and whether that is its own
  looping   \* the application is in reactor_loop

operations == <<started, pending, silent, turn, looping>>

NoTurn == [op |-> NoOp, own |-> FALSE]

Init ==
  /\ started = 0 /\ pending = {} /\ silent = {}
  /\ turn = NoTurn /\ looping = FALSE

\* One that is started without a callback is silent from the beginning.
Start ==
  /\ started' = started + 1 /\ pending' = pending \cup {started + 1}
  /\ silent' \in {silent, silent \cup {started + 1}}
  /\ UNCHANGED <<turn, looping>>

\* To cancel may take an operation as well, of which nobody hears.
Cancel(o) ==
  /\ o \in pending \ silent
  /\ \/ silent' = silent \cup {o} /\ UNCHANGED <<started, pending>>
     \/ /\ started' = started + 1 /\ pending' = pending \cup {started + 1}
        /\ silent' = silent \cup {o, started + 1}
  /\ turn' = IF turn.op = o THEN [turn EXCEPT !.own = FALSE] ELSE turn
  /\ UNCHANGED looping

\* An operation that may call again, a multishot poll, is not silent after a call.
Call(o) ==
  /\ turn = NoTurn /\ o \in pending
  /\ turn' = [op |-> o, own |-> o \notin silent]
  /\ silent' \in {silent, silent \cup {o}}
  /\ UNCHANGED <<started, pending, looping>>

Return ==
  /\ turn # NoTurn /\ turn' = NoTurn
  /\ pending' \in {pending, pending \ ({turn.op} \cap silent)}
  /\ UNCHANGED <<started, silent, looping>>

\* An operation ends without a call.
End(o) ==
  /\ turn = NoTurn /\ o \in pending \cap silent
  /\ pending' = pending \ {o}
  /\ UNCHANGED <<started, silent, turn, looping>>

Enter ==
  /\ ~looping /\ turn = NoTurn /\ looping' = TRUE
  /\ UNCHANGED <<started, pending, silent, turn>>

Leave ==
  /\ looping /\ pending = {} /\ looping' = FALSE
  /\ UNCHANGED <<started, pending, silent, turn>>

Next ==
  \/ Start \/ Return \/ Enter \/ Leave
  \/ \E o \in pending : Cancel(o) \/ Call(o) \/ End(o)

Spec == Init /\ [][Next]_operations
==============================================================================
