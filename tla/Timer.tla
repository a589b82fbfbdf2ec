-------------------------------- MODULE Timer --------------------------------
(****************************************************************************)
(* timer.c: one absolute timeout of the ring, armed again for the next      *)
(* period before the callback runs.  The kernel reads the time from         *)
(* timer->tv when it takes the submission, not when it is made.             *)
(* The ring appears as in Event: submissions in order and at any time, no   *)
(* callback for a cancelled timeout.                                        *)
(****************************************************************************)
EXTENDS Integers, Sequences, FiniteSets

CONSTANTS
  MaxTime,   \* bound: the clock stops here
  Delays,    \* periods the application uses, 0 for a single timeout
  MaxSets    \* bound: calls of timer_set

ASSUME TimesAssumption  == MaxTime \in Nat /\ MaxSets \in Nat
ASSUME DelaysAssumption == Delays \subseteq Nat /\ IsFiniteSet(Delays)

NoId == 0     \* timer->timeout when nothing is armed
None == -1    \* no call is due

VARIABLES
  time, delay,  \* timer->time, timer->delay
  tv,           \* timer->tv
  timeout,      \* timer->timeout
  pc,           \* "loop", or "callback" while the timer's callback runs
  nops,         \* timeouts submitted so far
  sets,         \* calls of timer_set so far
  sq,           \* submissions, in order
  armed,        \* timeouts in the kernel, each with its time
  cq,           \* timeouts that completed
  muted,        \* timeouts that were cancelled
  now,          \* the clock
  due           \* history: the time the next call is for

vars == <<time, delay, tv, timeout, pc, nops, sets, sq, armed, cq, muted, now,
          due>>

\* Types.
TypeOK ==
  /\ time \in Nat /\ delay \in Nat /\ tv \in Nat
  /\ nops \in Nat /\ timeout \in 0 .. nops
  /\ pc \in {"loop", "callback"}
  /\ sets \in 0 .. MaxSets
  /\ sq \in Seq([what : {"timeout", "cancel"}, id : 1 .. nops])
  /\ armed \subseteq [id : 1 .. nops, at : Nat]
  /\ cq \in Seq(1 .. nops) /\ muted \subseteq 1 .. nops
  /\ now \in 0 .. MaxTime
  /\ due \in Nat \cup {None}

\* timer_construct
Init ==
  /\ time = 0 /\ delay = 0 /\ tv = 0 /\ timeout = NoId
  /\ pc = "loop" /\ nops = 0 /\ sets = 0
  /\ sq = <<>> /\ armed = {} /\ cq = <<>> /\ muted = {}
  /\ now = 0 /\ due = None

Job(what, id) == [what |-> what, id |-> id]

-----------------------------------------------------------------------------
(* timer.c *)

\* timer_clear: what it appends to the submissions, and what it cancels.
ClearJobs  == IF timeout # NoId THEN <<Job("cancel", timeout)>> ELSE <<>>
ClearMuted == IF timeout # NoId THEN muted \cup {timeout} ELSE muted

\* timer_submit: tv is set, and a timeout at that time is submitted.
Submit(t, jobs) ==
  /\ tv' = t
  /\ nops' = nops + 1
  /\ timeout' = nops + 1
  /\ sq' = sq \o jobs \o <<Job("timeout", nops + 1)>>

SetUncleared(t, d) ==                                               \* mutant
  /\ sets < MaxSets /\ sets' = sets + 1
  /\ time' = t /\ delay' = d
  /\ Submit(t, <<>>)
  /\ due' = t
  /\ UNCHANGED <<pc, armed, cq, muted, now>>

\* timer_set: an earlier timeout is cleared.
Set(t, d) ==
  /\ sets < MaxSets /\ sets' = sets + 1
  /\ time' = t /\ delay' = d
  /\ muted' = ClearMuted
  /\ Submit(t, ClearJobs)
  /\ due' = t
  /\ UNCHANGED <<pc, armed, cq, now>>

\* timer_clear and timer_destruct.
Clear ==
  /\ muted' = ClearMuted
  /\ sq' = sq \o ClearJobs
  /\ timeout' = NoId
  /\ due' = None
  /\ UNCHANGED <<time, delay, tv, pc, nops, sets, armed, cq, now>>

TimeoutFromNow ==                                                   \* mutant
  /\ pc = "loop" /\ cq # <<>> /\ Head(cq) \notin muted
  /\ cq' = Tail(cq) /\ pc' = "callback"
  /\ IF delay > 0
     THEN /\ time' = now + delay
          /\ Submit(now + delay, <<>>)
          /\ due' = due + delay
     ELSE /\ timeout' = NoId /\ due' = None
          /\ UNCHANGED <<time, tv, nops, sq>>
  /\ UNCHANGED <<delay, sets, armed, muted, now>>

TimeoutOnce ==                                                      \* mutant
  /\ pc = "loop" /\ cq # <<>> /\ Head(cq) \notin muted
  /\ cq' = Tail(cq) /\ pc' = "callback"
  /\ timeout' = NoId
  /\ time' = time + delay
  /\ due' = IF delay > 0 THEN due + delay ELSE None
  /\ UNCHANGED <<delay, tv, nops, sets, sq, armed, muted, now>>

\* timer_timeout: a periodic timer is armed for its next time before the
\* callback is called with this one.
Timeout ==
  /\ pc = "loop"
  /\ cq # <<>> /\ Head(cq) \notin muted
  /\ cq' = Tail(cq)
  /\ pc' = "callback"
  /\ IF delay > 0
     THEN /\ time' = time + delay
          /\ Submit(time + delay, <<>>)
          /\ due' = due + delay
     ELSE /\ timeout' = NoId /\ due' = None
          /\ UNCHANGED <<time, tv, nops, sq>>
  /\ UNCHANGED <<delay, sets, armed, muted, now>>

\* A cancelled timeout calls nothing.
TimeoutMuted ==
  /\ pc = "loop"
  /\ cq # <<>> /\ Head(cq) \in muted
  /\ cq' = Tail(cq)
  /\ UNCHANGED <<time, delay, tv, timeout, pc, nops, sets, sq, armed, muted,
                 now, due>>

Return ==
  /\ pc = "callback"
  /\ pc' = "loop"
  /\ UNCHANGED <<time, delay, tv, timeout, nops, sets, sq, armed, cq, muted,
                 now, due>>

-----------------------------------------------------------------------------
(* The kernel *)

Take ==
  /\ sq # <<>>
  /\ LET e == Head(sq)
         hit == {a \in armed : a.id = e.id} IN
       IF e.what = "timeout"
       THEN /\ armed' = armed \cup {[id |-> e.id, at |-> tv]}
            /\ UNCHANGED cq
       ELSE /\ armed' = armed \ hit
            /\ cq' = IF hit # {} THEN Append(cq, e.id) ELSE cq
  /\ sq' = Tail(sq)
  /\ UNCHANGED <<time, delay, tv, timeout, pc, nops, sets, muted, now, due>>

Fire(a) ==
  /\ a.at <= now
  /\ armed' = armed \ {a}
  /\ cq' = Append(cq, a.id)
  /\ UNCHANGED <<time, delay, tv, timeout, pc, nops, sets, sq, muted, now, due>>

Tick ==
  /\ now < MaxTime
  /\ now' = now + 1
  /\ UNCHANGED <<time, delay, tv, timeout, pc, nops, sets, sq, armed, cq, muted,
                 due>>

Loop   == Timeout \/ TimeoutMuted \/ Return
Kernel == Take \/ \E a \in armed : Fire(a)
Next   == \/ \E t \in 0 .. MaxTime, d \in Delays : Set(t, d)
          \/ Clear
          \/ Loop
          \/ Kernel
          \/ Tick

Spec     == Init /\ [][Next]_vars
FairSpec == /\ Spec
            /\ WF_vars(Loop)
            /\ WF_vars(Take)
            /\ WF_vars(\E a \in armed : Fire(a))
            /\ WF_vars(Tick)

-----------------------------------------------------------------------------
(* Properties *)

\* The timeouts, wherever they are, that may still call back.
Pending ==
  {id \in 1 .. nops \ muted :
     \/ \E k \in DOMAIN sq : sq[k] = Job("timeout", id)
     \/ \E a \in armed : a.id = id
     \/ \E k \in DOMAIN cq : cq[k] = id}

\* At most one timeout can call back, timer->timeout names it, and it is armed
\* for timer->time although tv is shared with cancelled ones: with the kernel,
\* or by tv as it will be read.
OneTimeout ==
  /\ Pending = {timeout} \ {NoId}
  /\ \A a \in armed : a.id = timeout => a.at = time
  /\ (\E k \in DOMAIN sq : sq[k] = Job("timeout", timeout)) => tv = time

\* The timer is armed as it was last set, whatever was cancelled and is still on its
\* way.
TimerSound == TypeOK /\ OneTimeout

\* Every call is for the time that is due (the one given to timer_set, then one
\* period later each time, none skipped), not before it, and only if the timer
\* is set.
CallsOnTime ==
  [][pc = "loop" /\ pc' = "callback" => due = time /\ due <= now]_vars

\* The timeout that is named is in one place, and in the completion queue only
\* when its time has come; one that is being cancelled is muted; and the call that
\* is due is for timer->time.
InOnePlace ==
  /\ \A k \in DOMAIN sq : sq[k] = Job("timeout", timeout) =>
       /\ \A l \in DOMAIN sq : sq[l] = sq[k] => l = k
       /\ \A a \in armed : a.id # timeout
       /\ \A l \in DOMAIN cq : cq[l] # timeout
  /\ \A a \in armed : a.id = timeout =>
       /\ \A b \in armed : b.id = timeout => b = a
       /\ \A l \in DOMAIN cq : cq[l] # timeout
  /\ \A k \in DOMAIN cq : cq[k] = timeout =>
       /\ time <= now
       /\ \A l \in DOMAIN cq : cq[l] = timeout => l = k

CancelsMuted == \A k \in DOMAIN sq : sq[k].what = "cancel" => sq[k].id \in muted

DueIsTime == due = IF timeout = NoId THEN None ELSE time

TimerInv == TimerSound /\ InOnePlace /\ CancelsMuted /\ DueIsTime

\* A timer that is due is called, unless it is set anew or cleared first.
DueIsCalled ==
  \A t \in 0 .. MaxTime : (due = t) ~> (due # t)
==============================================================================
