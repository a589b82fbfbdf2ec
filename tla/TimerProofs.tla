----------------------------- MODULE TimerProofs -----------------------------
(* Proofs about timer.c, for any periods, any number of timer_set calls and *)
(* any clock: at most one timeout of a timer can call back, it is armed for *)
(* the time that was asked for last, and each call comes for that time.     *)
EXTENDS Timer, TLAPS

-----------------------------------------------------------------------------
(* Appending to a queue and taking its head. *)

LEMMA Elements ==
  ASSUME NEW S, NEW s \in Seq(S)
  PROVE  \A k \in DOMAIN s : s[k] \in S /\ k \in Nat
  OBVIOUS

LEMMA Appended ==
  ASSUME NEW S, NEW s \in Seq(S), NEW x \in S
  PROVE  /\ Append(s, x) \in Seq(S)
         /\ Len(Append(s, x)) = Len(s) + 1
         /\ Len(s) \in Nat /\ Len(s) + 1 \notin DOMAIN s
         /\ Len(s) + 1 \in DOMAIN Append(s, x)
         /\ Append(s, x)[Len(s) + 1] = x
         /\ \A k \in DOMAIN s : /\ k \in Nat /\ k < Len(s) + 1
                                /\ k \in DOMAIN Append(s, x)
                                /\ Append(s, x)[k] = s[k]
         /\ \A k \in DOMAIN Append(s, x) : k \in DOMAIN s \/ k = Len(s) + 1
  OBVIOUS

LEMMA Shortened ==
  ASSUME NEW S, NEW s \in Seq(S), s # <<>>
  PROVE  /\ Tail(s) \in Seq(S)
         /\ Len(s) \in Nat /\ Len(Tail(s)) = Len(s) - 1
         /\ 1 \in DOMAIN s /\ Head(s) = s[1] /\ s[1] \in S
         /\ \A k \in DOMAIN Tail(s) : /\ k \in Nat /\ k + 1 \in DOMAIN s /\ k + 1 # 1
                                      /\ Tail(s)[k] = s[k + 1]
         /\ \A k \in DOMAIN s : k # 1 =>
              /\ k \in Nat /\ k - 1 \in DOMAIN Tail(s) /\ Tail(s)[k - 1] = s[k]
<1>1. /\ Tail(s) \in Seq(S) /\ 1 \in DOMAIN s /\ Head(s) = s[1] /\ s[1] \in S
      /\ Len(s) \in Nat /\ Len(Tail(s)) = Len(s) - 1
  OBVIOUS
<1>2. ASSUME NEW k \in DOMAIN Tail(s)
      PROVE  /\ k \in Nat /\ k + 1 \in DOMAIN s /\ k + 1 # 1
             /\ Tail(s)[k] = s[k + 1]
  OBVIOUS
<1>3. ASSUME NEW k \in DOMAIN s, k # 1
      PROVE  k \in Nat /\ k - 1 \in DOMAIN Tail(s) /\ Tail(s)[k - 1] = s[k]
  BY <1>3
<1>4. QED BY <1>1, <1>2, <1>3

-----------------------------------------------------------------------------

Jobs(n) == [what : {"timeout", "cancel"}, id : 1 .. n]

LEMMA JobType ==
  ASSUME NEW n \in Nat, NEW id \in 1 .. n, NEW what \in {"timeout", "cancel"}
  PROVE  /\ Job(what, id) \in Jobs(n)
         /\ Job(what, id).what = what /\ Job(what, id).id = id
  BY DEF Job, Jobs

LEMMA JobsGrow ==
  ASSUME NEW n \in Nat
  PROVE  Jobs(n) \subseteq Jobs(n + 1)
  BY DEF Jobs

\* What timer_set and a period append: perhaps the cancellation of the timeout
\* that was named, then a timeout of a fresh number.
LEMMA Submits ==
  ASSUME TypeOK, NEW t \in Nat, NEW jobs \in {<<>>, ClearJobs}, Submit(t, jobs)
  PROVE  /\ sq' \in Seq(Jobs(nops + 1))
         /\ tv' = t /\ nops' = nops + 1 /\ timeout' = nops + 1
         /\ \E last \in DOMAIN sq' :
              /\ sq'[last] = Job("timeout", nops + 1)
              /\ \A k \in DOMAIN sq' : k # last =>
                   \/ k \in DOMAIN sq /\ sq'[k] = sq[k]
                   \/ /\ jobs # <<>> /\ timeout # NoId
                      /\ sq'[k] = Job("cancel", timeout)
<1> DEFINE new == Job("timeout", nops + 1)
           old == Job("cancel", timeout)
<1>1. /\ nops \in Nat /\ nops + 1 \in Nat /\ timeout \in 0 .. nops
      /\ sq \in Seq(Jobs(nops))
  BY DEF TypeOK, Jobs
<1>2. sq \in Seq(Jobs(nops + 1)) /\ new \in Jobs(nops + 1)
      /\ (timeout # NoId => old \in Jobs(nops + 1))
  <2>1. Jobs(nops) \subseteq Jobs(nops + 1)
    BY <1>1, JobsGrow
  <2>2. QED BY <1>1, <2>1, JobType DEF NoId
<1>3. tv' = t /\ nops' = nops + 1 /\ timeout' = nops + 1
  BY DEF Submit
<1> HIDE DEF new, old
<1>4. CASE jobs = <<>>
  <2>1. sq' = Append(sq, new)
    BY <1>2, <1>4 DEF Submit, new
  <2>2. QED BY <1>2, <1>3, <2>1, Appended DEF new
<1>5. CASE jobs = <<old>> /\ timeout # NoId
  <2>1. sq' = Append(Append(sq, old), new)
    BY <1>2, <1>5 DEF Submit, new
  <2> DEFINE s == Append(sq, old)
  <2>2. s \in Seq(Jobs(nops + 1)) /\ \A k \in DOMAIN s :
          s[k] = old \/ (k \in DOMAIN sq /\ s[k] = sq[k])
    BY <1>2, <1>5, Appended
  <2> HIDE DEF s
  <2>3. sq' = Append(s, new)
    BY <2>1 DEF s
  <2>4. /\ sq' \in Seq(Jobs(nops + 1))
        /\ Len(s) + 1 \in DOMAIN sq' /\ sq'[Len(s) + 1] = new
        /\ \A k \in DOMAIN sq' : k # Len(s) + 1 => k \in DOMAIN s /\ sq'[k] = s[k]
    BY <1>2, <2>2, <2>3, Appended
  <2>5. QED BY <1>3, <1>5, <2>2, <2>4 DEF new, old
<1>6. QED BY <1>4, <1>5 DEF ClearJobs, old

\* No timeout that is submitted, armed or completed has the number of none.
LEMMA Nowhere ==
  ASSUME TypeOK
  PROVE  /\ \A k \in DOMAIN sq : sq[k] # Job("timeout", NoId)
         /\ \A a \in armed : a.id # NoId
         /\ \A s \in Seq(1 .. nops) : \A k \in DOMAIN s : s[k] # NoId
<1>1. \A k \in DOMAIN sq : sq[k].id # NoId
  <2>1. sq \in Seq(Jobs(nops))
    BY DEF TypeOK, Jobs
  <2>2. \A k \in DOMAIN sq : sq[k] \in Jobs(nops)
    BY <2>1, Elements
  <2>3. QED BY <2>2 DEF Jobs, NoId
<1>2. Job("timeout", NoId).id = NoId
  BY DEF Job
<1>3. \A a \in armed : a.id # NoId
  BY DEF TypeOK, NoId
<1>4. \A s \in Seq(1 .. nops) : \A k \in DOMAIN s : s[k] # NoId
  <2>1. ASSUME NEW s \in Seq(1 .. nops), NEW k \in DOMAIN s
        PROVE  s[k] # NoId
    <3>1. s[k] \in 1 .. nops
      BY Elements
    <3>2. QED BY <3>1 DEF NoId
  <2>2. QED BY <2>1
<1>5. QED BY <1>1, <1>2, <1>3, <1>4

-----------------------------------------------------------------------------

\* A timeout with a fresh number, in place of the one before it if that was muted
\* or has been called.
LEMMA SubmitSound ==
  ASSUME TimerInv, NEW t \in Nat, NEW d \in Nat, NEW jobs \in {<<>>, ClearJobs},
         Submit(t, jobs), time' = t, delay' = d, due' = t,
         \/ muted' = ClearMuted /\ cq' = cq
         \/ /\ muted' = muted /\ jobs = <<>>
            /\ cq # <<>> /\ Head(cq) = timeout /\ cq' = Tail(cq),
         sets' \in 0 .. MaxSets, pc' \in {"loop", "callback"},
         UNCHANGED <<armed, now>>
  PROVE  TimerInv'
<1> DEFINE n == nops + 1
<1>1. /\ TypeOK /\ OneTimeout /\ InOnePlace /\ CancelsMuted
      /\ nops \in Nat /\ n \in Nat /\ timeout \in 0 .. nops
      /\ armed \subseteq [id : 1 .. nops, at : Nat] /\ cq \in Seq(1 .. nops)
      /\ muted \subseteq 1 .. nops
  BY DEF TimerInv, TimerSound, TypeOK
<1>2. /\ sq' \in Seq(Jobs(n)) /\ tv' = t /\ nops' = n /\ timeout' = n
  BY <1>1, Submits
<1>3. PICK last \in DOMAIN sq' :
        /\ sq'[last] = Job("timeout", n)
        /\ \A k \in DOMAIN sq' : k # last =>
             \/ k \in DOMAIN sq /\ sq'[k] = sq[k]
             \/ /\ jobs # <<>> /\ timeout # NoId
                /\ sq'[k] = Job("cancel", timeout)
  BY <1>1, Submits
<1>4. \A k \in DOMAIN sq : sq[k] \in Jobs(nops) /\ sq[k].id \in 1 .. nops
  <2>1. sq \in Seq(Jobs(nops))
    BY <1>1 DEF TypeOK, Jobs
  <2>2. \A k \in DOMAIN sq : sq[k] \in Jobs(nops)
    BY <2>1, Elements
  <2>3. QED BY <2>2 DEF Jobs
<1>5. /\ cq' \in Seq(1 .. nops)
      /\ \A k \in DOMAIN cq' : cq'[k] \in 1 .. nops
  <2>1. cq' \in Seq(1 .. nops)
    BY <1>1, Shortened, ZenonT(30)
  <2>2. QED BY <2>1, Elements
<1>6. \A id \in 1 .. nops : id \notin muted' /\ id # timeout =>
        /\ \A k \in DOMAIN sq : sq[k] # Job("timeout", id)
        /\ \A a \in armed : a.id # id
        /\ \A k \in DOMAIN cq : cq[k] # id
  <2>1. muted \subseteq muted'
    BY DEF ClearMuted
  <2>2. QED BY <1>1, <2>1 DEF OneTimeout, Pending
\* The timeout before this one was muted, or called and is nowhere any more.
<1>7. timeout \in 1 .. nops /\ timeout \notin muted' =>
        /\ \A k \in DOMAIN sq : sq[k] # Job("timeout", timeout)
        /\ \A a \in armed : a.id # timeout
        /\ \A k \in DOMAIN cq' : cq'[k] # timeout
  <2>1. CASE muted' = ClearMuted
    BY <2>1 DEF ClearMuted, NoId
  <2>2. CASE cq # <<>> /\ Head(cq) = timeout /\ cq' = Tail(cq)
    <3>1. /\ 1 \in DOMAIN cq /\ cq[1] = timeout
          /\ \A k \in DOMAIN cq' : /\ k + 1 \in DOMAIN cq /\ k + 1 # 1
                                   /\ cq'[k] = cq[k + 1]
      BY <1>1, <2>2, Shortened
    <3>2. QED BY <1>1, <3>1 DEF InOnePlace
  <2>3. QED BY <2>1, <2>2
<1>8. \A k \in DOMAIN cq' : \E l \in DOMAIN cq : cq'[k] = cq[l]
  <2>1. CASE cq' = cq
    BY <2>1
  <2>2. CASE cq # <<>> /\ cq' = Tail(cq)
    <3>1. \A k \in DOMAIN Tail(cq) : k + 1 \in DOMAIN cq /\ Tail(cq)[k] = cq[k + 1]
      BY <1>1, <2>2, Shortened
    <3>2. QED BY <2>2, <3>1
  <2>3. QED BY <2>1, <2>2
<1>9. \A id \in 1 .. nops : id \notin muted' =>
        /\ \A k \in DOMAIN sq' : sq'[k] # Job("timeout", id)
        /\ \A a \in armed : a.id # id
        /\ \A k \in DOMAIN cq' : cq'[k] # id
  <2> SUFFICES ASSUME NEW id \in 1 .. nops, id \notin muted'
               PROVE  /\ \A k \in DOMAIN sq' : sq'[k] # Job("timeout", id)
                      /\ \A a \in armed : a.id # id
                      /\ \A k \in DOMAIN cq' : cq'[k] # id
    OBVIOUS
  <2>1. \A k \in DOMAIN sq : sq[k] # Job("timeout", id)
    BY <1>6, <1>7
  <2>2. /\ \A a \in armed : a.id # id
        /\ \A k \in DOMAIN cq' : cq'[k] # id
    BY <1>6, <1>7, <1>8
  <2>3. \A k \in DOMAIN sq' : sq'[k] # Job("timeout", id)
    BY <1>1, <1>3, <2>1 DEF Job
  <2>4. QED BY <2>2, <2>3
<1>10. \A k \in DOMAIN sq' : sq'[k] = Job("timeout", n) => k = last
  <2>1. /\ Job("timeout", n).id = n /\ n \notin 1 .. nops
        /\ Job("cancel", timeout) # Job("timeout", n)
    BY <1>1 DEF Job
  <2>2. ASSUME NEW k \in DOMAIN sq', k # last
        PROVE  sq'[k] # Job("timeout", n)
    <3>1. CASE k \in DOMAIN sq /\ sq'[k] = sq[k]
      <4>1. sq'[k].id \in 1 .. nops
        BY <1>4, <3>1
      <4>2. QED BY <2>1, <4>1
    <3>2. QED BY <1>3, <2>1, <2>2, <3>1
  <2>3. QED BY <2>2
<1>11. n \notin muted' /\ muted' \subseteq 1 .. n
  <2>1. muted' = ClearMuted \/ muted' = muted
    OBVIOUS
  <2>2. ClearMuted \subseteq 1 .. nops
    BY <1>1 DEF ClearMuted, NoId
  <2>3. muted' \subseteq 1 .. nops
    BY <1>1, <2>1, <2>2
  <2>4. QED BY <1>1, <2>3
<1>12. /\ \A a \in armed : a.id # n
       /\ \A k \in DOMAIN cq' : cq'[k] # n
  BY <1>1, <1>5
<1>13. TypeOK'
  <2>1. /\ armed' \subseteq [id : 1 .. n, at : Nat] /\ cq' \in Seq(1 .. n)
        /\ sets' \in 0 .. MaxSets /\ pc' \in {"loop", "callback"}
        /\ now' \in 0 .. MaxTime
    BY <1>1, <1>5 DEF TypeOK
  <2>2. QED BY <1>1, <1>2, <1>11, <2>1, SMTT(30) DEF TypeOK, Jobs
<1>14. Pending' = {n}
  <2>1. n \in Pending'
    BY <1>1, <1>2, <1>3, <1>11 DEF Pending
  <2>2. \A id \in Pending' : id = n
    BY <1>1, <1>2, <1>9, SMTT(30) DEF Pending
  <2>3. QED BY <2>1, <2>2
<1>15. OneTimeout'
  BY <1>1, <1>2, <1>12, <1>14 DEF OneTimeout, NoId
<1>16. InOnePlace'
  BY <1>2, <1>10, <1>12 DEF InOnePlace
<1>17. CancelsMuted'
  <2>1. muted \subseteq muted' /\ (jobs # <<>> /\ timeout # NoId => timeout \in muted')
    BY DEF ClearMuted
  <2>2. /\ Job("timeout", n).what # "cancel"
        /\ Job("cancel", timeout).id = timeout
    BY DEF Job
  <2>3. \A k \in DOMAIN sq : sq[k].what = "cancel" => sq[k].id \in muted
    BY <1>1 DEF CancelsMuted
  <2>4. QED BY <1>3, <2>1, <2>2, <2>3 DEF CancelsMuted
<1>18. DueIsTime'
  BY <1>1, <1>2 DEF DueIsTime, NoId
<1>19. QED
  BY <1>13, <1>15, <1>16, <1>17, <1>18 DEF TimerInv, TimerSound

LEMMA SetSound ==
  ASSUME TimerInv, NEW t \in 0 .. MaxTime, NEW d \in Delays, Set(t, d)
  PROVE  TimerInv'
<1>1. t \in Nat /\ d \in Nat
  BY TimesAssumption, DelaysAssumption
<1>2. sets' \in 0 .. MaxSets /\ pc' \in {"loop", "callback"}
  BY TimesAssumption DEF Set, TimerInv, TimerSound, TypeOK
<1>3. QED BY <1>1, <1>2, SubmitSound DEF Set

LEMMA TimeoutSound ==
  ASSUME TimerInv, Timeout
  PROVE  TimerInv' /\ due = time /\ due <= now
<1>1. /\ TypeOK /\ OneTimeout /\ InOnePlace /\ CancelsMuted /\ DueIsTime
      /\ nops \in Nat /\ timeout \in 0 .. nops /\ cq \in Seq(1 .. nops)
  BY DEF TimerInv, TimerSound, TypeOK
<1>2. /\ 1 \in DOMAIN cq /\ Head(cq) = cq[1] /\ cq' = Tail(cq) /\ cq # <<>>
      /\ cq' \in Seq(1 .. nops)
      /\ \A k \in DOMAIN cq' : /\ k \in Nat /\ k + 1 \in DOMAIN cq /\ k + 1 # 1
                               /\ cq'[k] = cq[k + 1]
  BY <1>1, Shortened DEF Timeout
<1>3. cq[1] = timeout /\ timeout # NoId
  <2>1. cq[1] \in Pending
    BY <1>1, <1>2, Elements DEF Timeout, Pending
  <2>2. QED BY <1>1, <2>1 DEF OneTimeout
<1>4. due = time /\ due <= now
  BY <1>1, <1>2, <1>3 DEF DueIsTime, InOnePlace
<1>5. CASE delay > 0
  <2>1. time + delay \in Nat /\ delay \in Nat /\ due' = time + delay
    BY <1>1, <1>4, <1>5 DEF TypeOK, Timeout
  <2>2. sets' \in 0 .. MaxSets /\ pc' \in {"loop", "callback"}
    BY <1>1 DEF TypeOK, Timeout
  <2>3. QED
    BY <1>2, <1>3, <1>4, <1>5, <2>1, <2>2, SubmitSound DEF Timeout
<1>6. CASE ~(delay > 0)
  <2>1. /\ timeout' = NoId /\ due' = None /\ pc' = "callback"
        /\ UNCHANGED <<time, tv, nops, sq, delay, sets, armed, muted, now>>
    BY <1>6 DEF Timeout
\* The timeout that calls was the only one.
  <2>2. /\ \A k \in DOMAIN sq : sq[k] # Job("timeout", timeout)
        /\ \A a \in armed : a.id # timeout
        /\ \A k \in DOMAIN cq' : cq'[k] # timeout
    BY <1>1, <1>2, <1>3 DEF InOnePlace
  <2>3. Pending' = {}
    <3>1. \A id \in Pending' : id \in Pending
      BY <1>2, <2>1 DEF Pending
    <3>2. \A id \in Pending' : id # timeout
      BY <2>1, <2>2 DEF Pending
    <3>3. QED BY <1>1, <3>1, <3>2 DEF OneTimeout
  <2>4. /\ \A k \in DOMAIN sq : sq[k] # Job("timeout", NoId)
        /\ \A a \in armed : a.id # NoId
        /\ \A k \in DOMAIN cq' : cq'[k] # NoId
    BY <1>1, <1>2, Nowhere
  <2>5. TypeOK'
    BY <1>1, <1>2, <2>1 DEF TypeOK, NoId, None
  <2>6. OneTimeout' /\ InOnePlace'
    BY <2>1, <2>3, <2>4 DEF OneTimeout, InOnePlace
  <2>7. CancelsMuted' /\ DueIsTime'
    BY <1>1, <2>1 DEF CancelsMuted, DueIsTime
  <2>8. QED BY <1>4, <2>5, <2>6, <2>7 DEF TimerInv, TimerSound
<1>7. QED BY <1>5, <1>6

LEMMA ClearSound ==
  ASSUME TimerInv, Clear
  PROVE  TimerInv'
<1>1. /\ TypeOK /\ OneTimeout /\ InOnePlace /\ CancelsMuted
      /\ nops \in Nat /\ timeout \in 0 .. nops /\ sq \in Seq(Jobs(nops))
  BY DEF TimerInv, TimerSound, TypeOK, Jobs
<1>2. /\ muted \subseteq muted' /\ muted' \subseteq 1 .. nops
      /\ (timeout # NoId => timeout \in muted')
  BY <1>1 DEF Clear, ClearMuted, NoId, TypeOK
<1>3. /\ sq' \in Seq(Jobs(nops))
      /\ \A k \in DOMAIN sq' : \/ k \in DOMAIN sq /\ sq'[k] = sq[k]
                               \/ timeout # NoId /\ sq'[k] = Job("cancel", timeout)
  <2>1. CASE timeout = NoId
    BY <1>1, <2>1 DEF Clear, ClearJobs
  <2>2. CASE timeout # NoId
    <3> DEFINE old == Job("cancel", timeout)
    <3>1. old \in Jobs(nops)
      BY <1>1, <2>2, JobType DEF NoId
    <3> HIDE DEF old
    <3>2. sq' = Append(sq, old)
      BY <1>1, <2>2, <3>1 DEF Clear, ClearJobs, old
    <3>3. QED BY <1>1, <2>2, <3>1, <3>2, Appended DEF old
  <2>3. QED BY <2>1, <2>2
<1>4. /\ timeout' = NoId /\ due' = None
      /\ UNCHANGED <<time, delay, tv, pc, nops, sets, armed, cq, now>>
  BY DEF Clear
<1>5. TypeOK'
  BY <1>1, <1>2, <1>3, <1>4 DEF TypeOK, NoId, Jobs
<1>6. Pending' = {}
  <2>1. ASSUME NEW id \in Pending'
        PROVE  FALSE
    <3>1. id \in 1 .. nops /\ id \notin muted /\ id # timeout
      BY <1>1, <1>2, <1>4, <2>1 DEF Pending, NoId
    <3>2. \A k \in DOMAIN sq' : sq'[k] = Job("timeout", id) =>
            k \in DOMAIN sq /\ sq[k] = Job("timeout", id)
      BY <1>3 DEF Job
    <3>3. id \in Pending
      BY <1>4, <2>1, <3>1, <3>2 DEF Pending
    <3>4. QED BY <1>1, <3>1, <3>3 DEF OneTimeout
  <2>2. QED BY <2>1
<1>7. OneTimeout' /\ InOnePlace'
  <2>1. /\ \A k \in DOMAIN sq' : sq'[k] # Job("timeout", NoId)
        /\ \A a \in armed : a.id # NoId
        /\ \A k \in DOMAIN cq : cq[k] # NoId
    <3>1. cq \in Seq(1 .. nops)
      BY <1>1 DEF TypeOK
    <3>2. \A k \in DOMAIN sq' : sq'[k] # Job("timeout", NoId)
      BY <1>1, <1>3, Nowhere DEF Job
    <3>3. QED BY <1>1, <3>1, <3>2, Nowhere
  <2>2. QED BY <1>4, <1>6, <2>1 DEF OneTimeout, InOnePlace
<1>8. CancelsMuted'
  <2>1. Job("cancel", timeout).id = timeout
    BY DEF Job
  <2>2. QED BY <1>1, <1>2, <1>3, <2>1 DEF CancelsMuted
<1>9. DueIsTime'
  BY <1>4 DEF DueIsTime
<1>10. QED BY <1>5, <1>7, <1>8, <1>9 DEF TimerInv, TimerSound

\* The timeout that is named is not cancelled.
LEMMA NamedIsNotMuted ==
  ASSUME TypeOK, OneTimeout
  PROVE  timeout \notin muted /\ Pending = {timeout} \ {NoId}
  BY DEF OneTimeout, Pending, TypeOK, NoId

LEMMA TimeoutMutedSound ==
  ASSUME TimerInv, TimeoutMuted
  PROVE  TimerInv'
<1>1. /\ TypeOK /\ OneTimeout /\ InOnePlace /\ CancelsMuted /\ DueIsTime
      /\ nops \in Nat /\ cq \in Seq(1 .. nops)
  BY DEF TimerInv, TimerSound, TypeOK
<1>2. UNCHANGED <<time, delay, tv, timeout, pc, nops, sets, sq, armed, muted, now,
                  due>>
  BY DEF TimeoutMuted
<1>3. /\ cq' \in Seq(1 .. nops) /\ cq[1] \in muted
      /\ \A k \in DOMAIN cq' : /\ k \in Nat /\ k + 1 \in DOMAIN cq /\ k + 1 # 1
                               /\ cq'[k] = cq[k + 1]
      /\ \A k \in DOMAIN cq : k # 1 =>
           /\ k \in Nat /\ k - 1 \in DOMAIN cq' /\ cq'[k - 1] = cq[k]
  BY <1>1, Shortened DEF TimeoutMuted
<1>4. TypeOK'
  BY <1>1, <1>2, <1>3 DEF TypeOK
<1>5. Pending' = Pending
  <2>1. ASSUME NEW id, id \notin muted
        PROVE  (\E k \in DOMAIN cq' : cq'[k] = id) <=> (\E k \in DOMAIN cq : cq[k] = id)
    BY <1>3, <2>1
  <2>2. QED BY <1>2, <2>1 DEF Pending
<1>6. OneTimeout'
  BY <1>1, <1>2, <1>5 DEF OneTimeout
<1>7. InOnePlace'
  <2>1. /\ \A k \in DOMAIN sq' : sq'[k] = Job("timeout", timeout') =>
             /\ \A l \in DOMAIN sq' : sq'[l] = sq'[k] => l = k
             /\ \A a \in armed' : a.id # timeout'
             /\ \A l \in DOMAIN cq' : cq'[l] # timeout'
        /\ \A a \in armed' : a.id = timeout' =>
             /\ \A b \in armed' : b.id = timeout' => b = a
             /\ \A l \in DOMAIN cq' : cq'[l] # timeout'
    BY <1>1, <1>2, <1>3 DEF InOnePlace
  <2>2. ASSUME NEW k \in DOMAIN cq', cq'[k] = timeout'
        PROVE  /\ time' <= now'
               /\ \A l \in DOMAIN cq' : cq'[l] = timeout' => l = k
    BY <1>1, <1>2, <1>3, <2>2 DEF InOnePlace
  <2>3. QED BY <2>1, <2>2 DEF InOnePlace
<1>8. CancelsMuted' /\ DueIsTime'
  BY <1>1, <1>2 DEF CancelsMuted, DueIsTime
<1>9. QED BY <1>4, <1>6, <1>7, <1>8 DEF TimerInv, TimerSound

\* The kernel takes a submission: a timeout for the time that tv holds by now, or
\* the cancellation of one that is not named any more.
LEMMA TakeSound ==
  ASSUME TimerInv, Take
  PROVE  TimerInv'
<1> DEFINE e == sq[1]
           hit == {a \in armed : a.id = e.id}
<1>1. /\ TypeOK /\ OneTimeout /\ InOnePlace /\ CancelsMuted /\ DueIsTime
      /\ nops \in Nat /\ timeout \in 0 .. nops /\ sq \in Seq(Jobs(nops))
      /\ armed \subseteq [id : 1 .. nops, at : Nat] /\ cq \in Seq(1 .. nops)
      /\ tv \in Nat
  BY DEF TimerInv, TimerSound, TypeOK, Jobs
<1>2. UNCHANGED <<time, delay, tv, timeout, pc, nops, sets, muted, now, due>>
  BY DEF Take
<1>3. /\ sq' \in Seq(Jobs(nops)) /\ 1 \in DOMAIN sq
      /\ Head(sq) = e
      /\ \A k \in DOMAIN sq' : /\ k \in Nat /\ k + 1 \in DOMAIN sq /\ k + 1 # 1
                               /\ sq'[k] = sq[k + 1]
      /\ \A k \in DOMAIN sq : k # 1 =>
           /\ k \in Nat /\ k - 1 \in DOMAIN sq' /\ sq'[k - 1] = sq[k]
  BY <1>1, Shortened DEF Take
<1>4. e \in Jobs(nops) /\ e.id \in 1 .. nops /\ e = Job(e.what, e.id)
      /\ e.what \in {"timeout", "cancel"}
  <2>1. e \in Jobs(nops)
    BY <1>1, <1>3, Elements
  <2>2. QED BY <2>1 DEF Jobs, Job
<1>5. timeout \notin muted
  BY <1>1, NamedIsNotMuted
<1>6. CancelsMuted'
  BY <1>1, <1>2, <1>3 DEF CancelsMuted
<1>7. DueIsTime'
  BY <1>1, <1>2 DEF DueIsTime
<1>8. CASE e.what = "timeout"
  <2> DEFINE new == [id |-> e.id, at |-> tv]
  <2>1. armed' = armed \cup {new} /\ cq' = cq
    BY <1>3, <1>8 DEF Take
  <2>2. new.id = e.id /\ new.at = tv /\ new \in [id : 1 .. nops, at : Nat]
    BY <1>1, <1>4
  <2>3. TypeOK'
    BY <1>1, <1>2, <1>3, <2>1, <2>2 DEF TypeOK, Jobs
  <2>4. e = Job("timeout", e.id)
    BY <1>4, <1>8
  <2> HIDE DEF new
  <2>5. Pending' = Pending
    <3>1. ASSUME NEW id \in 1 .. nops
          PROVE  (\/ \E k \in DOMAIN sq' : sq'[k] = Job("timeout", id)
                  \/ \E a \in armed' : a.id = id) <=>
                 (\/ \E k \in DOMAIN sq : sq[k] = Job("timeout", id)
                  \/ \E a \in armed : a.id = id)
      <4>1. ASSUME NEW k \in DOMAIN sq, sq[k] = Job("timeout", id)
            PROVE  \/ \E l \in DOMAIN sq' : sq'[l] = Job("timeout", id)
                   \/ \E a \in armed' : a.id = id
        <5>1. CASE k = 1
          <6>1. e.id = id
            BY <4>1, <5>1 DEF Job
          <6>2. QED BY <2>1, <2>2, <6>1
        <5>2. QED BY <1>3, <4>1, <5>1
      <4>2. ASSUME NEW k \in DOMAIN sq', sq'[k] = Job("timeout", id)
            PROVE  \E l \in DOMAIN sq : sq[l] = Job("timeout", id)
        BY <1>3, <4>2
      <4>3. ASSUME NEW a \in armed', a.id = id
            PROVE  \/ \E l \in DOMAIN sq : sq[l] = Job("timeout", id)
                   \/ \E b \in armed : b.id = id
        BY <1>3, <2>1, <2>2, <2>4, <4>3
      <4>4. QED BY <2>1, <4>1, <4>2, <4>3
    <3>2. QED BY <1>2, <2>1, <3>1 DEF Pending
  <2>6. e.id = timeout =>
          /\ tv = time
          /\ \A l \in DOMAIN sq : sq[l] = e => l = 1
          /\ \A a \in armed : a.id # timeout
          /\ \A l \in DOMAIN cq : cq[l] # timeout
    BY <1>1, <1>3, <2>4 DEF OneTimeout, InOnePlace
  <2>7. OneTimeout'
    <3>1. \A a \in armed' : a.id = timeout => a.at = time
      BY <1>1, <2>1, <2>2, <2>6 DEF OneTimeout
    <3>2. (\E k \in DOMAIN sq' : sq'[k] = Job("timeout", timeout)) => tv = time
      BY <1>1, <1>3 DEF OneTimeout
    <3>3. QED BY <1>1, <1>2, <2>5, <3>1, <3>2 DEF OneTimeout
  <2>8. InOnePlace'
    <3>1. ASSUME NEW k \in DOMAIN sq', sq'[k] = Job("timeout", timeout)
          PROVE  /\ \A l \in DOMAIN sq' : sq'[l] = sq'[k] => l = k
                 /\ \A a \in armed' : a.id # timeout
                 /\ \A l \in DOMAIN cq' : cq'[l] # timeout
      <4>1. /\ k + 1 \in DOMAIN sq /\ k + 1 # 1
            /\ sq[k + 1] = Job("timeout", timeout)
        BY <1>3, <3>1
      <4>2. /\ \A l \in DOMAIN sq : sq[l] = sq[k + 1] => l = k + 1
            /\ \A a \in armed : a.id # timeout
            /\ \A l \in DOMAIN cq : cq[l] # timeout
        BY <1>1, <4>1 DEF InOnePlace
      <4>3. e.id # timeout
        BY <1>3, <2>4, <4>1, <4>2
      <4>4. \A l \in DOMAIN sq' : sq'[l] = sq'[k] => l = k
        BY <1>3, <4>2
      <4>5. QED BY <2>1, <2>2, <4>2, <4>3, <4>4
    <3>2. ASSUME NEW a \in armed', a.id = timeout
          PROVE  /\ \A b \in armed' : b.id = timeout => b = a
                 /\ \A l \in DOMAIN cq' : cq'[l] # timeout
      <4>1. CASE e.id = timeout
        BY <2>1, <2>2, <2>6, <3>2, <4>1
      <4>2. CASE e.id # timeout
        BY <1>1, <2>1, <2>2, <3>2, <4>2 DEF InOnePlace
      <4>3. QED BY <4>1, <4>2
    <3>3. \A k \in DOMAIN cq' : cq'[k] = timeout =>
            /\ time <= now
            /\ \A l \in DOMAIN cq' : cq'[l] = timeout => l = k
      BY <1>1, <2>1 DEF InOnePlace
    <3>4. QED BY <1>2, <3>1, <3>2, <3>3 DEF InOnePlace
  <2>9. QED BY <1>6, <1>7, <2>3, <2>7, <2>8 DEF TimerInv, TimerSound
<1>9. CASE e.what = "cancel"
  <2>1. armed' = armed \ hit /\ cq' = IF hit # {} THEN Append(cq, e.id) ELSE cq
    BY <1>3, <1>9 DEF Take
  <2>2. e.id \in muted /\ e.id # timeout
    BY <1>1, <1>3, <1>5, <1>9 DEF CancelsMuted
  <2>3. \A id : e # Job("timeout", id)
    BY <1>9 DEF Job
  <2>4. \A a : a \in armed' => a \in armed
    BY <2>1
  <2>5. \A a \in armed : a.id # e.id => a \in armed'
    BY <2>1
  <2>6. /\ cq' \in Seq(1 .. nops)
        /\ \A k \in DOMAIN cq' : cq'[k] = e.id \/ (k \in DOMAIN cq /\ cq'[k] = cq[k])
        /\ \A k \in DOMAIN cq : k \in DOMAIN cq' /\ cq'[k] = cq[k]
    <3>1. CASE cq' = Append(cq, e.id)
      BY <1>1, <1>4, <3>1, Appended
    <3>2. CASE cq' = cq
      BY <1>1, <3>2
    <3>3. QED BY <2>1, <3>1, <3>2
  <2> HIDE DEF hit
  <2>7. TypeOK'
    BY <1>1, <1>2, <1>3, <2>4, <2>6 DEF TypeOK, Jobs
  <2>8. ASSUME NEW id, id # e.id
        PROVE  /\ (\E k \in DOMAIN sq' : sq'[k] = Job("timeout", id)) <=>
                  (\E k \in DOMAIN sq : sq[k] = Job("timeout", id))
               /\ (\E a \in armed' : a.id = id) <=> (\E a \in armed : a.id = id)
               /\ (\E k \in DOMAIN cq' : cq'[k] = id) <=>
                  (\E k \in DOMAIN cq : cq[k] = id)
    <3>1. (\E k \in DOMAIN sq' : sq'[k] = Job("timeout", id)) <=>
            (\E k \in DOMAIN sq : sq[k] = Job("timeout", id))
      BY <1>3, <2>3
    <3>2. (\E a \in armed' : a.id = id) <=> (\E a \in armed : a.id = id)
      BY <2>4, <2>5, <2>8
    <3>3. (\E k \in DOMAIN cq' : cq'[k] = id) <=> (\E k \in DOMAIN cq : cq[k] = id)
      BY <2>6, <2>8
    <3>4. QED BY <3>1, <3>2, <3>3
  <2>9. Pending' = Pending
    BY <1>2, <2>2, <2>8 DEF Pending
  <2>10. OneTimeout'
    <3>1. (\E k \in DOMAIN sq' : sq'[k] = Job("timeout", timeout)) => tv = time
      BY <1>1, <1>3 DEF OneTimeout
    <3>2. \A a \in armed' : a.id = timeout => a.at = time
      BY <1>1, <2>4 DEF OneTimeout
    <3>3. QED BY <1>1, <1>2, <2>9, <3>1, <3>2 DEF OneTimeout
  <2>11. InOnePlace'
    <3>1. \A k \in DOMAIN cq' : cq'[k] = timeout => k \in DOMAIN cq /\ cq[k] = timeout
      BY <2>2, <2>6
    <3>2. ASSUME NEW k \in DOMAIN sq', sq'[k] = Job("timeout", timeout)
          PROVE  /\ \A l \in DOMAIN sq' : sq'[l] = sq'[k] => l = k
                 /\ \A a \in armed' : a.id # timeout
                 /\ \A l \in DOMAIN cq' : cq'[l] # timeout
      <4>1. k + 1 \in DOMAIN sq /\ sq[k + 1] = Job("timeout", timeout)
        BY <1>3, <3>2
      <4>2. /\ \A l \in DOMAIN sq : sq[l] = sq[k + 1] => l = k + 1
            /\ \A a \in armed : a.id # timeout
            /\ \A l \in DOMAIN cq : cq[l] # timeout
        BY <1>1, <4>1 DEF InOnePlace
      <4>3. \A l \in DOMAIN sq' : sq'[l] = sq'[k] => l = k
        BY <1>3, <4>2
      <4>4. QED BY <2>4, <3>1, <4>2, <4>3
    <3>3. \A a \in armed' : a.id = timeout =>
            /\ \A b \in armed' : b.id = timeout => b = a
            /\ \A l \in DOMAIN cq' : cq'[l] # timeout
      BY <1>1, <2>4, <3>1 DEF InOnePlace
    <3>4. \A k \in DOMAIN cq' : cq'[k] = timeout =>
            /\ time <= now
            /\ \A l \in DOMAIN cq' : cq'[l] = timeout => l = k
      BY <1>1, <3>1 DEF InOnePlace
    <3>5. QED BY <1>2, <3>2, <3>3, <3>4 DEF InOnePlace
  <2>12. QED BY <1>6, <1>7, <2>7, <2>10, <2>11 DEF TimerInv, TimerSound
<1>10. QED BY <1>4, <1>8, <1>9

\* A timeout completes when its time has come.
LEMMA FireSound ==
  ASSUME TimerInv, NEW a \in armed, Fire(a)
  PROVE  TimerInv'
<1>1. /\ TypeOK /\ OneTimeout /\ InOnePlace /\ CancelsMuted /\ DueIsTime
      /\ nops \in Nat /\ timeout \in 0 .. nops
      /\ armed \subseteq [id : 1 .. nops, at : Nat] /\ cq \in Seq(1 .. nops)
  BY DEF TimerInv, TimerSound, TypeOK
<1>2. /\ UNCHANGED <<time, delay, tv, timeout, pc, nops, sets, sq, muted, now, due>>
      /\ armed' = armed \ {a} /\ a.at <= now
  BY DEF Fire
<1>3. a.id \in 1 .. nops
  BY <1>1
<1>4. /\ cq' \in Seq(1 .. nops)
      /\ Len(cq) + 1 \in DOMAIN cq' /\ cq'[Len(cq) + 1] = a.id
      /\ \A k \in DOMAIN cq : k \in DOMAIN cq' /\ cq'[k] = cq[k]
      /\ \A k \in DOMAIN cq' :
           \/ k \in DOMAIN cq /\ cq'[k] = cq[k]
           \/ k = Len(cq) + 1
  BY <1>1, <1>3, Appended DEF Fire
<1>5. TypeOK'
  BY <1>1, <1>2, <1>4 DEF TypeOK
<1>6. Pending' = Pending
  <2>1. ASSUME NEW id \in 1 .. nops
        PROVE  (\/ \E b \in armed' : b.id = id
                \/ \E k \in DOMAIN cq' : cq'[k] = id) <=>
               (\/ \E b \in armed : b.id = id
                \/ \E k \in DOMAIN cq : cq[k] = id)
    BY <1>2, <1>4
  <2>2. QED BY <1>2, <2>1 DEF Pending
<1>7. OneTimeout'
  BY <1>1, <1>2, <1>6 DEF OneTimeout
<1>8. InOnePlace'
  <2>1. CASE a.id # timeout
    <3>1. \A k \in DOMAIN cq' : cq'[k] = timeout => k \in DOMAIN cq /\ cq[k] = timeout
      BY <1>4, <2>1
    <3>2. QED BY <1>1, <1>2, <3>1 DEF InOnePlace
  <2>2. CASE a.id = timeout
    <3>1. /\ a.at = time /\ time <= now
          /\ \A b \in armed : b.id = timeout => b = a
          /\ \A l \in DOMAIN cq : cq[l] # timeout
          /\ \A k \in DOMAIN sq : sq[k] # Job("timeout", timeout)
      BY <1>1, <1>2, <2>2 DEF OneTimeout, InOnePlace
    <3>2. QED BY <1>2, <1>4, <3>1 DEF InOnePlace
  <2>3. QED BY <2>1, <2>2
<1>9. CancelsMuted' /\ DueIsTime'
  BY <1>1, <1>2 DEF CancelsMuted, DueIsTime
<1>10. QED BY <1>5, <1>7, <1>8, <1>9 DEF TimerInv, TimerSound

-----------------------------------------------------------------------------

LEMMA InitSound ==
  ASSUME Init
  PROVE  TimerInv
<1>1. TypeOK
  BY TimesAssumption DEF Init, TypeOK, NoId, None
<1>2. OneTimeout
  BY DEF Init, OneTimeout, Pending, NoId
<1>3. InOnePlace /\ CancelsMuted /\ DueIsTime
  BY DEF Init, InOnePlace, CancelsMuted, DueIsTime
<1>4. QED BY <1>1, <1>2, <1>3 DEF TimerInv, TimerSound

\* Returning to the loop, time passing, and steps of others.
LEMMA ElseSound ==
  ASSUME TimerInv, Return \/ Tick \/ UNCHANGED vars
  PROVE  TimerInv'
<1>1. /\ TypeOK /\ OneTimeout /\ InOnePlace /\ CancelsMuted /\ DueIsTime
  BY DEF TimerInv, TimerSound
<1>2. /\ UNCHANGED <<time, delay, tv, timeout, nops, sets, sq, armed, cq, muted, due>>
      /\ pc' \in {"loop", "callback"} /\ now' \in 0 .. MaxTime /\ now <= now'
  BY <1>1, TimesAssumption, SMTT(30) DEF TypeOK, Return, Tick, vars
<1>3. TypeOK'
  BY <1>1, <1>2 DEF TypeOK
<1>4. OneTimeout' /\ CancelsMuted' /\ DueIsTime'
  BY <1>1, <1>2 DEF OneTimeout, Pending, CancelsMuted, DueIsTime
<1>5. InOnePlace'
  <2>1. time \in Nat /\ now \in Nat /\ now' \in Nat
    BY <1>1, <1>2, TimesAssumption DEF TypeOK
  <2>2. time <= now => time <= now'
    BY <1>2, <2>1
  <2>3. QED BY <1>1, <1>2, <2>2 DEF InOnePlace
<1>6. QED BY <1>3, <1>4, <1>5 DEF TimerInv, TimerSound

LEMMA NextSound ==
  ASSUME TimerInv, [Next]_vars
  PROVE  TimerInv'
<1>1. ASSUME NEW t \in 0 .. MaxTime, NEW d \in Delays, Set(t, d)
      PROVE  TimerInv'
  BY <1>1, SetSound
<1>2. ASSUME NEW a \in armed, Fire(a)
      PROVE  TimerInv'
  BY <1>2, FireSound
<1>3. QED
  BY <1>1, <1>2, ClearSound, TimeoutSound, TimeoutMutedSound, TakeSound, ElseSound
  DEF Next, Loop, Kernel

\* The inductive invariant: besides the property below, that the timeout that is
\* named is in one place only, in the completion queue only at its time, and is the
\* one that the next call is due for, and that a cancelled one is muted.
THEOREM TimerCorrect == Spec => []TimerInv
<1>1. Init => TimerInv
  BY InitSound
<1>2. TimerInv /\ [Next]_vars => TimerInv'
  BY NextSound
<1>3. QED BY <1>1, <1>2, PTL DEF Spec

\* At most one timeout of a timer can call back, timer->timeout names it, and it is
\* armed for timer->time.
THEOREM TimerSoundAlways == Spec => []TimerSound
<1>1. TimerInv => TimerSound
  BY DEF TimerInv
<1>2. QED BY <1>1, TimerCorrect, PTL

\* Each call of the timer's callback is for the time that is due, and not before
\* it.
THEOREM CallsOnTimeAlways == Spec => CallsOnTime
<1>1. ASSUME TimerInv, [Next]_vars, pc = "loop" /\ pc' = "callback"
      PROVE  due = time /\ due <= now
  <2>1. Timeout
    BY <1>1 DEF Next, Loop, Kernel, vars, Set, Submit, Clear, TimeoutMuted, Return,
                Take, Fire, Tick
  <2>2. QED BY <1>1, <2>1, TimeoutSound
<1>2. TimerInv /\ [Next]_vars =>
        [pc = "loop" /\ pc' = "callback" => due = time /\ due <= now]_vars
  BY <1>1
<1>3. QED BY <1>2, TimerCorrect, PTL DEF Spec, CallsOnTime
==============================================================================
