----------------------------- MODULE AsyncProofs -----------------------------
(* Proofs about Async, for any number of resolvers and of calls: what the    *)
(* threads, the loop and the application find in memory, and that a callback *)
(* is given what the thread of its own lookup has found.                     *)
EXTENDS Async, FiniteSetTheorems, TLAPS

LEMMA NumbersTyped ==
  Requests \subseteq Nat /\ None \notin Requests /\ MaxAsyncs \in Nat
  BY AsyncsAssumption DEF Requests, None

\* A request that is begun, or given back, is a request.
LEMMA RecordsTyped ==
  /\ Unused \in RequestStates
  /\ \A by \in Resolvers \cup {App} : Asked(by) \in RequestStates
  /\ \A q \in RequestStates : Freed(q) \in RequestStates
<1>1. /\ [w \in Words |-> "own"] \in [Words -> {"own", "other"}]
      /\ [w \in Words |-> NoWord] \in [Words -> {"own", "other", NoWord}]
  OBVIOUS
<1>2. Unused \in RequestStates
  BY <1>1 DEF Unused, RequestStates
<1>3. ASSUME NEW by \in Resolvers \cup {App}
      PROVE  Asked(by) \in RequestStates
  BY <1>2 DEF Asked, RequestStates
<1>4. ASSUME NEW q \in RequestStates
      PROVE  Freed(q) \in RequestStates
  BY <1>2 DEF Freed, RequestStates
<1>5. QED BY <1>2, <1>3, <1>4

LEMMA InitHolds == Init => AsyncInv
<1> SUFFICES ASSUME Init
             PROVE  AsyncInv
  OBVIOUS
<1> USE NumbersTyped DEF Init
<1>1. TypeOK
  <2>1. request \in [Requests -> RequestStates]
    BY RecordsTyped
  <2>2. resolver \in [Resolvers -> ResolverStates]
    BY DEF ResolverStates
  <2>3. \A k \in Requests : (request[k].memory = "unused") = (k > asked)
    BY DEF Unused, Requests
  <2>4. asked \in 0 .. MaxAsyncs /\ answers \in Seq([lookup : Requests, ok : BOOLEAN, list : Requests \cup {None}])
    OBVIOUS
  <2>5. QED BY <2>1, <2>2, <2>3, <2>4 DEF TypeOK
<1>2. NothingWild /\ CallsHeld
  BY DEF NothingWild, CallsHeld, Pending, Unused
<1>3. Lives
  BY DEF Lives, Pending, Unused
<1>4. ResultsHeld /\ ListsHeld
  BY DEF ResultsHeld, ListsHeld, Pending, Unused
<1>5. WordsRead
  BY DEF WordsRead, Unused
<1>6. AnsweredIsOver /\ AnswersOwn
  BY DEF AnsweredIsOver, AnswersOwn
<1>7. QED BY <1>1, <1>2, <1>3, <1>4, <1>5, <1>6 DEF AsyncInv

-----------------------------------------------------------------------------
(* The actions keep the types. *)

LEMMA AskTyped ==
  ASSUME TypeOK, Lives, NEW by \in Resolvers \cup {App}, MayAsk,
         asked' = asked + 1,
         request' = [request EXCEPT ![asked + 1] = Asked(by)]
  PROVE  /\ request' \in [Requests -> RequestStates]
         /\ asked + 1 \in Requests /\ asked' \in 0 .. MaxAsyncs
         /\ request'[asked + 1] = Asked(by)
         /\ \A k \in Requests : k # asked + 1 => request'[k] = request[k]
         /\ \A k \in Requests : (request'[k].memory = "unused") = (k > asked')
         /\ request[asked + 1].memory = "unused"
<1>1. asked + 1 \in Requests /\ asked' \in 0 .. MaxAsyncs
  BY NumbersTyped DEF TypeOK, MayAsk, Requests
<1>2. Asked(by).memory = "used"
  BY DEF Asked, Unused
<1>3. /\ request' \in [Requests -> RequestStates]
      /\ request'[asked + 1] = Asked(by)
      /\ \A k \in Requests : k # asked + 1 => request'[k] = request[k]
  BY <1>1, RecordsTyped DEF TypeOK
<1>4. \A k \in Requests : (request[k].memory = "unused") = (k > asked)
  BY DEF TypeOK
<1>5. asked \in Nat
  BY DEF TypeOK
<1>6. request[asked + 1].memory = "unused"
  BY <1>1, <1>4, <1>5
<1>7. \A k \in Requests : (request'[k].memory = "unused") = (k > asked')
  BY <1>1, <1>2, <1>3, <1>4, <1>5, NumbersTyped
<1>8. QED BY <1>1, <1>3, <1>6, <1>7

\* What was answered stays answered: nothing begins again, and nothing that is done
\* finds something else.
LEMMA AnswersKept ==
  ASSUME TypeOK, AnsweredIsOver, AnswersOwn, answers' = answers,
         \A k \in Requests :
           ~Pending(k) /\ request[k].thread = "done" =>
             /\ ~Pending(k)' /\ request'[k].thread = "done"
             /\ request'[k].found = request[k].found
  PROVE  AnsweredIsOver' /\ AnswersOwn'
<1>1. \A i \in DOMAIN answers : answers[i].lookup \in Requests
  <2> DEFINE Told == [lookup : Requests, ok : BOOLEAN, list : Requests \cup {None}]
  <2>1. answers \in Seq(Told)
    BY DEF TypeOK
  <2> HIDE DEF Told
  <2>2. \A i \in DOMAIN answers : answers[i] \in Told
    BY <2>1
  <2>3. QED BY <2>2 DEF Told
<1>2. \A i \in DOMAIN answers :
        /\ ~Pending(answers[i].lookup)
        /\ request[answers[i].lookup].thread = "done"
  BY DEF AnsweredIsOver
<1>3. \A i \in DOMAIN answers :
        /\ request'[answers[i].lookup].read = "none"
        /\ request'[answers[i].lookup].thread = "done"
        /\ request'[answers[i].lookup].found = request[answers[i].lookup].found
  BY <1>1, <1>2 DEF Pending
<1>4. AnsweredIsOver'
  BY <1>3 DEF AnsweredIsOver, Pending
<1>5. AnswersOwn'
  BY <1>3 DEF AnswersOwn
<1>6. QED BY <1>4, <1>5

-----------------------------------------------------------------------------
(* The calls of the application keep the invariant. *)

LEMMA RunAsyncKeeps ==
  ASSUME AsyncInv, RunAsync
  PROVE  AsyncInv'
<1> USE NumbersTyped, CallersAssumption
<1> DEFINE n == asked + 1
<1>1. /\ TypeOK /\ NothingWild /\ Lives /\ CallsHeld /\ ResultsHeld /\ ListsHeld
      /\ WordsRead /\ AnsweredIsOver /\ AnswersOwn
  BY DEF AsyncInv
<1>2. /\ request' \in [Requests -> RequestStates]
      /\ n \in Requests /\ asked' \in 0 .. MaxAsyncs
      /\ request'[n] = Asked(App)
      /\ \A k \in Requests : k # n => request'[k] = request[k]
      /\ \A k \in Requests : (request'[k].memory = "unused") = (k > asked')
      /\ request[n].memory = "unused"
  BY <1>1, AskTyped DEF RunAsync
<1>3. /\ request'[n].by = App /\ request'[n].memory = "used"
      /\ request'[n].thread = "reads" /\ request'[n].read = "waits"
      /\ request'[n].signal = 0
      /\ \A w \in Words : request'[n].seen[w] = NoWord
  BY <1>2 DEF Asked, Unused
<1>4. UNCHANGED <<resolver, strings, lists, at, ai, half, answers, hasty, wild>>
  BY DEF RunAsync
<1>5. n # at /\ request[n].read = "none" /\ request[n].thread = "none"
  BY <1>1, <1>2 DEF Lives, Pending, TypeOK, RequestStates
<1> HIDE DEF n
<1>6. TypeOK'
  BY <1>1, <1>2, <1>4, <1>5 DEF TypeOK
<1>7. NothingWild'
  BY <1>1, <1>4 DEF NothingWild
<1>8. Lives'
  BY <1>1, <1>2, <1>3, <1>4, <1>5 DEF Lives, Pending
<1>9. CallsHeld'
  BY <1>1, <1>2, <1>3, <1>4, <1>5 DEF CallsHeld, Pending
<1>10. ResultsHeld'
  BY <1>1, <1>2, <1>3, <1>4, <1>5 DEF ResultsHeld, Pending
<1>11. ListsHeld'
  BY <1>1, <1>4 DEF ListsHeld
<1>12. WordsRead'
  BY <1>1, <1>2, <1>3, <1>4, <1>5 DEF WordsRead, NoWord
<1>13. AnsweredIsOver' /\ AnswersOwn'
  BY <1>1, <1>2, <1>4, <1>5, AnswersKept DEF Pending
<1>14. QED BY <1>6, <1>7, <1>8, <1>9, <1>10, <1>11, <1>12, <1>13 DEF AsyncInv

LEMMA LookupKeeps ==
  ASSUME AsyncInv, NEW r \in Resolvers, Lookup(r)
  PROVE  AsyncInv'
<1> USE NumbersTyped, CallersAssumption
<1> DEFINE n == asked + 1
<1>1. /\ TypeOK /\ NothingWild /\ Lives /\ CallsHeld /\ ResultsHeld /\ ListsHeld
      /\ WordsRead /\ AnsweredIsOver /\ AnswersOwn
  BY DEF AsyncInv
<1>2. /\ request' \in [Requests -> RequestStates]
      /\ n \in Requests /\ asked' \in 0 .. MaxAsyncs
      /\ request'[n] = Asked(r)
      /\ \A k \in Requests : k # n => request'[k] = request[k]
      /\ \A k \in Requests : (request'[k].memory = "unused") = (k > asked')
      /\ request[n].memory = "unused"
  BY <1>1, AskTyped DEF Lookup
<1>3. /\ request'[n].by = r /\ request'[n].memory = "used"
      /\ request'[n].thread = "reads" /\ request'[n].read = "waits"
      /\ request'[n].signal = 0
      /\ \A w \in Words : request'[n].seen[w] = NoWord
  BY <1>2 DEF Asked, Unused
<1>4. /\ UNCHANGED <<lists, at, ai, half, answers, hasty, wild>>
      /\ resolver[r].alive /\ resolver[r].call = None
      /\ strings' = strings \cup {n}
      /\ resolver' \in [Resolvers -> ResolverStates]
      /\ resolver'[r].call = n /\ resolver'[r].host = n
      /\ resolver'[r].alive = resolver[r].alive /\ resolver'[r].ok = resolver[r].ok
      /\ resolver'[r].result = resolver[r].result
      /\ \A s \in Resolvers : s # r => resolver'[s] = resolver[s]
  BY <1>1, <1>2 DEF Lookup, TypeOK, ResolverStates
<1>5. n # at /\ request[n].read = "none" /\ request[n].thread = "none"
  BY <1>1, <1>2 DEF Lives, Pending, TypeOK, RequestStates
<1> HIDE DEF n
<1>6. resolver[r].result = None
  BY <1>1, <1>4 DEF ResultsHeld
<1>7. \A s \in Resolvers : resolver[s].call # n
  BY <1>1, <1>2, <1>5 DEF CallsHeld, Pending
<1>8. TypeOK'
  BY <1>1, <1>2, <1>4, <1>5 DEF TypeOK
<1>9. NothingWild'
  BY <1>1, <1>4 DEF NothingWild
<1>10. Lives'
  BY <1>1, <1>2, <1>3, <1>4, <1>5 DEF Lives, Pending
<1>11. CallsHeld'
  <2>1. ASSUME NEW k \in Requests, NEW s \in Resolvers
        PROVE  (resolver[s].call = k <=> (Pending(k) /\ request[k].by = s))'
    <3>1. CASE k = n
      BY <1>2, <1>3, <1>4, <1>7, <3>1 DEF Pending
    <3>2. CASE k # n
      <4>1. resolver[s].call = k <=> (Pending(k) /\ request[k].by = s)
        BY <1>1 DEF CallsHeld
      <4>2. request'[k] = request[k]
        BY <1>2, <3>2
      <4>3. CASE s = r
        BY <1>4, <3>2, <4>1, <4>2, <4>3 DEF Pending
      <4>4. CASE s # r
        BY <1>4, <4>1, <4>2, <4>4 DEF Pending
      <4>5. QED BY <4>3, <4>4
    <3>3. QED BY <3>1, <3>2
  <2>2. ASSUME NEW s \in Resolvers, resolver'[s].call # None
        PROVE  (resolver[s].host = resolver[s].call /\ (resolver[s].alive \/ hasty))'
    BY <1>1, <1>4, <2>2 DEF CallsHeld
  <2>3. LET held == {resolver[s].call : s \in Resolvers} IN
          \/ {resolver'[s].call : s \in Resolvers} = (held \ {None}) \cup {n}
          \/ {resolver'[s].call : s \in Resolvers} = held \cup {n}
    BY <1>4
  <2>4. strings' = {resolver'[s].call : s \in Resolvers} \ {None}
    BY <1>1, <1>2, <1>4, <2>3 DEF CallsHeld
  <2>5. QED BY <2>1, <2>2, <2>4 DEF CallsHeld
<1>12. ResultsHeld'
  <2>1. ASSUME NEW s \in Resolvers, resolver'[s].result # None
        PROVE  resolver'[s].result = resolver'[s].call
    <3>1. resolver[s].result # None /\ resolver[s].result = resolver[s].call
      BY <1>1, <1>4, <2>1 DEF ResultsHeld
    <3>2. s # r
      BY <1>6, <3>1
    <3>3. QED BY <1>4, <3>1, <3>2
  <2>2. ASSUME NEW k \in Requests, NEW s \in Resolvers, (Pending(k) /\ request[k].by = s)'
        PROVE  (/\ resolver[s].result = k <=>
                     (request[k].thread \in {"resolved", "returned", "done"} /\ request[k].found)
                /\ request[k].thread \in {"returned", "done"} =>
                     resolver[s].ok = request[k].found)'
    <3>1. CASE k = n
      BY <1>2, <1>3, <1>4, <1>5, <1>6, <2>2, <3>1 DEF Pending
    <3>2. CASE k # n
      <4>1. request'[k] = request[k] /\ Pending(k) /\ request[k].by = s
        BY <1>2, <2>2, <3>2 DEF Pending
      <4>2. resolver'[s].result = resolver[s].result
        BY <1>4
      <4>3. s # r
        BY <1>1, <1>4, <4>1 DEF CallsHeld
      <4>4. resolver'[s].ok = resolver[s].ok
        BY <1>4, <4>3
      <4>5. QED BY <1>1, <4>1, <4>2, <4>4 DEF ResultsHeld
    <3>3. QED BY <3>1, <3>2
  <2>3. QED BY <2>1, <2>2 DEF ResultsHeld
<1>13. ListsHeld'
  <2>1. {resolver'[s].result : s \in Resolvers} = {resolver[s].result : s \in Resolvers}
    BY <1>4
  <2>2. QED BY <1>1, <1>4, <2>1 DEF ListsHeld
<1>14. WordsRead'
  <2>1. /\ request'[n].thread = "reads" /\ NoWord # "other"
        /\ \A w \in Words : request'[n].seen[w] = NoWord
        /\ \A k \in Requests : k # n => request'[k] = request[k]
    BY <1>2, <1>3 DEF NoWord
  <2>2. QED BY <1>1, <2>1 DEF WordsRead
<1>15. AnsweredIsOver' /\ AnswersOwn'
  BY <1>1, <1>2, <1>4, <1>5, AnswersKept DEF Pending
<1>16. QED BY <1>8, <1>9, <1>10, <1>11, <1>12, <1>13, <1>14, <1>15 DEF AsyncInv

LEMMA DestructKeeps ==
  ASSUME AsyncInv, NEW r \in Resolvers, Destruct(r)
  PROVE  AsyncInv'
<1> USE NumbersTyped
<1>1. /\ TypeOK /\ NothingWild /\ Lives /\ CallsHeld /\ ResultsHeld /\ ListsHeld
      /\ WordsRead /\ AnsweredIsOver /\ AnswersOwn
  BY DEF AsyncInv
<1>2. /\ UNCHANGED <<request, strings, lists, at, ai, half, asked, answers, wild>>
      /\ resolver' \in [Resolvers -> ResolverStates]
      /\ hasty' \in BOOLEAN /\ (hasty => hasty')
      /\ resolver[r].call # None => hasty'
      /\ \A s \in Resolvers : /\ resolver'[s].call = resolver[s].call
                              /\ resolver'[s].host = resolver[s].host
                              /\ resolver'[s].ok = resolver[s].ok
                              /\ resolver'[s].result = resolver[s].result
                              /\ s # r => resolver'[s].alive = resolver[s].alive
  BY <1>1, ZenonT(30) DEF Destruct, TypeOK, ResolverStates
<1>3. TypeOK'
  BY <1>1, <1>2 DEF TypeOK
<1>4. NothingWild' /\ Lives' /\ WordsRead'
  BY <1>1, <1>2 DEF NothingWild, Lives, WordsRead, Pending
<1>5. {resolver'[s].call : s \in Resolvers} = {resolver[s].call : s \in Resolvers}
  BY <1>2
<1>6. {resolver'[s].result : s \in Resolvers} = {resolver[s].result : s \in Resolvers}
  BY <1>2
<1>7. CallsHeld'
  BY <1>1, <1>2, <1>5 DEF CallsHeld, Pending
<1>8. ResultsHeld'
  <2>1. ASSUME NEW s \in Resolvers, resolver'[s].result # None
        PROVE  resolver'[s].result = resolver'[s].call
    BY <1>1, <1>2, <2>1 DEF ResultsHeld
  <2>2. ASSUME NEW k \in Requests, NEW s \in Resolvers, Pending(k), request[k].by = s
        PROVE  (/\ resolver[s].result = k <=>
                     (request[k].thread \in {"resolved", "returned", "done"} /\ request[k].found)
                /\ request[k].thread \in {"returned", "done"} =>
                     resolver[s].ok = request[k].found)'
    <3>1. /\ resolver'[s].result = resolver[s].result /\ resolver'[s].ok = resolver[s].ok
          /\ request' = request
      BY <1>2
    <3>2. QED BY <1>1, <2>2, <3>1 DEF ResultsHeld
  <2>3. \A k \in Requests : Pending(k)' <=> Pending(k)
    BY <1>2 DEF Pending
  <2>4. QED BY <1>2, <2>1, <2>2, <2>3 DEF ResultsHeld
<1>9. ListsHeld'
  BY <1>1, <1>2, <1>6 DEF ListsHeld
<1>10. AnsweredIsOver' /\ AnswersOwn'
  BY <1>1, <1>2, AnswersKept DEF Pending
<1>11. QED BY <1>3, <1>4, <1>7, <1>8, <1>9, <1>10 DEF AsyncInv

\* What the steps have in common that change nothing but a request that stays
\* pending, or taken up, as it was: the rest of the state agrees with it as before.
LEMMA RestKept ==
  ASSUME AsyncInv,
         UNCHANGED <<resolver, strings, lists, at, ai, asked, answers, hasty>>,
         wild' => hasty,
         \A k \in Requests :
           /\ Pending(k)' <=> Pending(k)
           /\ request'[k].by = request[k].by /\ request'[k].found = request[k].found
           /\ request[k].thread = "done" => request'[k].thread = "done"
           /\ request[k].by # App =>
                /\ request'[k].thread = "resolved" <=> request[k].thread = "resolved"
                /\ request'[k].thread \in {"returned", "done"} <=>
                     request[k].thread \in {"returned", "done"}
  PROVE  /\ NothingWild' /\ CallsHeld' /\ ResultsHeld' /\ ListsHeld'
         /\ AnsweredIsOver' /\ AnswersOwn'
<1> USE NumbersTyped, CallersAssumption
<1>1. /\ TypeOK /\ NothingWild /\ CallsHeld /\ ResultsHeld /\ ListsHeld
      /\ AnsweredIsOver /\ AnswersOwn
  BY DEF AsyncInv
<1>2. NothingWild'
  BY <1>1 DEF NothingWild
<1>3. CallsHeld'
  BY <1>1 DEF CallsHeld
<1>4. ResultsHeld'
  BY <1>1 DEF ResultsHeld
<1>5. ListsHeld'
  BY <1>1 DEF ListsHeld
<1>6. AnsweredIsOver' /\ AnswersOwn'
  BY <1>1, AnswersKept
<1>7. QED BY <1>2, <1>3, <1>4, <1>5, <1>6

\* reactor_cancel writes a word of the user and nothing else.
LEMMA WordWritten ==
  ASSUME TypeOK, NEW k \in Requests, NEW w \in Words,
         request' = [request EXCEPT ![k].user[w] = "other"]
  PROVE  /\ request' \in [Requests -> RequestStates]
         /\ \A j \in Requests :
              /\ request'[j].by = request[j].by /\ request'[j].found = request[j].found
              /\ request'[j].memory = request[j].memory
              /\ request'[j].read = request[j].read
              /\ request'[j].thread = request[j].thread
              /\ request'[j].seen = request[j].seen
              /\ request'[j].signal = request[j].signal
              /\ \A v \in Words :
                   request[j].user[v] = "other" => request'[j].user[v] = "other"
<1> DEFINE u == [request[k].user EXCEPT ![w] = "other"]
           q == [request[k] EXCEPT !.user = u]
<1>1. request \in [Requests -> RequestStates] /\ request[k] \in RequestStates
  BY DEF TypeOK
<1>2. u \in [Words -> {"own", "other"}]
  BY <1>1 DEF RequestStates
<1>3. \A v \in Words : request[k].user[v] = "other" => u[v] = "other"
  BY <1>1 DEF RequestStates
<1> HIDE DEF u
<1>4. q \in RequestStates
  BY <1>1, <1>2 DEF RequestStates
<1>5. /\ q.by = request[k].by /\ q.found = request[k].found
      /\ q.memory = request[k].memory /\ q.read = request[k].read
      /\ q.thread = request[k].thread /\ q.seen = request[k].seen
      /\ q.signal = request[k].signal /\ q.user = u
  BY <1>1 DEF RequestStates
<1>6. request' = [request EXCEPT ![k] = q]
  BY DEF u
<1> HIDE DEF q
<1>7. /\ request' \in [Requests -> RequestStates]
      /\ \A j \in Requests : request'[j] = IF j = k THEN q ELSE request[j]
  BY <1>1, <1>4, <1>6
<1>8. QED BY <1>3, <1>5, <1>7

LEMMA WordKeeps ==
  ASSUME AsyncInv, NEW k \in Requests, NEW w \in Words,
         request' = [request EXCEPT ![k].user[w] = "other"],
         half' \in (Requests \X Words) \cup {<<>>},
         UNCHANGED <<resolver, strings, lists, at, ai, asked, answers, hasty, wild>>
  PROVE  AsyncInv'
<1>1. TypeOK /\ Lives /\ WordsRead
  BY DEF AsyncInv
<1>2. /\ request' \in [Requests -> RequestStates]
      /\ \A j \in Requests :
           /\ request'[j].by = request[j].by /\ request'[j].found = request[j].found
           /\ request'[j].memory = request[j].memory
           /\ request'[j].read = request[j].read
           /\ request'[j].thread = request[j].thread
           /\ request'[j].seen = request[j].seen
           /\ request'[j].signal = request[j].signal
           /\ \A v \in Words :
                request[j].user[v] = "other" => request'[j].user[v] = "other"
  BY <1>1, WordWritten
<1>3. TypeOK'
  BY <1>1, <1>2 DEF TypeOK
<1>4. Lives'
  BY <1>1, <1>2 DEF Lives, Pending
<1>5. WordsRead'
  BY <1>1, <1>2 DEF WordsRead
<1>6. wild' => hasty
  BY DEF AsyncInv, NothingWild
<1>7. QED BY <1>2, <1>3, <1>4, <1>5, <1>6, RestKept DEF AsyncInv, Pending

LEMMA CancelKeeps ==
  ASSUME AsyncInv, NEW k \in Requests, NEW w \in Words, Cancel(k, w)
  PROVE  AsyncInv'
<1>1. \E v \in Words : v # w
  BY DEF Words
<1>2. half' \in Requests \X Words
  BY <1>1 DEF Cancel
<1>3. QED BY <1>2, WordKeeps DEF Cancel

LEMMA CancelEndsKeeps ==
  ASSUME AsyncInv, CancelEnds
  PROVE  AsyncInv'
<1>1. half \in Requests \X Words
  BY DEF AsyncInv, TypeOK, CancelEnds
<1>2. half[1] \in Requests /\ half[2] \in Words
  BY <1>1
<1>3. QED BY <1>2, WordKeeps DEF CancelEnds

-----------------------------------------------------------------------------
(* The steps of a thread, and the read of its eventfd, keep the invariant. *)

LEMMA ThreadReadsKeeps ==
  ASSUME AsyncInv, NEW k \in Requests, NEW w \in Words, ThreadReads(k, w)
  PROVE  AsyncInv'
<1> DEFINE seen == [request[k].seen EXCEPT ![w] = request[k].user[w]]
           next == IF NoWord \in {seen[v] : v \in Words} THEN "reads" ELSE "runs"
           q    == [request[k] EXCEPT !.seen = seen, !.thread = next]
<1>1. /\ TypeOK /\ Lives /\ WordsRead
      /\ request[k] \in RequestStates /\ request \in [Requests -> RequestStates]
  BY DEF AsyncInv, TypeOK
<1>2. /\ UNCHANGED <<resolver, strings, lists, at, ai, half, asked, answers, hasty>>
      /\ request[k].thread = "reads" /\ wild' = (request[k].memory # "used")
  BY DEF ThreadReads
<1>3. ~wild'
  BY <1>1, <1>2 DEF Lives, RequestStates
<1>4. seen \in [Words -> {"own", "other", NoWord}] /\ seen[w] = request[k].user[w]
  BY <1>1 DEF RequestStates
<1>5. \A v \in Words : v # w => seen[v] = request[k].seen[v]
  BY <1>1 DEF RequestStates
<1>6. request' = [request EXCEPT ![k] = q]
  BY DEF ThreadReads
<1>7. next \in {"reads", "runs"} /\ (next = "runs" => \A v \in Words : seen[v] # NoWord)
  OBVIOUS
<1> HIDE DEF seen, next
<1>8. q \in RequestStates
  BY <1>1, <1>4, <1>7 DEF RequestStates
<1>9. /\ q.by = request[k].by /\ q.found = request[k].found
      /\ q.memory = request[k].memory /\ q.read = request[k].read
      /\ q.thread = next /\ q.seen = seen
      /\ q.signal = request[k].signal /\ q.user = request[k].user
  BY <1>1 DEF RequestStates
<1> HIDE DEF q
<1>10. /\ request' \in [Requests -> RequestStates] /\ request'[k] = q
       /\ \A j \in Requests : j # k => request'[j] = request[j]
  BY <1>1, <1>6, <1>8
<1>11. TypeOK'
  BY <1>1, <1>2, <1>3, <1>9, <1>10 DEF TypeOK
<1>12. Lives'
  BY <1>1, <1>2, <1>7, <1>9, <1>10 DEF Lives, Pending
<1>13. WordsRead'
  <2>1. ASSUME NEW v \in Words, seen[v] = "other"
        PROVE  \E x \in Words : request[k].user[x] = "other"
    BY <1>1, <1>2, <1>4, <1>5, <2>1 DEF WordsRead
  <2>2. QED BY <1>1, <1>2, <1>7, <1>9, <1>10, <2>1 DEF WordsRead
<1>14. QED BY <1>2, <1>3, <1>7, <1>9, <1>10, <1>11, <1>12, <1>13, RestKept DEF AsyncInv, Pending

\* A step of a thread, or of the kernel, that moves the thread, or the read, of a
\* request and leaves the rest of it.
LEMMA MoveKeeps ==
  ASSUME AsyncInv, NEW k \in Requests, NEW q \in RequestStates,
         request' = [request EXCEPT ![k] = q],
         UNCHANGED <<resolver, strings, lists, at, ai, half, asked, answers, hasty>>,
         wild' \in BOOLEAN, wild' => hasty,
         Pending(k), q.read # "none",
         q.by = request[k].by, q.memory = request[k].memory, q.user = request[k].user,
         q.found = request[k].found,
         q.read = "done" => q.signal = 1,
         q.signal = 1 => q.thread = "done",
         request[k].thread = "done" => q.thread = "done",
         q.thread \notin {"none", "reads", "runs"}, request[k].thread # "none",
         q.thread = "resolved" => q.by # App,
         q.by # App =>
           /\ q.thread = "resolved" <=> request[k].thread = "resolved"
           /\ q.thread \in {"returned", "done"} <=>
                request[k].thread \in {"returned", "done"}
  PROVE  AsyncInv'
<1>1. /\ TypeOK /\ Lives /\ WordsRead
      /\ request[k] \in RequestStates /\ request \in [Requests -> RequestStates]
  BY DEF AsyncInv, TypeOK
<1>2. /\ request' \in [Requests -> RequestStates] /\ request'[k] = q
      /\ \A j \in Requests : j # k => request'[j] = request[j]
  BY <1>1
<1>3. TypeOK'
  BY <1>1, <1>2 DEF TypeOK, Pending
<1>4. Lives'
  <2>1. k # at
    BY <1>1, NumbersTyped DEF TypeOK, Pending
  <2>2. QED BY <1>1, <1>2, <2>1 DEF Lives, Pending
<1>5. WordsRead'
  BY <1>1, <1>2 DEF WordsRead
<1>6. QED BY <1>2, <1>3, <1>4, <1>5, RestKept DEF AsyncInv, Pending

LEMMA ThreadRunsKeeps ==
  ASSUME AsyncInv, NEW k \in Requests, ThreadRuns(k)
  PROVE  AsyncInv'
<1> DEFINE q == [request[k] EXCEPT !.thread = "returned"]
<1>1. TypeOK /\ Lives /\ NothingWild /\ request[k] \in RequestStates
  BY DEF AsyncInv, TypeOK
<1>2. Pending(k) /\ request[k].signal # 1 /\ request[k].read # "done"
  BY <1>1, NumbersTyped DEF Lives, ThreadRuns, RequestStates
<1>3. /\ q \in RequestStates
      /\ q.by = request[k].by /\ q.memory = request[k].memory
      /\ q.user = request[k].user /\ q.found = request[k].found
      /\ q.read = request[k].read /\ q.signal = request[k].signal
      /\ q.thread = "returned"
  BY <1>1 DEF RequestStates
<1>4. /\ request' = [request EXCEPT ![k] = q]
      /\ request[k].thread = "runs" /\ request[k].by = App
      /\ UNCHANGED <<resolver, strings, lists, at, ai, half, asked, answers, hasty, wild>>
  BY DEF ThreadRuns
<1>5. wild' \in BOOLEAN /\ (wild' => hasty)
  BY <1>1, <1>4 DEF TypeOK, NothingWild
<1> HIDE DEF q
<1>6. QED BY <1>2, <1>3, <1>4, <1>5, MoveKeeps DEF Pending

LEMMA ThreadSignalsKeeps ==
  ASSUME AsyncInv, NEW k \in Requests, ThreadSignals(k)
  PROVE  AsyncInv'
<1> DEFINE q == [request[k] EXCEPT !.signal = 1, !.thread = "done",
                                   !.seen = Unused.seen]
<1>1. TypeOK /\ Lives /\ request[k] \in RequestStates
  BY DEF AsyncInv, TypeOK
<1>2. Pending(k) /\ request[k].memory = "used"
  BY <1>1 DEF Lives, ThreadSignals, RequestStates
<1>3. Unused.seen \in [Words -> {"own", "other", NoWord}] /\ 1 \in 0 .. 1
  BY DEF Unused
<1>4. /\ q \in RequestStates
      /\ q.by = request[k].by /\ q.memory = request[k].memory
      /\ q.user = request[k].user /\ q.found = request[k].found
      /\ q.read = request[k].read /\ q.signal = 1 /\ q.thread = "done"
  BY <1>1, <1>3 DEF RequestStates
<1>5. /\ request' = [request EXCEPT ![k] = q]
      /\ request[k].thread = "returned" /\ ~wild' /\ wild' \in BOOLEAN
      /\ UNCHANGED <<resolver, strings, lists, at, ai, half, asked, answers, hasty>>
  BY <1>2 DEF ThreadSignals
<1> HIDE DEF q
<1>6. QED BY <1>2, <1>4, <1>5, MoveKeeps DEF Pending

LEMMA ReadCompletesKeeps ==
  ASSUME AsyncInv, NEW k \in Requests, ReadCompletes(k)
  PROVE  AsyncInv'
<1> DEFINE q == [request[k] EXCEPT !.read = "done"]
<1>1. TypeOK /\ Lives /\ NothingWild /\ request[k] \in RequestStates
  BY DEF AsyncInv, TypeOK
<1>2. Pending(k) /\ request[k].signal = 1 /\ request[k].thread = "done"
  BY <1>1 DEF Lives, ReadCompletes, Pending
<1>3. /\ q \in RequestStates
      /\ q.by = request[k].by /\ q.memory = request[k].memory
      /\ q.user = request[k].user /\ q.found = request[k].found
      /\ q.read = "done" /\ q.signal = request[k].signal
      /\ q.thread = request[k].thread
  BY <1>1 DEF RequestStates
<1>4. /\ request' = [request EXCEPT ![k] = q]
      /\ UNCHANGED <<resolver, strings, lists, at, ai, half, asked, answers, hasty, wild>>
  BY DEF ReadCompletes
<1>5. wild' \in BOOLEAN /\ (wild' => hasty)
  BY <1>1, <1>4 DEF TypeOK, NothingWild
<1> HIDE DEF q
<1>6. QED BY <1>2, <1>3, <1>4, <1>5, MoveKeeps DEF Pending

\* The resolver of a request that is pending is in a call, which is this one.
LEMMA CallOf ==
  ASSUME AsyncInv, NEW k \in Requests, Pending(k), request[k].by # App
  PROVE  /\ request[k].by \in Resolvers
         /\ resolver[request[k].by].call = k /\ resolver[request[k].by].host = k
         /\ resolver[request[k].by].alive \/ hasty
         /\ k \in strings /\ k # at
         /\ \A s \in Resolvers : s # request[k].by =>
              resolver[s].call # k /\ resolver[s].result # k
         /\ resolver[request[k].by].result \in {None, k}
         /\ ai # k
<1> USE NumbersTyped
<1>1. TypeOK /\ CallsHeld /\ ResultsHeld /\ ListsHeld
  BY DEF AsyncInv
<1>2. request[k].by \in Resolvers
  BY <1>1 DEF TypeOK, RequestStates
<1> DEFINE r == request[k].by
<1>3. resolver[r].call = k
  BY <1>1, <1>2 DEF CallsHeld
<1>4. resolver[r].host = k /\ (resolver[r].alive \/ hasty)
  BY <1>1, <1>2, <1>3 DEF CallsHeld
<1>5. k \in strings
  BY <1>1, <1>2, <1>3 DEF CallsHeld
<1>6. k # at
  BY <1>1 DEF TypeOK, Pending
<1>7. \A s \in Resolvers : s # r => resolver[s].call # k
  BY <1>1 DEF CallsHeld
<1>8. \A s \in Resolvers : s # r => resolver[s].result # k
  BY <1>1, <1>7 DEF ResultsHeld
<1>9. resolver[r].result \in {None, k}
  BY <1>1, <1>2, <1>3 DEF ResultsHeld
<1>10. ai # k
  BY <1>1, <1>6 DEF ListsHeld
<1>11. QED BY <1>2, <1>3, <1>4, <1>5, <1>6, <1>7, <1>8, <1>9, <1>10

LEMMA ResolvesKeeps ==
  ASSUME AsyncInv, NEW k \in Requests, Resolves(k)
  PROVE  AsyncInv'
<1> USE NumbersTyped
<1> DEFINE r == request[k].by
<1>1. /\ TypeOK /\ NothingWild /\ Lives /\ CallsHeld /\ ResultsHeld /\ ListsHeld
      /\ WordsRead /\ AnsweredIsOver /\ AnswersOwn
      /\ request[k] \in RequestStates /\ request \in [Requests -> RequestStates]
  BY DEF AsyncInv, TypeOK
<1>2. PICK found \in BOOLEAN :
        /\ request' = [request EXCEPT ![k].thread = "resolved", ![k].found = found]
        /\ resolver' = IF found THEN [resolver EXCEPT ![r].result = k] ELSE resolver
        /\ lists' = IF found THEN lists \cup {k} ELSE lists
  BY DEF Resolves
<1>3. /\ request[k].thread = "runs" /\ r # App
      /\ wild' = ~(resolver[r].alive /\ resolver[r].host \in strings)
      /\ UNCHANGED <<strings, at, ai, half, asked, answers, hasty>>
  BY DEF Resolves
<1>4. Pending(k) /\ request[k].signal # 1 /\ request[k].read # "done"
  BY <1>1, <1>3 DEF Lives, RequestStates
<1>5. /\ r \in Resolvers
      /\ resolver[r].call = k /\ resolver[r].host = k
      /\ resolver[r].alive \/ hasty
      /\ k \in strings /\ k # at
      /\ \A s \in Resolvers : s # r => resolver[s].call # k /\ resolver[s].result # k
      /\ resolver[r].result \in {None, k}
      /\ ai # k
  BY <1>3, <1>4, CallOf
<1>6. resolver[r].result = None
  BY <1>1, <1>3, <1>4, <1>5 DEF ResultsHeld
<1> DEFINE q == [request[k] EXCEPT !.thread = "resolved", !.found = found]
<1>7. /\ q \in RequestStates /\ q.by = r /\ q.memory = request[k].memory
      /\ q.user = request[k].user /\ q.read = request[k].read
      /\ q.signal = request[k].signal /\ q.thread = "resolved" /\ q.found = found
  BY <1>1 DEF RequestStates
<1>8. request' = [request EXCEPT ![k] = q]
  BY <1>2
<1> HIDE DEF q, r
<1>9. /\ request' \in [Requests -> RequestStates] /\ request'[k] = q
      /\ \A j \in Requests : j # k => request'[j] = request[j]
  BY <1>1, <1>7, <1>8
<1>10. /\ resolver' \in [Resolvers -> ResolverStates]
       /\ \A s \in Resolvers : /\ resolver'[s].call = resolver[s].call
                               /\ resolver'[s].host = resolver[s].host
                               /\ resolver'[s].alive = resolver[s].alive
                               /\ resolver'[s].ok = resolver[s].ok
                               /\ s # r => resolver'[s].result = resolver[s].result
       /\ resolver'[r].result = IF found THEN k ELSE None
  BY <1>1, <1>2, <1>5, <1>6 DEF TypeOK, ResolverStates
<1>11. TypeOK'
  <2>1. lists' \subseteq Requests /\ wild' \in BOOLEAN
    BY <1>1, <1>2, <1>3 DEF TypeOK
  <2>2. QED BY <1>1, <1>3, <1>5, <1>7, <1>9, <1>10, <2>1 DEF TypeOK
<1>12. NothingWild'
  BY <1>3, <1>5 DEF NothingWild
<1>13. Lives'
  BY <1>1, <1>3, <1>4, <1>5, <1>7, <1>9 DEF Lives, Pending
<1>14. CallsHeld'
  <2>1. {resolver'[s].call : s \in Resolvers} = {resolver[s].call : s \in Resolvers}
    BY <1>10
  <2>2. \A j \in Requests : (Pending(j)' <=> Pending(j)) /\ request'[j].by = request[j].by
    BY <1>7, <1>9 DEF Pending, r
  <2>3. QED BY <1>1, <1>3, <1>10, <2>1, <2>2 DEF CallsHeld
<1>15. ResultsHeld'
  <2>1. \A s \in Resolvers :
          resolver'[s].result # None => resolver'[s].result = resolver'[s].call
    BY <1>1, <1>5, <1>10 DEF ResultsHeld
  <2>2. ASSUME NEW j \in Requests, NEW s \in Resolvers,
               Pending(j)', request'[j].by = s
        PROVE  /\ resolver'[s].result = j <=>
                    (request'[j].thread \in {"resolved", "returned", "done"}
                       /\ request'[j].found)
               /\ request'[j].thread \in {"returned", "done"} =>
                    resolver'[s].ok = request'[j].found
    <3>1. CASE j = k
      BY <1>5, <1>7, <1>9, <1>10, <2>2, <3>1
    <3>2. CASE j # k
      <4>1. request'[j] = request[j] /\ Pending(j) /\ request[j].by = s
        BY <1>9, <2>2, <3>2 DEF Pending
      <4>2. s # r
        BY <1>1, <1>5, <3>2, <4>1 DEF CallsHeld
      <4>3. QED BY <1>1, <1>10, <4>1, <4>2 DEF ResultsHeld
    <3>3. QED BY <3>1, <3>2
  <2>3. QED BY <2>1, <2>2 DEF ResultsHeld
<1>16. ListsHeld'
  <2>1. CASE found
    <3>1. {resolver'[s].result : s \in Resolvers} \ {None}
            = ({resolver[s].result : s \in Resolvers} \ {None}) \cup {k}
      BY <1>5, <1>6, <1>10, <2>1
    <3>2. QED BY <1>1, <1>2, <1>3, <2>1, <3>1 DEF ListsHeld
  <2>2. CASE ~found
    <3>1. {resolver'[s].result : s \in Resolvers} = {resolver[s].result : s \in Resolvers}
      BY <1>5, <1>6, <1>10, <2>2
    <3>2. QED BY <1>1, <1>2, <1>3, <2>2, <3>1 DEF ListsHeld
  <2>3. QED BY <2>1, <2>2
<1>17. WordsRead'
  BY <1>1, <1>7, <1>9 DEF WordsRead
<1>18. AnsweredIsOver' /\ AnswersOwn'
  <2>1. \A j \in Requests : request[j].thread = "done" => j # k
    BY <1>3
  <2>2. QED BY <1>1, <1>3, <1>9, <2>1, AnswersKept DEF Pending
<1>19. QED BY <1>11, <1>12, <1>13, <1>14, <1>15, <1>16, <1>17, <1>18 DEF AsyncInv

LEMMA ThreadSetsCodeKeeps ==
  ASSUME AsyncInv, NEW k \in Requests, ThreadSetsCode(k)
  PROVE  AsyncInv'
<1> USE NumbersTyped
<1> DEFINE r == request[k].by
           q == [request[k] EXCEPT !.thread = "returned"]
<1>1. /\ TypeOK /\ NothingWild /\ Lives /\ CallsHeld /\ ResultsHeld /\ ListsHeld
      /\ WordsRead /\ AnsweredIsOver /\ AnswersOwn
      /\ request[k] \in RequestStates /\ request \in [Requests -> RequestStates]
  BY DEF AsyncInv, TypeOK
<1>2. /\ request[k].thread = "resolved"
      /\ request' = [request EXCEPT ![k] = q]
      /\ resolver' = [resolver EXCEPT ![r].ok = request[k].found]
      /\ wild' = ~resolver[r].alive
      /\ UNCHANGED <<strings, lists, at, ai, half, asked, answers, hasty>>
  BY DEF ThreadSetsCode
<1>3. Pending(k) /\ request[k].signal # 1 /\ request[k].read # "done" /\ r # App
  BY <1>1, <1>2 DEF Lives, RequestStates
<1>4. /\ r \in Resolvers
      /\ resolver[r].call = k /\ (resolver[r].alive \/ hasty) /\ k # at
  BY <1>3, CallOf
<1>5. /\ q \in RequestStates /\ q.by = r /\ q.memory = request[k].memory
      /\ q.user = request[k].user /\ q.read = request[k].read
      /\ q.signal = request[k].signal /\ q.thread = "returned"
      /\ q.found = request[k].found
  BY <1>1 DEF RequestStates
<1> HIDE DEF q, r
<1>6. /\ request' \in [Requests -> RequestStates] /\ request'[k] = q
      /\ \A j \in Requests : j # k => request'[j] = request[j]
  BY <1>1, <1>2, <1>5
<1>7. /\ resolver' \in [Resolvers -> ResolverStates]
      /\ \A s \in Resolvers : /\ resolver'[s].call = resolver[s].call
                              /\ resolver'[s].host = resolver[s].host
                              /\ resolver'[s].alive = resolver[s].alive
                              /\ resolver'[s].result = resolver[s].result
                              /\ s # r => resolver'[s].ok = resolver[s].ok
      /\ resolver'[r].ok = q.found
  <2> DEFINE code == request[k].found
  <2>1. /\ code \in BOOLEAN /\ q.found = code
        /\ resolver' = [resolver EXCEPT ![r].ok = code]
        /\ resolver \in [Resolvers -> ResolverStates]
    BY <1>1, <1>2, <1>5 DEF RequestStates, TypeOK
  <2> HIDE DEF code
  <2>2. QED BY <1>4, <2>1 DEF ResolverStates
<1>8. TypeOK'
  <2>1. wild' \in BOOLEAN
    BY <1>2
  <2>2. QED BY <1>1, <1>2, <1>4, <1>5, <1>6, <1>7, <2>1 DEF TypeOK
<1>9. NothingWild'
  BY <1>2, <1>4 DEF NothingWild
<1>10. Lives'
  BY <1>1, <1>2, <1>3, <1>4, <1>5, <1>6 DEF Lives, Pending
<1>11. CallsHeld'
  <2>1. {resolver'[s].call : s \in Resolvers} = {resolver[s].call : s \in Resolvers}
    BY <1>7
  <2>2. \A j \in Requests : (Pending(j)' <=> Pending(j)) /\ request'[j].by = request[j].by
    BY <1>5, <1>6 DEF Pending, r
  <2>3. QED BY <1>1, <1>2, <1>7, <2>1, <2>2 DEF CallsHeld
<1>12. ResultsHeld'
  <2>1. \A s \in Resolvers :
          resolver'[s].result # None => resolver'[s].result = resolver'[s].call
    BY <1>1, <1>7 DEF ResultsHeld
  <2>2. ASSUME NEW j \in Requests, NEW s \in Resolvers,
               Pending(j)', request'[j].by = s
        PROVE  /\ resolver'[s].result = j <=>
                    (request'[j].thread \in {"resolved", "returned", "done"}
                       /\ request'[j].found)
               /\ request'[j].thread \in {"returned", "done"} =>
                    resolver'[s].ok = request'[j].found
    <3>1. CASE j = k
      <4>1. s = r /\ request[k].by = r
        BY <1>5, <1>6, <2>2, <3>1 DEF r
      <4>2. resolver[r].result = k <=> request[k].found
        BY <1>1, <1>2, <1>3, <1>4, <4>1 DEF ResultsHeld
      <4>3. QED BY <1>5, <1>6, <1>7, <3>1, <4>1, <4>2
    <3>2. CASE j # k
      <4>1. request'[j] = request[j] /\ Pending(j) /\ request[j].by = s
        BY <1>6, <2>2, <3>2 DEF Pending
      <4>2. s # r
        BY <1>1, <1>4, <3>2, <4>1 DEF CallsHeld
      <4>3. QED BY <1>1, <1>7, <4>1, <4>2 DEF ResultsHeld
    <3>3. QED BY <3>1, <3>2
  <2>3. QED BY <2>1, <2>2 DEF ResultsHeld
<1>13. ListsHeld'
  <2>1. {resolver'[s].result : s \in Resolvers} = {resolver[s].result : s \in Resolvers}
    BY <1>7
  <2>2. QED BY <1>1, <1>2, <2>1 DEF ListsHeld
<1>14. WordsRead'
  BY <1>1, <1>5, <1>6 DEF WordsRead
<1>15. AnsweredIsOver' /\ AnswersOwn'
  <2>1. \A j \in Requests : request[j].thread = "done" => j # k
    BY <1>2
  <2>2. QED BY <1>1, <1>2, <1>6, <2>1, AnswersKept DEF Pending
<1>16. QED BY <1>8, <1>9, <1>10, <1>11, <1>12, <1>13, <1>14, <1>15 DEF AsyncInv

-----------------------------------------------------------------------------
(* The loop keeps the invariant. *)

\* The loop takes up a request: nothing but its read changes.
LEMMA TakenUp ==
  ASSUME AsyncInv, NEW k \in Requests, MayReturn(k),
         request' = [request EXCEPT ![k].read = "none"]
  PROVE  /\ request' \in [Requests -> RequestStates]
         /\ request'[k].read = "none" /\ request[k].read = "done"
         /\ request[k].signal = 1 /\ request[k].thread = "done"
         /\ request[k].memory = "used"
         /\ \A j \in Requests :
              /\ request'[j].by = request[j].by /\ request'[j].found = request[j].found
              /\ request'[j].memory = request[j].memory
              /\ request'[j].thread = request[j].thread
              /\ request'[j].seen = request[j].seen
              /\ request'[j].signal = request[j].signal
              /\ request'[j].user = request[j].user
              /\ j # k => request'[j].read = request[j].read
<1> DEFINE q == [request[k] EXCEPT !.read = "none"]
<1>1. /\ TypeOK /\ Lives
      /\ request[k] \in RequestStates /\ request \in [Requests -> RequestStates]
  BY DEF AsyncInv, TypeOK
<1>2. /\ request[k].read = "done" /\ request[k].signal = 1
      /\ request[k].thread = "done" /\ request[k].memory = "used"
  BY <1>1 DEF MayReturn, Lives, Pending
<1>3. /\ q \in RequestStates /\ q.by = request[k].by /\ q.memory = request[k].memory
      /\ q.user = request[k].user /\ q.read = "none" /\ q.seen = request[k].seen
      /\ q.signal = request[k].signal /\ q.thread = request[k].thread
      /\ q.found = request[k].found
  BY <1>1 DEF RequestStates
<1>4. request' = [request EXCEPT ![k] = q]
  OBVIOUS
<1> HIDE DEF q
<1>5. /\ request' \in [Requests -> RequestStates]
      /\ \A j \in Requests : request'[j] = IF j = k THEN q ELSE request[j]
  BY <1>1, <1>3, <1>4
<1>6. QED BY <1>2, <1>3, <1>5

LEMMA ReturnKeeps ==
  ASSUME AsyncInv, NEW k \in Requests, Return(k)
  PROVE  AsyncInv'
<1> USE NumbersTyped, CallersAssumption
<1>1. /\ TypeOK /\ NothingWild /\ Lives /\ CallsHeld /\ ResultsHeld /\ ListsHeld
      /\ WordsRead /\ AnsweredIsOver /\ AnswersOwn
  BY DEF AsyncInv
<1>2. /\ request' \in [Requests -> RequestStates]
      /\ request'[k].read = "none" /\ request[k].read = "done"
      /\ request[k].signal = 1 /\ request[k].thread = "done"
      /\ request[k].memory = "used"
      /\ \A j \in Requests :
           /\ request'[j].by = request[j].by /\ request'[j].found = request[j].found
           /\ request'[j].memory = request[j].memory
           /\ request'[j].thread = request[j].thread
           /\ request'[j].seen = request[j].seen
           /\ request'[j].signal = request[j].signal
           /\ request'[j].user = request[j].user
           /\ j # k => request'[j].read = request[j].read
  BY TakenUp DEF Return
<1>3. /\ at = None /\ at' = k /\ request[k].by = App
      /\ UNCHANGED <<resolver, strings, lists, ai, half, asked, answers, hasty, wild>>
  BY DEF Return, MayReturn
<1>4. TypeOK'
  BY <1>1, <1>2, <1>3 DEF TypeOK
<1>5. NothingWild'
  BY <1>1, <1>3 DEF NothingWild
<1>6. Lives'
  BY <1>1, <1>2, <1>3 DEF Lives, Pending
<1>7. CallsHeld'
  BY <1>1, <1>2, <1>3 DEF CallsHeld, Pending
<1>8. ResultsHeld'
  BY <1>1, <1>2, <1>3 DEF ResultsHeld, Pending
<1>9. ListsHeld'
  BY <1>1, <1>3 DEF ListsHeld
<1>10. WordsRead'
  BY ONLY <1>1, <1>2 DEF WordsRead
<1>11. AnsweredIsOver' /\ AnswersOwn'
  BY <1>1, <1>2, <1>3, AnswersKept DEF Pending
<1>12. QED BY <1>4, <1>5, <1>6, <1>7, <1>8, <1>9, <1>10, <1>11 DEF AsyncInv

LEMMA ReturnLookupKeeps ==
  ASSUME AsyncInv, NEW k \in Requests, ReturnLookup(k)
  PROVE  AsyncInv'
<1> USE NumbersTyped
<1> DEFINE r == request[k].by
           a == Answer(k, r)
           Told == [lookup : Requests, ok : BOOLEAN, list : Requests \cup {None}]
<1>1. /\ TypeOK /\ NothingWild /\ Lives /\ CallsHeld /\ ResultsHeld /\ ListsHeld
      /\ WordsRead /\ AnsweredIsOver /\ AnswersOwn
  BY DEF AsyncInv
<1>2. /\ request' \in [Requests -> RequestStates]
      /\ request'[k].read = "none" /\ request[k].read = "done"
      /\ request[k].signal = 1 /\ request[k].thread = "done"
      /\ request[k].memory = "used"
      /\ \A j \in Requests :
           /\ request'[j].by = request[j].by /\ request'[j].found = request[j].found
           /\ request'[j].memory = request[j].memory
           /\ request'[j].thread = request[j].thread
           /\ request'[j].seen = request[j].seen
           /\ request'[j].signal = request[j].signal
           /\ request'[j].user = request[j].user
           /\ j # k => request'[j].read = request[j].read
  BY TakenUp DEF ReturnLookup
<1>3. /\ at = None /\ at' = k /\ r # App
      /\ UNCHANGED <<lists, half, asked, hasty>>
      /\ wild' = ~(resolver[r].alive /\ resolver[r].host \in strings)
      /\ strings' = strings \ {resolver[r].host}
      /\ ai' = resolver[r].result
      /\ resolver' = [resolver EXCEPT ![r].call = None, ![r].result = None]
      /\ answers' = Append(answers, a)
  BY DEF ReturnLookup, MayReturn
<1>4. /\ r \in Resolvers
      /\ resolver[r].call = k /\ resolver[r].host = k
      /\ resolver[r].alive \/ hasty
      /\ k \in strings
      /\ \A s \in Resolvers : s # r => resolver[s].call # k /\ resolver[s].result # k
      /\ resolver[r].result \in {None, k}
  BY <1>2, <1>3, CallOf DEF Pending
<1>5. ai = None
  BY <1>1, <1>3 DEF ListsHeld
<1>6. /\ resolver[r].result = k <=> request[k].found
      /\ resolver[r].ok = request[k].found
  BY <1>1, <1>2, <1>4 DEF ResultsHeld, Pending
<1> HIDE DEF r
<1>7. /\ resolver' \in [Resolvers -> ResolverStates]
      /\ resolver'[r].call = None /\ resolver'[r].result = None
      /\ \A s \in Resolvers : s # r => resolver'[s] = resolver[s]
  <2> DEFINE x == [resolver[r] EXCEPT !.call = None, !.result = None]
  <2>1. resolver \in [Resolvers -> ResolverStates] /\ resolver[r] \in ResolverStates
    BY <1>1, <1>4 DEF TypeOK
  <2>2. x \in ResolverStates /\ x.call = None /\ x.result = None
    BY <2>1 DEF ResolverStates
  <2>3. resolver' = [resolver EXCEPT ![r] = x]
    BY <1>3
  <2> HIDE DEF x
  <2>4. QED BY <1>4, <2>1, <2>2, <2>3
<1>8. \A j \in Requests : Pending(j) /\ request[j].by = r => j = k
  BY <1>1, <1>4 DEF CallsHeld
<1>9. /\ a.lookup = k /\ a.ok = request[k].found
      /\ a.list = IF request[k].found THEN k ELSE None
      /\ a \in Told
  <2>1. a = [lookup |-> k, ok |-> resolver[r].ok, list |-> resolver[r].result]
    BY DEF Answer
  <2>2. resolver[r].ok \in BOOLEAN
    BY <1>1, <1>4 DEF TypeOK, ResolverStates
  <2>3. QED BY <1>4, <1>6, <2>1, <2>2
<1>10. /\ answers \in Seq(Told) /\ answers' \in Seq(Told)
       /\ \A i \in DOMAIN answers' :
            \/ i \in DOMAIN answers /\ answers'[i] = answers[i]
            \/ i = Len(answers) + 1 /\ answers'[i] = a
  <2> HIDE DEF Told, a
  <2>1. answers \in Seq(Told)
    BY <1>1 DEF TypeOK, Told
  <2>2. QED BY <1>3, <1>9, <2>1
<1> HIDE DEF a
<1>11. TypeOK'
  <2>1. wild' \in BOOLEAN /\ strings' \subseteq Requests /\ ai' \in Requests \cup {None}
    BY <1>1, <1>3, <1>4 DEF TypeOK
  <2>2. answers' \in Seq([lookup : Requests, ok : BOOLEAN, list : Requests \cup {None}])
    BY <1>10
  <2>3. \A j \in Requests : (request'[j].memory = "unused") = (j > asked')
    BY <1>1, <1>2, <1>3 DEF TypeOK
  <2>4. QED BY <1>1, <1>2, <1>3, <1>7, <2>1, <2>2, <2>3 DEF TypeOK
<1> HIDE DEF Told
<1>12. NothingWild'
  BY <1>3, <1>4 DEF NothingWild
<1>13. Lives'
  BY <1>1, <1>2, <1>3 DEF Lives, Pending
<1>14. CallsHeld'
  <2>1. ASSUME NEW j \in Requests, NEW s \in Resolvers
        PROVE  resolver'[s].call = j <=> (Pending(j)' /\ request'[j].by = s)
    <3>1. resolver[s].call = j <=> (Pending(j) /\ request[j].by = s)
      BY <1>1 DEF CallsHeld
    <3>2. Pending(j)' <=> (Pending(j) /\ j # k)
      BY <1>2 DEF Pending
    <3>3. CASE s = r
      BY <1>2, <1>7, <1>8, <3>2, <3>3
    <3>4. CASE s # r
      BY <1>2, <1>4, <1>7, <3>1, <3>2, <3>4
    <3>5. QED BY <3>3, <3>4
  <2>2. ASSUME NEW s \in Resolvers, resolver'[s].call # None
        PROVE  /\ resolver'[s].host = resolver'[s].call
               /\ resolver'[s].alive \/ hasty'
    BY <1>1, <1>3, <1>7, <2>2 DEF CallsHeld
  <2>3. {resolver'[s].call : s \in Resolvers} \ {None}
          = ({resolver[s].call : s \in Resolvers} \ {None}) \ {k}
    BY <1>4, <1>7
  <2>4. strings' = {resolver'[s].call : s \in Resolvers} \ {None}
    BY <1>1, <1>3, <1>4, <2>3 DEF CallsHeld
  <2>5. QED BY <2>1, <2>2, <2>4 DEF CallsHeld
<1>15. ResultsHeld'
  <2>1. \A s \in Resolvers :
          resolver'[s].result # None => resolver'[s].result = resolver'[s].call
    BY <1>1, <1>7 DEF ResultsHeld
  <2>2. ASSUME NEW j \in Requests, NEW s \in Resolvers,
               Pending(j)', request'[j].by = s
        PROVE  /\ resolver'[s].result = j <=>
                    (request'[j].thread \in {"resolved", "returned", "done"}
                       /\ request'[j].found)
               /\ request'[j].thread \in {"returned", "done"} =>
                    resolver'[s].ok = request'[j].found
    <3>1. j # k /\ Pending(j) /\ request[j].by = s
      BY <1>2, <2>2 DEF Pending
    <3>2. resolver'[s] = resolver[s]
      BY <1>7, <1>8, <3>1
    <3>3. QED BY <1>1, <1>2, <3>1, <3>2 DEF ResultsHeld
  <2>3. QED BY <2>1, <2>2 DEF ResultsHeld
<1>16. ListsHeld'
  <2>1. ai' # None => ai' = at'
    BY <1>3, <1>4
  <2>2. {resolver'[s].result : s \in Resolvers} \cup {ai', None}
          = {resolver[s].result : s \in Resolvers} \cup {None}
    <3>1. ASSUME NEW x
          PROVE  x \in {resolver'[s].result : s \in Resolvers} \cup {ai', None} <=>
                 x \in {resolver[s].result : s \in Resolvers} \cup {None}
      BY <1>3, <1>4, <1>7
    <3>2. QED BY <3>1
  <2>3. QED BY <1>1, <1>3, <1>5, <2>1, <2>2 DEF ListsHeld
<1>17. WordsRead'
  BY ONLY <1>1, <1>2 DEF WordsRead
<1>18. AnsweredIsOver'
  <2>1. \A i \in DOMAIN answers :
          /\ answers[i].lookup \in Requests
          /\ request[answers[i].lookup].read = "none"
          /\ request[answers[i].lookup].thread = "done"
    <3>1. \A i \in DOMAIN answers : answers[i] \in Told
      BY <1>10
    <3>2. QED BY <1>1, <3>1 DEF AnsweredIsOver, Pending, Told
  <2>2. \A i \in DOMAIN answers' :
          /\ request'[answers'[i].lookup].read = "none"
          /\ request'[answers'[i].lookup].thread = "done"
    <3>1. ASSUME NEW j \in Requests, request[j].thread = "done",
                 j = k \/ request[j].read = "none"
          PROVE  request'[j].read = "none" /\ request'[j].thread = "done"
      BY <1>2, <3>1
    <3>2. ASSUME NEW i \in DOMAIN answers, answers'[i] = answers[i]
          PROVE  /\ request'[answers'[i].lookup].read = "none"
                 /\ request'[answers'[i].lookup].thread = "done"
      BY <2>1, <3>1, <3>2
    <3>3. ASSUME NEW i \in DOMAIN answers', answers'[i] = a
          PROVE  /\ request'[answers'[i].lookup].read = "none"
                 /\ request'[answers'[i].lookup].thread = "done"
      BY <1>2, <1>9, <3>3
    <3>4. QED BY <1>10, <3>2, <3>3
  <2>3. QED BY <2>2 DEF AnsweredIsOver, Pending
<1>19. AnswersOwn'
  <2>1. \A i \in DOMAIN answers :
          /\ answers[i].lookup \in Requests
          /\ answers[i].lookup # k
    <3>1. \A i \in DOMAIN answers : answers[i] \in Told
      BY <1>10
    <3>2. QED BY <1>1, <1>2, <3>1 DEF AnsweredIsOver, Pending, Told
  <2>2. ASSUME NEW i \in DOMAIN answers'
        PROVE  /\ answers'[i].ok = request'[answers'[i].lookup].found
               /\ answers'[i].list = IF answers'[i].ok THEN answers'[i].lookup ELSE None
    <3>1. CASE i \in DOMAIN answers /\ answers'[i] = answers[i]
      <4>1. /\ answers[i].ok = request[answers[i].lookup].found
            /\ answers[i].list = IF answers[i].ok THEN answers[i].lookup ELSE None
        BY <1>1, <3>1 DEF AnswersOwn
      <4>2. \A j \in Requests : request'[j].found = request[j].found
        BY <1>2
      <4>3. QED BY <2>1, <3>1, <4>1, <4>2
    <3>2. CASE answers'[i] = a
      BY <1>2, <1>9, <3>2
    <3>3. QED BY <1>10, <3>1, <3>2
  <2>3. ASSUME NEW i \in DOMAIN answers', NEW j \in DOMAIN answers', i # j
        PROVE  answers'[i].lookup # answers'[j].lookup
    <3>1. CASE i \in DOMAIN answers /\ j \in DOMAIN answers
      <4>1. answers[i].lookup # answers[j].lookup
        BY <1>1, <2>3, <3>1 DEF AnswersOwn
      <4>2. Len(answers) + 1 \notin DOMAIN answers
        BY <1>10
      <4>3. QED BY <1>10, <3>1, <4>1, <4>2
    <3>2. CASE ~(i \in DOMAIN answers /\ j \in DOMAIN answers)
      BY <1>9, <1>10, <2>1, <2>3, <3>2
    <3>3. QED BY <3>1, <3>2
  <2>4. QED BY <2>2, <2>3 DEF AnswersOwn
<1>20. QED
  BY <1>11, <1>12, <1>13, <1>14, <1>15, <1>16, <1>17, <1>18, <1>19 DEF AsyncInv

LEMMA ReturnEndsKeeps ==
  ASSUME AsyncInv, NEW k \in Requests, ReturnEnds(k)
  PROVE  AsyncInv'
<1> USE NumbersTyped
<1> DEFINE q == Freed(request[k])
<1>1. /\ TypeOK /\ NothingWild /\ Lives /\ CallsHeld /\ ResultsHeld /\ ListsHeld
      /\ WordsRead /\ AnsweredIsOver /\ AnswersOwn
      /\ request[k] \in RequestStates /\ request \in [Requests -> RequestStates]
  BY DEF AsyncInv, TypeOK
<1>2. /\ at = k /\ at' = None /\ ai' = None
      /\ lists' = lists \ {ai}
      /\ request' = [request EXCEPT ![k] = q]
      /\ UNCHANGED <<resolver, strings, half, asked, answers, hasty, wild>>
  BY DEF ReturnEnds
<1>3. request[k].read = "none" /\ request[k].memory = "used" /\ request[k].thread = "done"
  BY <1>1, <1>2 DEF TypeOK, Lives
<1>4. /\ q \in RequestStates /\ q.by = request[k].by /\ q.memory = "freed"
      /\ q.read = "none" /\ q.signal = 0 /\ q.thread = "done"
      /\ q.found = request[k].found
  BY <1>1, <1>3, RecordsTyped DEF Freed, Unused
<1> HIDE DEF q
<1>5. /\ request' \in [Requests -> RequestStates] /\ request'[k] = q
      /\ \A j \in Requests : j # k => request'[j] = request[j]
  BY <1>1, <1>2, <1>4
<1>6. TypeOK'
  BY <1>1, <1>2, <1>3, <1>4, <1>5 DEF TypeOK
<1>7. NothingWild'
  BY <1>1, <1>2 DEF NothingWild
<1>8. Lives'
  BY <1>1, <1>2, <1>3, <1>4, <1>5 DEF Lives, Pending
<1>9. \A j \in Requests :
        /\ Pending(j)' <=> Pending(j)
        /\ request'[j].by = request[j].by /\ request'[j].found = request[j].found
        /\ request'[j].thread = request[j].thread
  BY <1>3, <1>4, <1>5 DEF Pending
<1>10. CallsHeld'
  BY <1>1, <1>2, <1>9 DEF CallsHeld
<1>11. ResultsHeld'
  BY <1>1, <1>2, <1>9 DEF ResultsHeld
<1>12. ListsHeld'
  <2>1. \A s \in Resolvers : resolver[s].result # None => resolver[s].result # k
    BY <1>1, <1>2, <1>3 DEF ResultsHeld, CallsHeld, Pending
  <2>2. QED BY <1>1, <1>2, <2>1 DEF ListsHeld
<1>13. WordsRead'
  BY ONLY <1>1, <1>4, <1>5 DEF WordsRead
<1>14. AnsweredIsOver' /\ AnswersOwn'
  BY <1>1, <1>2, <1>9, AnswersKept
<1>15. QED BY <1>6, <1>7, <1>8, <1>10, <1>11, <1>12, <1>13, <1>14 DEF AsyncInv

-----------------------------------------------------------------------------
(* The theorems. *)

LEMMA StepKeeps == AsyncInv /\ [Next]_vars => AsyncInv'
<1> SUFFICES ASSUME AsyncInv, [Next]_vars
             PROVE  AsyncInv'
  OBVIOUS
<1>1. CASE RunAsync
  BY <1>1, RunAsyncKeeps
<1>2. ASSUME NEW r \in Resolvers, Lookup(r) \/ Destruct(r)
      PROVE  AsyncInv'
  BY <1>2, LookupKeeps, DestructKeeps
<1>3. ASSUME NEW k \in Requests, NEW w \in Words, Cancel(k, w)
      PROVE  AsyncInv'
  BY <1>3, CancelKeeps
<1>4. ASSUME NEW k \in Requests, Thread(k)
      PROVE  AsyncInv'
  BY <1>4, ThreadReadsKeeps, ThreadRunsKeeps, ResolvesKeeps, ThreadSetsCodeKeeps,
     ThreadSignalsKeeps DEF Thread
<1>5. ASSUME NEW k \in Requests, ReadCompletes(k)
      PROVE  AsyncInv'
  BY <1>5, ReadCompletesKeeps
<1>6. CASE Loop
  BY <1>6, CancelEndsKeeps, ReturnKeeps, ReturnLookupKeeps, ReturnEndsKeeps DEF Loop
<1>7. CASE UNCHANGED vars
  BY <1>7 DEF vars, AsyncInv, TypeOK, NothingWild, Lives, CallsHeld, ResultsHeld,
     ListsHeld, WordsRead, AnsweredIsOver, AnswersOwn, Pending
<1>8. QED BY <1>1, <1>2, <1>3, <1>4, <1>5, <1>6, <1>7 DEF Next

\* The requests, the resolvers and their memory agree at every moment, whatever the
\* threads, the kernel, the loop and the application do in whatever order.
THEOREM AsyncCorrect == Spec => []AsyncInv
<1>1. Init => AsyncInv
  BY InitHolds
<1>2. AsyncInv /\ [Next]_vars => AsyncInv'
  BY StepKeeps
<1>3. QED BY <1>1, <1>2, PTL DEF Spec

LEMMA InvSound == AsyncInv => AsyncSound
<1> SUFFICES ASSUME AsyncInv
             PROVE  AsyncSound
  OBVIOUS
<1> USE NumbersTyped
<1>1. /\ TypeOK /\ NothingWild /\ Lives /\ CallsHeld /\ ResultsHeld /\ ListsHeld
      /\ WordsRead
  BY DEF AsyncInv
<1>2. ThreadsKeepMemory
  <2>1. ASSUME NEW k \in Requests,
               request[k].thread \in {"reads", "runs", "resolved", "returned"}
        PROVE  request[k].memory = "used" /\ Pending(k)
    BY <1>1, <2>1 DEF Lives, TypeOK, RequestStates
  <2>2. ASSUME NEW k \in Requests, request[k].thread \in {"reads", "runs"},
               request[k].by # App
        PROVE  resolver[request[k].by].host = k /\ k \in strings
    BY <2>1, <2>2, CallOf
  <2>3. QED BY <2>1, <2>2 DEF ThreadsKeepMemory
<1>3. ListsOwned
  <2>1. ASSUME NEW r \in Resolvers, resolver[r].result # None
        PROVE  resolver[r].result = resolver[r].call /\ resolver[r].result # ai
    <3> DEFINE k == resolver[r].call
    <3>1. resolver[r].result = k /\ k \in Requests
      BY <1>1, <2>1 DEF ResultsHeld, TypeOK, ResolverStates
    <3>2. Pending(k)
      BY <1>1, <3>1 DEF CallsHeld
    <3>3. k # at
      BY <1>1, <3>1, <3>2 DEF TypeOK, Pending
    <3>4. QED BY <1>1, <3>1, <3>3 DEF ListsHeld
  <2>2. QED BY <1>1, <2>1 DEF ListsOwned, ListsHeld, CallsHeld
<1>4. TornByCancelOnly
  <2>1. ASSUME NEW k \in Requests, request[k].thread = "runs",
               \A w \in Words : request[k].user[w] # "other"
        PROVE  Whole(request[k])
    <3>1. \A w \in Words : request[k].seen[w] = "own"
      <4>1. request[k].seen \in [Words -> {"own", "other", NoWord}]
        BY <1>1 DEF TypeOK, RequestStates
      <4>2. QED BY <1>1, <2>1, <4>1 DEF WordsRead
    <3>2. {request[k].seen[w] : w \in Words} = {"own"}
      BY <3>1 DEF Words
    <3>3. Cardinality({"own"}) = 1
      BY FS_Singleton
    <3>4. QED BY <3>2, <3>3 DEF Whole
  <2>2. QED BY <2>1 DEF TornByCancelOnly
<1>5. QED BY <1>1, <1>2, <1>3, <1>4 DEF AsyncSound, MemorySound

\* Threads, the loop and the application find in memory what they use, every list
\* has one owner, and no callback is torn but by reactor_cancel.
THEOREM AsyncSoundAlways == Spec => []AsyncSound
<1>1. AsyncInv => AsyncSound
  BY InvSound
<1>2. QED BY <1>1, AsyncCorrect, PTL

\* A lookup's callback is told what the thread of this lookup has found, and every
\* lookup is answered at most once.
THEOREM AnswersOwnAlways == Spec => []AnswersOwn
<1>1. AsyncInv => AnswersOwn
  BY DEF AsyncInv
<1>2. QED BY <1>1, AsyncCorrect, PTL
=============================================================================
