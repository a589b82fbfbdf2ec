-------------------------------- MODULE Async --------------------------------
(****************************************************************************)
(* reactor_async: a callback that is called in a thread of its own, and      *)
(* again in the loop when the thread is done; and resolver.c, which uses it  *)
(* to call getaddrinfo.                                                      *)
(*                                                                           *)
(* A request has its own thread, eventfd and read; they go by its number, as *)
(* do the strings and the list of addresses of a lookup.  What one thread    *)
(* writes and another reads is written and read a word at a time.  The       *)
(* behaviour ends where memory is used that was given back (wild).           *)
(****************************************************************************)
EXTENDS Integers, Sequences, FiniteSets

CONSTANTS
  Resolvers,
  MaxAsyncs      \* bound: calls of reactor_async

ASSUME AsyncsAssumption == MaxAsyncs \in Nat \ {0}

VARIABLES
  request,   \* the requests: reactor_async_state, thread and read
  resolver,  \* the resolvers
  strings,   \* host and port in memory
  lists,     \* lists of addresses in memory
  at,        \* the request in whose return callback the application runs
  ai,        \* the variable of resolver_async there
  half,      \* reactor_cancel has written one of two words: the request, the other
  asked,     \* calls of reactor_async so far
  answers,   \* history: the callbacks of the resolvers
  hasty,     \* history: a resolver was destroyed during a lookup
  wild       \* history: memory was used that had been given back

vars == <<request, resolver, strings, lists, at, ai, half, asked, answers, hasty,
          wild>>

None     == 0
Requests == 1 .. MaxAsyncs
Words    == {"callback", "state"}      \* of a reactor_user
App      == "application"              \* calls reactor_async itself
NoWord   == "none"

\* The application is not one of the resolvers.
ASSUME CallersAssumption == App \notin Resolvers

\* by: who called reactor_async; memory: the struct; user: its two words, those
\* that were registered or those of a reactor_cancel; seen: what the thread has
\* read of them.
RequestStates ==
  [by     : Resolvers \cup {App},
   memory : {"unused", "used", "freed"},
   user   : [Words -> {"own", "other"}],
   seen   : [Words -> {"own", "other", NoWord}],
   thread : {"none", "reads", "runs", "resolved", "returned", "done"},
   found  : BOOLEAN,
   signal : 0 .. 1,
   read   : {"none", "waits", "done"}]

ResolverStates ==
  [alive : BOOLEAN, call : Requests \cup {None}, ok : BOOLEAN,
   result : Requests \cup {None}, host : Requests \cup {None}]

\* Types; a thread that has begun belongs to a request, and the return callback
\* to one whose thread is done.
TypeOK ==
  /\ request \in [Requests -> RequestStates]
  /\ resolver \in [Resolvers -> ResolverStates]
  /\ strings \subseteq Requests /\ lists \subseteq Requests
  /\ at \in Requests \cup {None} /\ ai \in Requests \cup {None}
  /\ half \in (Requests \X Words) \cup {<<>>}
  /\ asked \in 0 .. MaxAsyncs
  /\ answers \in Seq([lookup : Requests, ok : BOOLEAN, list : Requests \cup {None}])
  /\ hasty \in BOOLEAN /\ wild \in BOOLEAN
  /\ \A k \in Requests : (request[k].memory = "unused") = (k > asked)
  /\ at # None => request[at].signal = 1 /\ request[at].read = "none"

Unused == [by |-> App, memory |-> "unused", user |-> [w \in Words |-> "own"],
           seen |-> [w \in Words |-> NoWord], thread |-> "none", found |-> FALSE,
           signal |-> 0, read |-> "none"]

\* resolver_construct
Init ==
  /\ request = [k \in Requests |-> Unused]
  /\ resolver = [r \in Resolvers |->
       [alive |-> TRUE, call |-> None, ok |-> FALSE, result |-> None, host |-> None]]
  /\ strings = {} /\ lists = {}
  /\ at = None /\ ai = None /\ half = <<>> /\ asked = 0
  /\ answers = <<>> /\ hasty = FALSE /\ wild = FALSE

-----------------------------------------------------------------------------
(* Calls of the application, between callbacks or inside a return callback *)

MayCall == ~wild /\ half = <<>>
MayAsk  == MayCall /\ asked < MaxAsyncs

\* reactor_async: the eventfd, its read, the thread.
Asked(by) ==
  [Unused EXCEPT !.by = by, !.memory = "used", !.thread = "reads", !.read = "waits"]

RunAsync ==
  /\ MayAsk
  /\ asked' = asked + 1
  /\ request' = [request EXCEPT ![asked + 1] = Asked(App)]
  /\ UNCHANGED <<resolver, strings, lists, at, ai, half, answers, hasty, wild>>

\* resolver_lookup, which asserts that there is no call.
Lookup(r) ==
  /\ MayAsk
  /\ resolver[r].alive /\ resolver[r].call = None
  /\ asked' = asked + 1
  /\ strings' = strings \cup {asked + 1}
  /\ request' = [request EXCEPT ![asked + 1] = Asked(r)]
  /\ resolver' = [resolver EXCEPT ![r].host = asked + 1, ![r].call = asked + 1]
  /\ UNCHANGED <<lists, at, ai, half, answers, hasty, wild>>

\* resolver_destruct does nothing; the application gives the resolver back after
\* it.
Destruct(r) ==
  /\ MayCall
  /\ resolver[r].alive
  /\ resolver' = [resolver EXCEPT ![r].alive = FALSE]
  /\ hasty' = (hasty \/ resolver[r].call # None)
  /\ UNCHANGED <<request, strings, lists, at, ai, half, asked, answers, wild>>

\* reactor_cancel on a request that is not in the ring: two words are written, in
\* the order the compiler likes.  Resolvers do not cancel.  The application has the
\* id until the request returns.
Cancel(k, w) ==
  /\ MayCall
  /\ request[k].by = App /\ request[k].read # "none" /\ request[k].user[w] = "own"
  /\ request' = [request EXCEPT ![k].user[w] = "other"]
  /\ half' = <<k, CHOOSE v \in Words : v # w>>
  /\ UNCHANGED <<resolver, strings, lists, at, ai, asked, answers, hasty, wild>>

CancelEnds ==
  /\ half # <<>> /\ ~wild
  /\ request' = [request EXCEPT ![half[1]].user[half[2]] = "other"]
  /\ half' = <<>>
  /\ UNCHANGED <<resolver, strings, lists, at, ai, asked, answers, hasty, wild>>

-----------------------------------------------------------------------------
(* The thread: reactor_async_call *)

\* reactor_call reads the words of the user, in either order.
ThreadReads(k, w) ==
  /\ ~wild /\ request[k].thread = "reads" /\ request[k].seen[w] = NoWord
  /\ LET seen == [request[k].seen EXCEPT ![w] = request[k].user[w]]
     IN  request' = [request EXCEPT
           ![k].seen = seen,
           ![k].thread = IF NoWord \in {seen[v] : v \in Words} THEN "reads" ELSE "runs"]
  /\ wild' = (request[k].memory # "used")
  /\ UNCHANGED <<resolver, strings, lists, at, ai, half, asked, answers, hasty>>

\* The callback in the thread, for an application of its own.
ThreadRuns(k) ==
  /\ ~wild /\ request[k].thread = "runs" /\ request[k].by = App
  /\ request' = [request EXCEPT ![k].thread = "returned"]
  /\ UNCHANGED <<resolver, strings, lists, at, ai, half, asked, answers, hasty, wild>>

\* resolver_async with REACTOR_CALL, in two steps: getaddrinfo reads the strings
\* and, when it finds something, writes resolver->result;
Resolves(k) ==
  /\ ~wild /\ request[k].thread = "runs" /\ request[k].by # App
  /\ LET r == request[k].by IN
     /\ wild' = ~(resolver[r].alive /\ resolver[r].host \in strings)
     /\ \E found \in BOOLEAN :
          /\ request' = [request EXCEPT ![k].thread = "resolved", ![k].found = found]
          /\ resolver' = IF found THEN [resolver EXCEPT ![r].result = k] ELSE resolver
          /\ lists' = IF found THEN lists \cup {k} ELSE lists
  /\ UNCHANGED <<strings, at, ai, half, asked, answers, hasty>>

\* what it returns is assigned to resolver->code.
ThreadSetsCode(k) ==
  /\ ~wild /\ request[k].thread = "resolved"
  /\ request' = [request EXCEPT ![k].thread = "returned"]
  /\ resolver' = [resolver EXCEPT ![request[k].by].ok = request[k].found]
  /\ wild' = ~resolver[request[k].by].alive
  /\ UNCHANGED <<strings, lists, at, ai, half, asked, answers, hasty>>

ThreadSignalsEarly(k) ==                                            \* mutant
  /\ ~wild /\ request[k].thread \in {"resolved", "returned"} /\ request[k].signal = 0
  /\ wild' = (request[k].memory # "used")
  /\ request' = [request EXCEPT ![k].signal = 1,
                   ![k].thread = IF @ = "returned" THEN "done" ELSE @]
  /\ UNCHANGED <<resolver, strings, lists, at, ai, half, asked, answers, hasty>>

ThreadSignalsAlive(k) ==                                            \* mutant
  /\ ~wild /\ request[k].thread = "returned" /\ request[k].found
  /\ wild' = (request[k].memory # "used")
  /\ request' = [request EXCEPT ![k].signal = 1, ![k].thread = "done",
                   ![k].seen = Unused.seen]
  /\ UNCHANGED <<resolver, strings, lists, at, ai, half, asked, answers, hasty>>

\* The eventfd is written and the thread ends.
ThreadSignals(k) ==
  /\ ~wild /\ request[k].thread = "returned"
  /\ wild' = (request[k].memory # "used")
  /\ request' = [request EXCEPT ![k].signal = 1, ![k].thread = "done",
                   ![k].seen = Unused.seen]
  /\ UNCHANGED <<resolver, strings, lists, at, ai, half, asked, answers, hasty>>

\* The kernel completes the read of the eventfd.
ReadCompletes(k) ==
  /\ ~wild /\ request[k].read = "waits" /\ request[k].signal = 1
  /\ request' = [request EXCEPT ![k].read = "done"]
  /\ UNCHANGED <<resolver, strings, lists, at, ai, half, asked, answers, hasty, wild>>

-----------------------------------------------------------------------------
(* The loop: reactor_async_return *)

MayReturn(k) == ~wild /\ half = <<>> /\ at = None /\ request[k].read = "done"

\* The application's callback, or the one reactor_cancel has put there.
Return(k) ==
  /\ MayReturn(k) /\ request[k].by = App
  /\ at' = k
  /\ request' = [request EXCEPT ![k].read = "none"]
  /\ UNCHANGED <<resolver, strings, lists, ai, half, asked, answers, hasty, wild>>

Answer(k, r) == [lookup |-> k, ok |-> resolver[r].ok, list |-> resolver[r].result]

\* resolver_async with REACTOR_RETURN, up to the callback: the resolver is as new
\* before the application runs, which may start the next lookup there.
ReturnLookup(k) ==
  /\ MayReturn(k) /\ request[k].by # App
  /\ LET r == request[k].by IN
     /\ wild' = ~(resolver[r].alive /\ resolver[r].host \in strings)
     /\ strings' = strings \ {resolver[r].host}
     /\ ai' = resolver[r].result
     /\ resolver' = [resolver EXCEPT ![r].call = None, ![r].result = None]
     /\ answers' = Append(answers, Answer(k, r))
  /\ at' = k
  /\ request' = [request EXCEPT ![k].read = "none"]
  /\ UNCHANGED <<lists, half, asked, hasty>>

\* What is left of a request when its struct is given back.
Freed(q) == [Unused EXCEPT !.by = q.by, !.memory = "freed", !.thread = q.thread,
                           !.seen = q.seen, !.found = q.found]

ReturnEndsWithResult(k) ==                                          \* mutant
  /\ ~wild /\ half = <<>> /\ at = k
  /\ at' = None /\ ai' = None
  /\ LET list == IF request[k].by = App THEN None ELSE resolver[request[k].by].result
     IN  lists' = lists \ {list}
  /\ request' = [request EXCEPT ![k] = Freed(@)]
  /\ UNCHANGED <<resolver, strings, half, asked, answers, hasty, wild>>

\* The rest: freeaddrinfo of the list that was handed over; the eventfd is closed
\* and the struct given back.
ReturnEnds(k) ==
  /\ ~wild /\ half = <<>> /\ at = k
  /\ at' = None /\ ai' = None
  /\ lists' = lists \ {ai}
  /\ request' = [request EXCEPT ![k] = Freed(@)]
  /\ UNCHANGED <<resolver, strings, half, asked, answers, hasty, wild>>

-----------------------------------------------------------------------------

Thread(k) ==
  \/ \E w \in Words : ThreadReads(k, w)
  \/ ThreadRuns(k) \/ Resolves(k) \/ ThreadSetsCode(k) \/ ThreadSignals(k)

Loop == \/ CancelEnds
        \/ \E k \in Requests : Return(k) \/ ReturnLookup(k) \/ ReturnEnds(k)

Next ==
  \/ RunAsync
  \/ \E r \in Resolvers : Lookup(r) \/ Destruct(r)
  \/ \E k \in Requests, w \in Words : Cancel(k, w)
  \/ \E k \in Requests : Thread(k) \/ ReadCompletes(k)
  \/ Loop

Spec == Init /\ [][Next]_vars

\* Threads run, getaddrinfo returns, the kernel completes the reads of eventfds that
\* were written, and the loop runs.
FairSpec ==
  /\ Spec /\ WF_vars(Loop)
  /\ \A k \in Requests : WF_vars(Thread(k)) /\ WF_vars(ReadCompletes(k))

-----------------------------------------------------------------------------
(* Properties *)

\* Nothing is used that was given back, as long as no resolver is destroyed during
\* its lookup: the loop gives back a request after its thread's last access, and
\* the strings after getaddrinfo has read them.
NothingWild == wild => hasty

\* A struct stays until its thread has written the eventfd; the strings of a lookup
\* stay until the thread has read them.
ThreadsKeepMemory ==
  \A k \in Requests :
    /\ request[k].thread \in {"reads", "runs", "resolved", "returned"}
         => request[k].memory = "used"
    /\ ~hasty /\ request[k].thread \in {"reads", "runs"} /\ request[k].by # App
         => resolver[request[k].by].host = k /\ k \in strings

MemorySound == NothingWild /\ ThreadsKeepMemory

\* Every list getaddrinfo has made has one owner until it is freed: the resolver
\* during the lookup, the handler after it.  None is leaked, none is freed under
\* the callback that was given it.
ListsOwned ==
  ~wild =>
    /\ lists = ({resolver[r].result : r \in Resolvers} \cup {ai}) \ {None}
    /\ \A r \in Resolvers :
         resolver[r].result # None =>
           /\ resolver[r].result = resolver[r].call
           /\ resolver[r].result # ai
    /\ strings = {resolver[r].call : r \in Resolvers} \ {None}

\* The words the thread has read are of one user.
Whole(q) == Cardinality({q.seen[w] : w \in Words}) = 1

\* A callback is called with its own state, unless reactor_cancel wrote the user while
\* the thread read it.
TornByCancelOnly ==
  \A k \in Requests : request[k].thread = "runs" /\ ~Whole(request[k]) =>
    \E w \in Words : request[k].user[w] = "other"

\* Threads, the loop and the application share the requests and the resolvers, and
\* each finds in memory what it uses.
AsyncSound == TypeOK /\ MemorySound /\ ListsOwned /\ TornByCancelOnly

\* The same without the exception: it does not hold.
PairIntact ==
  \A k \in Requests : request[k].thread = "runs" => Whole(request[k])

\* The callback is told of its own lookup: the code and the list are those the
\* thread of this lookup has made, also when the next lookup was begun in the
\* callback of another.
AnswersOwn ==
  /\ \A i \in DOMAIN answers : LET a == answers[i] IN
       /\ a.ok = request[a.lookup].found
       /\ a.list = IF a.ok THEN a.lookup ELSE None
  /\ \A i, j \in DOMAIN answers : i # j => answers[i].lookup # answers[j].lookup

\* A request waits for its thread until the loop takes it up.
Pending(k) == request[k].read # "none"

\* The life of a request: the struct is used from reactor_async to the end of the
\* return callback, which runs after the thread has written the eventfd.
Lives ==
  \A k \in Requests :
    /\ request[k].memory = "used" <=> (Pending(k) \/ at = k)
    /\ request[k].memory = "unused" <=> request[k].thread = "none"
    /\ request[k].memory = "freed" => request[k].thread = "done"
    /\ at = k \/ request[k].read = "done" => request[k].signal = 1
    /\ request[k].signal = 1 => request[k].thread = "done"
    /\ request[k].thread = "resolved" => request[k].by # App

\* A resolver and the request of its lookup name each other until the request is
\* taken up, and the strings in memory are theirs.
CallsHeld ==
  /\ \A k \in Requests, r \in Resolvers :
       resolver[r].call = k <=> (Pending(k) /\ request[k].by = r)
  /\ \A r \in Resolvers :
       resolver[r].call # None =>
         resolver[r].host = resolver[r].call /\ (resolver[r].alive \/ hasty)
  /\ strings = {resolver[r].call : r \in Resolvers} \ {None}

\* A resolver holds what the thread of its lookup has found, as soon as it has found
\* it, and the code of it when the thread is at its end.
ResultsHeld ==
  /\ \A r \in Resolvers :
       resolver[r].result # None => resolver[r].result = resolver[r].call
  /\ \A k \in Requests, r \in Resolvers :
       Pending(k) /\ request[k].by = r =>
         /\ resolver[r].result = k <=>
              (request[k].thread \in {"resolved", "returned", "done"} /\ request[k].found)
         /\ request[k].thread \in {"returned", "done"} =>
              resolver[r].ok = request[k].found

\* The lists in memory are those of the resolvers and of the callback that runs.
ListsHeld ==
  /\ ai # None => ai = at
  /\ lists = ({resolver[r].result : r \in Resolvers} \cup {ai}) \ {None}

\* A thread finds the word of another user only after reactor_cancel wrote one.
WordsRead ==
  \A k \in Requests :
    /\ request[k].thread = "runs" => \A w \in Words : request[k].seen[w] # NoWord
    /\ request[k].thread \in {"reads", "runs"} =>
         \A w \in Words : request[k].seen[w] = "other" =>
           \E v \in Words : request[k].user[v] = "other"

\* A lookup that was answered is over.
AnsweredIsOver ==
  \A i \in DOMAIN answers :
    /\ ~Pending(answers[i].lookup)
    /\ request[answers[i].lookup].thread = "done"

\* The inductive invariant of the requests and the resolvers.
AsyncInv ==
  /\ TypeOK /\ NothingWild /\ Lives /\ CallsHeld /\ ResultsHeld /\ ListsHeld
  /\ WordsRead /\ AnsweredIsOver /\ AnswersOwn

\* Every lookup is answered, unless its resolver was destroyed.
LookupsAnswered ==
  \A k \in Requests :
    (asked >= k /\ request[k].by # App)
      ~> (hasty \/ \E i \in DOMAIN answers : answers[i].lookup = k)
==============================================================================
