------------------------------- MODULE Reactor -------------------------------
(****************************************************************************)
(* The reactor core, reactor.c: the pool of users (one slot per pending     *)
(* operation, holding the callback to run), the io_uring submission and     *)
(* completion queues, the vector of "next" calls, and the loop that turns   *)
(* completions into callbacks.  One thread runs application code and the    *)
(* loop; the kernel consumes submissions while that thread is inside        *)
(* io_uring_enter and posts completions at any time.                        *)
(*                                                                          *)
(* An operation is a number, fresh for every call of the API; the code has  *)
(* no such number, only the address of the user slot, which is reused.  The *)
(* numbers are what lets a property say that an address still means what it *)
(* meant when it was stored.                                                *)
(****************************************************************************)
EXTENDS Integers, Sequences, FiniteSets

CONSTANTS
  Users,     \* the slots of the user pool the run may occupy at once
  NoUser,    \* the target of a submission that is not a cancellation
  SqSize,    \* entries of the submission queue (REACTOR_RING_SIZE)
  CqSize,    \* entries of the completion queue
  MaxOps,    \* bound: operations an execution may start
  MaxShots   \* bound: events a multishot poll reports before its last one

ASSUME UsersAssumption  == NoUser \notin Users
ASSUME SizesAssumption  == SqSize \in Nat \ {0} /\ CqSize \in Nat \ {0}
ASSUME BoundsAssumption == MaxOps \in Nat /\ MaxShots \in Nat

Ops   == 1 .. MaxOps
NoOp  == 0

\* The ways an operation of the ring can complete: once; once per event until a
\* last one; with a result and then a notification; and a cancellation, which
\* completes once and ends another operation.
OneShot      == "io"
MultiShot    == "multi"
ZeroCopy     == "zc"
Cancellation == "cancel"
Kinds == {OneShot, MultiShot, ZeroCopy, Cancellation}

\* What a user slot calls: the callback given with the operation, the one
\* reactor_cancel was given instead, or reactor_user_callback, which does
\* nothing (a NULL callback).
Callbacks == {"own", "swapped", "noop"}

VARIABLES
  owner,     \* pool: the operation each slot is allocated to, NoOp when free
  callback,  \* user->callback of each slot (a free slot keeps its last one)
  nops,      \* number of operations started so far
  ids,       \* the reactor_ids application code still holds
  sq,        \* submission queue, oldest first
  inflight,  \* what the kernel has accepted and not yet finished
  cq,        \* completion queue, oldest first
  next,      \* reactor.next: users to call before the next wait
  i,         \* reactor_loop_once: index into next, from 1
  pc,        \* where the reactor's thread is
  once,      \* it is in reactor_loop_once called by the application
  held,      \* the submission that waits for reactor_ring_flush: one or none
  ret,       \* where the application continues after that flush
  cur,       \* the completion entry cqe points to
  quiet,     \* operations whose own callback must not run (again)
  lapped     \* the kernel overwrote the entry cqe pointed to, before its use

vars == <<owner, callback, nops, ids, sq, inflight, cq, next, i, pc, once,
          held, ret, cur, quiet, lapped>>

-----------------------------------------------------------------------------
(* Types *)

Sqes      == [kind : Kinds, user : Users, op : Ops,
              target : Users \cup {NoUser}, aim : Ops \cup {NoOp}]
Requests  == [kind : Kinds, user : Users, op : Ops,
              shots : Nat, stop : BOOLEAN]
Cqes      == [kind : Kinds, user : Users, op : Ops,
              more : BOOLEAN, notif : BOOLEAN]
NextUsers == [user : Users, op : Ops]
Ids       == [user : Users, op : Ops, ring : BOOLEAN]
NoCqe     == [kind |-> OneShot, user |-> NoUser, op |-> NoOp,
              more |-> FALSE, notif |-> FALSE]

AppPcs  == {"app", "nextcall", "call"}
LoopPcs == {"while", "next", "enter", "drain", "taken"}
Pcs     == AppPcs \cup LoopPcs \cup {"flush"}

\* Where the application's innermost frame is, through a flush.
Frame == IF pc = "flush" THEN ret ELSE pc

Typed ==
  /\ owner \in [Users -> Ops \cup {NoOp}]
  /\ callback \in [Users -> Callbacks]
  /\ nops \in 0 .. MaxOps
  /\ ids \subseteq Ids
  /\ sq \in Seq(Sqes)
  /\ inflight \subseteq Requests
  /\ cq \in Seq(Cqes)
  /\ next \in Seq(NextUsers)
  /\ i \in Nat \ {0}
  /\ pc \in Pcs
  /\ once \in BOOLEAN
  /\ held \in Seq(Sqes)
  /\ ret \in AppPcs
  /\ cur \in Cqes \cup {NoCqe}
  /\ quiet \subseteq Ops
  /\ lapped \in BOOLEAN

\* Every variable has its type, and the parts of the control state agree: a
\* submission is held back exactly during a flush, cqe is set exactly while a
\* completion is handled, next is walked within its bounds, and neither queue
\* holds more than its ring.
TypeOK ==
  /\ Typed
  /\ Len(held) = (IF pc = "flush" THEN 1 ELSE 0)
  /\ cur # NoCqe <=> Frame \in {"taken", "call"}
  /\ Frame = "nextcall" => i <= Len(next)
  /\ Len(sq) <= SqSize /\ Len(cq) <= CqSize

-----------------------------------------------------------------------------
(* The user pool *)

Busy == {u \in Users : owner[u] # NoOp}     \* pool_size is its cardinality

Init ==
  /\ owner = [u \in Users |-> NoOp]
  /\ callback \in [Users -> {"noop"}]
  /\ nops = 0 /\ ids = {} /\ quiet = {}
  /\ sq = <<>> /\ inflight = {} /\ cq = <<>>
  /\ next = <<>> /\ i = 1
  /\ pc = "app" /\ once = FALSE /\ ret = "app"
  /\ held = <<>> /\ cur = NoCqe /\ lapped = FALSE

\* reactor_alloc_user: any free slot may be handed out.
AllocUser(u, how) ==
  /\ nops < MaxOps
  /\ u \notin Busy
  /\ nops' = nops + 1
  /\ owner' = [owner EXCEPT ![u] = nops + 1]
  /\ callback' = [callback EXCEPT ![u] = how]

FreeUser(u) == owner' = [owner EXCEPT ![u] = NoOp]

-----------------------------------------------------------------------------
(* The API, called by application code: outside the loop or in a callback *)

\* reactor_ring_sqe: the entry goes to the tail of the submission queue; a full
\* queue is flushed first.
RingSqe(sqe) ==
  IF Len(sq) = SqSize
  THEN /\ held' = <<sqe>> /\ ret' = pc /\ pc' = "flush"
       /\ UNCHANGED sq
  ELSE /\ sq' = Append(sq, sqe)
       /\ UNCHANGED <<held, ret, pc>>

SqeOwnAddress(kind, u, target, aim) ==                              \* mutant
  [kind |-> kind, user |-> u, op |-> nops + 1,
   target |-> IF target = NoUser THEN NoUser ELSE u, aim |-> aim]

Sqe(kind, u, target, aim) ==
  [kind |-> kind, user |-> u, op |-> nops + 1, target |-> target, aim |-> aim]

\* reactor_nop ... reactor_close: allocate a user, fill in an entry, return the
\* user's address as id.  Without a callback the application keeps no id.
SubmitOneShot(u, how) ==
  /\ pc \in AppPcs
  /\ AllocUser(u, how)
  /\ RingSqe(Sqe(OneShot, u, NoUser, NoOp))
  /\ IF how = "own"
     THEN /\ ids' = ids \cup {[user |-> u, op |-> nops + 1, ring |-> TRUE]}
          /\ UNCHANGED quiet
     ELSE /\ quiet' = quiet \cup {nops + 1}
          /\ UNCHANGED ids
  /\ UNCHANGED <<inflight, cq, next, i, once, cur, lapped>>

\* reactor_poll_add_multi and reactor_send_zerocopy: one submission, several
\* completions.
SubmitMultiShot(u, kind) ==
  /\ pc \in AppPcs
  /\ kind \in {MultiShot, ZeroCopy}
  /\ AllocUser(u, "own")
  /\ RingSqe(Sqe(kind, u, NoUser, NoOp))
  /\ ids' = ids \cup {[user |-> u, op |-> nops + 1, ring |-> TRUE]}
  /\ UNCHANGED <<quiet, inflight, cq, next, i, once, cur, lapped>>

\* reactor_async_cancel and reactor_poll_remove called by the application: an
\* operation of its own, that names another one by the address of its user.
AsyncCancel(u, id) ==
  /\ pc \in AppPcs
  /\ id.ring
  /\ AllocUser(u, "own")
  /\ RingSqe(Sqe(Cancellation, u, id.user, id.op))
  /\ ids' = ids \cup {[user |-> u, op |-> nops + 1, ring |-> TRUE]}
  /\ UNCHANGED <<quiet, inflight, cq, next, i, once, cur, lapped>>

\* reactor_next: the user waits in the vector instead of the ring.
SubmitNext(u) ==
  /\ pc \in AppPcs
  /\ AllocUser(u, "own")
  /\ next' = Append(next, [user |-> u, op |-> nops + 1])
  /\ ids' = ids \cup {[user |-> u, op |-> nops + 1, ring |-> FALSE]}
  /\ UNCHANGED <<quiet, sq, inflight, cq, i, pc, once, held, ret, cur, lapped>>

\* *user = reactor_user_define(callback, state), in reactor_cancel.
RedirectLost(calls, u, how) == calls                              \* mutant
Redirect(calls, u, how) == [calls EXCEPT ![u] = how]

\* reactor_cancel of an id marked "not iouring": only the callback is replaced.
CancelNext(id, how) ==
  /\ pc \in AppPcs
  /\ ~id.ring
  /\ how \in {"swapped", "noop"}
  /\ callback' = Redirect(callback, id.user, how)
  /\ ids' = ids \ {id}
  /\ quiet' = quiet \cup {id.op}
  /\ UNCHANGED <<owner, nops, sq, inflight, cq, next, i, pc, once, held, ret,
                 cur, lapped>>

\* reactor_cancel of a ring operation: its callback is replaced, then a user
\* without callback is allocated for the IORING_OP_ASYNC_CANCEL.
CancelRing(u, id, how) ==
  /\ pc \in AppPcs
  /\ id.ring
  /\ how \in {"swapped", "noop"}
  /\ nops < MaxOps /\ u \notin Busy
  /\ callback' = Redirect([callback EXCEPT ![u] = "noop"], id.user, how)
  /\ owner' = [owner EXCEPT ![u] = nops + 1]
  /\ nops' = nops + 1
  /\ RingSqe(Sqe(Cancellation, u, id.user, id.op))
  /\ ids' = ids \ {id}
  /\ quiet' = quiet \cup {id.op, nops + 1}
  /\ UNCHANGED <<inflight, cq, next, i, once, cur, lapped>>

\* reactor_ring_flush returns once the kernel has taken the whole queue, and
\* the held entry becomes the first one of the empty queue.
FlushDone ==
  /\ pc = "flush"
  /\ sq = <<>>
  /\ sq' = held
  /\ held' = <<>> /\ pc' = ret /\ ret' = "app"
  /\ UNCHANGED <<owner, callback, nops, ids, inflight, cq, next, i, once, cur,
                 quiet, lapped>>

-----------------------------------------------------------------------------
(* The kernel's side of the ring *)

Request(e, stop) ==
  [kind |-> e.kind, user |-> e.user, op |-> e.op, stop |-> stop,
   shots |-> CASE e.kind = MultiShot -> MaxShots
               [] e.kind = ZeroCopy    -> 1
               [] OTHER            -> 0]

Hit(e) == {r \in inflight : r.user = e.target}   \* user_data = addr

\* Inside io_uring_enter the kernel takes submissions in order.  A cancellation
\* acts when it is taken, on the requests with that user_data it finds then;
\* whatever it finds (0, -ENOENT or -EALREADY) it completes soon.
KernelTake ==
  /\ pc \in {"enter", "flush"}
  /\ sq # <<>>
  /\ LET e == Head(sq) IN
       inflight' = IF e.kind = Cancellation
                   THEN (inflight \ Hit(e))
                          \cup {[r EXCEPT !.stop = TRUE] : r \in Hit(e)}
                          \cup {Request(e, TRUE)}
                   ELSE inflight \cup {Request(e, FALSE)}
  /\ sq' = Tail(sq)
  /\ UNCHANGED <<owner, callback, nops, ids, cq, next, i, pc, once, held, ret,
                 cur, quiet, lapped>>

Cqe(r, more, notif) ==
  [kind |-> r.kind, user |-> r.user, op |-> r.op, more |-> more,
   notif |-> notif]

\* An event of a multishot poll, or the result of a zerocopy send.
KernelMore(r) ==
  /\ r.shots > 0
  /\ Len(cq) < CqSize
  /\ cq' = Append(cq, Cqe(r, TRUE, FALSE))
  /\ inflight' = (inflight \ {r}) \cup {[r EXCEPT !.shots = @ - 1]}
  /\ UNCHANGED <<owner, callback, nops, ids, sq, next, i, pc, once, held, ret,
                 cur, quiet, lapped>>

\* The last completion of a request: for a zerocopy send whose result is out,
\* the notification that the buffer is free.
KernelLast(r) ==
  /\ Len(cq) < CqSize
  /\ cq' = Append(cq, Cqe(r, FALSE, r.kind = ZeroCopy /\ r.shots = 0))
  /\ inflight' = inflight \ {r}
  /\ UNCHANGED <<owner, callback, nops, ids, sq, next, i, pc, once, held, ret,
                 cur, quiet, lapped>>

-----------------------------------------------------------------------------
(* reactor_loop and reactor_loop_once *)

RunLoop ==
  /\ pc = "app"
  /\ pc' = "while" /\ once' = FALSE
  /\ UNCHANGED <<owner, callback, nops, ids, sq, inflight, cq, next, i, held,
                 ret, cur, quiet, lapped>>

RunOnce ==
  /\ pc = "app"
  /\ pc' = "next" /\ once' = TRUE
  /\ UNCHANGED <<owner, callback, nops, ids, sq, inflight, cq, next, i, held,
                 ret, cur, quiet, lapped>>

LoopTest ==
  /\ pc = "while"
  /\ pc' = IF Busy # {} THEN "next" ELSE "app"
  /\ UNCHANGED <<owner, callback, nops, ids, sq, inflight, cq, next, i, once,
                 held, ret, cur, quiet, lapped>>

\* The callback starts; the application forgets the id it is called for.
NextCall ==
  /\ pc = "next"
  /\ i <= Len(next)
  /\ pc' = "nextcall"
  /\ ids' = {id \in ids : id.op # next[i].op}
  /\ quiet' = quiet \cup {next[i].op}
  /\ UNCHANGED <<owner, callback, nops, sq, inflight, cq, next, i, once, held,
                 ret, cur, lapped>>

NextReturn ==
  /\ pc = "nextcall"
  /\ FreeUser(next[i].user)
  /\ i' = i + 1
  /\ pc' = "next"
  /\ UNCHANGED <<callback, nops, ids, sq, inflight, cq, next, once, held, ret,
                 cur, quiet, lapped>>

AfterOnceLeaves == "app"                                            \* mutant
AfterOnce == IF once THEN "app" ELSE "while"

NextDoneEarly ==                                                    \* mutant
  /\ pc = "next" /\ i > 1
  /\ next' = <<>> /\ i' = 1 /\ pc' = "enter"
  /\ UNCHANGED <<owner, callback, nops, ids, sq, inflight, cq, once, held, ret,
                 cur, quiet, lapped>>

\* vector_clear, and the second pool_size test: with nothing pending there is
\* nothing to wait for.
NextDone ==
  /\ pc = "next"
  /\ i > Len(next)
  /\ next' = <<>> /\ i' = 1
  /\ pc' = IF Busy # {} THEN "enter" ELSE AfterOnce
  /\ UNCHANGED <<owner, callback, nops, ids, sq, inflight, cq, once, held, ret,
                 cur, quiet, lapped>>

\* reactor_ring_update: all is submitted and at least one completion is there.
EnterDone ==
  /\ pc = "enter"
  /\ sq = <<>>
  /\ cq # <<>>
  /\ pc' = "drain"
  /\ UNCHANGED <<owner, callback, nops, ids, sq, inflight, cq, next, i, once,
                 held, ret, cur, quiet, lapped>>

\* reactor_ring_cqe: cqe points into the ring, and the head has moved past it,
\* which gives the entry back to the kernel.
RingCqe ==
  /\ pc = "drain"
  /\ cq # <<>>
  /\ cur' = Head(cq)
  /\ cq' = Tail(cq)
  /\ pc' = "taken"
  /\ UNCHANGED <<owner, callback, nops, ids, sq, inflight, next, i, once, held,
                 ret, quiet, lapped>>

RingEmpty ==
  /\ pc = "drain"
  /\ cq = <<>>
  /\ pc' = AfterOnce
  /\ UNCHANGED <<owner, callback, nops, ids, sq, inflight, cq, next, i, once,
                 held, ret, cur, quiet, lapped>>

\* What *cqe reads now: the ring has CqSize entries, so the last one of a full
\* queue lies in the entry that was given back.
Overwritten == Len(cq) = CqSize
Slot == IF Overwritten THEN cq[CqSize] ELSE cur

\* user, flags and res are read, and the callback starts.  The application
\* knows from the operation and its result whether the id is used up.
CqeCall ==
  /\ pc = "taken"
  /\ ~Slot.notif
  /\ cur' = Slot
  /\ lapped' = (lapped \/ Overwritten)
  /\ pc' = "call"
  /\ IF Slot.kind = MultiShot /\ Slot.more
     THEN UNCHANGED <<ids, quiet>>
     ELSE /\ ids' = {id \in ids : id.op # Slot.op}
          /\ quiet' = quiet \cup {Slot.op}
  /\ UNCHANGED <<owner, callback, nops, sq, inflight, cq, next, i, once, held,
                 ret>>

FinishAlwaysFrees(user) ==                                          \* mutant
  /\ FreeUser(user)
  /\ lapped' = (lapped \/ Overwritten) /\ cur' = NoCqe /\ pc' = "drain"
  /\ UNCHANGED <<callback, nops, ids, sq, inflight, cq, next, i, once, held,
                 ret, quiet>>

FinishKeepsNotified(user) ==                                        \* mutant
  /\ IF Slot.more \/ Slot.notif THEN UNCHANGED owner ELSE FreeUser(user)
  /\ lapped' = (lapped \/ Overwritten) /\ cur' = NoCqe /\ pc' = "drain"
  /\ UNCHANGED <<callback, nops, ids, sq, inflight, cq, next, i, once, held,
                 ret, quiet>>

\* The flags are read again, through the same pointer, and the user is freed
\* unless more completions are to come.
Finish(user) ==
  /\ IF Slot.more THEN UNCHANGED owner ELSE FreeUser(user)
  /\ lapped' = (lapped \/ Overwritten)
  /\ cur' = NoCqe
  /\ pc' = "drain"
  /\ UNCHANGED <<callback, nops, ids, sq, inflight, cq, next, i, once, held,
                 ret, quiet>>

CqeReturn == pc = "call"  /\ Finish(cur.user)
CqeNotif  == pc = "taken" /\ Slot.notif /\ Finish(Slot.user)

-----------------------------------------------------------------------------

Api ==
  \E u \in Users :
    \/ \E how \in {"own", "noop"} : SubmitOneShot(u, how)
    \/ \E kind \in {MultiShot, ZeroCopy} : SubmitMultiShot(u, kind)
    \/ \E id \in ids : AsyncCancel(u, id)
    \/ \E id \in ids, how \in {"swapped", "noop"} : CancelRing(u, id, how)
    \/ SubmitNext(u)

Kernel ==
  \/ KernelTake
  \/ \E r \in inflight : KernelMore(r) \/ KernelLast(r)

Loop ==
  \/ LoopTest \/ NextCall \/ NextReturn \/ NextDone
  \/ EnterDone \/ RingCqe \/ RingEmpty
  \/ CqeCall \/ CqeReturn \/ CqeNotif

Next ==
  \/ Api
  \/ \E id \in ids, how \in {"swapped", "noop"} : CancelNext(id, how)
  \/ FlushDone
  \/ Kernel
  \/ RunLoop \/ RunOnce
  \/ Loop

Spec == Init /\ [][Next]_vars

-----------------------------------------------------------------------------
(* Safety *)

Live == {next[k] : k \in i .. Len(next)}
Line == sq \o held

\* Whatever names a user slot (a queued or running request, a completion that
\* waits or is being handled, a pending next call) was made by the operation
\* the slot is allocated to: no slot is freed, and handed out again, while
\* anything still refers to it.
NoStaleUser ==
  ~lapped =>
    /\ \A k \in DOMAIN Line : owner[Line[k].user] = Line[k].op
    /\ \A r \in inflight : owner[r.user] = r.op
    /\ \A k \in DOMAIN cq : owner[cq[k].user] = cq[k].op
    /\ cur # NoCqe => owner[cur.user] = cur.op
    /\ \A x \in Live : owner[x.user] = x.op

\* A running request keeps its user, whatever happens to the completion queue
\* while a callback runs.
RequestKeepsUser == \A r \in inflight : owner[r.user] = r.op

\* An id the application may still cancel names the operation it was given for.
IdsValid ==
  ~lapped => \A id \in ids : owner[id.user] = id.op

\* A cancellation that is taken from the queue finds the operation it was meant
\* for, or nothing, never a later operation in the same slot.
CancelHitsItsTarget ==
  ~lapped /\ sq # <<>> /\ Head(sq).kind = Cancellation =>
    \A r \in Hit(Head(sq)) : r.op = Head(sq).aim

\* Every allocated user will be freed: its operation is queued, running, or its
\* last completion is on the way.  Without this reactor_loop would not end.
NoLostUser ==
  ~lapped =>
    \A u \in Busy :
      \/ \E k \in DOMAIN Line : Line[k].user = u
      \/ \E r \in inflight : r.user = u
      \/ \E k \in DOMAIN cq : cq[k].user = u /\ ~cq[k].more
      \/ cur # NoCqe /\ cur.user = u /\ ~cur.more
      \/ \E x \in Live : x.user = u

\* The loop blocks in io_uring_enter only if a request is there to complete.
WaitsForSomething ==
  ~lapped /\ pc = "enter" => sq # <<>> \/ cq # <<>> \/ inflight # {}

\* The loop ends when nothing is pending, and waits only when something is: the
\* count of users in the pool is as good as a count of pending operations.
LoopSound == NoLostUser /\ WaitsForSomething

\* A callback runs for the operation whose completion came, and an operation
\* that was cancelled, or whose last callback ran, has its own callback called
\* no more.
OwnCallbackOnly ==
  [][~lapped' /\ pc = "taken" /\ pc' = "call" =>
       (callback[cur'.user] = "own" <=> cur'.op \notin quiet)]_vars

\* The callback that replaces a cancelled one, which may free the operation's
\* buffer, never runs while the kernel still works on a one-shot request of the
\* slot's owner.
SwappedCallbackIsLast ==
  [][~lapped' /\ pc = "taken" /\ pc' = "call"
       /\ callback[cur'.user] = "swapped"
     => \A r \in inflight : r.op = owner[cur'.user] => r.kind # OneShot]_vars

\* A callback is called for its own operation, and the replacement of a cancelled
\* one when nothing of the operation remains.
CallbacksSound == OwnCallbackOnly /\ SwappedCallbackIsLast

\* Types, and whatever names a slot was made by the operation it is allocated to.
UsersSound == TypeOK /\ NoStaleUser

-----------------------------------------------------------------------------
(* What the components take for granted *)

TurnOf(x) == [op |-> x.op, own |-> callback[x.user] = "own"]

\* The operation whose callback runs, and whether it is its own.
Turn ==
  CASE Frame = "call"     -> TurnOf(cur)
    [] Frame = "nextcall" -> TurnOf(next[i])
    [] OTHER              -> [op |-> NoOp, own |-> FALSE]

Pending  == {owner[u] : u \in Busy}
Looping  == ~once /\ Frame # "app"
Promised == <<nops, Pending, quiet, Turn, Looping>>

Promise == INSTANCE Operations WITH
  started <- nops, pending <- Pending, silent <- quiet, turn <- Turn,
  looping <- Looping

\* Pool, rings and addresses implement operations that have names, whatever slots are
\* used again, for as long as no completion is overwritten before it is read.
ImplementsOperations ==
  Promise!Init /\ [][lapped' \/ Promise!Next]_Promised

-----------------------------------------------------------------------------
(* The inductive invariant behind the safety properties *)

\* In the submission line every operation occurs once, and its user nowhere else.
LineSound ==
  /\ \A k \in DOMAIN sq :
       /\ owner[sq[k].user] = sq[k].op
       /\ \A l \in DOMAIN sq : sq[l].user = sq[k].user => l = k
       /\ \A l \in DOMAIN held : held[l].user # sq[k].user
       /\ \A r \in inflight : r.user # sq[k].user
       /\ \A l \in DOMAIN cq : cq[l].user # sq[k].user
       /\ cur.user # sq[k].user
  /\ \A k \in DOMAIN held :
       /\ owner[held[k].user] = held[k].op
       /\ \A r \in inflight : r.user # held[k].user
       /\ \A l \in DOMAIN cq : cq[l].user # held[k].user
       /\ cur.user # held[k].user

\* A running request is alone in its slot, and nothing follows the last
\* completion of an operation.
KernelSound ==
  /\ \A r \in inflight :
       /\ owner[r.user] = r.op
       /\ \A s \in inflight : s.user = r.user => s = r
  /\ \A k \in DOMAIN cq :
       /\ owner[cq[k].user] = cq[k].op
       /\ ~cq[k].more =>
            /\ \A r \in inflight : r.user # cq[k].user
            /\ \A l \in DOMAIN cq : cq[l].user = cq[k].user => l <= k
  /\ cur # NoCqe =>
       /\ owner[cur.user] = cur.op
       /\ ~cur.more =>
            /\ \A r \in inflight : r.user # cur.user
            /\ \A l \in DOMAIN cq : cq[l].user # cur.user

\* A pending next call is alone in its slot.
NextSound ==
  \A k \in i .. Len(next) :
    LET u == next[k].user IN
      /\ owner[u] = next[k].op
      /\ \A l \in i .. Len(next) : next[l].user = u => l = k
      /\ \A l \in DOMAIN sq : sq[l].user # u
      /\ \A l \in DOMAIN held : held[l].user # u
      /\ \A r \in inflight : r.user # u
      /\ \A l \in DOMAIN cq : cq[l].user # u
      /\ cur.user # u

\* Cancellations are taken in the order of submission: all that precedes one in
\* the queue, and all that is running, was submitted before it, when its target
\* still owned the slot.
CancelSound ==
  /\ \A k \in DOMAIN sq : sq[k].kind = Cancellation =>
       /\ \A r \in inflight : r.user = sq[k].target => r.op = sq[k].aim
       /\ \A l \in 1 .. (k - 1) :
            sq[l].user = sq[k].target => sq[l].op = sq[k].aim
  /\ \A k \in DOMAIN held : held[k].kind = Cancellation =>
       /\ \A r \in inflight : r.user = held[k].target => r.op = held[k].aim
       /\ \A l \in DOMAIN sq :
            sq[l].user = held[k].target => sq[l].op = held[k].aim

SlotSound == LineSound /\ KernelSound /\ NextSound

SlotInv == TypeOK /\ (~lapped => SlotSound)

\* An operation has at most one slot, and an id is held only until the last
\* callback it stands for: for a zerocopy send that is the result, which comes
\* before the notification that frees the slot.
Dropped(o) == \A id \in ids : id.op # o

\* A zerocopy result of o is among the first completions that wait, or is taken
\* and about to be handed over.
ResultWaits(o, upto) ==
  \/ \E l \in 1 .. upto :
       cq[l].op = o /\ cq[l].kind = ZeroCopy /\ ~cq[l].notif
  \/ cur.op = o /\ cur.kind = ZeroCopy /\ ~cur.notif /\ pc = "taken"

PoolSound ==
  /\ \A u \in Users : owner[u] <= nops
  /\ \A u, v \in Busy : owner[u] = owner[v] => u = v

NotifSound ==
  /\ \A r \in inflight : r.kind = ZeroCopy /\ r.shots = 0 =>
       Dropped(r.op) \/ ResultWaits(r.op, Len(cq))
  /\ \A k \in DOMAIN cq : cq[k].notif =>
       Dropped(cq[k].op) \/ ResultWaits(cq[k].op, k - 1)
  /\ cur # NoCqe /\ cur.notif => Dropped(cur.op)

IdSound ==
  /\ \A id \in ids : owner[id.user] = id.op
  /\ Frame = "call" /\ ~cur.more => Dropped(cur.op)
  /\ Frame = "nextcall" => Dropped(next[i].op)

IdInv     == SlotInv /\ (~lapped => PoolSound /\ NotifSound /\ IdSound)
CancelInv == IdInv /\ (~lapped => CancelSound)

\* Where the next completion or call of a user will come from.
Kept(u) ==
  \/ \E k \in DOMAIN sq : sq[k].user = u
  \/ \E k \in DOMAIN held : held[k].user = u
  \/ \E r \in inflight : r.user = u
  \/ \E k \in DOMAIN cq : cq[k].user = u /\ ~cq[k].more
  \/ cur # NoCqe /\ cur.user = u /\ ~cur.more
  \/ \E k \in i .. Len(next) : next[k].user = u

\* The loop waits for users that are still in the pool when all the next calls
\* were made.
LoopInv ==
  /\ SlotInv
  /\ i <= Len(next) + 1
  /\ pc = "enter" => Busy # {} /\ next = <<>>
  /\ ~lapped => \A u \in Busy : Kept(u)

\* A request and its completions agree on their kind: what is to come of a
\* zerocopy send whose result is out is its notification, and nothing but a
\* multishot poll completes more than that.
KindSound ==
  /\ \A r \in inflight :
       /\ r.shots > 0 => r.kind \in {MultiShot, ZeroCopy}
       /\ r.kind = ZeroCopy => r.shots <= 1
       /\ \A k \in DOMAIN cq : cq[k].user = r.user => cq[k].kind = r.kind
       /\ cur.user = r.user => cur.kind = r.kind
  /\ \A k \in DOMAIN cq :
       /\ cq[k].more => cq[k].kind \in {MultiShot, ZeroCopy} /\ ~cq[k].notif
       /\ cq[k].kind = ZeroCopy /\ cq[k].more =>
            /\ \A r \in inflight : r.user = cq[k].user => r.shots = 0
            /\ \A l \in DOMAIN cq :
                 cq[l].user = cq[k].user => l = k \/ cq[l].notif
  /\ cur # NoCqe =>
       /\ cur.more => cur.kind \in {MultiShot, ZeroCopy} /\ ~cur.notif
       /\ cur.kind = ZeroCopy /\ cur.more =>
            /\ \A r \in inflight : r.user = cur.user => r.shots = 0
            /\ \A l \in DOMAIN cq : cq[l].user = cur.user => cq[l].notif

\* An operation whose callback may still be called is quiet just when its slot
\* does not hold its own callback.
Calls(u, o) == callback[u] = "own" => o \notin quiet

QuietSound ==
  /\ \A o \in quiet : o <= nops
  /\ \A u \in Busy : callback[u] # "own" => owner[u] \in quiet
  /\ \A k \in DOMAIN sq : Calls(sq[k].user, sq[k].op)
  /\ \A k \in DOMAIN held : Calls(held[k].user, held[k].op)
  /\ \A r \in inflight :
       (r.kind = ZeroCopy /\ r.shots = 0) \/ Calls(r.user, r.op)
  /\ \A k \in DOMAIN cq : cq[k].notif \/ Calls(cq[k].user, cq[k].op)
  /\ pc = "taken" => cur.notif \/ Calls(cur.user, cur.op)

CallInv == IdInv /\ (~lapped => KindSound /\ QuietSound)

\* The application holds one id of every operation that may still call it, and of
\* no other; a next call that was not cancelled has its own callback.
HeldSound ==
  /\ \A id \in ids : id.op \notin quiet
  /\ \A u \in Busy : owner[u] \in quiet \/ ~Dropped(owner[u])
  /\ \A id, jd \in ids : id.op = jd.op => id = jd
  /\ \A k \in i .. Len(next) :
       (Frame = "nextcall" /\ k = i) \/ Calls(next[k].user, next[k].op)

HeldInv == CallInv /\ (~lapped => HeldSound)

-----------------------------------------------------------------------------
(* Liveness.  The thread keeps running: callbacks return, the application   *)
(* comes back to the loop.  The kernel takes what is submitted and ends     *)
(* what was cancelled; any other request may wait forever.                  *)

KernelEnds ==
  \E r \in inflight : /\ r.stop \/ (r.kind = ZeroCopy /\ r.shots = 0)
                      /\ KernelLast(r)

Fairness ==
  /\ WF_vars(Loop)
  /\ WF_vars(RunLoop \/ RunOnce)
  /\ WF_vars(FlushDone)
  /\ WF_vars(KernelTake)
  /\ WF_vars(KernelEnds)

FairSpec == Spec /\ Fairness

\* A cancelled operation ends: once its cancellation is in the queue, its slot
\* is given back, however the cancellation, the completion and the reuse of
\* slots interleave.
CancelledEnds ==
  \A o \in Ops :
    (\E k \in DOMAIN Line : Line[k].kind = Cancellation /\ Line[k].aim = o)
      ~> (lapped \/ \A u \in Users : owner[u] # o)

\* A pending next call is made, though other callbacks keep adding to the
\* vector and to the ring.
NextIsCalled ==
  \A o \in Ops :
    (\E x \in Live : x.op = o) ~> (\A u \in Users : owner[u] # o)
==============================================================================
