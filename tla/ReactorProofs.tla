---------------------------- MODULE ReactorProofs ----------------------------
(* Proofs about the reactor core, for any number of user slots, any size of *)
(* the two queues and any number of operations: a slot that is freed is     *)
(* named by nothing; an id the application holds names the operation it was  *)
(* given for, and a cancellation finds that operation or nothing; the loop   *)
(* ends when nothing is pending and waits only when something is; and each   *)
(* callback is the one its operation has at that time.  The last part puts   *)
(* these together: the core implements operations that have names.           *)
EXTENDS Reactor, TLAPS

LEMMA Sizes == /\ SqSize \in Int /\ SqSize >= 1
               /\ CqSize \in Int /\ CqSize >= 1
  BY SizesAssumption

LEMMA SeqAppend ==
  ASSUME NEW S, NEW s \in Seq(S), NEW x \in S
  PROVE  /\ Append(s, x) \in Seq(S)
         /\ Len(Append(s, x)) = Len(s) + 1
         /\ Len(s) \in Nat
  OBVIOUS

LEMMA SeqElements ==
  ASSUME NEW S, NEW s \in Seq(S)
  PROVE  /\ \A k \in DOMAIN s : s[k] \in S /\ k \in Nat /\ 1 <= k /\ k <= Len(s)
         /\ \A k \in Nat : 1 <= k /\ k <= Len(s) => k \in DOMAIN s
         /\ Len(s) \in Nat
  OBVIOUS

\* Where the elements of a longer and of a shorter queue come from.
LEMMA AppendElements ==
  ASSUME NEW S, NEW s \in Seq(S), NEW x \in S
  PROVE  \A k \in DOMAIN Append(s, x) :
           \/ k \in DOMAIN s /\ Append(s, x)[k] = s[k]
           \/ k = Len(s) + 1 /\ Append(s, x)[k] = x
  OBVIOUS

LEMMA TailElements ==
  ASSUME NEW S, NEW s \in Seq(S), s # <<>>
  PROVE  /\ 1 \in DOMAIN s /\ Head(s) = s[1] /\ Head(s) \in S
         /\ Tail(s) \in Seq(S)
         /\ \A k \in DOMAIN Tail(s) :
              k \in Nat /\ k + 1 \in DOMAIN s /\ Tail(s)[k] = s[k + 1]
  OBVIOUS

LEMMA SqeType ==
  ASSUME NEW kind \in Kinds, NEW u \in Users, NEW target \in Users \cup {NoUser},
         NEW aim \in Ops \cup {NoOp}, nops \in 0 .. MaxOps, nops < MaxOps
  PROVE  Sqe(kind, u, target, aim) \in Sqes /\ nops + 1 \in Ops
  BY BoundsAssumption DEF Sqe, Sqes, Ops

\* What reactor_ring_sqe leaves behind has the right type, whether or not the
\* queue had to be flushed.
LEMMA RingSqeType ==
  ASSUME TypeOK, NEW sqe \in Sqes, pc \in AppPcs, RingSqe(sqe)
  PROVE  /\ sq' \in Seq(Sqes) /\ held' \in Seq(Sqes)
         /\ pc' \in Pcs /\ ret' \in AppPcs
         /\ Len(held') = (IF pc' = "flush" THEN 1 ELSE 0)
         /\ Frame' = Frame
         /\ Len(sq') <= SqSize
<1>1. CASE Len(sq) = SqSize
  <2>1. held' = <<sqe>> /\ ret' = pc /\ pc' = "flush" /\ sq' = sq
    BY <1>1 DEF RingSqe
  <2>2. <<sqe>> \in Seq(Sqes) /\ Len(<<sqe>>) = 1
    OBVIOUS
  <2>3. QED BY <2>1, <2>2 DEF TypeOK, Typed, Pcs, AppPcs, Frame
<1>2. CASE Len(sq) # SqSize
  <2>1. held' = held /\ ret' = ret /\ pc' = pc /\ sq' = Append(sq, sqe)
    BY <1>2 DEF RingSqe
  <2>2. Append(sq, sqe) \in Seq(Sqes) /\ Len(Append(sq, sqe)) = Len(sq) + 1
    BY DEF TypeOK, Typed
  <2>3. QED BY <1>2, <2>1, <2>2, Sizes DEF TypeOK, Typed, Pcs, AppPcs, Frame
<1>3. QED BY <1>1, <1>2

LEMMA AllocUserType ==
  ASSUME TypeOK, NEW u \in Users, NEW how \in Callbacks, AllocUser(u, how)
  PROVE  /\ owner' \in [Users -> Ops \cup {NoOp}]
         /\ callback' \in [Users -> Callbacks]
         /\ nops' \in 0 .. MaxOps
         /\ nops < MaxOps /\ nops + 1 \in Ops
  BY BoundsAssumption DEF AllocUser, TypeOK, Typed, Ops

LEMMA IdType ==
  ASSUME TypeOK, NEW u \in Users, nops + 1 \in Ops, NEW ring \in BOOLEAN
  PROVE  ids \cup {[user |-> u, op |-> nops + 1, ring |-> ring]} \subseteq Ids
<1>1. [user |-> u, op |-> nops + 1, ring |-> ring] \in Ids
  BY DEF Ids
<1>2. QED BY <1>1 DEF TypeOK, Typed

\* Each operation of the API keeps the types.
LEMMA ApiType ==
  ASSUME TypeOK, Api
  PROVE  TypeOK'
<1>0. PICK u \in Users :
        \/ \E how \in {"own", "noop"} : SubmitOneShot(u, how)
        \/ \E kind \in {MultiShot, ZeroCopy} : SubmitMultiShot(u, kind)
        \/ \E id \in ids : AsyncCancel(u, id)
        \/ \E id \in ids, how \in {"swapped", "noop"} : CancelRing(u, id, how)
        \/ SubmitNext(u)
  BY DEF Api
<1>a. ASSUME NEW how \in {"own", "noop"}, SubmitOneShot(u, how)
      PROVE  TypeOK'
  <2>1. how \in Callbacks /\ AllocUser(u, how) /\ pc \in AppPcs
        /\ RingSqe(Sqe(OneShot, u, NoUser, NoOp))
    BY <1>a DEF SubmitOneShot, Callbacks
  <2>2. Sqe(OneShot, u, NoUser, NoOp) \in Sqes /\ nops + 1 \in Ops
    BY <2>1, SqeType, AllocUserType DEF Kinds, TypeOK, Typed
  <2>3. ids' \subseteq Ids /\ quiet' \subseteq Ops
    BY <1>a, <2>2, IdType DEF SubmitOneShot, TypeOK, Typed
  <2>4. QED
    BY <1>a, <2>1, <2>2, <2>3, AllocUserType, RingSqeType
    DEF SubmitOneShot, TypeOK, Typed
<1>b. ASSUME NEW kind \in {MultiShot, ZeroCopy}, SubmitMultiShot(u, kind)
      PROVE  TypeOK'
  <2>1. "own" \in Callbacks /\ AllocUser(u, "own") /\ pc \in AppPcs
        /\ RingSqe(Sqe(kind, u, NoUser, NoOp))
    BY <1>b DEF SubmitMultiShot, Callbacks
  <2>2. Sqe(kind, u, NoUser, NoOp) \in Sqes /\ nops + 1 \in Ops
    BY <2>1, SqeType, AllocUserType DEF Kinds, TypeOK, Typed
  <2>3. ids' \subseteq Ids
    BY <1>b, <2>2, IdType DEF SubmitMultiShot
  <2>4. QED
    BY <1>b, <2>1, <2>2, <2>3, AllocUserType, RingSqeType
    DEF SubmitMultiShot, TypeOK, Typed
<1>c. ASSUME NEW id \in ids, AsyncCancel(u, id)
      PROVE  TypeOK'
  <2>1. "own" \in Callbacks /\ AllocUser(u, "own") /\ pc \in AppPcs
        /\ RingSqe(Sqe(Cancellation, u, id.user, id.op))
    BY <1>c DEF AsyncCancel, Callbacks
  <2>2. Sqe(Cancellation, u, id.user, id.op) \in Sqes /\ nops + 1 \in Ops
    <3>1. id.user \in Users /\ id.op \in Ops
      BY DEF TypeOK, Typed, Ids
    <3>2. QED
      BY <2>1, <3>1, SqeType, AllocUserType DEF Kinds, TypeOK, Typed
  <2>3. ids' \subseteq Ids
    BY <1>c, <2>2, IdType DEF AsyncCancel
  <2>4. QED
    BY <1>c, <2>1, <2>2, <2>3, AllocUserType, RingSqeType
    DEF AsyncCancel, TypeOK, Typed
<1>d. ASSUME NEW id \in ids, NEW how \in {"swapped", "noop"},
             CancelRing(u, id, how)
      PROVE  TypeOK'
  <2>1. pc \in AppPcs /\ RingSqe(Sqe(Cancellation, u, id.user, id.op))
        /\ nops < MaxOps
    BY <1>d DEF CancelRing
  <2>2. id.user \in Users /\ id.op \in Ops
    BY DEF TypeOK, Typed, Ids
  <2>3. Sqe(Cancellation, u, id.user, id.op) \in Sqes /\ nops + 1 \in Ops
    BY <2>1, <2>2, SqeType DEF Kinds, TypeOK, Typed
  <2>4. /\ owner' \in [Users -> Ops \cup {NoOp}]
        /\ callback' \in [Users -> Callbacks]
        /\ nops' \in 0 .. MaxOps
        /\ ids' \subseteq Ids /\ quiet' \subseteq Ops
    BY <1>d, <2>1, <2>2, <2>3, BoundsAssumption
    DEF CancelRing, Redirect, TypeOK, Typed, Callbacks
  <2>5. QED
    BY <1>d, <2>1, <2>3, <2>4, RingSqeType DEF CancelRing, TypeOK, Typed
<1>e. ASSUME SubmitNext(u)
      PROVE  TypeOK'
  <2>1. AllocUser(u, "own") /\ "own" \in Callbacks
    BY <1>e DEF SubmitNext, Callbacks
  <2>2. nops + 1 \in Ops
    BY <2>1, AllocUserType
  <2>3. next' \in Seq(NextUsers) /\ Len(next') = Len(next) + 1
    BY <1>e, <2>2 DEF SubmitNext, TypeOK, Typed, NextUsers
  <2>4. ids' \subseteq Ids
    BY <1>e, <2>2, IdType DEF SubmitNext
  <2>5. QED
    BY <1>e, <2>1, <2>3, <2>4, AllocUserType DEF SubmitNext, TypeOK, Typed, Frame
<1>f. QED BY <1>0, <1>a, <1>b, <1>c, <1>d, <1>e

LEMMA CancelNextType ==
  ASSUME TypeOK, NEW id \in ids, NEW how \in {"swapped", "noop"},
         CancelNext(id, how)
  PROVE  TypeOK'
<1>1. id.user \in Users /\ id.op \in Ops
  BY DEF TypeOK, Typed, Ids
<1>2. callback' \in [Users -> Callbacks] /\ ids' \subseteq Ids
      /\ quiet' \subseteq Ops
  BY <1>1 DEF CancelNext, Redirect, TypeOK, Typed, Callbacks
<1>3. QED BY <1>2 DEF CancelNext, TypeOK, Typed, Frame

LEMMA FlushDoneType ==
  ASSUME TypeOK, FlushDone
  PROVE  TypeOK'
<1>1. sq' = held /\ Len(held) = 1 /\ held' = <<>> /\ pc' = ret /\ ret' = "app"
  BY DEF FlushDone, TypeOK
<1>2. Len(sq') <= SqSize /\ sq' \in Seq(Sqes)
  BY <1>1, Sizes DEF TypeOK, Typed
<1>3. Frame' = Frame /\ pc' \in AppPcs
  BY <1>1 DEF FlushDone, Frame, AppPcs, TypeOK, Typed
<1>4. held' \in Seq(Sqes) /\ Len(held') = 0 /\ pc' # "flush" /\ pc' \in Pcs
  BY <1>1, <1>3 DEF AppPcs, Pcs
<1>5. Typed'
  BY <1>1, <1>2, <1>4 DEF FlushDone, TypeOK, Typed, AppPcs
<1>6. QED
  BY <1>2, <1>3, <1>4, <1>5 DEF FlushDone, TypeOK

LEMMA RequestType ==
  ASSUME NEW e \in Sqes, NEW stop \in BOOLEAN
  PROVE  Request(e, stop) \in Requests
  BY BoundsAssumption DEF Request, Requests, Sqes, Kinds

LEMMA CqeType ==
  ASSUME NEW r \in Requests, NEW more \in BOOLEAN, NEW notif \in BOOLEAN
  PROVE  Cqe(r, more, notif) \in Cqes
  BY DEF Cqe, Cqes, Requests

\* The kernel's steps keep the types.
LEMMA KernelType ==
  ASSUME TypeOK, Kernel
  PROVE  TypeOK'
<1>1. CASE KernelTake
  <2> DEFINE e == Head(sq)
  <2>1. e \in Sqes /\ sq' = Tail(sq) /\ sq' \in Seq(Sqes) /\ Len(sq') <= SqSize
    BY <1>1, Sizes DEF KernelTake, TypeOK, Typed
  <2>2. Request(e, TRUE) \in Requests /\ Request(e, FALSE) \in Requests
    BY <2>1, RequestType
  <2>3. {[r EXCEPT !.stop = TRUE] : r \in Hit(e)} \subseteq Requests
    BY DEF Hit, Requests, TypeOK, Typed
  <2>4. inflight' \subseteq Requests
    BY <1>1, <2>2, <2>3 DEF KernelTake, TypeOK, Typed
  <2>5. Typed'
    BY <1>1, <2>1, <2>4 DEF KernelTake, TypeOK, Typed
  <2>6. QED
    BY <1>1, <2>1, <2>5 DEF KernelTake, TypeOK, Frame
<1>2. ASSUME NEW r \in inflight, KernelMore(r)
      PROVE  TypeOK'
  <2>1. r \in Requests /\ Cqe(r, TRUE, FALSE) \in Cqes
    BY CqeType DEF TypeOK, Typed
  <2>2. [r EXCEPT !.shots = @ - 1] \in Requests
    BY <1>2, <2>1 DEF KernelMore, Requests
  <2>3. cq' \in Seq(Cqes) /\ Len(cq') <= CqSize
    <3>1. Len(cq) < CqSize /\ cq' = Append(cq, Cqe(r, TRUE, FALSE))
      BY <1>2 DEF KernelMore
    <3>2. cq' \in Seq(Cqes) /\ Len(cq') = Len(cq) + 1 /\ Len(cq) \in Nat
      BY <2>1, <3>1, SeqAppend DEF TypeOK, Typed
    <3>3. Len(cq) < CqSize
      BY <3>1
    <3>4. QED BY <3>2, <3>3, Sizes
  <2>4. Typed'
    BY <1>2, <2>2, <2>3 DEF KernelMore, TypeOK, Typed
  <2>5. QED
    BY <1>2, <2>3, <2>4 DEF KernelMore, TypeOK, Frame
<1>3. ASSUME NEW r \in inflight, KernelLast(r)
      PROVE  TypeOK'
  <2> DEFINE notif == r.kind = ZeroCopy /\ r.shots = 0
  <2>1. Cqe(r, FALSE, notif) \in Cqes
    BY CqeType DEF TypeOK, Typed
  <2>2. cq' \in Seq(Cqes) /\ Len(cq') <= CqSize
    <3>1. Len(cq) < CqSize /\ cq' = Append(cq, Cqe(r, FALSE, notif))
      BY <1>3 DEF KernelLast
    <3>2. cq' \in Seq(Cqes) /\ Len(cq') = Len(cq) + 1 /\ Len(cq) \in Nat
      BY <2>1, <3>1, SeqAppend DEF TypeOK, Typed
    <3>3. Len(cq) < CqSize
      BY <3>1
    <3>4. QED BY <3>2, <3>3, Sizes
  <2>3. Typed'
    BY <1>3, <2>2 DEF KernelLast, TypeOK, Typed
  <2>4. QED
    BY <1>3, <2>2, <2>3 DEF KernelLast, TypeOK, Frame
<1>4. QED BY <1>1, <1>2, <1>3 DEF Kernel

\* What cqe points to is a completion, the one taken or, in a full queue, the
\* one the kernel put in its place.
LEMMA SlotType ==
  ASSUME TypeOK, pc \in {"taken", "call"}
  PROVE  Slot \in Cqes /\ cur \in Cqes
<1>1. cur \in Cqes
  BY DEF TypeOK, Typed, Frame
<1>2. CASE Overwritten
  <2>1. CqSize \in DOMAIN cq
    BY <1>2, Sizes DEF Overwritten, TypeOK, Typed
  <2>2. cq[CqSize] \in Cqes
    BY <2>1 DEF TypeOK, Typed
  <2>3. QED BY <1>1, <1>2, <2>2 DEF Slot
<1>3. QED BY <1>1, <1>2 DEF Slot

LEMMA NotNoCqe == NoCqe \notin Cqes
  BY UsersAssumption DEF NoCqe, Cqes

LEMMA FreeUserType ==
  ASSUME TypeOK, NEW u, FreeUser(u)
  PROVE  owner' \in [Users -> Ops \cup {NoOp}]
  BY DEF FreeUser, TypeOK, Typed

LEMMA FinishType ==
  ASSUME TypeOK, NEW u, pc \in {"taken", "call"}, Finish(u)
  PROVE  TypeOK'
<1>1. owner' \in [Users -> Ops \cup {NoOp}]
  BY FreeUserType DEF Finish, TypeOK, Typed
<1>2. cur' = NoCqe /\ pc' = "drain" /\ lapped' \in BOOLEAN
  BY DEF Finish, TypeOK, Typed
<1>3. Typed'
  BY <1>1, <1>2 DEF Finish, TypeOK, Typed, Pcs, LoopPcs
<1>4. QED
  BY <1>2, <1>3 DEF Finish, TypeOK, Frame

\* The steps of reactor_loop and reactor_loop_once keep the types.
LEMMA LoopType ==
  ASSUME TypeOK, Loop \/ RunLoop \/ RunOnce
  PROVE  TypeOK'
<1>1. CASE RunLoop \/ RunOnce
  BY <1>1 DEF RunLoop, RunOnce, TypeOK, Typed, Pcs, LoopPcs, Frame
<1>2. CASE LoopTest
  BY <1>2 DEF LoopTest, TypeOK, Typed, Pcs, LoopPcs, AppPcs, Frame
<1>3. CASE NextCall
  <2>1. i \in DOMAIN next /\ next[i] \in NextUsers
    BY <1>3 DEF NextCall, TypeOK, Typed
  <2>2. quiet' \subseteq Ops /\ ids' \subseteq Ids
    BY <1>3, <2>1 DEF NextCall, TypeOK, Typed, NextUsers
  <2>3. Typed'
    BY <1>3, <2>2 DEF NextCall, TypeOK, Typed, Pcs, AppPcs
  <2>4. QED
    BY <1>3, <2>3 DEF NextCall, TypeOK, Frame
<1>4. CASE NextReturn
  <2>1. owner' \in [Users -> Ops \cup {NoOp}]
    BY <1>4, FreeUserType DEF NextReturn
  <2>2. Typed'
    BY <1>4, <2>1 DEF NextReturn, TypeOK, Typed, Pcs, LoopPcs
  <2>3. QED
    BY <1>4, <2>2 DEF NextReturn, TypeOK, Frame
<1>5. CASE NextDone
  <2>1. pc' \in {"enter", "app", "while"}
    BY <1>5 DEF NextDone, AfterOnce
  <2>2. Typed'
    BY <1>5, <2>1 DEF NextDone, TypeOK, Typed, Pcs, LoopPcs, AppPcs
  <2>3. QED
    BY <1>5, <2>1, <2>2 DEF NextDone, TypeOK, Frame
<1>6. CASE EnterDone
  BY <1>6 DEF EnterDone, TypeOK, Typed, Pcs, LoopPcs, Frame
<1>7. CASE RingCqe
  <2>1. Head(cq) \in Cqes /\ Tail(cq) \in Seq(Cqes) /\ Len(Tail(cq)) <= CqSize
    BY <1>7, Sizes DEF RingCqe, TypeOK, Typed
  <2>2. Typed'
    BY <1>7, <2>1 DEF RingCqe, TypeOK, Typed, Pcs, LoopPcs
  <2>3. QED
    BY <1>7, <2>1, <2>2, NotNoCqe DEF RingCqe, TypeOK, Frame
<1>8. CASE RingEmpty
  <2>1. pc' \in {"app", "while"}
    BY <1>8 DEF RingEmpty, AfterOnce
  <2>2. QED
    BY <1>8, <2>1 DEF RingEmpty, TypeOK, Typed, Pcs, LoopPcs, AppPcs, Frame
<1>9. CASE CqeCall
  <2>1. Slot \in Cqes
    BY <1>9, SlotType DEF CqeCall
  <2>2. ids' \subseteq Ids /\ quiet' \subseteq Ops
    BY <1>9, <2>1 DEF CqeCall, TypeOK, Typed, Cqes
  <2>3. Typed'
    BY <1>9, <2>1, <2>2 DEF CqeCall, TypeOK, Typed, Pcs, AppPcs
  <2>4. QED
    BY <1>9, <2>1, <2>3, NotNoCqe DEF CqeCall, TypeOK, Frame
<1>10. CASE CqeReturn \/ CqeNotif
  BY <1>10, FinishType DEF CqeReturn, CqeNotif
<1>11. QED
  BY <1>1, <1>2, <1>3, <1>4, <1>5, <1>6, <1>7, <1>8, <1>9, <1>10 DEF Loop

LEMMA InitType ==
  ASSUME Init
  PROVE  TypeOK
<1>1. Typed
  <2>1. owner \in [Users -> Ops \cup {NoOp}] /\ callback \in [Users -> Callbacks]
    BY DEF Init, Callbacks
  <2>2. nops \in 0 .. MaxOps
    BY BoundsAssumption, 0 \in 0 .. MaxOps DEF Init
  <2>3. /\ sq \in Seq(Sqes) /\ cq \in Seq(Cqes) /\ next \in Seq(NextUsers)
        /\ held \in Seq(Sqes)
    BY DEF Init
  <2>4. ids \subseteq Ids /\ inflight \subseteq Requests /\ quiet \subseteq Ops
    BY DEF Init
  <2>5. /\ i \in Nat \ {0}
        /\ once \in BOOLEAN /\ lapped \in BOOLEAN
    <3>1. i = 1 /\ once = FALSE /\ lapped = FALSE
      BY DEF Init
    <3>2. once \in BOOLEAN /\ lapped \in BOOLEAN
      BY <3>1, Zenon
    <3>3. i \in Nat \ {0}
      BY <3>1
    <3>4. QED BY <3>2, <3>3
  <2>6. pc \in Pcs /\ ret \in AppPcs
    BY DEF Init, Pcs, AppPcs
  <2>7. cur \in Cqes \cup {NoCqe}
    BY DEF Init
  <2>8. QED
    BY <2>1, <2>2, <2>3, <2>4, <2>5, <2>6, <2>7 DEF Typed
<1>2. QED
  BY <1>1, Sizes DEF Init, TypeOK, Frame

\* Every step keeps the types.
LEMMA NextType ==
  ASSUME TypeOK, [Next]_vars
  PROVE  TypeOK'
<1>1. CASE Api
  BY <1>1, ApiType
<1>2. CASE \E id \in ids, how \in {"swapped", "noop"} : CancelNext(id, how)
  BY <1>2, CancelNextType
<1>3. CASE FlushDone
  BY <1>3, FlushDoneType
<1>4. CASE Kernel
  BY <1>4, KernelType
<1>5. CASE Loop \/ RunLoop \/ RunOnce
  BY <1>5, LoopType
<1>6. CASE UNCHANGED vars
  BY <1>6 DEF vars, TypeOK, Typed, Frame
<1>7. QED
  BY <1>1, <1>2, <1>3, <1>4, <1>5, <1>6 DEF Next

\* Type correctness and the agreement of the control state, for every number of
\* slots, queue sizes and operations.
THEOREM TypeCorrect == Spec => []TypeOK
<1>1. Init => TypeOK
  BY InitType
<1>2. TypeOK /\ [Next]_vars => TypeOK'
  BY NextType
<1>3. QED BY <1>1, <1>2, PTL DEF Spec

-----------------------------------------------------------------------------
(* Slots are not reused while anything refers to them.                      *)

\* The entries of the queues have the fields their types say.
LEMMA EntryTypes ==
  ASSUME TypeOK
  PROVE  /\ \A k \in DOMAIN sq : sq[k].user \in Users /\ sq[k].op \in Ops
         /\ \A k \in DOMAIN held : held[k].user \in Users /\ held[k].op \in Ops
         /\ \A r \in inflight : r.user \in Users /\ r.op \in Ops
         /\ \A k \in DOMAIN cq : cq[k].user \in Users /\ cq[k].op \in Ops
         /\ cur # NoCqe => cur.user \in Users /\ cur.op \in Ops
         /\ \A k \in i .. Len(next) :
              k \in DOMAIN next /\ next[k].user \in Users /\ next[k].op \in Ops
<1>1. \A e \in Sqes : e.user \in Users /\ e.op \in Ops
  BY DEF Sqes
<1>2. \A k \in DOMAIN sq : sq[k] \in Sqes
  BY SeqElements DEF TypeOK, Typed
<1>3. \A k \in DOMAIN held : held[k] \in Sqes
  BY SeqElements DEF TypeOK, Typed
<1>4. \A r \in inflight : r.user \in Users /\ r.op \in Ops
  BY DEF TypeOK, Typed, Requests
<1>5. \A e \in Cqes : e.user \in Users /\ e.op \in Ops
  BY DEF Cqes
<1>6. \A k \in DOMAIN cq : cq[k] \in Cqes
  BY SeqElements DEF TypeOK, Typed
<1>7. cur # NoCqe => cur \in Cqes
  BY DEF TypeOK, Typed
<1>8. \A k \in i .. Len(next) : k \in DOMAIN next /\ next[k] \in NextUsers
  <2>1. next \in Seq(NextUsers) /\ i \in Nat \ {0}
    BY DEF TypeOK, Typed
  <2>2. \A k \in i .. Len(next) : k \in Nat /\ 1 <= k /\ k <= Len(next)
    BY <2>1
  <2>3. QED BY <2>1, <2>2, SeqElements
<1>9. \A e \in NextUsers : e.user \in Users /\ e.op \in Ops
  BY DEF NextUsers
<1>10. QED
  BY <1>1, <1>2, <1>3, <1>4, <1>5, <1>6, <1>7, <1>8, <1>9

\* No reference leads to a free slot.
LEMMA FreeIsUnreferenced ==
  ASSUME TypeOK, SlotSound, NEW u \in Users, u \notin Busy
  PROVE  /\ \A k \in DOMAIN sq : sq[k].user # u
         /\ \A k \in DOMAIN held : held[k].user # u
         /\ \A r \in inflight : r.user # u
         /\ \A k \in DOMAIN cq : cq[k].user # u
         /\ cur.user # u
         /\ \A k \in i .. Len(next) : next[k].user # u
<1>0. owner[u] = NoOp /\ NoOp \notin Ops
  BY DEF Busy, NoOp, Ops
<1>1. cur.user # u
  <2>1. CASE cur = NoCqe
    BY <2>1, UsersAssumption DEF NoCqe
  <2>2. CASE cur # NoCqe
    BY <1>0, <2>2, EntryTypes DEF SlotSound, KernelSound
  <2>3. QED BY <2>1, <2>2
<1>2. QED
  BY <1>0, <1>1, EntryTypes
  DEF SlotSound, LineSound, KernelSound, NextSound

\* A new operation enters the submission line in a slot nothing refers to.
LEMMA SubmitSlots ==
  ASSUME TypeOK, SlotSound, NEW u \in Users, u \notin Busy,
         owner' = [owner EXCEPT ![u] = nops + 1],
         NEW sqe \in Sqes, sqe.user = u, sqe.op = nops + 1,
         pc \in AppPcs, RingSqe(sqe),
         UNCHANGED <<inflight, cq, next, i, cur>>
  PROVE  SlotSound'
<1>1. /\ \A k \in DOMAIN sq : sq[k].user # u
      /\ \A k \in DOMAIN held : held[k].user # u
      /\ \A r \in inflight : r.user # u
      /\ \A k \in DOMAIN cq : cq[k].user # u
      /\ cur.user # u
      /\ \A k \in i .. Len(next) : next[k].user # u
  BY FreeIsUnreferenced
<1>2. owner'[u] = nops + 1 /\ \A v : v # u => owner'[v] = owner[v]
  BY DEF TypeOK, Typed
<1>3. /\ \A k \in DOMAIN sq' :
           \/ k \in DOMAIN sq /\ sq'[k] = sq[k]
           \/ k = Len(sq) + 1 /\ sq'[k] = sqe
      /\ \A k \in DOMAIN held' : k = 1 /\ held'[k] = sqe
      /\ \/ sq' = sq
         \/ held' = <<>>
  <2>1. CASE Len(sq) = SqSize
    BY <2>1 DEF RingSqe
  <2>2. CASE Len(sq) # SqSize
    <3>1. sq' = Append(sq, sqe) /\ held' = held /\ sq \in Seq(Sqes)
      BY <2>2 DEF RingSqe, TypeOK, Typed
    <3>2. held = <<>>
      BY DEF TypeOK, Typed, AppPcs
    <3>3. \A k \in DOMAIN Append(sq, sqe) :
            \/ k \in DOMAIN sq /\ Append(sq, sqe)[k] = sq[k]
            \/ k = Len(sq) + 1 /\ Append(sq, sqe)[k] = sqe
      BY <3>1, AppendElements
    <3>4. held' = <<>> /\ DOMAIN held' = {}
      BY <3>1, <3>2
    <3>5. QED BY <3>1, <3>3, <3>4
  <2>3. QED BY <2>1, <2>2
<1>4. LineSound'
  BY <1>1, <1>2, <1>3 DEF SlotSound, LineSound
<1>5. KernelSound'
  BY <1>1, <1>2 DEF SlotSound, KernelSound
<1>6. NextSound'
  BY <1>1, <1>2, <1>3 DEF SlotSound, NextSound
<1>7. QED BY <1>4, <1>5, <1>6 DEF SlotSound

\* A next call is registered in a slot nothing refers to.
LEMMA NextSlots ==
  ASSUME TypeOK, SlotSound, NEW u \in Users, SubmitNext(u)
  PROVE  SlotSound'
<1>1. /\ \A k \in DOMAIN sq : sq[k].user # u
      /\ \A k \in DOMAIN held : held[k].user # u
      /\ \A r \in inflight : r.user # u
      /\ \A k \in DOMAIN cq : cq[k].user # u
      /\ cur.user # u
      /\ \A k \in i .. Len(next) : next[k].user # u
  BY FreeIsUnreferenced DEF SubmitNext, AllocUser
<1>2. owner'[u] = nops + 1 /\ \A v : v # u => owner'[v] = owner[v]
  BY DEF SubmitNext, AllocUser, TypeOK, Typed
<1>3. UNCHANGED <<sq, held, inflight, cq, cur, i>>
  BY DEF SubmitNext
<1>4. LineSound'
  BY <1>1, <1>2, <1>3 DEF SlotSound, LineSound
<1>5. KernelSound'
  BY <1>1, <1>2, <1>3 DEF SlotSound, KernelSound
<1>6. NextSound'
  <2> DEFINE x == [user |-> u, op |-> nops + 1]
  <2>1. next' = Append(next, x) /\ next \in Seq(NextUsers) /\ i \in Nat \ {0}
    BY DEF SubmitNext, TypeOK, Typed
  <2>2. x \in NextUsers
    BY AllocUserType DEF SubmitNext, NextUsers, Callbacks
  <2>3. \A k \in i .. Len(next') :
          \/ k \in i .. Len(next) /\ next'[k] = next[k]
          \/ k = Len(next) + 1 /\ next'[k] = x
    BY <2>1, <2>2
  <2>4. QED
    BY <1>1, <1>2, <1>3, <2>3 DEF SlotSound, NextSound
<1>7. QED BY <1>4, <1>5, <1>6 DEF SlotSound

LEMMA ApiSlots ==
  ASSUME TypeOK, SlotSound, Api
  PROVE  SlotSound'
<1>0. PICK u \in Users :
        \/ \E how \in {"own", "noop"} : SubmitOneShot(u, how)
        \/ \E kind \in {MultiShot, ZeroCopy} : SubmitMultiShot(u, kind)
        \/ \E id \in ids : AsyncCancel(u, id)
        \/ \E id \in ids, how \in {"swapped", "noop"} : CancelRing(u, id, how)
        \/ SubmitNext(u)
  BY DEF Api
<1>1. CASE SubmitNext(u)
  BY <1>1, NextSlots
<1>2. ASSUME NEW kind \in Kinds, NEW target \in Users \cup {NoUser},
             NEW aim \in Ops \cup {NoOp},
             u \notin Busy, nops < MaxOps, pc \in AppPcs,
             owner' = [owner EXCEPT ![u] = nops + 1],
             RingSqe(Sqe(kind, u, target, aim)),
             UNCHANGED <<inflight, cq, next, i, cur>>
      PROVE  SlotSound'
  <2>1. Sqe(kind, u, target, aim) \in Sqes
    BY <1>2, SqeType DEF TypeOK, Typed
  <2>2. Sqe(kind, u, target, aim).user = u /\ Sqe(kind, u, target, aim).op = nops + 1
    BY DEF Sqe
  <2>3. QED BY <1>2, <2>1, <2>2, SubmitSlots
<1>3. ASSUME NEW how \in {"own", "noop"}, SubmitOneShot(u, how)
      PROVE  SlotSound'
  BY <1>2, <1>3 DEF SubmitOneShot, AllocUser, Kinds
<1>4. ASSUME NEW kind \in {MultiShot, ZeroCopy}, SubmitMultiShot(u, kind)
      PROVE  SlotSound'
  BY <1>2, <1>4 DEF SubmitMultiShot, AllocUser, Kinds
<1>5. ASSUME NEW id \in ids, AsyncCancel(u, id)
      PROVE  SlotSound'
  <2>1. id.user \in Users /\ id.op \in Ops
    BY DEF TypeOK, Typed, Ids
  <2>2. QED BY <1>2, <1>5, <2>1 DEF AsyncCancel, AllocUser, Kinds
<1>6. ASSUME NEW id \in ids, NEW how \in {"swapped", "noop"},
             CancelRing(u, id, how)
      PROVE  SlotSound'
  <2>1. id.user \in Users /\ id.op \in Ops
    BY DEF TypeOK, Typed, Ids
  <2>2. QED BY <1>2, <1>6, <2>1 DEF CancelRing, Kinds
<1>7. QED BY <1>0, <1>1, <1>3, <1>4, <1>5, <1>6

\* The queue is empty when the held submission enters it.
LEMMA FlushSlots ==
  ASSUME TypeOK, SlotSound, FlushDone
  PROVE  SlotSound'
<1>1. /\ sq' = held /\ held' = <<>> /\ DOMAIN held' = {}
      /\ UNCHANGED <<owner, inflight, cq, cur, next, i>>
  BY DEF FlushDone
<1>2. \A k \in DOMAIN held : k = 1
  BY SeqElements DEF FlushDone, TypeOK, Typed
<1>3. QED
  BY <1>1, <1>2 DEF SlotSound, LineSound, KernelSound, NextSound

\* The kernel moves a request from the head of the queue to the running ones,
\* and from these to the completions; a slot's name moves with it.
LEMMA KernelTakeSlots ==
  ASSUME TypeOK, SlotSound, KernelTake
  PROVE  SlotSound'
<1> DEFINE e == Head(sq)
<1>1. /\ UNCHANGED <<owner, cq, cur, next, i, held>>
      /\ sq' = Tail(sq) /\ sq # <<>> /\ sq \in Seq(Sqes)
  BY DEF KernelTake, TypeOK, Typed
<1>2. /\ 1 \in DOMAIN sq /\ e = sq[1]
      /\ \A k \in DOMAIN Tail(sq) :
           k \in Nat /\ k + 1 \in DOMAIN sq /\ Tail(sq)[k] = sq[k + 1]
  BY <1>1, TailElements
<1>3. \A k \in DOMAIN sq' :
        k \in Nat /\ k + 1 \in DOMAIN sq /\ k + 1 # 1 /\ sq'[k] = sq[k + 1]
  <2>1. \A k \in DOMAIN sq' : k \in Nat /\ k >= 1
    BY <1>1, SeqElements, TailElements
  <2>2. QED BY <1>1, <1>2, <2>1
<1>4. PICK req : /\ req.user = e.user /\ req.op = e.op
                 /\ \/ inflight' = inflight \cup {req}
                    \/ inflight' = (inflight \ Hit(e))
                                     \cup {[r EXCEPT !.stop = TRUE] : r \in Hit(e)}
                                     \cup {req}
  <2>1. \A stop \in BOOLEAN : Request(e, stop).user = e.user
                              /\ Request(e, stop).op = e.op
    BY DEF Request
  <2>2. QED BY <2>1 DEF KernelTake
<1> DEFINE Stop(r)  == [r EXCEPT !.stop = TRUE]
           stopped == {Stop(r) : r \in Hit(e)}
<1>5. /\ Hit(e) \subseteq inflight
      /\ \A x \in stopped :
           \E r \in Hit(e) : x = Stop(r) /\ x.user = r.user /\ x.op = r.op
  <2>1. \A r \in inflight : Stop(r).user = r.user /\ Stop(r).op = r.op
    BY DEF TypeOK, Typed, Requests
  <2>2. Hit(e) \subseteq inflight
    BY DEF Hit
  <2> HIDE DEF Stop
  <2>3. QED BY <2>1, <2>2
<1>a. \A r \in inflight' :
        \/ r.user = e.user /\ r.op = e.op
        \/ \E s \in inflight : r.user = s.user /\ r.op = s.op
  <2>1. CASE inflight' = inflight \cup {req}
    BY <1>4, <2>1
  <2>2. CASE inflight' = (inflight \ Hit(e)) \cup stopped \cup {req}
    <3> HIDE DEF stopped, Stop, e
    <3>1. QED BY <1>4, <1>5, <2>2
  <2>3. QED BY <1>4, <2>1, <2>2
<1>b. \A r, s \in inflight' : r.user = s.user => r = s
  <2>1. \A r \in inflight : r.user # e.user
    BY <1>2 DEF SlotSound, LineSound
  <2>2. \A r, s \in inflight : r.user = s.user => r = s
    BY DEF SlotSound, KernelSound
  <2>3. CASE inflight' = inflight \cup {req}
    BY <1>4, <2>1, <2>2, <2>3
  <2>4. CASE inflight' = (inflight \ Hit(e)) \cup stopped \cup {req}
    <3> HIDE DEF stopped, Stop, e
    <3>1. QED BY <1>4, <1>5, <2>1, <2>2, <2>4
  <2>5. QED BY <1>4, <2>3, <2>4
<1>6. LineSound'
  BY <1>1, <1>2, <1>3, <1>a DEF SlotSound, LineSound
<1>7. KernelSound'
  BY <1>1, <1>2, <1>a, <1>b DEF SlotSound, LineSound, KernelSound
<1>8. NextSound'
  BY <1>1, <1>2, <1>3, <1>a DEF SlotSound, NextSound
<1>9. QED BY <1>6, <1>7, <1>8 DEF SlotSound

LEMMA KernelMoreSlots ==
  ASSUME TypeOK, SlotSound, NEW r \in inflight, KernelMore(r)
  PROVE  SlotSound'
<1> DEFINE c == Cqe(r, TRUE, FALSE)
           q == [r EXCEPT !.shots = @ - 1]
<1>1. /\ UNCHANGED <<owner, sq, held, cur, next, i>>
      /\ cq' = Append(cq, c) /\ inflight' = (inflight \ {r}) \cup {q}
      /\ cq \in Seq(Cqes)
  BY DEF KernelMore, TypeOK, Typed
<1>2. r \in Requests /\ c \in Cqes /\ c.user = r.user /\ c.op = r.op /\ c.more
  <2>1. r \in Requests /\ c \in Cqes
    BY CqeType DEF TypeOK, Typed
  <2>2. c.user = r.user /\ c.op = r.op
    BY DEF Cqe
  <2>3. c.more
    BY DEF Cqe
  <2>4. QED BY <2>1, <2>2, <2>3
<1>3. q.user = r.user /\ q.op = r.op
  BY <1>2 DEF Requests
<1> HIDE DEF c, q
<1>4. \A k \in DOMAIN cq' : \/ k \in DOMAIN cq /\ cq'[k] = cq[k]
                            \/ k = Len(cq) + 1 /\ cq'[k] = c
  BY <1>1, <1>2, AppendElements
<1>5. LineSound'
  BY <1>1, <1>2, <1>3, <1>4 DEF SlotSound, LineSound
<1>6. KernelSound'
  BY <1>1, <1>2, <1>3, <1>4 DEF SlotSound, KernelSound
<1>7. NextSound'
  BY <1>1, <1>2, <1>3, <1>4 DEF SlotSound, NextSound
<1>8. QED BY <1>5, <1>6, <1>7 DEF SlotSound

LEMMA KernelLastSlots ==
  ASSUME TypeOK, SlotSound, NEW r \in inflight, KernelLast(r)
  PROVE  SlotSound'
<1> DEFINE notif == r.kind = ZeroCopy /\ r.shots = 0
           c == Cqe(r, FALSE, notif)
<1>1. /\ UNCHANGED <<owner, sq, held, cur, next, i>>
      /\ cq' = Append(cq, c) /\ inflight' = inflight \ {r}
      /\ cq \in Seq(Cqes)
  BY DEF KernelLast, TypeOK, Typed
<1>2. c \in Cqes /\ c.user = r.user /\ c.op = r.op
  <2>1. c \in Cqes
    BY CqeType DEF TypeOK, Typed
  <2> HIDE DEF notif
  <2>2. c.user = r.user /\ c.op = r.op
    BY DEF Cqe
  <2>3. QED BY <2>1, <2>2
<1> HIDE DEF c
<1>4. \A k \in DOMAIN cq' : \/ k \in DOMAIN cq /\ cq'[k] = cq[k]
                            \/ k = Len(cq) + 1 /\ cq'[k] = c
  BY <1>1, <1>2, AppendElements
<1>5. \A k \in DOMAIN cq : k \in Nat /\ k <= Len(cq) /\ Len(cq) \in Nat
  BY <1>1, SeqElements
<1>6. LineSound'
  BY <1>1, <1>2, <1>4 DEF SlotSound, LineSound
<1>7. KernelSound'
  BY <1>1, <1>2, <1>4, <1>5 DEF SlotSound, KernelSound
<1>8. NextSound'
  BY <1>1, <1>2, <1>4 DEF SlotSound, NextSound
<1>9. QED BY <1>6, <1>7, <1>8 DEF SlotSound

\* reactor_next callbacks: the slot that is freed was the call's alone.
LEMMA NextReturnSlots ==
  ASSUME TypeOK, SlotSound, NextReturn
  PROVE  SlotSound'
<1> DEFINE u == next[i].user
<1>1. /\ UNCHANGED <<sq, held, inflight, cq, cur, next>>
      /\ i' = i + 1 /\ i \in Nat /\ Len(next) \in Nat /\ i \in i .. Len(next)
      /\ owner' = [owner EXCEPT ![u] = NoOp]
  BY DEF NextReturn, FreeUser, TypeOK, Typed, Frame
<1>2. /\ \A k \in DOMAIN sq : sq[k].user # u
      /\ \A k \in DOMAIN held : held[k].user # u
      /\ \A r \in inflight : r.user # u
      /\ \A k \in DOMAIN cq : cq[k].user # u
      /\ cur.user # u
      /\ \A k \in i .. Len(next) : next[k].user = u => k = i
  BY <1>1 DEF SlotSound, NextSound
<1>3. \A v : v # u => owner'[v] = owner[v]
  BY <1>1 DEF TypeOK, Typed
<1>4. \A k \in i' .. Len(next) : k \in i .. Len(next) /\ next[k].user # u
  BY <1>1, <1>2
<1>5. LineSound'
  BY <1>1, <1>2, <1>3 DEF SlotSound, LineSound
<1>6. KernelSound'
  BY <1>1, <1>2, <1>3 DEF SlotSound, KernelSound
<1>7. NextSound'
  BY <1>1, <1>3, <1>4 DEF SlotSound, NextSound
<1>8. QED BY <1>5, <1>6, <1>7 DEF SlotSound

LEMMA RingCqeSlots ==
  ASSUME TypeOK, SlotSound, RingCqe
  PROVE  SlotSound'
<1>1. /\ UNCHANGED <<owner, sq, held, inflight, next, i>>
      /\ cur' = Head(cq) /\ cq' = Tail(cq) /\ cq # <<>> /\ cq \in Seq(Cqes)
  BY DEF RingCqe, TypeOK, Typed
<1>2. /\ 1 \in DOMAIN cq /\ cur' = cq[1]
      /\ \A k \in DOMAIN Tail(cq) :
           k \in Nat /\ k + 1 \in DOMAIN cq /\ Tail(cq)[k] = cq[k + 1]
  BY <1>1, TailElements
<1>3. \A k \in DOMAIN Tail(cq) : k >= 1
  BY <1>1, SeqElements, TailElements
<1>4. \A k \in DOMAIN cq' :
        /\ k \in Nat /\ k + 1 \in DOMAIN cq /\ cq'[k] = cq[k + 1]
        /\ ~(k + 1 <= 1)
  BY <1>1, <1>2, <1>3
<1>5. LineSound'
  BY <1>1, <1>2, <1>4 DEF SlotSound, LineSound
<1>6. KernelSound'
  <2>1. \A k \in DOMAIN cq : k \in Nat
    BY <1>1, SeqElements
  <2>2. QED
    BY <1>1, <1>2, <1>4, <2>1 DEF SlotSound, KernelSound
<1>7. NextSound'
  BY <1>1, <1>2, <1>4 DEF SlotSound, NextSound
<1>8. QED BY <1>5, <1>6, <1>7 DEF SlotSound

\* While the entry cqe points to is intact, freeing the user after the callback
\* frees the slot of an operation with nothing left to come.
LEMMA FinishSlots ==
  ASSUME TypeOK, SlotSound, pc \in {"taken", "call"}, ~lapped',
         NEW u, Finish(u), u = cur.user
  PROVE  SlotSound'
<1>1. /\ UNCHANGED <<sq, held, inflight, cq, next, i>>
      /\ cur' = NoCqe /\ Slot = cur
      /\ owner' = owner \/ (~cur.more /\ owner' = [owner EXCEPT ![u] = NoOp])
  BY DEF Finish, FreeUser, Slot
<1>2. cur # NoCqe
  BY DEF TypeOK, Frame
<1>3. /\ NoCqe.user \notin Users
      /\ \A k \in DOMAIN sq : sq[k].user \in Users
      /\ \A k \in DOMAIN held : held[k].user \in Users
      /\ \A k \in i .. Len(next) : next[k].user \in Users
  BY EntryTypes, UsersAssumption DEF NoCqe
<1>4. CASE owner' = owner
  BY <1>1, <1>3, <1>4 DEF SlotSound, LineSound, KernelSound, NextSound
<1>5. CASE ~cur.more /\ owner' = [owner EXCEPT ![u] = NoOp]
  <2>1. /\ \A k \in DOMAIN sq : sq[k].user # u
        /\ \A k \in DOMAIN held : held[k].user # u
        /\ \A r \in inflight : r.user # u
        /\ \A k \in DOMAIN cq : cq[k].user # u
        /\ \A k \in i .. Len(next) : next[k].user # u
    BY <1>2, <1>5 DEF SlotSound, LineSound, KernelSound, NextSound
  <2>2. \A v : v # u => owner'[v] = owner[v]
    BY <1>5 DEF TypeOK, Typed
  <2>3. QED
    BY <1>1, <1>3, <2>1, <2>2
    DEF SlotSound, LineSound, KernelSound, NextSound
<1>6. QED BY <1>1, <1>4, <1>5

LEMMA LoopSlots ==
  ASSUME TypeOK, SlotSound, Loop \/ RunLoop \/ RunOnce, ~lapped'
  PROVE  SlotSound'
<1> DEFINE slotVars == <<owner, sq, held, inflight, cq, cur, next, i>>
<1>1. CASE UNCHANGED slotVars
  BY <1>1 DEF SlotSound, LineSound, KernelSound, NextSound
<1>2. CASE RunLoop \/ RunOnce
  BY <1>1, <1>2 DEF RunLoop, RunOnce
<1>3. CASE LoopTest \/ NextCall \/ EnterDone \/ RingEmpty
  BY <1>1, <1>3 DEF LoopTest, NextCall, EnterDone, RingEmpty
<1>4. CASE NextReturn
  BY <1>4, NextReturnSlots
<1>5. CASE NextDone
  <2>1. /\ UNCHANGED <<owner, sq, held, inflight, cq, cur>>
        /\ next' = <<>> /\ i' = 1 /\ Len(next') = 0
    BY <1>5 DEF NextDone
  <2>2. \A k \in i' .. Len(next') : FALSE
    BY <2>1
  <2>3. QED
    BY <2>1, <2>2 DEF SlotSound, LineSound, KernelSound, NextSound
<1>6. CASE RingCqe
  BY <1>6, RingCqeSlots
<1>7. CASE CqeCall
  <2>1. cur' = cur
    BY <1>7 DEF CqeCall, Slot
  <2>2. QED
    BY <1>1, <1>7, <2>1 DEF CqeCall
<1>8. CASE CqeReturn
  BY <1>8, FinishSlots DEF CqeReturn
<1>9. CASE CqeNotif
  <2>1. Slot = cur
    BY <1>9 DEF CqeNotif, Finish, Slot
  <2>2. QED
    BY <1>9, <2>1, FinishSlots DEF CqeNotif
<1>10. QED
  BY <1>2, <1>3, <1>4, <1>5, <1>6, <1>7, <1>8, <1>9 DEF Loop

\* An overwritten entry stays on record.
LEMMA LappedStays ==
  ASSUME TypeOK, [Next]_vars, ~lapped'
  PROVE  ~lapped
<1>1. CASE Loop \/ RunLoop \/ RunOnce
  BY <1>1 DEF Loop, RunLoop, RunOnce, LoopTest, NextCall, NextReturn, NextDone,
     EnterDone, RingCqe, RingEmpty, CqeCall, CqeReturn, CqeNotif, Finish
<1>2. CASE Api
  BY <1>2 DEF Api, SubmitOneShot, SubmitMultiShot, AsyncCancel, CancelRing,
     SubmitNext
<1>3. CASE Kernel
  BY <1>3 DEF Kernel, KernelTake, KernelMore, KernelLast
<1>4. CASE FlushDone
  BY <1>4 DEF FlushDone
<1>5. CASE \E id \in ids, how \in {"swapped", "noop"} : CancelNext(id, how)
  BY <1>5 DEF CancelNext
<1>6. CASE UNCHANGED vars
  BY <1>6 DEF vars
<1>7. QED
  BY <1>1, <1>2, <1>3, <1>4, <1>5, <1>6 DEF Next

LEMMA InitSlots ==
  ASSUME Init
  PROVE  SlotInv
<1>1. /\ DOMAIN sq = {} /\ DOMAIN held = {} /\ inflight = {} /\ DOMAIN cq = {}
      /\ cur = NoCqe /\ next = <<>> /\ i = 1 /\ Len(next) = 0
  BY DEF Init
<1>2. \A k \in i .. Len(next) : FALSE
  BY <1>1
<1>3. SlotSound
  BY <1>1, <1>2 DEF SlotSound, LineSound, KernelSound, NextSound
<1>4. QED BY <1>3, InitType DEF SlotInv

LEMMA StepSlots ==
  ASSUME SlotInv, [Next]_vars
  PROVE  SlotInv'
<1>1. SUFFICES ASSUME ~lapped'
               PROVE  SlotSound'
  BY NextType DEF SlotInv
<1>2. TypeOK /\ SlotSound
  BY <1>1, LappedStays DEF SlotInv
<1>3. CASE Api
  BY <1>2, <1>3, ApiSlots
<1>4. CASE \E id \in ids, how \in {"swapped", "noop"} : CancelNext(id, how)
  BY <1>2, <1>4
  DEF CancelNext, SlotSound, LineSound, KernelSound, NextSound
<1>5. CASE FlushDone
  BY <1>2, <1>5, FlushSlots
<1>6. CASE Kernel
  BY <1>2, <1>6, KernelTakeSlots, KernelMoreSlots, KernelLastSlots DEF Kernel
<1>7. CASE Loop \/ RunLoop \/ RunOnce
  BY <1>1, <1>2, <1>7, LoopSlots
<1>8. CASE UNCHANGED vars
  BY <1>2, <1>8 DEF vars, SlotSound, LineSound, KernelSound, NextSound
<1>9. QED
  BY <1>3, <1>4, <1>5, <1>6, <1>7, <1>8 DEF Next

\* The inductive invariant: types, and as long as no completion entry was
\* overwritten before its use, every reference leads to its own operation's
\* slot and the last completion of an operation is the last reference.
THEOREM SlotsCorrect == Spec => []SlotInv
<1>1. Init => SlotInv
  BY InitSlots
<1>2. SlotInv /\ [Next]_vars => SlotInv'
  BY StepSlots
<1>3. QED BY <1>1, <1>2, PTL DEF Spec

\* Nothing refers to a slot that was freed or given to another operation, while
\* the completion entries are read before the kernel writes over them.
THEOREM NoStaleUserAlways == Spec => []NoStaleUser
<1>1. SlotInv => NoStaleUser
  <2>1. SUFFICES ASSUME TypeOK, SlotSound PROVE NoStaleUser
    BY DEF SlotInv, NoStaleUser
  <2>2. \A k \in DOMAIN Line : owner[Line[k].user] = Line[k].op
    <3>1. sq \in Seq(Sqes) /\ held \in Seq(Sqes)
      BY <2>1 DEF TypeOK, Typed
    <3>2. \A k \in DOMAIN Line :
            \/ k \in DOMAIN sq /\ Line[k] = sq[k]
            \/ k - Len(sq) \in DOMAIN held /\ Line[k] = held[k - Len(sq)]
      BY <3>1 DEF Line
    <3>3. QED BY <2>1, <3>2 DEF SlotSound, LineSound
  <2>3. \A x \in Live : owner[x.user] = x.op
    BY <2>1 DEF Live, SlotSound, NextSound
  <2>4. QED
    BY <2>1, <2>2, <2>3 DEF NoStaleUser, SlotSound, KernelSound
<1>2. QED BY <1>1, SlotsCorrect, PTL

\* Types, and whatever names a slot was made by the operation it is allocated to.
THEOREM UsersSoundAlways == Spec => []UsersSound
  BY TypeCorrect, NoStaleUserAlways, PTL DEF UsersSound

-----------------------------------------------------------------------------
(* Ids, cancellation, the loop and the callbacks. *)

\* Every reference is to an operation already started, so that the number of a
\* new one is fresh.
LEMMA OpsStarted ==
  ASSUME TypeOK, SlotSound, PoolSound, IdSound
  PROVE  /\ \A k \in DOMAIN sq : sq[k].op <= nops
         /\ \A k \in DOMAIN held : held[k].op <= nops
         /\ \A r \in inflight : r.op <= nops
         /\ \A k \in DOMAIN cq : cq[k].op <= nops
         /\ cur # NoCqe => cur.op <= nops
         /\ \A k \in i .. Len(next) : next[k].op <= nops
         /\ \A id \in ids : id.op <= nops
         /\ nops \in Nat
<1>1. \A u \in Users : owner[u] <= nops
  BY DEF PoolSound
<1>2. \A id \in ids : id.user \in Users
  BY DEF TypeOK, Typed, Ids
<1>3. nops \in Nat
  BY BoundsAssumption DEF TypeOK, Typed
<1>4. QED
  BY <1>1, <1>2, <1>3, EntryTypes
  DEF SlotSound, LineSound, KernelSound, NextSound, IdSound

\* An id leads to an allocated slot.
LEMMA IdsAreBusy ==
  ASSUME TypeOK, IdSound
  PROVE  \A id \in ids : /\ id.user \in Users /\ id.op \in Ops
                         /\ owner[id.user] = id.op /\ id.user \in Busy
<1>1. \A id \in ids : id.user \in Users /\ id.op \in Ops
  BY DEF TypeOK, Typed, Ids
<1>2. NoOp \notin Ops
  BY DEF NoOp, Ops
<1>3. QED BY <1>1, <1>2 DEF IdSound, Busy

\* A completion that is handled last, or a next call, has no id left.
LEMMA FreedHasNoId ==
  ASSUME TypeOK, SlotSound, IdSound, NEW u \in Users, Dropped(owner[u])
  PROVE  \A id \in ids : id.user # u
  BY IdsAreBusy DEF Dropped

-----------------------------------------------------------------------------
(* The pool: slot and operation determine each other.                       *)

LEMMA AllocPool ==
  ASSUME TypeOK, PoolSound, NEW u \in Users, u \notin Busy,
         owner' = [owner EXCEPT ![u] = nops + 1], nops' = nops + 1
  PROVE  PoolSound'
<1>1. nops \in Nat /\ \A v \in Users : owner[v] <= nops /\ owner[v] \in Nat
  BY BoundsAssumption DEF PoolSound, TypeOK, Typed, Ops, NoOp
<1>2. owner'[u] = nops + 1 /\ \A v \in Users : v # u => owner'[v] = owner[v]
  BY DEF TypeOK, Typed
<1>3. \A v \in Users : owner'[v] <= nops'
  BY <1>1, <1>2
<1>4. ASSUME NEW v \in Busy', NEW w \in Busy', owner'[v] = owner'[w]
      PROVE  v = w
  <2>1. v \in Users /\ w \in Users
    BY DEF Busy
  <2>2. CASE v = u \/ w = u
    BY <1>1, <1>2, <1>4, <2>1, <2>2
  <2>3. CASE v # u /\ w # u
    BY <1>2, <1>4, <2>1, <2>3 DEF PoolSound, Busy
  <2>4. QED BY <2>2, <2>3
<1>5. QED BY <1>3, <1>4 DEF PoolSound

LEMMA FreePool ==
  ASSUME TypeOK, PoolSound, NEW u, FreeUser(u), nops' = nops
  PROVE  PoolSound'
<1>1. /\ nops \in Nat /\ NoOp <= nops
      /\ \A v \in Users : owner'[v] = owner[v] \/ owner'[v] = NoOp
  BY BoundsAssumption DEF FreeUser, TypeOK, Typed, NoOp
<1>2. QED BY <1>1 DEF PoolSound, Busy

\* What an operation of the API does to pool and ids: it starts a new operation
\* in a free slot.
Started(u) ==
  /\ u \notin Busy /\ nops < MaxOps
  /\ owner' = [owner EXCEPT ![u] = nops + 1] /\ nops' = nops + 1
  /\ \A id \in ids' : id \in ids \/ (id.user = u /\ id.op = nops + 1)
  /\ pc \in AppPcs
  /\ Frame' = Frame /\ pc' # "taken"
  /\ inflight' = inflight /\ cq' = cq /\ cur' = cur /\ i' = i
  /\ \/ next' = next
     \/ next' = Append(next, [user |-> u, op |-> nops + 1])

LEMMA ApiPool ==
  ASSUME TypeOK, Api
  PROVE  \E u \in Users : Started(u)
<1>0. PICK u \in Users :
        \/ \E how \in {"own", "noop"} : SubmitOneShot(u, how)
        \/ \E kind \in {MultiShot, ZeroCopy} : SubmitMultiShot(u, kind)
        \/ \E id \in ids : AsyncCancel(u, id)
        \/ \E id \in ids, how \in {"swapped", "noop"} : CancelRing(u, id, how)
        \/ SubmitNext(u)
  BY DEF Api
<1>1. ASSUME NEW sqe, pc \in AppPcs, RingSqe(sqe)
      PROVE  Frame' = Frame /\ pc' # "taken"
  BY <1>1 DEF RingSqe, Frame, AppPcs
<1>2. ASSUME NEW how \in {"own", "noop"}, SubmitOneShot(u, how)
      PROVE  Started(u)
  <2>1. Frame' = Frame /\ pc' # "taken"
    BY <1>1, <1>2 DEF SubmitOneShot
  <2>2. QED BY <1>2, <2>1 DEF SubmitOneShot, AllocUser, Started
<1>3. ASSUME NEW kind \in {MultiShot, ZeroCopy}, SubmitMultiShot(u, kind)
      PROVE  Started(u)
  <2>1. Frame' = Frame /\ pc' # "taken"
    BY <1>1, <1>3 DEF SubmitMultiShot
  <2>2. QED BY <1>3, <2>1 DEF SubmitMultiShot, AllocUser, Started
<1>4. ASSUME NEW id \in ids, AsyncCancel(u, id)
      PROVE  Started(u)
  <2>1. Frame' = Frame /\ pc' # "taken"
    BY <1>1, <1>4 DEF AsyncCancel
  <2>2. QED BY <1>4, <2>1 DEF AsyncCancel, AllocUser, Started
<1>5. ASSUME NEW id \in ids, NEW how \in {"swapped", "noop"},
             CancelRing(u, id, how)
      PROVE  Started(u)
  <2>1. Frame' = Frame /\ pc' # "taken"
    BY <1>1, <1>5 DEF CancelRing
  <2>2. QED BY <1>5, <2>1 DEF CancelRing, Started
<1>6. ASSUME SubmitNext(u)
      PROVE  Started(u)
  <2>1. Frame' = Frame /\ pc' # "taken"
    BY <1>6 DEF SubmitNext, Frame, AppPcs
  <2>2. QED BY <1>6, <2>1 DEF SubmitNext, AllocUser, Started
<1>7. QED BY <1>0, <1>2, <1>3, <1>4, <1>5, <1>6

-----------------------------------------------------------------------------
(* Ids and notifications, step by step.                                     *)

\* Steps that leave the completions and the running requests alone.
LEMMA NotifStays ==
  ASSUME NotifSound, UNCHANGED <<inflight, cq, cur>>,
         pc = "taken" => pc' = "taken",
         \A r \in inflight : Dropped(r.op) => Dropped(r.op)',
         \A k \in DOMAIN cq : Dropped(cq[k].op) => Dropped(cq[k].op)',
         cur # NoCqe /\ Dropped(cur.op) => Dropped(cur.op)'
  PROVE  NotifSound'
<1>1. \A o, n : ResultWaits(o, n) => ResultWaits(o, n)'
  BY DEF ResultWaits
<1>2. QED BY <1>1 DEF NotifSound

LEMMA ApiIds ==
  ASSUME TypeOK, SlotSound, PoolSound, NotifSound, IdSound, Api
  PROVE  PoolSound' /\ NotifSound' /\ IdSound'
<1>0. PICK u \in Users : Started(u)
  BY ApiPool
<1>a. /\ u \notin Busy
      /\ owner' = [owner EXCEPT ![u] = nops + 1] /\ nops' = nops + 1
      /\ \A id \in ids' : id \in ids \/ (id.user = u /\ id.op = nops + 1)
      /\ pc \in AppPcs
      /\ Frame' = Frame /\ pc' # "taken"
      /\ inflight' = inflight /\ cq' = cq /\ cur' = cur /\ i' = i
      /\ \/ next' = next
         \/ next' = Append(next, [user |-> u, op |-> nops + 1])
  BY <1>0 DEF Started
<1>1. PoolSound'
  BY <1>a, AllocPool
<1>2. \A o : o <= nops /\ o \in Nat /\ Dropped(o) => \A id \in ids' : id.op # o
  <2>1. nops \in Nat
    BY OpsStarted
  <2>2. \A o \in Nat : o <= nops => o # nops + 1
    BY <2>1
  <2>3. QED BY <1>a, <2>2 DEF Dropped
<1>3. \A o \in Ops : o \in Nat
  BY DEF Ops
<1>4. NotifSound'
  <2>1. pc # "taken"
    BY <1>a DEF AppPcs
  <2>2. QED
    BY <1>a, <1>2, <1>3, <2>1, OpsStarted, EntryTypes, NotifStays DEF Dropped
<1>5. \A id \in ids' : owner'[id.user] = id.op
  <2>1. owner'[u] = nops + 1 /\ \A v : v # u => owner'[v] = owner[v]
    BY <1>a DEF TypeOK, Typed
  <2>2. QED BY <1>a, <2>1, IdsAreBusy DEF IdSound
<1>6. (Frame = "call" /\ ~cur.more => Dropped(cur.op))'
  <2>1. Frame = "call" => cur # NoCqe
    BY DEF TypeOK
  <2>2. Frame = "call" => cur.op <= nops /\ cur.op \in Nat
    BY <1>3, <2>1, OpsStarted, EntryTypes
  <2>3. Frame = "call" /\ ~cur.more => Dropped(cur.op)
    BY DEF IdSound
  <2>4. Frame = "call" /\ ~cur.more => \A id \in ids' : id.op # cur.op
    BY <1>2, <2>2, <2>3 DEF Dropped
  <2>5. QED BY <1>a, <2>4 DEF Dropped
<1>7. (Frame = "nextcall" => Dropped(next[i].op))'
  <2>1. SUFFICES ASSUME Frame' = "nextcall"
                 PROVE  Dropped(next[i].op)'
    OBVIOUS
  <2>2. Frame = "nextcall" /\ i \in i .. Len(next) /\ i' = i
    BY <1>a, <2>1 DEF TypeOK, Typed
  <2> DEFINE x == [user |-> u, op |-> nops + 1]
  <2>3. next'[i] = next[i]
    <3>1. i \in DOMAIN next /\ next \in Seq(NextUsers)
      BY <2>2, EntryTypes DEF TypeOK, Typed
    <3>2. Append(next, x)[i] = next[i]
      <4> HIDE DEF x
      <4>1. QED BY <3>1
    <3>3. QED BY <1>a, <3>2
  <2>4. next[i].op <= nops /\ next[i].op \in Nat /\ Dropped(next[i].op)
    <3>1. next[i].op <= nops
      BY <2>2, OpsStarted
    <3>2. next[i].op \in Nat
      BY <1>3, <2>2, EntryTypes
    <3>3. Dropped(next[i].op)
      BY <2>2 DEF IdSound
    <3>4. QED BY <3>1, <3>2, <3>3
  <2>5. \A id \in ids' : id.op # next[i].op
    BY <1>2, <2>4 DEF Dropped
  <2>6. QED BY <2>2, <2>3, <2>5 DEF Dropped
<1>8. QED BY <1>1, <1>4, <1>5, <1>6, <1>7 DEF IdSound

\* A stopped request is the same request otherwise, and a new one is no
\* notification yet.
LEMMA KernelTakeNotif ==
  ASSUME TypeOK, NotifSound, KernelTake
  PROVE  NotifSound'
<1> DEFINE e == Head(sq)
           Stop(r) == [r EXCEPT !.stop = TRUE]
<1>1. UNCHANGED <<ids, cq, cur, pc>>
  BY DEF KernelTake
<1>2. \A o, n : /\ Dropped(o) => \A id \in ids' : id.op # o
                /\ ResultWaits(o, n) => ResultWaits(o, n)'
  BY <1>1 DEF Dropped, ResultWaits
<1>3. \A r \in inflight : /\ Stop(r).kind = r.kind /\ Stop(r).op = r.op
                           /\ Stop(r).shots = r.shots
  BY DEF TypeOK, Typed, Requests
<1>4. \A r \in inflight' :
        \/ \E s \in inflight : r.kind = s.kind /\ r.op = s.op /\ r.shots = s.shots
        \/ r.kind = ZeroCopy => r.shots # 0
  <2>1. /\ Request(e, FALSE).kind = ZeroCopy => Request(e, FALSE).shots # 0
        /\ e.kind = Cancellation => Request(e, TRUE).kind # ZeroCopy
    BY DEF Request, ZeroCopy, MultiShot, Cancellation
  <2>2. CASE e.kind = Cancellation
    <3>1. inflight' = (inflight \ Hit(e)) \cup {Stop(r) : r \in Hit(e)}
                        \cup {Request(e, TRUE)}
      BY <2>2 DEF KernelTake
    <3>2. Hit(e) \subseteq inflight
      BY DEF Hit
    <3> HIDE DEF Stop, e
    <3>3. ASSUME NEW r \in inflight'
          PROVE  \/ r \in inflight
                 \/ \E s \in inflight : r = Stop(s)
                 \/ r = Request(e, TRUE)
      BY <3>1, <3>2
    <3>4. QED BY <1>3, <2>1, <2>2, <3>3
  <2>3. CASE e.kind # Cancellation
    <3>1. inflight' = inflight \cup {Request(e, FALSE)}
      BY <2>3 DEF KernelTake
    <3>2. QED BY <2>1, <3>1
  <2>4. QED BY <2>2, <2>3
<1>5. QED
  BY <1>1, <1>2, <1>4 DEF NotifSound, Dropped

\* The event of a multishot poll is no notification; the result of a zerocopy
\* send is in the queue when its request waits for the notification only.
LEMMA KernelMoreNotif ==
  ASSUME TypeOK, NotifSound, NEW r \in inflight, KernelMore(r)
  PROVE  NotifSound'
<1> DEFINE c == Cqe(r, TRUE, FALSE)
           q == [r EXCEPT !.shots = @ - 1]
<1>1. /\ UNCHANGED <<ids, cur, pc>>
      /\ cq' = Append(cq, c) /\ inflight' = (inflight \ {r}) \cup {q}
      /\ cq \in Seq(Cqes) /\ r \in Requests
  BY DEF KernelMore, TypeOK, Typed
<1>2. c \in Cqes /\ c.op = r.op /\ c.kind = r.kind /\ ~c.notif
  <2>1. c \in Cqes
    BY <1>1, CqeType
  <2>2. c.op = r.op /\ c.kind = r.kind
    BY DEF Cqe
  <2>3. ~c.notif
    BY DEF Cqe
  <2>4. QED BY <2>1, <2>2, <2>3
<1>3. q.op = r.op /\ q.kind = r.kind
  BY <1>1 DEF Requests
<1> HIDE DEF c, q
<1>4. /\ Len(cq') = Len(cq) + 1 /\ Len(cq) \in Nat
      /\ Len(cq') \in 1 .. Len(cq') /\ cq'[Len(cq')] = c
      /\ \A k \in 1 .. Len(cq) : cq'[k] = cq[k] /\ k \in 1 .. Len(cq')
      /\ \A k \in DOMAIN cq' : \/ k \in DOMAIN cq /\ cq'[k] = cq[k]
                               \/ k = Len(cq) + 1 /\ cq'[k] = c
      /\ \A k \in DOMAIN cq : k - 1 \in Nat /\ k - 1 <= Len(cq)
  BY <1>1, <1>2
<1>5. \A o : Dropped(o) => \A id \in ids' : id.op # o
  BY <1>1 DEF Dropped
<1>6. ASSUME NEW o, NEW n \in Nat, n <= Len(cq), ResultWaits(o, n)
      PROVE  ResultWaits(o, n)' /\ ResultWaits(o, Len(cq))'
  <2>1. \A l \in 1 .. n : l \in 1 .. Len(cq)
    BY <1>4, <1>6
  <2>2. QED BY <1>1, <1>4, <1>6, <2>1 DEF ResultWaits
<1>7. \A x \in inflight' : x.kind = ZeroCopy /\ x.shots = 0 =>
        (Dropped(x.op) \/ ResultWaits(x.op, Len(cq)))'
  <2>1. CASE r.kind = ZeroCopy
    <3>1. ResultWaits(q.op, Len(cq))'
      BY <1>2, <1>3, <1>4, <2>1 DEF ResultWaits
    <3>2. QED BY <1>1, <1>4, <1>5, <1>6, <3>1 DEF NotifSound, Dropped
  <2>2. CASE r.kind # ZeroCopy
    BY <1>1, <1>3, <1>4, <1>5, <1>6, <2>2 DEF NotifSound, Dropped
  <2>3. QED BY <2>1, <2>2
<1>8. \A k \in DOMAIN cq' : cq'[k].notif =>
        \/ \A id \in ids' : id.op # cq'[k].op
        \/ ResultWaits(cq[k].op, k - 1)'
  BY <1>2, <1>4, <1>5, <1>6 DEF NotifSound
<1>9. QED BY <1>1, <1>5, <1>7, <1>8 DEF NotifSound, Dropped

\* The notification of a zerocopy send is queued behind its result.
LEMMA KernelLastNotif ==
  ASSUME TypeOK, NotifSound, NEW r \in inflight, KernelLast(r)
  PROVE  NotifSound'
<1> DEFINE notif == r.kind = ZeroCopy /\ r.shots = 0
           c == Cqe(r, FALSE, notif)
<1>1. /\ UNCHANGED <<ids, cur, pc>>
      /\ cq' = Append(cq, c) /\ inflight' = inflight \ {r}
      /\ cq \in Seq(Cqes)
  BY DEF KernelLast, TypeOK, Typed
<1>2. c \in Cqes /\ c.op = r.op /\ (c.notif => notif)
  <2>1. c \in Cqes
    BY CqeType DEF TypeOK, Typed
  <2> HIDE DEF notif
  <2>2. c.op = r.op
    BY DEF Cqe
  <2>3. c.notif => notif
    BY DEF Cqe
  <2>4. QED BY <2>1, <2>2, <2>3
<1>3. notif => Dropped(r.op) \/ ResultWaits(r.op, Len(cq))
  BY DEF NotifSound
<1> HIDE DEF c, notif
<1>4. /\ Len(cq') = Len(cq) + 1 /\ Len(cq) \in Nat
      /\ \A k \in 1 .. Len(cq) : cq'[k] = cq[k] /\ k \in 1 .. Len(cq')
      /\ \A k \in DOMAIN cq' : \/ k \in DOMAIN cq /\ cq'[k] = cq[k]
                               \/ k = Len(cq) + 1 /\ cq'[k] = c
      /\ \A k \in DOMAIN cq : k - 1 \in Nat /\ k - 1 <= Len(cq)
      /\ (Len(cq) + 1) - 1 = Len(cq)
  BY <1>1, <1>2
<1>5. \A o : Dropped(o) => \A id \in ids' : id.op # o
  BY <1>1 DEF Dropped
<1>6. ASSUME NEW o, NEW n \in Nat, n <= Len(cq), ResultWaits(o, n)
      PROVE  ResultWaits(o, n)' /\ ResultWaits(o, Len(cq))'
  <2>1. \A l \in 1 .. n : l \in 1 .. Len(cq)
    BY <1>4, <1>6
  <2>2. QED BY <1>1, <1>4, <1>6, <2>1 DEF ResultWaits
<1>7. \A x \in inflight' : x.kind = ZeroCopy /\ x.shots = 0 =>
        (Dropped(x.op) \/ ResultWaits(x.op, Len(cq)))'
  BY <1>1, <1>4, <1>5, <1>6 DEF NotifSound, Dropped
<1>8. \A k \in DOMAIN cq' : cq'[k].notif =>
        \/ \A id \in ids' : id.op # cq'[k].op
        \/ ResultWaits(cq[k].op, k - 1)'
  BY <1>2, <1>3, <1>4, <1>5, <1>6 DEF NotifSound
<1>9. QED BY <1>1, <1>5, <1>7, <1>8 DEF NotifSound, Dropped

\* The first completion becomes the one that is handled; the others move up.
LEMMA RingCqeNotif ==
  ASSUME TypeOK, NotifSound, RingCqe
  PROVE  NotifSound'
<1>1. /\ UNCHANGED <<ids, inflight>> /\ pc = "drain" /\ pc' = "taken"
      /\ cur' = Head(cq) /\ cq' = Tail(cq) /\ cq # <<>> /\ cq \in Seq(Cqes)
  BY DEF RingCqe, TypeOK, Typed
<1>2. /\ cur' = cq[1] /\ 1 \in DOMAIN cq
      /\ Len(cq') = Len(cq) - 1 /\ Len(cq) \in Nat
      /\ \A k \in DOMAIN cq' : /\ k \in Nat /\ k + 1 \in DOMAIN cq
                               /\ cq'[k] = cq[k + 1] /\ (k + 1) - 1 = k
      /\ \A l \in 2 .. Len(cq) : l - 1 \in 1 .. Len(cq') /\ cq'[l - 1] = cq[l]
      /\ DOMAIN cq = 1 .. Len(cq)
  BY <1>1
<1>3. \A o : Dropped(o) => \A id \in ids' : id.op # o
  BY <1>1 DEF Dropped
<1> DEFINE WaitsNow(o, n) ==
             \/ \E l \in 1 .. n :
                  cq'[l].op = o /\ cq'[l].kind = ZeroCopy /\ ~cq'[l].notif
             \/ cur'.op = o /\ cur'.kind = ZeroCopy /\ ~cur'.notif
<1>4. ASSUME NEW o, NEW n \in Nat, n <= Len(cq), ResultWaits(o, n)
      PROVE  WaitsNow(o, n - 1)
  <2>1. PICK l \in 1 .. n :
          cq[l].op = o /\ cq[l].kind = ZeroCopy /\ ~cq[l].notif
    BY <1>1, <1>4 DEF ResultWaits
  <2>2. CASE l = 1
    BY <1>1, <1>2, <2>1, <2>2
  <2>3. CASE l # 1
    <3>1. l \in 2 .. Len(cq) /\ l - 1 \in 1 .. (n - 1)
      BY <1>2, <1>4, <2>3
    <3>2. cq'[l - 1] = cq[l]
      BY <1>2, <3>1
    <3>3. QED BY <2>1, <3>1, <3>2
  <2>4. QED BY <2>2, <2>3
<1>5. ASSUME NEW x \in inflight, x.kind = ZeroCopy, x.shots = 0
      PROVE  (\A id \in ids' : id.op # x.op) \/ WaitsNow(x.op, Len(cq'))
  <2>1. Dropped(x.op) \/ ResultWaits(x.op, Len(cq))
    BY <1>5 DEF NotifSound
  <2>2. Len(cq) \in Nat /\ Len(cq) <= Len(cq) /\ Len(cq') = Len(cq) - 1
    BY <1>2
  <2> HIDE DEF WaitsNow
  <2>3. QED BY <1>3, <1>4, <2>1, <2>2
<1>6. ASSUME NEW k \in DOMAIN cq', cq'[k].notif
      PROVE  (\A id \in ids' : id.op # cq'[k].op) \/ WaitsNow(cq'[k].op, k - 1)
  <2>1. k \in Nat /\ k + 1 \in DOMAIN cq /\ cq'[k] = cq[k + 1]
        /\ (k + 1) - 1 = k /\ k <= Len(cq)
    BY <1>1, <1>2
  <2>2. Dropped(cq'[k].op) \/ ResultWaits(cq'[k].op, k)
    BY <1>6, <2>1 DEF NotifSound
  <2> HIDE DEF WaitsNow
  <2>3. QED BY <1>3, <1>4, <2>1, <2>2
<1>7. cur'.notif => \A id \in ids' : id.op # cur'.op
  <2>1. SUFFICES ASSUME cq[1].notif
                 PROVE  \A id \in ids' : id.op # cq[1].op
    BY <1>2
  <2>2. Dropped(cq[1].op) \/ ResultWaits(cq[1].op, 0)
    BY <1>2, <2>1 DEF NotifSound
  <2>3. ~ResultWaits(cq[1].op, 0)
    BY <1>1 DEF ResultWaits
  <2>4. QED BY <1>3, <2>2, <2>3
<1>8. QED
  BY <1>1, <1>5, <1>6, <1>7 DEF NotifSound, Dropped, ResultWaits

\* The callback for the result of a zerocopy send takes the operation's ids; it
\* keeps them only for an event of a multishot poll.
LEMMA CqeCallIds ==
  ASSUME TypeOK, NotifSound, IdSound, CqeCall, ~lapped'
  PROVE  NotifSound' /\ IdSound'
<1>1. /\ UNCHANGED <<owner, inflight, cq, next, i>>
      /\ pc = "taken" /\ pc' = "call" /\ cur' = cur /\ Slot = cur
  BY DEF CqeCall, Slot
<1>2. /\ ids' \subseteq ids
      /\ \/ cur.kind = MultiShot /\ cur.more
         \/ \A id \in ids' : id.op # cur.op
  BY <1>1 DEF CqeCall
<1>3. \A o, n : ResultWaits(o, n) =>
        \/ \E l \in 1 .. n :
             cq'[l].op = o /\ cq'[l].kind = ZeroCopy /\ ~cq'[l].notif
        \/ \A id \in ids' : id.op # o
  BY <1>1, <1>2 DEF ResultWaits, ZeroCopy, MultiShot
<1>4. \A o : Dropped(o) => \A id \in ids' : id.op # o
  BY <1>2 DEF Dropped
<1>5. NotifSound'
  BY <1>1, <1>3, <1>4, ZenonT(30) DEF NotifSound, Dropped, ResultWaits
<1>6. Frame' = "call"
  BY <1>1 DEF Frame
<1>7. IdSound'
  <2>1. \A id \in ids' : owner'[id.user] = id.op
    BY <1>1, <1>2 DEF IdSound
  <2>2. ~cur'.more => \A id \in ids' : id.op # cur'.op
    BY <1>1, <1>2
  <2>3. QED BY <1>6, <2>1, <2>2 DEF IdSound, Dropped
<1>8. QED BY <1>5, <1>7

\* A slot is freed when no id of its operation is left.
LEMMA FreeIds ==
  ASSUME TypeOK, IdSound, NEW u \in Users, FreeUser(u),
         Dropped(owner[u]), ids' = ids
  PROVE  \A id \in ids' : owner'[id.user] = id.op
<1>1. \A id \in ids : id.user # u /\ owner[id.user] = id.op
  BY IdsAreBusy DEF Dropped
<1>2. \A v : v # u => owner'[v] = owner[v]
  BY DEF FreeUser, TypeOK, Typed
<1>3. QED BY <1>1, <1>2

LEMMA FinishIds ==
  ASSUME TypeOK, SlotSound, NotifSound, IdSound, CqeReturn \/ CqeNotif, ~lapped'
  PROVE  NotifSound' /\ IdSound'
<1>1. /\ UNCHANGED <<ids, inflight, cq, next, i>>
      /\ Slot = cur /\ cur' = NoCqe /\ cur # NoCqe
      /\ pc' = "drain" /\ Frame' = "drain"
      /\ IF cur.more THEN UNCHANGED owner ELSE FreeUser(cur.user)
      /\ pc = "taken" => cur.notif
  BY DEF CqeReturn, CqeNotif, Finish, Slot, Frame, TypeOK
<1>2. \A o, n : ResultWaits(o, n) =>
        \E l \in 1 .. n :
          cq[l].op = o /\ cq[l].kind = ZeroCopy /\ ~cq[l].notif
  BY <1>1 DEF ResultWaits
<1>3. NotifSound'
  BY <1>1, <1>2 DEF NotifSound, Dropped, ResultWaits
<1>4. ~cur.more => Dropped(cur.op)
  <2>1. CASE CqeReturn
    BY <2>1 DEF CqeReturn, Frame, IdSound
  <2>2. CASE CqeNotif
    BY <1>1, <2>2 DEF CqeNotif, NotifSound
  <2>3. QED BY <2>1, <2>2
<1>5. \A id \in ids' : owner'[id.user] = id.op
  <2>1. CASE cur.more
    BY <1>1, <2>1 DEF IdSound
  <2>2. CASE ~cur.more
    <3>1. cur.user \in Users /\ owner[cur.user] = cur.op
      BY <1>1, EntryTypes DEF SlotSound, KernelSound
    <3>2. QED BY <1>1, <1>4, <2>2, <3>1, FreeIds
  <2>3. QED BY <2>1, <2>2
<1>6. QED BY <1>1, <1>3, <1>5 DEF IdSound

LEMMA NextReturnIds ==
  ASSUME TypeOK, SlotSound, NotifSound, IdSound, NextReturn
  PROVE  NotifSound' /\ IdSound'
<1>1. /\ UNCHANGED <<ids, inflight, cq, cur>>
      /\ FreeUser(next[i].user) /\ Frame = "nextcall"
      /\ pc # "taken" /\ Frame' = "next" /\ i \in i .. Len(next)
  BY DEF NextReturn, Frame, TypeOK, Typed
<1>2. next[i].user \in Users /\ owner[next[i].user] = next[i].op
  BY <1>1, EntryTypes DEF SlotSound, NextSound
<1>3. \A id \in ids' : owner'[id.user] = id.op
  BY <1>1, <1>2, FreeIds DEF IdSound
<1>4. NotifSound'
  BY <1>1, NotifStays DEF Dropped
<1>5. QED BY <1>1, <1>3, <1>4 DEF IdSound

LEMMA LoopIds ==
  ASSUME TypeOK, SlotSound, PoolSound, NotifSound, IdSound,
         Loop \/ RunLoop \/ RunOnce, ~lapped'
  PROVE  PoolSound' /\ NotifSound' /\ IdSound'
<1>1. PoolSound'
  <2>1. CASE UNCHANGED <<owner, nops>>
    BY <2>1 DEF PoolSound, Busy
  <2>2. CASE nops' = nops /\ \E u : FreeUser(u)
    BY <2>2, FreePool
  <2>3. QED
    BY <2>1, <2>2
    DEF Loop, RunLoop, RunOnce, LoopTest, NextCall, NextReturn, NextDone,
        EnterDone, RingCqe, RingEmpty, CqeCall, CqeReturn, CqeNotif, Finish
<1> SUFFICES NotifSound' /\ IdSound'
  BY <1>1
<1>2. ASSUME UNCHANGED <<owner, ids, inflight, cq, cur>>, pc # "taken",
             Frame' \notin {"call", "nextcall"}
      PROVE  NotifSound' /\ IdSound'
  BY <1>2, NotifStays DEF Dropped, IdSound
<1>3. CASE RunLoop \/ RunOnce \/ LoopTest \/ EnterDone \/ RingEmpty
  <2>1. pc' \in {"while", "next", "app", "drain"} /\ Frame' = pc'
    BY <1>3 DEF RunLoop, RunOnce, LoopTest, EnterDone, RingEmpty, AfterOnce, Frame
  <2>2. QED
    BY <1>2, <1>3, <2>1 DEF RunLoop, RunOnce, LoopTest, EnterDone, RingEmpty
<1>4. CASE NextDone
  <2>1. pc' \in {"while", "app", "enter"} /\ Frame' = pc'
    BY <1>4 DEF NextDone, AfterOnce, Frame
  <2>2. QED BY <1>2, <1>4, <2>1 DEF NextDone
<1>5. CASE NextCall
  <2>1. /\ UNCHANGED <<owner, inflight, cq, cur, next, i>> /\ pc # "taken"
        /\ ids' \subseteq ids /\ \A id \in ids' : id.op # next[i].op
        /\ Frame' = "nextcall"
    BY <1>5 DEF NextCall, Frame
  <2>2. NotifSound'
    BY <2>1, NotifStays DEF Dropped
  <2>3. QED BY <2>1, <2>2 DEF IdSound, Dropped
<1>6. CASE NextReturn
  BY <1>6, NextReturnIds
<1>7. CASE RingCqe
  <2>1. UNCHANGED <<owner, ids>> /\ Frame' = "taken"
    BY <1>7 DEF RingCqe, Frame
  <2>2. QED BY <1>7, <2>1, RingCqeNotif DEF IdSound
<1>8. CASE CqeCall
  BY <1>8, CqeCallIds
<1>9. CASE CqeReturn \/ CqeNotif
  BY <1>9, FinishIds
<1>10. QED
  BY <1>3, <1>4, <1>5, <1>6, <1>7, <1>8, <1>9 DEF Loop

LEMMA KernelIds ==
  ASSUME TypeOK, PoolSound, NotifSound, IdSound, Kernel
  PROVE  PoolSound' /\ NotifSound' /\ IdSound'
<1>1. UNCHANGED <<owner, nops, ids, cur, next, i, pc, ret>>
  BY DEF Kernel, KernelTake, KernelMore, KernelLast
<1>2. NotifSound'
  BY KernelTakeNotif, KernelMoreNotif, KernelLastNotif DEF Kernel
<1>3. QED
  BY <1>1, <1>2 DEF PoolSound, Busy, IdSound, Frame, Dropped

\* The inductive invariant: while no completion entry was overwritten, slots and
\* operations determine each other, and an id is held only until the last
\* callback it stands for, which comes before its slot is freed.
THEOREM IdsCorrect == Spec => []IdInv
<1>1. Init => IdInv
  <2>1. SUFFICES ASSUME Init PROVE IdInv
    OBVIOUS
  <2>2. SlotInv
    BY <2>1, InitSlots
  <2>3. /\ ids = {} /\ inflight = {} /\ DOMAIN cq = {} /\ cur = NoCqe
        /\ nops = 0 /\ Busy = {} /\ \A u \in Users : owner[u] = 0
        /\ Frame = "app"
    BY <2>1 DEF Init, Busy, NoOp, Frame
  <2>4. QED
    BY <2>2, <2>3 DEF IdInv, PoolSound, NotifSound, IdSound
<1>2. IdInv /\ [Next]_vars => IdInv'
  <2>1. SUFFICES ASSUME IdInv, [Next]_vars, ~lapped'
                 PROVE  PoolSound' /\ NotifSound' /\ IdSound'
    BY StepSlots DEF IdInv
  <2>2. TypeOK /\ SlotSound /\ PoolSound /\ NotifSound /\ IdSound
    BY <2>1, LappedStays DEF IdInv, SlotInv
  <2>3. CASE Api
    BY <2>2, <2>3, ApiIds
  <2>4. CASE \E id \in ids, how \in {"swapped", "noop"} : CancelNext(id, how)
    <3>1. UNCHANGED <<owner, nops, inflight, cq, cur, next, i, pc, ret>>
          /\ ids' \subseteq ids
      BY <2>4 DEF CancelNext
    <3>2. NotifSound'
      BY <2>2, <3>1, NotifStays DEF Dropped
    <3>3. QED
      BY <2>2, <3>1, <3>2 DEF PoolSound, Busy, IdSound, Frame, Dropped
  <2>5. CASE FlushDone
    <3>1. /\ UNCHANGED <<owner, nops, ids, inflight, cq, cur, next, i>>
          /\ pc # "taken" /\ Frame' = Frame
      BY <2>2, <2>5 DEF FlushDone, Frame, AppPcs, TypeOK, Typed
    <3>2. NotifSound'
      BY <2>2, <3>1, NotifStays DEF Dropped
    <3>3. QED
      BY <2>2, <3>1, <3>2 DEF PoolSound, Busy, IdSound, Dropped
  <2>6. CASE Kernel
    BY <2>2, <2>6, KernelIds
  <2>7. CASE Loop \/ RunLoop \/ RunOnce
    BY <2>1, <2>2, <2>7, LoopIds
  <2>8. CASE UNCHANGED vars
    <3>1. UNCHANGED <<owner, nops, ids, inflight, cq, cur, next, i, pc, ret>>
      BY <2>8 DEF vars
    <3>2. QED
      BY <2>2, <3>1
      DEF PoolSound, Busy, NotifSound, IdSound, Frame, Dropped, ResultWaits
  <2>9. QED
    BY <2>1, <2>3, <2>4, <2>5, <2>6, <2>7, <2>8 DEF Next
<1>3. QED BY <1>1, <1>2, PTL DEF Spec

\* An id that the application may still cancel names the operation it was given
\* for: reactor_cancel never redirects another operation's user.
THEOREM IdsValidAlways == Spec => []IdsValid
<1>1. IdInv => IdsValid
  BY DEF IdInv, IdSound, IdsValid
<1>2. QED BY <1>1, IdsCorrect, PTL

-----------------------------------------------------------------------------
(* Cancellations.                                                           *)

\* A submission enters the line behind everything that was there; if it is a
\* cancellation, its target still owns the slot.
LEMMA SubmitCancel ==
  ASSUME TypeOK, SlotSound, CancelSound, pc \in AppPcs,
         NEW sqe \in Sqes, RingSqe(sqe), inflight' = inflight,
         sqe.kind = Cancellation => owner[sqe.target] = sqe.aim
  PROVE  CancelSound'
<1>1. sqe.kind = Cancellation =>
        /\ \A r \in inflight : r.user = sqe.target => r.op = sqe.aim
        /\ \A l \in DOMAIN sq : sq[l].user = sqe.target => sq[l].op = sqe.aim
  BY DEF SlotSound, LineSound, KernelSound
<1>2. CASE Len(sq) = SqSize
  <2>1. /\ sq' = sq /\ held' = <<sqe>>
        /\ \A k \in DOMAIN held' : held'[k] = sqe
    BY <1>2 DEF RingSqe
  <2>2. QED BY <1>1, <2>1 DEF CancelSound
<1>3. CASE Len(sq) # SqSize
  <2>1. sq' = Append(sq, sqe) /\ held' = held /\ sq \in Seq(Sqes)
    BY <1>3 DEF RingSqe, TypeOK, Typed
  <2>2. DOMAIN held' = {}
    BY <2>1 DEF TypeOK, Typed, AppPcs
  <2>3. \A k \in DOMAIN sq' :
          \/ /\ k \in DOMAIN sq /\ sq'[k] = sq[k]
             /\ \A l \in 1 .. (k - 1) : l \in DOMAIN sq /\ sq'[l] = sq[l]
          \/ /\ sq'[k] = sqe
             /\ \A l \in 1 .. (k - 1) : l \in DOMAIN sq /\ sq'[l] = sq[l]
    BY <2>1
  <2>4. QED BY <1>1, <2>1, <2>2, <2>3 DEF CancelSound
<1>4. QED BY <1>2, <1>3

LEMMA ApiCancel ==
  ASSUME TypeOK, SlotSound, IdSound, CancelSound, Api
  PROVE  CancelSound'
<1>0. PICK u \in Users :
        \/ \E how \in {"own", "noop"} : SubmitOneShot(u, how)
        \/ \E kind \in {MultiShot, ZeroCopy} : SubmitMultiShot(u, kind)
        \/ \E id \in ids : AsyncCancel(u, id)
        \/ \E id \in ids, how \in {"swapped", "noop"} : CancelRing(u, id, how)
        \/ SubmitNext(u)
  BY DEF Api
<1>1. \A id \in ids : id.user \in Users /\ id.op \in Ops
                     /\ owner[id.user] = id.op
  BY IdsAreBusy
<1>2. ASSUME NEW kind \in Kinds, NEW target \in Users \cup {NoUser},
             NEW aim \in Ops \cup {NoOp}, nops < MaxOps, pc \in AppPcs,
             RingSqe(Sqe(kind, u, target, aim)), inflight' = inflight,
             kind = Cancellation => owner[target] = aim
      PROVE  CancelSound'
  <2>1. Sqe(kind, u, target, aim) \in Sqes
    BY <1>2, SqeType DEF TypeOK, Typed
  <2>2. LET e == Sqe(kind, u, target, aim) IN
          e.kind = kind /\ e.target = target /\ e.aim = aim
    BY DEF Sqe
  <2>3. QED BY <1>2, <2>1, <2>2, SubmitCancel
<1>3. ASSUME NEW how \in {"own", "noop"}, SubmitOneShot(u, how)
      PROVE  CancelSound'
  BY <1>2, <1>3 DEF SubmitOneShot, AllocUser, Kinds, OneShot, Cancellation
<1>4. ASSUME NEW kind \in {MultiShot, ZeroCopy}, SubmitMultiShot(u, kind)
      PROVE  CancelSound'
  BY <1>2, <1>4
  DEF SubmitMultiShot, AllocUser, Kinds, MultiShot, ZeroCopy, Cancellation
<1>5. ASSUME NEW id \in ids, AsyncCancel(u, id)
      PROVE  CancelSound'
  BY <1>1, <1>2, <1>5 DEF AsyncCancel, AllocUser, Kinds
<1>6. ASSUME NEW id \in ids, NEW how \in {"swapped", "noop"},
             CancelRing(u, id, how)
      PROVE  CancelSound'
  BY <1>1, <1>2, <1>6 DEF CancelRing, Kinds
<1>7. CASE SubmitNext(u)
  BY <1>7 DEF SubmitNext, CancelSound
<1>8. QED BY <1>0, <1>3, <1>4, <1>5, <1>6, <1>7

\* The kernel's requests are named by what was taken from the queue.
LEMMA KernelTakeNames ==
  ASSUME TypeOK, KernelTake
  PROVE  \A r \in inflight' :
           \/ r.user = Head(sq).user /\ r.op = Head(sq).op
           \/ \E s \in inflight : r.user = s.user /\ r.op = s.op
<1> DEFINE e == Head(sq)
           Stop(r) == [r EXCEPT !.stop = TRUE]
<1>1. \A stop \in BOOLEAN : Request(e, stop).user = e.user
                            /\ Request(e, stop).op = e.op
  BY DEF Request
<1>2. /\ Hit(e) \subseteq inflight
      /\ \A r \in inflight : Stop(r).user = r.user /\ Stop(r).op = r.op
  BY DEF Hit, TypeOK, Typed, Requests
<1>3. inflight' \subseteq inflight \cup {Stop(r) : r \in Hit(e)}
                          \cup {Request(e, TRUE), Request(e, FALSE)}
  BY DEF KernelTake
<1> HIDE DEF e, Stop
<1>4. \A r \in inflight' :
        \/ r.user = e.user /\ r.op = e.op
        \/ \E s \in inflight : r.user = s.user /\ r.op = s.op
  BY <1>1, <1>2, <1>3, ZenonT(30)
<1>5. QED BY <1>4 DEF e

\* The request taken from the queue is the one all cancellations behind it were
\* already sound for.
LEMMA KernelTakeCancel ==
  ASSUME TypeOK, CancelSound, KernelTake
  PROVE  CancelSound'
<1> DEFINE e == Head(sq)
<1>1. sq' = Tail(sq) /\ sq # <<>> /\ sq \in Seq(Sqes) /\ held' = held
  BY DEF KernelTake, TypeOK, Typed
<1>2. /\ 1 \in DOMAIN sq /\ e = sq[1]
      /\ \A k \in DOMAIN sq' :
           /\ k \in Nat /\ k + 1 \in DOMAIN sq /\ sq'[k] = sq[k + 1]
           /\ 1 \in 1 .. (k + 1) - 1
           /\ \A l \in 1 .. (k - 1) : /\ l + 1 \in 1 .. (k + 1) - 1
                                     /\ sq'[l] = sq[l + 1]
  BY <1>1
<1>3. \A r \in inflight' :
        \/ r.user = e.user /\ r.op = e.op
        \/ \E s \in inflight : r.user = s.user /\ r.op = s.op
  BY KernelTakeNames
<1>4. ASSUME NEW k \in DOMAIN sq', sq'[k].kind = Cancellation
      PROVE  /\ \A r \in inflight' : r.user = sq'[k].target => r.op = sq'[k].aim
             /\ \A l \in 1 .. (k - 1) :
                  sq'[l].user = sq'[k].target => sq'[l].op = sq'[k].aim
  <2> HIDE DEF e
  <2>1. QED BY <1>2, <1>3, <1>4 DEF CancelSound
<1>5. ASSUME NEW k \in DOMAIN held, held[k].kind = Cancellation
      PROVE  /\ \A r \in inflight' : r.user = held[k].target => r.op = held[k].aim
             /\ \A l \in DOMAIN sq' :
                  sq'[l].user = held[k].target => sq'[l].op = held[k].aim
  <2> HIDE DEF e
  <2>1. QED BY <1>2, <1>3, <1>5 DEF CancelSound
<1>6. QED BY <1>1, <1>4, <1>5 DEF CancelSound

\* No step takes a cancellation's aim from it: it is made for the owner of its
\* target, and whatever reuses the slot stands behind it in the line.
THEOREM CancelCorrect == Spec => []CancelInv
<1>1. Init => CancelSound
  <2>1. SUFFICES ASSUME Init PROVE CancelSound
    OBVIOUS
  <2>2. DOMAIN sq = {} /\ DOMAIN held = {}
    BY <2>1 DEF Init
  <2>3. QED BY <2>2 DEF CancelSound
<1>2. IdInv /\ CancelInv /\ IdInv' /\ [Next]_vars => CancelInv'
  <2>1. SUFFICES ASSUME CancelInv, [Next]_vars, ~lapped'
                 PROVE  CancelSound'
    BY DEF CancelInv
  <2>2. TypeOK /\ SlotSound /\ IdSound /\ CancelSound
    BY <2>1, LappedStays DEF CancelInv, IdInv, SlotInv
  <2>3. CASE Api
    BY <2>2, <2>3, ApiCancel
  <2>4. CASE UNCHANGED <<sq, held, inflight>>
    BY <2>2, <2>4 DEF CancelSound
  <2>5. CASE FlushDone
    <3>1. sq' = held /\ DOMAIN held' = {} /\ inflight' = inflight
          /\ \A k \in DOMAIN held : k = 1 /\ \A l \in 1 .. (k - 1) : FALSE
      BY <2>2, <2>5 DEF FlushDone, TypeOK, Typed
    <3>2. QED BY <2>2, <3>1 DEF CancelSound
  <2>6. CASE KernelTake
    BY <2>2, <2>6, KernelTakeCancel
  <2>7. ASSUME NEW r \in inflight, KernelMore(r) \/ KernelLast(r)
        PROVE  CancelSound'
    <3>1. /\ UNCHANGED <<sq, held>>
          /\ \A x \in inflight' :
               \E s \in inflight : x.user = s.user /\ x.op = s.op
      BY <2>2, <2>7 DEF KernelMore, KernelLast, TypeOK, Typed, Requests
    <3>2. QED BY <2>2, <3>1 DEF CancelSound
  <2>8. CASE \E id \in ids, how \in {"swapped", "noop"} : CancelNext(id, how)
    BY <2>4, <2>8 DEF CancelNext
  <2>9. CASE Loop \/ RunLoop \/ RunOnce
    BY <2>4, <2>9
    DEF Loop, RunLoop, RunOnce, LoopTest, NextCall, NextReturn, NextDone,
        EnterDone, RingCqe, RingEmpty, CqeCall, CqeReturn, CqeNotif, Finish
  <2>10. CASE UNCHANGED vars
    BY <2>4, <2>10 DEF vars
  <2>11. QED
    BY <2>1, <2>3, <2>5, <2>6, <2>7, <2>8, <2>9, <2>10 DEF Next, Kernel
<1>3. IdInv /\ CancelSound => CancelInv
  BY DEF CancelInv
<1>4. QED BY <1>1, <1>2, <1>3, IdsCorrect, PTL DEF Spec

\* A cancellation taken by the kernel finds the operation it was meant for or
\* nothing: never a later operation whose user happens to have its address.
THEOREM CancelHitsItsTargetAlways == Spec => []CancelHitsItsTarget
<1>1. CancelInv => CancelHitsItsTarget
  <2>1. SUFFICES ASSUME TypeOK, CancelSound,
                        sq # <<>>, Head(sq).kind = Cancellation,
                        NEW r \in Hit(Head(sq))
                 PROVE  r.op = Head(sq).aim
    BY DEF CancelInv, IdInv, SlotInv, CancelHitsItsTarget
  <2>2. 1 \in DOMAIN sq /\ Head(sq) = sq[1]
    BY <2>1, TailElements DEF TypeOK, Typed
  <2>3. r \in inflight /\ r.user = Head(sq).target
    BY <2>1 DEF Hit
  <2>4. QED BY <2>1, <2>2, <2>3 DEF CancelSound
<1>2. QED BY <1>1, CancelCorrect, PTL

-----------------------------------------------------------------------------
(* What an operation of the API does, in one place.                         *)

\* Callbacks are replaced only in the slot of an id that is cancelled, and an
\* operation becomes quiet only with the callback of its slot.
Redirected(u) ==
  /\ \A v \in Users : callback'[v] # callback[v] =>
       \/ v = u
       \/ \E id \in ids : /\ v = id.user /\ id.op \in quiet'
                          /\ callback'[v] # "own"
  /\ \A o \in quiet' :
       \/ o \in quiet
       \/ o = nops + 1 /\ callback'[u] # "own"
       \/ \E id \in ids : o = id.op /\ callback'[id.user] # "own"
  /\ quiet \subseteq quiet'

\* An entry for a fresh operation in a free slot enters the line.
Submitted(u, sqe) ==
  /\ sqe \in Sqes /\ sqe.user = u /\ sqe.op = nops + 1
  /\ pc \in AppPcs /\ u \notin Busy
  /\ owner' = [owner EXCEPT ![u] = nops + 1] /\ nops' = nops + 1
  /\ RingSqe(sqe)
  /\ Redirected(u)
  /\ callback'[u] # "own" => nops + 1 \in quiet'
  /\ UNCHANGED <<inflight, cq, next, i, once, cur, lapped>>

LEMMA ApiSubmits ==
  ASSUME TypeOK, Api
  PROVE  \E u \in Users : SubmitNext(u) \/ \E sqe \in Sqes : Submitted(u, sqe)
<1>0. PICK u \in Users :
        \/ \E how \in {"own", "noop"} : SubmitOneShot(u, how)
        \/ \E kind \in {MultiShot, ZeroCopy} : SubmitMultiShot(u, kind)
        \/ \E id \in ids : AsyncCancel(u, id)
        \/ \E id \in ids, how \in {"swapped", "noop"} : CancelRing(u, id, how)
        \/ SubmitNext(u)
  BY DEF Api
<1>1. ASSUME NEW kind \in Kinds, NEW target \in Users \cup {NoUser},
             NEW aim \in Ops \cup {NoOp}, nops < MaxOps
      PROVE  /\ Sqe(kind, u, target, aim) \in Sqes
             /\ Sqe(kind, u, target, aim).user = u
             /\ Sqe(kind, u, target, aim).op = nops + 1
  BY <1>1, SqeType DEF TypeOK, Typed, Sqe
<1>2. \A id \in ids : id.user \in Users /\ id.op \in Ops
  BY DEF TypeOK, Typed, Ids
<1>3. callback \in [Users -> Callbacks]
  BY DEF TypeOK, Typed
<1>4. ASSUME NEW how \in {"own", "noop"}, SubmitOneShot(u, how)
      PROVE  Submitted(u, Sqe(OneShot, u, NoUser, NoOp))
  <2>1. Redirected(u)
    BY <1>3, <1>4 DEF SubmitOneShot, AllocUser, Redirected
  <2>2. QED
    BY <1>1, <1>3, <1>4, <2>1
    DEF SubmitOneShot, AllocUser, Submitted, Kinds
<1>5. ASSUME NEW kind \in {MultiShot, ZeroCopy}, SubmitMultiShot(u, kind)
      PROVE  Submitted(u, Sqe(kind, u, NoUser, NoOp))
  <2>1. Redirected(u)
    BY <1>3, <1>5 DEF SubmitMultiShot, AllocUser, Redirected
  <2>2. callback'[u] = "own" /\ kind \in Kinds /\ nops < MaxOps
    BY <1>3, <1>5 DEF SubmitMultiShot, AllocUser, Kinds
  <2>3. QED
    BY <1>1, <1>5, <2>1, <2>2
    DEF SubmitMultiShot, AllocUser, Submitted, Kinds
<1>6. ASSUME NEW id \in ids, AsyncCancel(u, id)
      PROVE  Submitted(u, Sqe(Cancellation, u, id.user, id.op))
  <2>1. Redirected(u)
    BY <1>3, <1>6 DEF AsyncCancel, AllocUser, Redirected
  <2>2. QED
    BY <1>1, <1>2, <1>3, <1>6, <2>1
    DEF AsyncCancel, AllocUser, Submitted, Kinds
<1>7. ASSUME NEW id \in ids, NEW how \in {"swapped", "noop"},
             CancelRing(u, id, how)
      PROVE  Submitted(u, Sqe(Cancellation, u, id.user, id.op))
  <2>1. Redirected(u)
    BY <1>2, <1>3, <1>7 DEF CancelRing, Redirect, Redirected
  <2>2. QED
    BY <1>1, <1>2, <1>7, <2>1 DEF CancelRing, Submitted, Kinds
<1>8. QED BY <1>0, <1>4, <1>5, <1>6, <1>7 DEF Submitted

\* What reactor_ring_sqe does to the line of submissions.
LEMMA RingSqeLine ==
  ASSUME TypeOK, pc \in AppPcs, NEW sqe \in Sqes, RingSqe(sqe)
  PROVE  /\ \A k \in DOMAIN sq : k \in DOMAIN sq' /\ sq'[k] = sq[k]
         /\ DOMAIN held = {}
         /\ \/ \E k \in DOMAIN sq' : sq'[k] = sqe
            \/ \E k \in DOMAIN held' : held'[k] = sqe
         /\ \A k \in DOMAIN sq' :
              sq'[k] = sqe \/ (k \in DOMAIN sq /\ sq'[k] = sq[k])
         /\ \A k \in DOMAIN held' : held'[k] = sqe
         /\ pc' \notin {"enter", "taken"}
<1>1. sq \in Seq(Sqes) /\ held = <<>> /\ pc \notin {"enter", "taken"}
  BY DEF TypeOK, Typed, AppPcs
<1>2. CASE Len(sq) = SqSize
  BY <1>1, <1>2 DEF RingSqe
<1>3. CASE Len(sq) # SqSize
  <2>1. /\ sq' = Append(sq, sqe) /\ UNCHANGED <<held, ret, pc>>
        /\ Len(sq) + 1 \in DOMAIN sq' /\ sq'[Len(sq) + 1] = sqe
    BY <1>1, <1>3 DEF RingSqe
  <2>2. \A k \in DOMAIN sq : k \in DOMAIN sq' /\ sq'[k] = sq[k]
    BY <1>1, <2>1
  <2>3. \A k \in DOMAIN sq' : sq'[k] = sqe \/ (k \in DOMAIN sq /\ sq'[k] = sq[k])
    <3>1. \A k \in DOMAIN Append(sq, sqe) :
            \/ k \in DOMAIN sq /\ Append(sq, sqe)[k] = sq[k]
            \/ k = Len(sq) + 1 /\ Append(sq, sqe)[k] = sqe
      BY <1>1, AppendElements
    <3>2. QED BY <2>1, <3>1
  <2>4. QED BY <1>1, <2>1, <2>2, <2>3
<1>4. QED BY <1>2, <1>3

-----------------------------------------------------------------------------
(* The loop: every allocated user is waited for.                            *)

LEMMA ApiKept ==
  ASSUME TypeOK, i <= Len(next) + 1, \A u \in Busy : Kept(u), Api
  PROVE  /\ \A u \in Busy' : Kept(u)'
         /\ pc' # "enter" /\ i' <= Len(next') + 1
<1>0. PICK u \in Users : SubmitNext(u) \/ \E sqe \in Sqes : Submitted(u, sqe)
  BY ApiSubmits
<1>1. owner' = [owner EXCEPT ![u] = nops + 1] /\ next \in Seq(NextUsers)
      /\ i \in Nat \ {0} /\ Len(next) \in Nat
  BY <1>0 DEF SubmitNext, AllocUser, Submitted, TypeOK, Typed
<1>2. \A v \in Busy' : v = u \/ v \in Busy
  BY <1>1 DEF Busy, TypeOK, Typed
<1>3. CASE SubmitNext(u)
  <2> DEFINE x == [user |-> u, op |-> nops + 1]
  <2>1. /\ next' = Append(next, x) /\ pc' # "enter"
        /\ UNCHANGED <<sq, held, inflight, cq, cur, i>>
    BY <1>3 DEF SubmitNext, AppPcs
  <2>0. x \in NextUsers /\ x.user = u
    BY <1>3, AllocUserType DEF SubmitNext, NextUsers, Callbacks
  <2>2. /\ \A k \in i .. Len(next) : k \in i .. Len(next') /\ next'[k] = next[k]
        /\ Len(next') = Len(next) + 1 /\ next'[Len(next')].user = u
        /\ Len(next') \in i .. Len(next')
    <3> HIDE DEF x
    <3>1. /\ Len(next') = Len(next) + 1
          /\ \A k \in 1 .. Len(next) : next'[k] = next[k]
          /\ next'[Len(next) + 1] = x
      BY <1>1, <2>0, <2>1
    <3>2. \A k \in i .. Len(next) : k \in 1 .. Len(next) /\ k \in i .. Len(next')
      BY <1>1, <3>1
    <3>3. QED BY <1>1, <2>0, <3>1, <3>2
  <2>3. i' <= Len(next') + 1
    BY <1>1, <2>1, <2>2
  <2>4. Kept(u)'
    BY <2>1, <2>2 DEF Kept
  <2>5. ASSUME NEW v \in Busy PROVE Kept(v)'
    <3> Kept(v)
      OBVIOUS
    <3>1. QED BY <2>1, <2>2 DEF Kept
  <2>6. QED BY <1>2, <2>1, <2>3, <2>4, <2>5
<1>4. ASSUME NEW sqe \in Sqes, Submitted(u, sqe)
      PROVE  /\ \A v \in Busy' : Kept(v)'
             /\ pc' # "enter" /\ i' <= Len(next') + 1
  <2>1. /\ \A k \in DOMAIN sq : k \in DOMAIN sq' /\ sq'[k] = sq[k]
        /\ DOMAIN held = {}
        /\ \/ \E k \in DOMAIN sq' : sq'[k] = sqe
           \/ \E k \in DOMAIN held' : held'[k] = sqe
        /\ pc' \notin {"enter", "taken"}
    BY <1>4, RingSqeLine DEF Submitted
  <2>2. sqe.user = u /\ UNCHANGED <<inflight, cq, next, i, cur>>
    BY <1>4 DEF Submitted
  <2>3. QED BY <1>2, <2>1, <2>2 DEF Kept
<1>5. QED BY <1>0, <1>3, <1>4

\* The kernel hands every user on, from the queue to the request and from there
\* to the last completion.
LEMMA KernelKept ==
  ASSUME TypeOK, Kernel, NEW u, Kept(u)
  PROVE  Kept(u)'
<1>1. UNCHANGED <<held, cur, next, i>>
  BY DEF Kernel, KernelTake, KernelMore, KernelLast
<1>2. CASE KernelTake
  <2> DEFINE e == Head(sq)
             Stop(r) == [r EXCEPT !.stop = TRUE]
  <2>1. /\ sq' = Tail(sq) /\ sq # <<>> /\ sq \in Seq(Sqes) /\ cq' = cq
    BY <1>2 DEF KernelTake, TypeOK, Typed
  <2>2. \A k \in DOMAIN sq :
          sq[k] = e \/ \E l \in DOMAIN sq' : sq'[l] = sq[k]
    <3> SUFFICES ASSUME NEW k \in DOMAIN sq, k # 1
                 PROVE  \E l \in DOMAIN sq' : sq'[l] = sq[k]
      BY <2>1
    <3>1. k - 1 \in DOMAIN sq' /\ sq'[k - 1] = sq[k]
      BY <2>1
    <3>2. QED BY <3>1
  <2>3. \E r \in inflight' : r.user = e.user
    <3>1. \A stop \in BOOLEAN : Request(e, stop).user = e.user
      BY DEF Request
    <3>2. \E stop \in BOOLEAN : Request(e, stop) \in inflight'
      BY <1>2 DEF KernelTake
    <3>3. QED BY <3>1, <3>2
  <2>4. \A r \in inflight : \E s \in inflight' : s.user = r.user
    <3>1. \A r \in inflight : Stop(r).user = r.user
      BY DEF TypeOK, Typed, Requests
    <3>2. \A r \in inflight : r \in inflight' \/ Stop(r) \in inflight'
      BY <1>2 DEF KernelTake
    <3>3. QED BY <3>1, <3>2
  <2>5. QED BY <1>1, <2>1, <2>2, <2>3, <2>4 DEF Kept
<1>3. ASSUME NEW r \in inflight, KernelMore(r) \/ KernelLast(r)
      PROVE  Kept(u)'
  <2>1. /\ sq' = sq /\ cq \in Seq(Cqes)
        /\ r \in Requests
        /\ \A s \in inflight : s = r \/ s \in inflight'
    BY <1>3 DEF KernelMore, KernelLast, TypeOK, Typed
  <2>a. PICK c \in Cqes : cq' = Append(cq, c)
    BY <1>3, <2>1, CqeType DEF KernelMore, KernelLast
  <2>b. \A k \in DOMAIN cq : k \in DOMAIN cq' /\ cq'[k] = cq[k]
    BY <2>1, <2>a
  <2>2. CASE KernelMore(r)
    <3>1. [r EXCEPT !.shots = @ - 1].user = r.user
      BY DEF TypeOK, Typed, Requests
    <3>2. [r EXCEPT !.shots = @ - 1] \in inflight'
      BY <2>2 DEF KernelMore
    <3>3. QED BY <1>1, <2>1, <2>b, <3>1, <3>2 DEF Kept
  <2>3. CASE KernelLast(r)
    <3> DEFINE d == Cqe(r, FALSE, r.kind = ZeroCopy /\ r.shots = 0)
    <3>1. d.user = r.user /\ ~d.more
      BY DEF Cqe
    <3>2. cq' = Append(cq, d) /\ d \in Cqes
      BY <2>1, <2>3, CqeType DEF KernelLast
    <3>3. Len(cq) + 1 \in DOMAIN cq' /\ cq'[Len(cq) + 1] = d
      <4> HIDE DEF d
      <4>1. QED BY <2>1, <3>2
    <3>4. QED BY <1>1, <2>1, <2>b, <3>1, <3>3 DEF Kept
  <2>4. QED BY <1>3, <2>2, <2>3
<1>4. QED BY <1>2, <1>3 DEF Kernel

\* A user leaves the pool when its last completion or its next call returns.
LEMMA LoopKept ==
  ASSUME TypeOK, Loop \/ RunLoop \/ RunOnce, ~lapped',
         NEW u \in Busy', u \in Busy => Kept(u)
  PROVE  Kept(u)'
<1>0. /\ sq' = sq /\ held' = held /\ inflight' = inflight
      /\ cur # NoCqe <=> Frame \in {"taken", "call"}
  BY DEF Loop, RunLoop, RunOnce, LoopTest, NextCall, NextReturn, NextDone,
     EnterDone, RingCqe, RingEmpty, CqeCall, CqeReturn, CqeNotif, Finish, TypeOK
<1>1. CASE UNCHANGED <<owner, cq, cur, next, i>>
  BY <1>0, <1>1 DEF Kept, Busy
<1>2. CASE LoopTest \/ NextCall \/ EnterDone \/ RingEmpty \/ RunLoop \/ RunOnce
  BY <1>1, <1>2 DEF LoopTest, NextCall, EnterDone, RingEmpty, RunLoop, RunOnce
<1>3. CASE NextReturn
  <2>1. /\ owner' = [owner EXCEPT ![next[i].user] = NoOp]
        /\ i' = i + 1 /\ UNCHANGED <<cq, cur, next>>
        /\ i \in Nat /\ Len(next) \in Nat
    BY <1>3 DEF NextReturn, FreeUser, TypeOK, Typed
  <2>2. u # next[i].user /\ u \in Busy
    BY <2>1 DEF Busy, TypeOK, Typed
  <2>3. \A k \in i .. Len(next) : k = i \/ k \in i' .. Len(next)
    BY <2>1
  <2>4. QED BY <1>0, <2>1, <2>2, <2>3 DEF Kept
<1>4. CASE NextDone
  <2>1. i > Len(next) /\ i \in Nat /\ Len(next) \in Nat
        /\ UNCHANGED <<owner, cq, cur>>
    BY <1>4 DEF NextDone, TypeOK, Typed
  <2>2. \A k \in i .. Len(next) : FALSE
    BY <2>1
  <2>3. QED BY <1>0, <2>1, <2>2 DEF Kept, Busy
<1>5. CASE RingCqe
  <2>1. /\ cur' = Head(cq) /\ cq' = Tail(cq) /\ cq # <<>> /\ cq \in Seq(Cqes)
        /\ UNCHANGED <<owner, next, i>>
        /\ cur = NoCqe
    BY <1>5 DEF RingCqe, TypeOK, Typed, Frame
  <2>2. \A k \in DOMAIN cq : cq[k] = cur' \/ \E l \in DOMAIN cq' : cq'[l] = cq[k]
    <3> SUFFICES ASSUME NEW k \in DOMAIN cq, k # 1
                 PROVE  \E l \in DOMAIN cq' : cq'[l] = cq[k]
      BY <2>1
    <3>1. k - 1 \in DOMAIN cq' /\ cq'[k - 1] = cq[k]
      BY <2>1
    <3>2. QED BY <3>1
  <2>3. cur' # NoCqe
    BY <2>1, NotNoCqe, TailElements
  <2>4. QED BY <1>0, <2>1, <2>2, <2>3 DEF Kept, Busy
<1>6. CASE CqeCall
  BY <1>1, <1>6 DEF CqeCall, Slot
<1>7. CASE CqeReturn \/ CqeNotif
  <2>1. /\ cur' = NoCqe /\ UNCHANGED <<cq, next, i>>
        /\ IF cur.more THEN owner' = owner ELSE FreeUser(cur.user)
    BY <1>7 DEF CqeReturn, CqeNotif, Finish, Slot
  <2>2. u \in Busy /\ (u = cur.user => cur.more)
    BY <2>1 DEF FreeUser, Busy, TypeOK, Typed
  <2>3. QED BY <1>0, <2>1, <2>2 DEF Kept
<1>8. QED BY <1>2, <1>3, <1>4, <1>5, <1>6, <1>7 DEF Loop


LEMMA StepLoop ==
  ASSUME LoopInv, [Next]_vars, SlotInv'
  PROVE  LoopInv'
<1>1. TypeOK /\ i \in Nat \ {0} /\ Len(next) \in Nat
  BY DEF LoopInv, SlotInv, TypeOK, Typed
<1>2. i' <= Len(next') + 1 /\ (pc' = "enter" => Busy' # {} /\ next' = <<>>)
  <2>1. CASE Api
    <3>1. PICK u \in Users : SubmitNext(u) \/ \E sqe \in Sqes : Submitted(u, sqe)
      BY <1>1, <2>1, ApiSubmits
    <3>2. i' = i /\ Len(next') >= Len(next) /\ Len(next') \in Nat /\ pc' # "enter"
      <4>1. CASE SubmitNext(u)
        BY <1>1, <4>1 DEF SubmitNext, AppPcs, TypeOK, Typed
      <4>2. CASE \E sqe \in Sqes : Submitted(u, sqe)
        BY <1>1, <4>2, RingSqeLine DEF Submitted
      <4>3. QED BY <3>1, <4>1, <4>2
    <3>3. QED BY <1>1, <3>2 DEF LoopInv
  <2>2. CASE NextReturn
    BY <1>1, <2>2 DEF NextReturn, TypeOK, Typed, Frame
  <2>3. CASE NextDone
    BY <1>1, <2>3 DEF NextDone, AfterOnce, Busy
  <2>4. CASE UNCHANGED <<i, next>> /\ pc' # "enter"
    BY <2>4 DEF LoopInv
  <2>5. CASE UNCHANGED <<i, next, owner, pc>>
    BY <2>5 DEF LoopInv, Busy
  <2>6. CASE \E id \in ids, how \in {"swapped", "noop"} : CancelNext(id, how)
    BY <2>5, <2>6 DEF CancelNext
  <2>7. CASE FlushDone
    BY <1>1, <2>4, <2>7 DEF FlushDone, TypeOK, Typed, AppPcs
  <2>8. CASE Kernel
    BY <2>5, <2>8 DEF Kernel, KernelTake, KernelMore, KernelLast
  <2>9. CASE Loop \/ RunLoop \/ RunOnce
    BY <2>2, <2>3, <2>4, <2>9
    DEF Loop, RunLoop, RunOnce, LoopTest, NextCall, EnterDone, RingCqe,
        RingEmpty, CqeCall, CqeReturn, CqeNotif, Finish, AfterOnce
  <2>10. QED
    BY <2>1, <2>5, <2>6, <2>7, <2>8, <2>9 DEF Next, vars
<1>3. ASSUME ~lapped' PROVE \A u \in Busy' : Kept(u)'
  <2>1. \A u \in Busy : Kept(u)
    BY <1>3, <1>1, LappedStays DEF LoopInv
  <2>2. CASE Api
    BY <1>1, <2>1, <2>2, ApiKept DEF LoopInv
  <2>3. CASE Kernel
    <3>1. owner' = owner
      BY <2>3 DEF Kernel, KernelTake, KernelMore, KernelLast
    <3>2. QED BY <1>1, <2>1, <2>3, <3>1, KernelKept DEF Busy
  <2>4. CASE FlushDone
    <3>1. /\ sq' = held /\ DOMAIN sq = {}
          /\ UNCHANGED <<owner, inflight, cq, cur, next, i>>
      BY <2>4 DEF FlushDone
    <3>2. QED BY <2>1, <3>1 DEF Kept, Busy
  <2>5. CASE Loop \/ RunLoop \/ RunOnce
    BY <1>1, <1>3, <2>1, <2>5, LoopKept
  <2>6. CASE UNCHANGED <<owner, sq, held, inflight, cq, cur, next, i>>
    BY <2>1, <2>6 DEF Kept, Busy
  <2>7. CASE \E id \in ids, how \in {"swapped", "noop"} : CancelNext(id, how)
    BY <2>6, <2>7 DEF CancelNext
  <2>8. QED
    BY <2>2, <2>3, <2>4, <2>5, <2>6, <2>7 DEF Next, vars
<1>4. QED BY <1>2, <1>3 DEF LoopInv

THEOREM LoopCorrect == Spec => []LoopInv
<1>1. Init => LoopInv
  <2>1. SUFFICES ASSUME Init PROVE LoopInv
    OBVIOUS
  <2>2. Busy = {} /\ next = <<>> /\ i = 1 /\ pc = "app"
    BY <2>1 DEF Init, Busy
  <2>3. QED BY <2>1, <2>2, InitSlots DEF LoopInv
<1>2. LoopInv /\ SlotInv' /\ [Next]_vars => LoopInv'
  BY StepLoop
<1>3. QED BY <1>1, <1>2, SlotsCorrect, PTL DEF Spec

\* Every user in the pool has a completion or a call to come, and the loop blocks in
\* io_uring_enter only while there is something to wait for.
THEOREM LoopSoundAlways == Spec => []LoopSound
<1>1. LoopInv => LoopSound
  <2> SUFFICES ASSUME LoopInv, ~lapped
               PROVE  LoopSound
    BY DEF LoopSound, NoLostUser, WaitsForSomething
  <2>1. sq \in Seq(Sqes) /\ held \in Seq(Sqes) /\ next \in Seq(NextUsers)
        /\ i \in Nat \ {0} /\ \A u \in Busy : Kept(u)
    BY DEF LoopInv, SlotInv, TypeOK, Typed
  <2>2. /\ \A k \in DOMAIN sq : k \in DOMAIN Line /\ Line[k] = sq[k]
        /\ \A k \in DOMAIN held :
             Len(sq) + k \in DOMAIN Line /\ Line[Len(sq) + k] = held[k]
    BY <2>1 DEF Line
  <2>3. NoLostUser
    BY <2>1, <2>2 DEF NoLostUser, Kept, Live
  <2>4. WaitsForSomething
    <3> SUFFICES ASSUME pc = "enter" PROVE sq # <<>> \/ cq # <<>> \/ inflight # {}
      BY DEF WaitsForSomething
    <3>1. PICK u \in Busy : Kept(u)
      BY <2>1 DEF LoopInv
    <3>2. DOMAIN held = {} /\ cur = NoCqe /\ next = <<>> /\ Len(next) = 0
      BY <2>1 DEF LoopInv, SlotInv, TypeOK, Typed, Frame
    <3>3. \A k \in i .. Len(next) : FALSE
      BY <2>1, <3>2
    <3>4. QED BY <2>1, <3>1, <3>2, <3>3 DEF Kept
  <2>5. QED BY <2>3, <2>4 DEF LoopSound
<1>2. QED BY <1>1, LoopCorrect, PTL

-----------------------------------------------------------------------------
(* Callbacks: what is to come of an operation.                              *)

LEMMA KindStays ==
  ASSUME KindSound, UNCHANGED <<inflight, cq, cur>>
  PROVE  KindSound'
  BY DEF KindSound

\* A fresh request meets no completion in its slot, and a cancellation changes
\* neither kind nor shots of what it finds.
LEMMA KernelTakeKind ==
  ASSUME TypeOK, SlotSound, KindSound, KernelTake
  PROVE  KindSound'
<1> DEFINE e == Head(sq)
           Stop(r) == [r EXCEPT !.stop = TRUE]
<1>1. UNCHANGED <<cq, cur>> /\ 1 \in DOMAIN sq /\ e = sq[1] /\ e \in Sqes
  BY TailElements DEF KernelTake, TypeOK, Typed
<1>2. /\ \A k \in DOMAIN cq : cq[k].user # e.user
      /\ cur.user # e.user
  BY <1>1 DEF SlotSound, LineSound
<1>3. \A stop \in BOOLEAN :
        /\ Request(e, stop).user = e.user
        /\ Request(e, stop).shots > 0 =>
             Request(e, stop).kind \in {MultiShot, ZeroCopy}
        /\ Request(e, stop).kind = ZeroCopy => Request(e, stop).shots <= 1
  BY DEF Request, MultiShot, ZeroCopy
<1>4. \A r \in inflight : /\ Stop(r).user = r.user /\ Stop(r).kind = r.kind
                          /\ Stop(r).shots = r.shots
  BY DEF TypeOK, Typed, Requests
<1>5. \A r \in inflight' :
        \/ \E stop \in BOOLEAN : r = Request(e, stop)
        \/ \E s \in inflight :
             r.user = s.user /\ r.kind = s.kind /\ r.shots = s.shots
  <2> HIDE DEF Stop
  <2>1. \A r \in inflight' :
          \/ \E stop \in BOOLEAN : r = Request(e, stop)
          \/ r \in inflight
          \/ \E s \in inflight : r = Stop(s)
    BY DEF KernelTake, Hit, Stop
  <2>2. QED BY <1>4, <2>1
<1> HIDE DEF e
<1>6. QED BY <1>1, <1>2, <1>3, <1>5 DEF KindSound

LEMMA KernelMoreKind ==
  ASSUME TypeOK, SlotSound, KindSound, NEW r \in inflight, KernelMore(r)
  PROVE  KindSound'
<1> DEFINE c == Cqe(r, TRUE, FALSE)
           q == [r EXCEPT !.shots = @ - 1]
<1>1. /\ cur' = cur /\ r.shots > 0 /\ r.shots \in Nat
      /\ cq' = Append(cq, c) /\ inflight' = (inflight \ {r}) \cup {q}
      /\ cq \in Seq(Cqes) /\ c \in Cqes
  BY CqeType DEF KernelMore, TypeOK, Typed, Requests
<1>2. /\ q.user = r.user /\ q.kind = r.kind /\ q.shots = r.shots - 1
      /\ c.user = r.user /\ c.kind = r.kind /\ c.more /\ ~c.notif
  BY DEF TypeOK, Typed, Requests, Cqe
<1>3. \A k \in DOMAIN cq' : \/ k \in DOMAIN cq /\ cq'[k] = cq[k]
                            \/ k = Len(cq) + 1 /\ cq'[k] = c
  BY <1>1, AppendElements
<1>4. \A s \in inflight : s.user = r.user => s = r
  BY DEF SlotSound, KernelSound
<1>5. r.kind \in {MultiShot, ZeroCopy} /\ (r.kind = ZeroCopy => q.shots = 0)
  BY <1>1, <1>2 DEF KindSound
\* No earlier completion of a zerocopy send is there.
<1>6. r.kind = ZeroCopy =>
        /\ \A k \in DOMAIN cq : cq[k].user # r.user
        /\ cur.user # r.user
  <2>1. r.kind = ZeroCopy => \A k \in DOMAIN cq : cq[k].user # r.user
    BY <1>1 DEF KindSound, SlotSound, KernelSound
  <2>2. r.kind = ZeroCopy => cur.user # r.user
    <3>1. cur = NoCqe => cur.user # r.user
      BY EntryTypes, UsersAssumption DEF NoCqe
    <3>2. QED BY <1>1, <3>1 DEF KindSound, SlotSound, KernelSound
  <2>3. QED BY <2>1, <2>2
<1> HIDE DEF c, q
<1>7. \A s \in inflight' :
        /\ s.shots > 0 => s.kind \in {MultiShot, ZeroCopy}
        /\ s.kind = ZeroCopy => s.shots <= 1
        /\ \A k \in DOMAIN cq' : cq'[k].user = s.user => cq'[k].kind = s.kind
        /\ cur'.user = s.user => cur'.kind = s.kind
  BY <1>1, <1>2, <1>3, <1>4, <1>5 DEF KindSound
<1>8. \A k \in DOMAIN cq' :
        /\ cq'[k].more => cq'[k].kind \in {MultiShot, ZeroCopy} /\ ~cq'[k].notif
        /\ cq'[k].kind = ZeroCopy /\ cq'[k].more =>
             /\ \A s \in inflight' : s.user = cq'[k].user => s.shots = 0
             /\ \A l \in DOMAIN cq' :
                  cq'[l].user = cq'[k].user => l = k \/ cq'[l].notif
  BY <1>1, <1>2, <1>3, <1>4, <1>5, <1>6 DEF KindSound
<1>9. cur' # NoCqe =>
        /\ cur'.more => cur'.kind \in {MultiShot, ZeroCopy} /\ ~cur'.notif
        /\ cur'.kind = ZeroCopy /\ cur'.more =>
             /\ \A s \in inflight' : s.user = cur'.user => s.shots = 0
             /\ \A l \in DOMAIN cq' : cq'[l].user = cur'.user => cq'[l].notif
  BY <1>1, <1>2, <1>3, <1>4, <1>5, <1>6 DEF KindSound
<1>10. QED BY <1>7, <1>8, <1>9 DEF KindSound

LEMMA KernelLastKind ==
  ASSUME TypeOK, SlotSound, KindSound, NEW r \in inflight, KernelLast(r)
  PROVE  KindSound'
<1> DEFINE c == Cqe(r, FALSE, r.kind = ZeroCopy /\ r.shots = 0)
<1>1. /\ cur' = cur /\ r.shots \in Nat
      /\ cq' = Append(cq, c) /\ inflight' = inflight \ {r}
      /\ cq \in Seq(Cqes) /\ c \in Cqes
  BY CqeType DEF KernelLast, TypeOK, Typed, Requests
<1>2. /\ c.user = r.user /\ c.kind = r.kind /\ ~c.more
      /\ c.notif <=> (r.kind = ZeroCopy /\ r.shots = 0)
  BY DEF TypeOK, Typed, Requests, Cqe
<1>3. \A k \in DOMAIN cq' : \/ k \in DOMAIN cq /\ cq'[k] = cq[k]
                            \/ k = Len(cq) + 1 /\ cq'[k] = c
  BY <1>1, AppendElements, ZenonT(30)
<1>4. \A s \in inflight' : s \in inflight /\ s.user # r.user
  BY <1>1 DEF SlotSound, KernelSound
<1> HIDE DEF c
<1>7. \A s \in inflight' :
        /\ s.shots > 0 => s.kind \in {MultiShot, ZeroCopy}
        /\ s.kind = ZeroCopy => s.shots <= 1
        /\ \A k \in DOMAIN cq' : cq'[k].user = s.user => cq'[k].kind = s.kind
        /\ cur'.user = s.user => cur'.kind = s.kind
  BY <1>1, <1>2, <1>3, <1>4 DEF KindSound
<1>8. \A k \in DOMAIN cq' :
        /\ cq'[k].more => cq'[k].kind \in {MultiShot, ZeroCopy} /\ ~cq'[k].notif
        /\ cq'[k].kind = ZeroCopy /\ cq'[k].more =>
             /\ \A s \in inflight' : s.user = cq'[k].user => s.shots = 0
             /\ \A l \in DOMAIN cq' :
                  cq'[l].user = cq'[k].user => l = k \/ cq'[l].notif
  BY <1>1, <1>2, <1>3, <1>4 DEF KindSound
<1>9. cur' # NoCqe =>
        /\ cur'.more => cur'.kind \in {MultiShot, ZeroCopy} /\ ~cur'.notif
        /\ cur'.kind = ZeroCopy /\ cur'.more =>
             /\ \A s \in inflight' : s.user = cur'.user => s.shots = 0
             /\ \A l \in DOMAIN cq' : cq'[l].user = cur'.user => cq'[l].notif
  BY <1>1, <1>2, <1>3, <1>4 DEF KindSound
<1>10. QED BY <1>7, <1>8, <1>9 DEF KindSound

LEMMA RingCqeKind ==
  ASSUME TypeOK, SlotSound, KindSound, RingCqe
  PROVE  KindSound'
<1>1. /\ inflight' = inflight
      /\ cur' = Head(cq) /\ cq' = Tail(cq) /\ cq # <<>> /\ cq \in Seq(Cqes)
  BY DEF RingCqe, TypeOK, Typed
<1>2. /\ 1 \in DOMAIN cq /\ cur' = cq[1]
      /\ \A k \in DOMAIN cq' : k \in Nat /\ k + 1 \in DOMAIN cq /\ k + 1 # 1
                               /\ cq'[k] = cq[k + 1]
  <2>1. \A k \in DOMAIN cq' : k \in Nat /\ k >= 1
    BY <1>1, SeqElements, TailElements
  <2>2. QED BY <1>1, <2>1, TailElements
<1>3. QED BY <1>1, <1>2 DEF KindSound

LEMMA NextKind ==
  ASSUME TypeOK, SlotSound, KindSound, [Next]_vars, ~lapped'
  PROVE  KindSound'
<1>1. CASE Api
  <2>1. UNCHANGED <<inflight, cq, cur>>
    BY <1>1, ApiSubmits DEF Submitted, SubmitNext
  <2>2. QED BY <2>1, KindStays
<1>2. CASE Kernel
  BY <1>2, KernelTakeKind, KernelMoreKind, KernelLastKind DEF Kernel
<1>3. CASE RingCqe
  BY <1>3, RingCqeKind
<1>4. CASE CqeReturn \/ CqeNotif
  <2>1. UNCHANGED <<inflight, cq>> /\ cur' = NoCqe
    BY <1>4 DEF CqeReturn, CqeNotif, Finish
  <2>2. \A r \in inflight : r.user # NoCqe.user
    BY EntryTypes, UsersAssumption DEF NoCqe
  <2>3. QED BY <2>1, <2>2 DEF KindSound
<1>5. CASE CqeCall
  <2>1. UNCHANGED <<inflight, cq, cur>>
    BY <1>5 DEF CqeCall, Slot
  <2>2. QED BY <2>1, KindStays
<1>6. CASE Loop \/ RunLoop \/ RunOnce
  <2>1. CASE UNCHANGED <<inflight, cq, cur>>
    BY <2>1, KindStays
  <2>2. QED
    BY <1>3, <1>4, <1>5, <1>6, <2>1
    DEF Loop, RunLoop, RunOnce, LoopTest, NextCall, NextReturn, NextDone,
        EnterDone, RingEmpty
<1>7. CASE UNCHANGED <<inflight, cq, cur>>
  BY <1>7, KindStays
<1>8. CASE FlushDone \/ \E id \in ids, how \in {"swapped", "noop"} :
                          CancelNext(id, how)
  BY <1>7, <1>8 DEF FlushDone, CancelNext
<1>9. QED BY <1>1, <1>2, <1>6, <1>7, <1>8 DEF Next, vars

-----------------------------------------------------------------------------
(* Callbacks: which one a slot holds.                                       *)

\* Everything that names a slot names its owner.
LEMMA Named ==
  ASSUME TypeOK, SlotSound
  PROVE  /\ \A k \in DOMAIN sq : owner[sq[k].user] = sq[k].op
                                 /\ sq[k].user \in Busy
         /\ \A k \in DOMAIN held : owner[held[k].user] = held[k].op
                                   /\ held[k].user \in Busy
         /\ \A r \in inflight : owner[r.user] = r.op /\ r.user \in Busy
         /\ \A k \in DOMAIN cq : owner[cq[k].user] = cq[k].op
                                 /\ cq[k].user \in Busy
         /\ cur # NoCqe => owner[cur.user] = cur.op /\ cur.user \in Busy
<1>1. NoOp \notin Ops
  BY DEF NoOp, Ops
<1>2. QED BY <1>1, EntryTypes DEF SlotSound, LineSound, KernelSound, Busy

\* A redirection of one operation leaves the callbacks of the others alone.
LEMMA CallsKept ==
  ASSUME TypeOK, PoolSound, IdSound, NEW u, u \notin Busy, Redirected(u),
         NEW v \in Busy, Calls(v, owner[v]), callback'[v] = "own"
  PROVE  owner[v] \notin quiet'
<1>1. SUFFICES ASSUME owner[v] \in quiet'
               PROVE  FALSE
  OBVIOUS
<1>2. v \in Users /\ v # u
  BY DEF Busy
<1>3. callback[v] = "own" /\ owner[v] \notin quiet
  BY <1>2 DEF Redirected, Calls
<1>4. owner[v] # nops + 1
  BY <1>2, BoundsAssumption DEF PoolSound, TypeOK, Typed, Ops
<1>5. PICK id \in ids : owner[v] = id.op /\ callback'[id.user] # "own"
  BY <1>1, <1>3, <1>4 DEF Redirected
<1>6. id.user = v
  BY <1>5, IdsAreBusy DEF PoolSound
<1>7. QED BY <1>5, <1>6

LEMMA RedirectedPool ==
  ASSUME TypeOK, PoolSound, IdSound, QuietSound, NEW u, Redirected(u),
         nops' = nops \/ nops' = nops + 1,
         callback'[u] # "own" => nops' = nops + 1
  PROVE  /\ \A o \in quiet' : o <= nops'
         /\ \A v \in Busy : callback'[v] # "own" /\ v # u => owner[v] \in quiet'
<1>1. nops \in Nat /\ \A id \in ids : id.op <= nops
  BY IdsAreBusy, BoundsAssumption DEF PoolSound, TypeOK, Typed
<1>2. quiet \subseteq Ops /\ Ops \subseteq Nat
  BY DEF TypeOK, Typed, Ops
<1>3. \A o \in quiet' : o <= nops'
  <2> SUFFICES ASSUME NEW o \in quiet' PROVE o <= nops'
    OBVIOUS
  <2>1. CASE o \in quiet
    BY <1>1, <1>2, <2>1 DEF QuietSound
  <2>2. CASE o = nops + 1 /\ callback'[u] # "own"
    BY <1>1, <2>2
  <2>3. ASSUME NEW id \in ids, o = id.op PROVE o <= nops'
    <3>1. id.op <= nops /\ id.op \in Nat
      BY <1>1, <1>2, IdsAreBusy
    <3>2. QED BY <1>1, <2>3, <3>1
  <2>4. QED BY <2>1, <2>2, <2>3 DEF Redirected
<1>4. ASSUME NEW v \in Busy, callback'[v] # "own", v # u
      PROVE  owner[v] \in quiet'
  <2>1. CASE callback'[v] = callback[v]
    BY <1>4, <2>1 DEF QuietSound, Redirected
  <2>2. CASE callback'[v] # callback[v]
    <3>1. PICK id \in ids : v = id.user /\ id.op \in quiet'
      BY <1>4, <2>2 DEF Redirected, Busy
    <3>2. QED BY <3>1, IdsAreBusy
  <2>3. QED BY <2>1, <2>2
<1>5. QED BY <1>3, <1>4

LEMMA ApiQuiet ==
  ASSUME TypeOK, SlotSound, PoolSound, IdSound, QuietSound, Api
  PROVE  QuietSound'
<1>0. PICK u \in Users : SubmitNext(u) \/ \E sqe \in Sqes : Submitted(u, sqe)
  BY ApiSubmits
<1>1. /\ u \notin Busy /\ owner' = [owner EXCEPT ![u] = nops + 1]
      /\ nops' = nops + 1 /\ Redirected(u)
      /\ callback'[u] # "own" => nops + 1 \in quiet'
      /\ UNCHANGED <<inflight, cq, cur>> /\ pc' # "taken"
  <2>1. CASE SubmitNext(u)
    BY <2>1 DEF SubmitNext, AllocUser, Redirected, TypeOK, Typed, AppPcs
  <2>2. CASE \E sqe \in Sqes : Submitted(u, sqe)
    BY <2>2, RingSqeLine DEF Submitted
  <2>3. QED BY <1>0, <2>1, <2>2
<1>2. \A v \in Busy' : v = u \/ v \in Busy
  BY <1>1 DEF Busy, TypeOK, Typed
<1>3. /\ \A o \in quiet' : o <= nops'
      /\ \A v \in Busy' : callback'[v] # "own" => owner'[v] \in quiet'
  <2>1. owner'[u] = nops + 1 /\ \A v \in Users : v # u => owner'[v] = owner[v]
    BY <1>1 DEF TypeOK, Typed
  <2>2. Busy \subseteq Users
    BY DEF Busy
  <2>3. QED BY <1>1, <1>2, <2>1, <2>2, RedirectedPool
<1>4. /\ \A k \in DOMAIN sq : callback'[sq[k].user] = "own" => sq[k].op \notin quiet'
      /\ \A k \in DOMAIN held :
           callback'[held[k].user] = "own" => held[k].op \notin quiet'
      /\ \A r \in inflight :
           \/ r.kind = ZeroCopy /\ r.shots = 0
           \/ callback'[r.user] = "own" => r.op \notin quiet'
      /\ \A k \in DOMAIN cq :
           cq[k].notif \/ (callback'[cq[k].user] = "own" => cq[k].op \notin quiet')
  <2>1. \A v \in Busy : Calls(v, owner[v]) /\ callback'[v] = "own"
                        => owner[v] \notin quiet'
    BY <1>1, CallsKept
  <2>2. QED BY <2>1, Named DEF QuietSound
<1>5. callback'[u] = "own" => nops + 1 \notin quiet'
  <2>1. nops \in Nat /\ \A id \in ids : id.op <= nops
    BY IdsAreBusy, BoundsAssumption DEF PoolSound, TypeOK, Typed
  <2>2. QED BY <1>1, <2>1 DEF Redirected, QuietSound
<1>6. /\ \A k \in DOMAIN sq' : Calls(sq[k].user, sq[k].op)'
      /\ \A k \in DOMAIN held' : Calls(held[k].user, held[k].op)'
  <2>1. CASE SubmitNext(u)
    BY <1>4, <2>1 DEF SubmitNext, Calls
  <2>2. ASSUME NEW sqe \in Sqes, Submitted(u, sqe)
        PROVE  /\ \A k \in DOMAIN sq' : Calls(sq[k].user, sq[k].op)'
               /\ \A k \in DOMAIN held' : Calls(held[k].user, held[k].op)'
    <3>1. /\ \A k \in DOMAIN sq' :
               sq'[k] = sqe \/ (k \in DOMAIN sq /\ sq'[k] = sq[k])
          /\ \A k \in DOMAIN held' : held'[k] = sqe
          /\ sqe.user = u /\ sqe.op = nops + 1
      BY <2>2, RingSqeLine DEF Submitted
    <3>2. QED BY <1>4, <1>5, <3>1 DEF Calls
  <2>3. QED BY <1>0, <2>1, <2>2
<1>7. QED BY <1>1, <1>3, <1>4, <1>6 DEF QuietSound, Calls

LEMMA CancelNextQuiet ==
  ASSUME TypeOK, SlotSound, PoolSound, IdSound, QuietSound,
         NEW id \in ids, NEW how \in {"swapped", "noop"}, CancelNext(id, how)
  PROVE  QuietSound'
<1>1. /\ NoUser \notin Busy /\ Redirected(NoUser)
      /\ UNCHANGED <<owner, nops, sq, held, inflight, cq, cur, pc>>
  BY UsersAssumption, IdsAreBusy
  DEF CancelNext, Redirect, Redirected, Busy, TypeOK, Typed
<1>2. \A v \in Busy : Calls(v, owner[v]) /\ callback'[v] = "own"
                      => owner[v] \notin quiet'
  BY <1>1, CallsKept
<1>3. /\ \A o \in quiet' : o <= nops
      /\ \A v \in Busy : callback'[v] # "own" => owner[v] \in quiet'
  <2>1. nops \in Nat /\ \A x \in ids : x.op <= nops
    BY IdsAreBusy, BoundsAssumption DEF PoolSound, TypeOK, Typed
  <2>2. quiet' = quiet \cup {id.op}
    BY DEF CancelNext
  <2>3. \A v \in Busy : callback'[v] = callback[v] \/ v = id.user
    BY DEF CancelNext, Redirect, Busy, TypeOK, Typed
  <2>4. owner[id.user] = id.op
    BY IdsAreBusy
  <2>5. QED BY <2>1, <2>2, <2>3, <2>4 DEF QuietSound
<1>4. pc # "taken"
  BY DEF CancelNext, AppPcs
<1>5. QED BY <1>1, <1>2, <1>3, <1>4, Named DEF QuietSound, Calls, Busy

LEMMA KernelQuiet ==
  ASSUME TypeOK, QuietSound, Kernel
  PROVE  QuietSound'
<1>1. UNCHANGED <<owner, callback, quiet, nops, held, cur, pc>>
  BY DEF Kernel, KernelTake, KernelMore, KernelLast
<1>2. CASE KernelTake
  <2> DEFINE e == Head(sq)
             Stop(r) == [r EXCEPT !.stop = TRUE]
  <2>1. /\ cq' = cq /\ e = sq[1] /\ 1 \in DOMAIN sq
        /\ \A k \in DOMAIN sq' : k + 1 \in DOMAIN sq /\ sq'[k] = sq[k + 1]
    BY <1>2, TailElements DEF KernelTake, TypeOK, Typed
  <2>2. \A stop \in BOOLEAN : /\ Request(e, stop).user = e.user
                              /\ Request(e, stop).op = e.op
    BY DEF Request
  <2>3. \A r \in inflight : /\ Stop(r).user = r.user /\ Stop(r).kind = r.kind
                            /\ Stop(r).shots = r.shots /\ Stop(r).op = r.op
    BY DEF TypeOK, Typed, Requests
  <2>4. \A r \in inflight' :
          \/ \E stop \in BOOLEAN : r = Request(e, stop)
          \/ r \in inflight
          \/ \E s \in inflight : r = Stop(s)
    BY <1>2 DEF KernelTake, Hit, Stop
  <2>5. Calls(e.user, e.op)
    BY <2>1 DEF QuietSound
  <2> HIDE DEF Stop, e
  <2>6. \A r \in inflight' :
          (r.kind = ZeroCopy /\ r.shots = 0) \/ Calls(r.user, r.op)
    BY <2>2, <2>3, <2>4, <2>5 DEF QuietSound
  <2>7. QED BY <1>1, <2>1, <2>6 DEF QuietSound, Calls, Busy
<1>3. ASSUME NEW r \in inflight, KernelMore(r) \/ KernelLast(r)
      PROVE  QuietSound'
  <2> DEFINE q == [r EXCEPT !.shots = @ - 1]
  <2>1. /\ sq' = sq /\ cq \in Seq(Cqes) /\ r \in Requests
        /\ \A s \in inflight' : s \in inflight \/ (s = q /\ r.shots > 0)
    BY <1>3 DEF KernelMore, KernelLast, TypeOK, Typed
  <2>2. PICK c \in Cqes :
          /\ cq' = Append(cq, c) /\ c.user = r.user /\ c.op = r.op
          /\ c.notif \/ ~(r.kind = ZeroCopy /\ r.shots = 0)
    <3>1. \A more, notif \in BOOLEAN :
            /\ Cqe(r, more, notif) \in Cqes /\ Cqe(r, more, notif).op = r.op
            /\ Cqe(r, more, notif).user = r.user
            /\ Cqe(r, more, notif).notif = notif
      BY <2>1, CqeType DEF Cqe
    <3>2. CASE KernelMore(r)
      <4>1. cq' = Append(cq, Cqe(r, TRUE, FALSE)) /\ r.shots # 0
        BY <3>2, <2>1 DEF KernelMore, Requests
      <4>2. QED BY <3>1, <4>1
    <3>3. CASE KernelLast(r)
      BY <3>1, <3>3 DEF KernelLast
    <3>4. QED BY <1>3, <3>2, <3>3
  <2>3. \A k \in DOMAIN cq' : \/ k \in DOMAIN cq /\ cq'[k] = cq[k]
                              \/ k = Len(cq) + 1 /\ cq'[k] = c
    BY <2>1, <2>2, AppendElements
  <2>4. q.user = r.user /\ q.op = r.op
    BY <2>1 DEF Requests
  <2>5. r.shots > 0 => Calls(r.user, r.op)
    BY <2>1 DEF QuietSound, Requests
  <2> HIDE DEF q
  <2>6. \A s \in inflight' :
          (s.kind = ZeroCopy /\ s.shots = 0) \/ Calls(s.user, s.op)
    BY <2>1, <2>4, <2>5 DEF QuietSound
  <2>7. \A k \in DOMAIN cq' : cq'[k].notif \/ Calls(cq'[k].user, cq'[k].op)
    BY <2>2, <2>3 DEF QuietSound
  <2>8. QED BY <1>1, <2>1, <2>6, <2>7 DEF QuietSound, Calls, Busy
<1>4. QED BY <1>2, <1>3 DEF Kernel

\* A callback that runs makes its operation quiet: what is still to come of it, a
\* notification, calls nothing.
LEMMA CqeCallQuiet ==
  ASSUME TypeOK, SlotSound, PoolSound, KindSound, QuietSound, CqeCall, ~lapped'
  PROVE  QuietSound'
<1>1. /\ UNCHANGED <<owner, callback, nops, sq, held, inflight, cq, cur>>
      /\ pc' # "taken" /\ cur # NoCqe
      /\ \/ quiet' = quiet
         \/ /\ quiet' = quiet \cup {cur.op}
            /\ ~(cur.kind = MultiShot /\ cur.more)
  BY DEF CqeCall, Slot, TypeOK, Frame
<1>2. CASE quiet' = quiet
  BY <1>1, <1>2 DEF QuietSound, Calls, Busy
<1>3. CASE quiet' = quiet \cup {cur.op} /\ ~(cur.kind = MultiShot /\ cur.more)
  <2>1. cur.user \in Busy /\ owner[cur.user] = cur.op /\ cur.op <= nops
    BY <1>1, Named DEF PoolSound, Busy
  <2>2. ASSUME NEW v \in Busy, Calls(v, owner[v]), v # cur.user
        PROVE  Calls(v, owner[v])'
    BY <1>1, <1>3, <2>1, <2>2 DEF Calls, PoolSound
  <2>3. /\ \A k \in DOMAIN sq : sq[k].user # cur.user
        /\ \A k \in DOMAIN held : held[k].user # cur.user
    BY DEF SlotSound, LineSound
  <2>4. /\ \A r \in inflight : r.user = cur.user =>
             r.kind = ZeroCopy /\ r.shots = 0
        /\ \A k \in DOMAIN cq : cq[k].user = cur.user => cq[k].notif
    BY <1>1, <1>3 DEF SlotSound, KernelSound, KindSound
  <2>5. /\ \A o \in quiet' : o <= nops
        /\ \A v \in Busy : callback[v] # "own" => owner[v] \in quiet'
    BY <1>3, <2>1 DEF QuietSound
  <2>6. QED
    BY <1>1, <2>2, <2>3, <2>4, <2>5, Named DEF QuietSound, Busy
<1>4. QED BY <1>1, <1>2, <1>3

LEMMA NextCallQuiet ==
  ASSUME TypeOK, SlotSound, PoolSound, QuietSound, NextCall
  PROVE  QuietSound'
<1>1. /\ UNCHANGED <<owner, callback, nops, sq, held, inflight, cq, cur>>
      /\ pc' # "taken" /\ i \in i .. Len(next)
      /\ quiet' = quiet \cup {next[i].op}
  BY DEF NextCall, TypeOK, Typed
<1>2. /\ next[i].user \in Busy /\ owner[next[i].user] = next[i].op
      /\ next[i].op <= nops
  <2>1. next[i].user \in Users /\ next[i].op \in Ops /\ NoOp \notin Ops
        /\ owner[next[i].user] = next[i].op
    BY <1>1, EntryTypes DEF SlotSound, NextSound, NoOp, Ops
  <2>2. QED BY <2>1 DEF Busy, PoolSound
<1>3. ASSUME NEW v \in Busy, Calls(v, owner[v]), v # next[i].user
      PROVE  Calls(v, owner[v])'
  BY <1>1, <1>2, <1>3 DEF Calls, PoolSound
<1>4. /\ \A k \in DOMAIN sq : sq[k].user # next[i].user
      /\ \A k \in DOMAIN held : held[k].user # next[i].user
      /\ \A r \in inflight : r.user # next[i].user
      /\ \A k \in DOMAIN cq : cq[k].user # next[i].user
  BY <1>1 DEF SlotSound, NextSound
<1>5. /\ \A o \in quiet' : o <= nops
      /\ \A v \in Busy : callback[v] # "own" => owner[v] \in quiet'
  BY <1>1, <1>2 DEF QuietSound
<1>6. QED BY <1>1, <1>3, <1>4, <1>5, Named DEF QuietSound, Busy

LEMMA LoopQuiet ==
  ASSUME TypeOK, SlotSound, PoolSound, KindSound, QuietSound,
         Loop \/ RunLoop \/ RunOnce, ~lapped'
  PROVE  QuietSound'
<1>1. CASE CqeCall
  BY <1>1, CqeCallQuiet
<1>2. CASE NextCall
  BY <1>2, NextCallQuiet
<1>3. CASE RingCqe
  <2>1. /\ UNCHANGED <<owner, callback, quiet, nops, sq, held, inflight>>
        /\ cur' = cq[1] /\ 1 \in DOMAIN cq
        /\ \A k \in DOMAIN cq' : k + 1 \in DOMAIN cq /\ cq'[k] = cq[k + 1]
    BY <1>3, TailElements DEF RingCqe, TypeOK, Typed
  <2>2. QED BY <2>1 DEF QuietSound, Calls, Busy
<1>4. CASE /\ UNCHANGED <<callback, quiet, nops, sq, held, inflight, cq>>
           /\ pc' # "taken" /\ (owner' = owner \/ \E u : FreeUser(u))
  <2>1. \A v \in Busy' : v \in Busy /\ owner'[v] = owner[v]
    BY <1>4 DEF FreeUser, Busy, TypeOK, Typed
  <2>2. QED BY <1>4, <2>1 DEF QuietSound, Calls
<1>5. QED
  BY <1>1, <1>2, <1>3, <1>4
  DEF Loop, RunLoop, RunOnce, LoopTest, NextReturn, NextDone, EnterDone,
      RingEmpty, CqeReturn, CqeNotif, Finish, AfterOnce

LEMMA StepCalls ==
  ASSUME CallInv, [Next]_vars, IdInv'
  PROVE  CallInv'
<1>1. SUFFICES ASSUME ~lapped'
               PROVE  KindSound' /\ QuietSound'
  BY DEF CallInv
<1>2. /\ TypeOK /\ SlotSound /\ PoolSound /\ IdSound
      /\ KindSound /\ QuietSound
  BY <1>1, LappedStays DEF CallInv, IdInv, SlotInv
<1>3. KindSound'
  BY <1>1, <1>2, NextKind
<1>4. QuietSound'
  <2>1. CASE Api
    BY <1>2, <2>1, ApiQuiet
  <2>2. CASE \E id \in ids, how \in {"swapped", "noop"} : CancelNext(id, how)
    BY <1>2, <2>2, CancelNextQuiet
  <2>3. CASE Kernel
    BY <1>2, <2>3, KernelQuiet
  <2>4. CASE Loop \/ RunLoop \/ RunOnce
    BY <1>1, <1>2, <2>4, LoopQuiet
  <2>5. CASE FlushDone
    <3>1. /\ sq' = held /\ DOMAIN held' = {} /\ pc' # "taken"
          /\ UNCHANGED <<owner, callback, quiet, nops, inflight, cq, cur>>
      BY <1>2, <2>5 DEF FlushDone, TypeOK, Typed, AppPcs
    <3>2. QED BY <1>2, <3>1 DEF QuietSound, Calls, Busy
  <2>6. CASE UNCHANGED vars
    BY <1>2, <2>6 DEF vars, QuietSound, Calls, Busy
  <2>7. QED BY <2>1, <2>2, <2>3, <2>4, <2>5, <2>6 DEF Next
<1>5. QED BY <1>3, <1>4

THEOREM CallsCorrect == Spec => []CallInv
<1>1. IdInv /\ Init => CallInv
  <2>1. SUFFICES ASSUME Init, IdInv PROVE CallInv
    OBVIOUS
  <2>2. /\ DOMAIN sq = {} /\ DOMAIN held = {} /\ inflight = {} /\ DOMAIN cq = {}
        /\ cur = NoCqe /\ quiet = {} /\ Busy = {} /\ pc = "app"
    BY <2>1 DEF Init, Busy
  <2>3. QED BY <2>1, <2>2 DEF CallInv, KindSound, QuietSound
<1>2. CallInv /\ IdInv' /\ [Next]_vars => CallInv'
  BY StepCalls
<1>3. QED BY <1>1, <1>2, IdsCorrect, PTL DEF Spec

LEMMA CallIsCqeCall ==
  ASSUME TypeOK, [Next]_vars, pc = "taken", pc' = "call"
  PROVE  CqeCall
<1>1. ~Api
  BY ApiSubmits DEF Submitted, SubmitNext, AppPcs
<1>2. ~Kernel
  BY DEF Kernel, KernelTake, KernelMore, KernelLast
<1>3. QED
  BY <1>1, <1>2
  DEF Next, vars, CancelNext, FlushDone, RunLoop, RunOnce, Loop, LoopTest,
      NextCall, NextReturn, NextDone, EnterDone, RingCqe, RingEmpty, CqeReturn,
      CqeNotif, Finish, AppPcs

\* The callback that runs is the operation's own as long as it was not cancelled,
\* and the one that replaces it runs only when the kernel has nothing left of
\* the operation's buffers.
THEOREM CallbacksSoundAlways == Spec => CallbacksSound
<1> DEFINE Own == ~lapped' /\ pc = "taken" /\ pc' = "call" =>
                    (callback[cur'.user] = "own" <=> cur'.op \notin quiet)
           Last == ~lapped' /\ pc = "taken" /\ pc' = "call"
                     /\ callback[cur'.user] = "swapped"
                   => \A r \in inflight :
                        r.op = owner[cur'.user] => r.kind # OneShot
<1>1. CallInv /\ [Next]_vars => Own /\ Last
  <2> SUFFICES ASSUME CallInv, [Next]_vars,
                      ~lapped', pc = "taken", pc' = "call"
               PROVE  /\ callback[cur'.user] = "own" <=> cur'.op \notin quiet
                      /\ \A r \in inflight :
                           r.op = owner[cur'.user] => r.kind # OneShot
    OBVIOUS
  <2>1. /\ TypeOK /\ SlotSound /\ PoolSound /\ KindSound /\ QuietSound
    BY LappedStays DEF CallInv, IdInv, SlotInv
  <2>2. cur' = cur /\ ~cur.notif /\ cur # NoCqe
    BY <2>1, CallIsCqeCall DEF CqeCall, Slot, TypeOK, Frame
  <2>3. owner[cur.user] = cur.op /\ cur.user \in Busy
    BY <2>1, <2>2, Named
  <2>4. callback[cur'.user] = "own" <=> cur'.op \notin quiet
    BY <2>1, <2>2, <2>3 DEF QuietSound, Calls
  <2>5. ASSUME NEW r \in inflight, r.op = owner[cur'.user]
        PROVE  r.kind # OneShot
    <3>1. r.user = cur.user
      BY <2>1, <2>2, <2>5, Named DEF PoolSound
    <3>2. cur.more /\ r.kind = cur.kind
      BY <2>1, <2>2, <3>1 DEF SlotSound, KernelSound, KindSound
    <3>3. cur.kind \in {MultiShot, ZeroCopy}
      BY <2>1, <2>2, <3>2 DEF KindSound
    <3>4. QED BY <3>2, <3>3 DEF OneShot, MultiShot, ZeroCopy
  <2>6. QED BY <2>4, <2>5
<1>2. QED
  BY <1>1, CallsCorrect, PTL
  DEF Spec, CallbacksSound, OwnCallbackOnly, SwappedCallbackIsLast

-----------------------------------------------------------------------------
(* Operations with names: what the application holds.                       *)

\* What the calls that start an operation do, for the application to see: it holds
\* one more id, or none for an operation without a callback, or one less when the
\* operation is a cancellation.
Began(u) ==
  /\ Started(u) /\ once' = once
  /\ \/ /\ \E ring \in BOOLEAN :
             ids' = ids \cup {[user |-> u, op |-> nops + 1, ring |-> ring]}
        /\ quiet' = quiet
        /\ callback' = [callback EXCEPT ![u] = "own"]
     \/ /\ ids' = ids
        /\ quiet' = quiet \cup {nops + 1}
        /\ callback' = [callback EXCEPT ![u] = "noop"]
     \/ \E id \in ids, how \in {"swapped", "noop"} :
          /\ ids' = ids \ {id}
          /\ quiet' = quiet \cup {id.op, nops + 1}
          /\ callback' = [[callback EXCEPT ![u] = "noop"] EXCEPT ![id.user] = how]

LEMMA ApiBegins ==
  ASSUME TypeOK, Api
  PROVE  \E u \in Users : Began(u)
<1>0. PICK u \in Users :
        \/ \E how \in {"own", "noop"} : SubmitOneShot(u, how)
        \/ \E kind \in {MultiShot, ZeroCopy} : SubmitMultiShot(u, kind)
        \/ \E id \in ids : AsyncCancel(u, id)
        \/ \E id \in ids, how \in {"swapped", "noop"} : CancelRing(u, id, how)
        \/ SubmitNext(u)
  BY DEF Api
<1>1. ASSUME NEW sqe, pc \in AppPcs, RingSqe(sqe)
      PROVE  Frame' = Frame /\ pc' # "taken"
  BY <1>1 DEF RingSqe, Frame, AppPcs
<1>2. ASSUME NEW how \in {"own", "noop"}, SubmitOneShot(u, how)
      PROVE  Began(u)
  <2>1. Started(u) /\ once' = once /\ callback' = [callback EXCEPT ![u] = how]
    BY <1>1, <1>2 DEF SubmitOneShot, AllocUser, Started
  <2>2. CASE how = "own"
    BY <1>2, <2>1, <2>2 DEF SubmitOneShot, Began
  <2>3. CASE how = "noop"
    BY <1>2, <2>1, <2>3 DEF SubmitOneShot, Began
  <2>4. QED BY <2>2, <2>3
<1>3. ASSUME NEW kind \in {MultiShot, ZeroCopy}, SubmitMultiShot(u, kind)
      PROVE  Began(u)
  <2>1. Started(u)
    BY <1>1, <1>3 DEF SubmitMultiShot, AllocUser, Started
  <2>2. QED BY <1>3, <2>1 DEF SubmitMultiShot, AllocUser, Began
<1>4. ASSUME NEW id \in ids, AsyncCancel(u, id)
      PROVE  Began(u)
  <2>1. Started(u)
    BY <1>1, <1>4 DEF AsyncCancel, AllocUser, Started
  <2>2. QED BY <1>4, <2>1 DEF AsyncCancel, AllocUser, Began
<1>5. ASSUME NEW id \in ids, NEW how \in {"swapped", "noop"},
             CancelRing(u, id, how)
      PROVE  Began(u)
  <2>1. Started(u)
    BY <1>1, <1>5 DEF CancelRing, Started
  <2>2. QED BY <1>5, <2>1 DEF CancelRing, Redirect, Began
<1>6. ASSUME SubmitNext(u)
      PROVE  Began(u)
  <2>1. Started(u)
    BY <1>6 DEF SubmitNext, AllocUser, Started, Frame, AppPcs
  <2>2. QED BY <1>6, <2>1 DEF SubmitNext, AllocUser, Began
<1>7. QED BY <1>0, <1>2, <1>3, <1>4, <1>5, <1>6

\* The owner of a slot and the operation an id, or a next call, names.
LEMMA NamesAgree ==
  ASSUME TypeOK, SlotSound, PoolSound, IdSound
  PROVE  /\ nops \in Nat /\ NoOp \notin Ops /\ 0 \notin Ops
         /\ \A u \in Users : owner[u] <= nops /\ owner[u] \in Nat
         /\ \A u \in Busy : u \in Users /\ owner[u] \in Ops
         /\ \A id \in ids : id.user \in Busy /\ owner[id.user] = id.op
                            /\ id.op <= nops /\ id.op \in Ops
         /\ \A k \in i .. Len(next) :
              /\ next[k].user \in Busy /\ owner[next[k].user] = next[k].op
              /\ next[k].op <= nops /\ next[k].op \in Ops
         /\ cur # NoCqe => cur.user \in Busy /\ owner[cur.user] = cur.op
                           /\ cur.op \in Ops
         /\ \A u, v \in Busy : owner[u] = owner[v] => u = v
<1>1. nops \in Nat /\ NoOp \notin Ops /\ 0 \notin Ops
  BY BoundsAssumption DEF TypeOK, Typed, Ops, NoOp
<1>2. \A u \in Users : owner[u] <= nops /\ owner[u] \in Nat
  BY DEF PoolSound, TypeOK, Typed, Ops, NoOp
<1>3. \A u \in Busy : u \in Users /\ owner[u] \in Ops
  BY DEF Busy, TypeOK, Typed
<1>4. \A id \in ids : id.user \in Busy /\ owner[id.user] = id.op
                      /\ id.op <= nops /\ id.op \in Ops
  BY <1>2, IdsAreBusy
<1>5. \A k \in i .. Len(next) :
        /\ next[k].user \in Busy /\ owner[next[k].user] = next[k].op
        /\ next[k].op <= nops /\ next[k].op \in Ops
  <2>1. \A k \in i .. Len(next) : next[k].user \in Users /\ next[k].op \in Ops
                                  /\ owner[next[k].user] = next[k].op
    BY EntryTypes DEF SlotSound, NextSound
  <2>2. QED BY <1>1, <1>2, <2>1 DEF Busy
<1>6. cur # NoCqe => cur.user \in Busy /\ owner[cur.user] = cur.op /\ cur.op \in Ops
  BY Named, EntryTypes
<1>7. QED BY <1>1, <1>2, <1>3, <1>4, <1>5, <1>6 DEF PoolSound

\* Where the next calls come from, when an operation was started.
LEMMA NextGrown ==
  ASSUME TypeOK, NEW x \in NextUsers, next' = next \/ next' = Append(next, x)
  PROVE  /\ \A k \in i .. Len(next') :
              \/ k \in i .. Len(next) /\ next'[k] = next[k]
              \/ k = Len(next) + 1 /\ next'[k] = x
         /\ \A k \in DOMAIN next : next'[k] = next[k]
<1>1. next \in Seq(NextUsers) /\ i \in Nat \ {0} /\ Len(next) \in Nat
  BY DEF TypeOK, Typed
<1>2. CASE next' = next
  BY <1>2
<1>3. CASE next' = Append(next, x)
  BY <1>1, <1>3
<1>4. QED BY <1>2, <1>3

LEMMA BeganHeld ==
  ASSUME TypeOK, SlotSound, PoolSound, IdSound, QuietSound, HeldSound,
         NEW u \in Users, Began(u)
  PROVE  HeldSound'
<1> DEFINE new == nops + 1
           x == [user |-> u, op |-> new]
<1>1. /\ u \notin Busy /\ new \in Ops /\ new \in Nat
      /\ owner'[u] = new /\ \A v \in Users : v # u => owner'[v] = owner[v]
      /\ \A v \in Busy' : v = u \/ v \in Busy
      /\ i' = i /\ Frame' = Frame /\ x \in NextUsers
      /\ next' = next \/ next' = Append(next, x)
  BY BoundsAssumption
  DEF Began, Started, TypeOK, Typed, Ops, Busy, NextUsers
<1>2. /\ new # 0 /\ \A o \in Ops : o <= nops => o # new
      /\ new \notin quiet
  BY BoundsAssumption DEF QuietSound, TypeOK, Typed, Ops
<1>3. \A k \in i' .. Len(next') :
        \/ k \in i .. Len(next) /\ next'[k] = next[k]
        \/ next'[k].user = u /\ next'[k].op = new
  <2>1. x.user = u /\ x.op = new
    OBVIOUS
  <2> HIDE DEF x
  <2>2. QED BY <1>1, <2>1, NextGrown
<1>4. \A v \in Users : v # u => v \in Busy \/ v \notin Busy'
  BY <1>1
<1> HIDE DEF new
<1>5. CASE /\ \E ring \in BOOLEAN :
                ids' = ids \cup {[user |-> u, op |-> new, ring |-> ring]}
           /\ quiet' = quiet
           /\ callback' = [callback EXCEPT ![u] = "own"]
  <2>0. PICK ring \in BOOLEAN :
          ids' = ids \cup {[user |-> u, op |-> new, ring |-> ring]}
    BY <1>5
  <2> DEFINE jd == [user |-> u, op |-> new, ring |-> ring]
  <2>1. ids' = ids \cup {jd} /\ jd.op = new
    BY <2>0
  <2> HIDE DEF jd
  <2>2. \A id \in ids' : id.op \notin quiet'
    BY <1>2, <1>5, <2>1 DEF HeldSound
  <2>3. \A v \in Busy' : owner'[v] \in quiet' \/ ~Dropped(owner[v])'
    BY <1>1, <1>5, <2>1, NamesAgree DEF HeldSound, Dropped
  <2>4. \A id, kd \in ids' : id.op = kd.op => id = kd
    BY <1>2, <2>1, NamesAgree DEF HeldSound
  <2>5. \A k \in i' .. Len(next') :
          (Frame' = "nextcall" /\ k = i') \/ Calls(next[k].user, next[k].op)'
    <3>1. \A v \in Busy : callback'[v] = callback[v]
      BY <1>1, <1>5, NamesAgree DEF TypeOK, Typed
    <3>2. QED BY <1>1, <1>2, <1>3, <1>5, <3>1, NamesAgree DEF HeldSound, Calls
  <2>6. QED BY <2>2, <2>3, <2>4, <2>5 DEF HeldSound
<1>6. CASE /\ ids' = ids
           /\ quiet' = quiet \cup {new}
           /\ callback' = [callback EXCEPT ![u] = "noop"]
  <2>1. \A id \in ids' : id.op \notin quiet'
    BY <1>2, <1>6, NamesAgree DEF HeldSound
  <2>2. \A v \in Busy' : owner'[v] \in quiet' \/ ~Dropped(owner[v])'
    BY <1>1, <1>6, NamesAgree DEF HeldSound, Dropped
  <2>3. \A id, kd \in ids' : id.op = kd.op => id = kd
    BY <1>6 DEF HeldSound
  <2>4. \A k \in i' .. Len(next') :
          (Frame' = "nextcall" /\ k = i') \/ Calls(next[k].user, next[k].op)'
    <3>1. /\ \A v \in Busy : callback'[v] = callback[v]
          /\ callback'[u] # "own"
      BY <1>1, <1>6, NamesAgree DEF TypeOK, Typed
    <3>2. QED BY <1>1, <1>2, <1>3, <1>6, <3>1, NamesAgree DEF HeldSound, Calls
  <2>5. QED BY <2>1, <2>2, <2>3, <2>4 DEF HeldSound
<1>7. ASSUME NEW id \in ids, NEW how \in {"swapped", "noop"},
             ids' = ids \ {id},
             quiet' = quiet \cup {id.op, new},
             callback' = [[callback EXCEPT ![u] = "noop"] EXCEPT ![id.user] = how]
      PROVE  HeldSound'
  <2>0. /\ \A v \in Users : callback'[v] = callback[v] \/ callback'[v] # "own"
        /\ callback'[u] # "own" /\ callback'[id.user] # "own"
    BY <1>7, NamesAgree DEF TypeOK, Typed
  <2>1. \A jd \in ids' : jd.op \notin quiet'
    BY <1>2, <1>7, NamesAgree DEF HeldSound
  <2>2. \A v \in Busy' : owner'[v] \in quiet' \/ ~Dropped(owner[v])'
    <3>1. ASSUME NEW v \in Busy, v # u, owner[v] # id.op, owner[v] \notin quiet
          PROVE  ~Dropped(owner[v])'
      <4>1. PICK jd \in ids : jd.op = owner[v]
        BY <3>1 DEF HeldSound, Dropped
      <4>2. owner'[v] = owner[v] /\ jd \in ids'
        BY <1>1, <1>7, <3>1, <4>1, NamesAgree
      <4>3. QED BY <4>1, <4>2 DEF Dropped
    <3>2. \A v \in Busy : v # u => owner'[v] = owner[v]
      BY <1>1, NamesAgree
    <3>3. QED BY <1>1, <1>7, <3>1, <3>2
  <2>3. \A jd, kd \in ids' : jd.op = kd.op => jd = kd
    BY <1>7 DEF HeldSound
  <2>4. \A k \in i' .. Len(next') :
          (Frame' = "nextcall" /\ k = i') \/ Calls(next[k].user, next[k].op)'
    <3>1. ASSUME NEW k \in i .. Len(next), Calls(next[k].user, next[k].op)
          PROVE  callback'[next[k].user] = "own" => next[k].op \notin quiet'
      <4>1. next[k].user \in Busy /\ owner[next[k].user] = next[k].op
            /\ next[k].op # new
        BY <1>2, NamesAgree
      <4>2. next[k].op = id.op => next[k].user = id.user
        BY <4>1, NamesAgree
      <4>3. next[k].user \in Users
        BY <4>1, NamesAgree
      <4>4. QED BY <1>7, <2>0, <3>1, <4>1, <4>2, <4>3 DEF Calls
    <3>2. QED BY <1>1, <1>3, <2>0, <3>1 DEF HeldSound, Calls
  <2>5. QED BY <2>1, <2>2, <2>3, <2>4 DEF HeldSound
<1>8. QED BY <1>5, <1>6, <1>7 DEF Began, new

LEMMA CancelNextHeld ==
  ASSUME TypeOK, SlotSound, PoolSound, IdSound, QuietSound, HeldSound,
         NEW id \in ids, NEW how \in {"swapped", "noop"}, CancelNext(id, how)
  PROVE  HeldSound'
<1>1. /\ ids' = ids \ {id} /\ quiet' = quiet \cup {id.op} /\ Busy' = Busy
      /\ callback' = [callback EXCEPT ![id.user] = how]
      /\ UNCHANGED <<owner, next, i>> /\ Frame' = Frame
  BY DEF CancelNext, Redirect, Busy, Frame
<1>2. /\ \A v \in Users : callback'[v] = callback[v] \/ callback'[v] # "own"
      /\ callback'[id.user] # "own"
  BY <1>1, NamesAgree DEF TypeOK, Typed
<1>3. \A jd \in ids' : jd.op \notin quiet'
  BY <1>1 DEF HeldSound
<1>4. \A v \in Busy' : owner'[v] \in quiet' \/ ~Dropped(owner[v])'
  BY <1>1 DEF HeldSound, Dropped
<1>5. \A jd, kd \in ids' : jd.op = kd.op => jd = kd
  BY <1>1 DEF HeldSound
<1>6. ASSUME NEW k \in i .. Len(next), Calls(next[k].user, next[k].op)
      PROVE  callback'[next[k].user] = "own" => next[k].op \notin quiet'
  <2>1. next[k].user \in Users
    BY NamesAgree
  <2>2. next[k].op = id.op => next[k].user = id.user
    BY NamesAgree
  <2>3. QED BY <1>1, <1>2, <1>6, <2>1, <2>2 DEF Calls
<1>7. \A k \in i' .. Len(next') :
        (Frame' = "nextcall" /\ k = i') \/ Calls(next[k].user, next[k].op)'
  BY <1>1, <1>6 DEF HeldSound, Calls
<1>8. QED BY <1>3, <1>4, <1>5, <1>7 DEF HeldSound

\* Steps that call nothing and cancel nothing.
LEMMA HeldStays ==
  ASSUME TypeOK, HeldSound, UNCHANGED <<callback, quiet, ids, next, i>>,
         owner' = owner \/ \E u : FreeUser(u),
         Frame' = Frame \/ Frame # "nextcall"
  PROVE  HeldSound'
<1>1. \A v \in Busy' : v \in Busy /\ owner'[v] = owner[v]
  BY DEF FreeUser, Busy, TypeOK, Typed
<1>2. QED BY <1>1 DEF HeldSound, Dropped, Calls

\* The call of an operation: its ids are gone, and it is quiet.
LEMMA CalledHeld ==
  ASSUME TypeOK, SlotSound, PoolSound, IdSound, HeldSound, NEW o,
         ids' = {id \in ids : id.op # o}, quiet' = quiet \cup {o},
         UNCHANGED <<owner, callback, next, i>>,
         Frame # "nextcall",
         \A k \in i .. Len(next) :
           next[k].op # o \/ (Frame' = "nextcall" /\ k = i')
  PROVE  HeldSound'
<1>1. Busy' = Busy
  BY DEF Busy
<1>2. \A id \in ids' : id \in ids /\ id.op \notin quiet'
  BY DEF HeldSound
<1>3. \A v \in Busy' : owner'[v] \in quiet' \/ ~Dropped(owner[v])'
  BY <1>1 DEF HeldSound, Dropped
<1>4. \A k \in i' .. Len(next') :
        (Frame' = "nextcall" /\ k = i') \/ Calls(next[k].user, next[k].op)'
  BY DEF HeldSound, Calls
<1>5. QED BY <1>2, <1>3, <1>4 DEF HeldSound

LEMMA CqeCallHeld ==
  ASSUME TypeOK, SlotSound, PoolSound, IdSound, HeldSound, CqeCall, ~lapped'
  PROVE  HeldSound'
<1>1. /\ UNCHANGED <<owner, callback, next, i>> /\ cur # NoCqe
      /\ Frame # "nextcall" /\ Slot = cur
  BY DEF CqeCall, Slot, TypeOK, Frame
<1>2. CASE UNCHANGED <<ids, quiet>>
  BY <1>1, <1>2, HeldStays
<1>3. CASE ids' = {id \in ids : id.op # cur.op} /\ quiet' = quiet \cup {cur.op}
  <2>1. \A k \in i .. Len(next) : next[k].op # cur.op
    BY <1>1, NamesAgree DEF SlotSound, NextSound
  <2>2. QED BY <1>1, <1>3, <2>1, CalledHeld
<1>4. QED BY <1>1, <1>2, <1>3 DEF CqeCall

LEMMA NextCallHeld ==
  ASSUME TypeOK, SlotSound, PoolSound, IdSound, HeldSound, NextCall
  PROVE  HeldSound'
<1>1. /\ UNCHANGED <<owner, callback, next, i>>
      /\ Frame # "nextcall" /\ Frame' = "nextcall"
      /\ ids' = {id \in ids : id.op # next[i].op}
      /\ quiet' = quiet \cup {next[i].op}
  BY DEF NextCall, Frame
<1>2. i \in i .. Len(next)
  BY DEF NextCall, TypeOK, Typed
<1>3. \A k \in i .. Len(next) : k = i \/ next[k].op # next[i].op
  <2>1. \A k \in i .. Len(next) : next[k].user = next[i].user => k = i
    BY <1>2 DEF SlotSound, NextSound
  <2>2. QED BY <1>2, <2>1, NamesAgree
<1>4. QED BY <1>1, <1>3, CalledHeld

LEMMA NextReturnHeld ==
  ASSUME TypeOK, HeldSound, NextReturn
  PROVE  HeldSound'
<1>1. /\ UNCHANGED <<callback, quiet, ids, next>> /\ i' = i + 1
      /\ Frame' # "nextcall" /\ \E u : FreeUser(u)
  BY DEF NextReturn, Frame
<1>2. \A v \in Busy' : v \in Busy /\ owner'[v] = owner[v]
  BY <1>1 DEF FreeUser, Busy, TypeOK, Typed
<1>3. \A k \in i' .. Len(next') : k \in i .. Len(next) /\ k # i
  BY <1>1 DEF TypeOK, Typed
<1>4. QED BY <1>1, <1>2, <1>3 DEF HeldSound, Dropped, Calls

LEMMA NextDoneHeld ==
  ASSUME TypeOK, HeldSound, NextDone
  PROVE  HeldSound'
<1>1. /\ UNCHANGED <<owner, callback, quiet, ids>>
      /\ next' = <<>> /\ i' = 1
  BY DEF NextDone
<1>2. \A k \in i' .. Len(next') : FALSE
  BY <1>1
<1>3. QED BY <1>1, <1>2 DEF HeldSound, Dropped, Busy

LEMMA LoopHeld ==
  ASSUME TypeOK, SlotSound, PoolSound, IdSound, HeldSound,
         Loop \/ RunLoop \/ RunOnce, ~lapped'
  PROVE  HeldSound'
<1>1. CASE CqeCall
  BY <1>1, CqeCallHeld
<1>2. CASE NextCall
  BY <1>2, NextCallHeld
<1>3. CASE NextReturn
  BY <1>3, NextReturnHeld
<1>4. CASE NextDone
  BY <1>4, NextDoneHeld
<1>5. CASE /\ UNCHANGED <<callback, quiet, ids, next, i>> /\ Frame # "nextcall"
           /\ owner' = owner \/ \E u : FreeUser(u)
  BY <1>5, HeldStays
<1>6. ASSUME pc \in {"app", "while", "next", "enter", "drain", "taken", "call"}
      PROVE  Frame # "nextcall"
  BY <1>6 DEF Frame
<1>7. QED
  BY <1>1, <1>2, <1>3, <1>4, <1>5, <1>6
  DEF Loop, RunLoop, RunOnce, LoopTest, EnterDone, RingCqe, RingEmpty,
      CqeReturn, CqeNotif, Finish

LEMMA StepHeld ==
  ASSUME HeldInv, [Next]_vars, CallInv'
  PROVE  HeldInv'
<1>1. SUFFICES ASSUME ~lapped'
               PROVE  HeldSound'
  BY DEF HeldInv
<1>2. /\ TypeOK /\ SlotSound /\ PoolSound /\ IdSound
      /\ QuietSound /\ HeldSound
  BY <1>1, LappedStays DEF HeldInv, CallInv, IdInv, SlotInv
<1>3. CASE Api
  BY <1>2, <1>3, ApiBegins, BeganHeld
<1>4. CASE \E id \in ids, how \in {"swapped", "noop"} : CancelNext(id, how)
  BY <1>2, <1>4, CancelNextHeld
<1>5. CASE Loop \/ RunLoop \/ RunOnce
  BY <1>1, <1>2, <1>5, LoopHeld
<1>6. CASE Kernel \/ FlushDone \/ UNCHANGED vars
  <2>1. UNCHANGED <<owner, callback, quiet, ids, next, i>> /\ Frame' = Frame
    BY <1>2, <1>6 DEF Kernel, KernelTake, KernelMore, KernelLast, FlushDone, vars, Frame,
       TypeOK, Typed, AppPcs
  <2>2. QED BY <1>2, <2>1, HeldStays
<1>7. QED BY <1>3, <1>4, <1>5, <1>6 DEF Next

\* An operation whose own callback may still run is held by the application under one
\* id, and no other operation is, for as long as no completion entry was overwritten.
THEOREM HeldCorrect == Spec => []HeldInv
<1>1. CallInv /\ Init => HeldInv
  <2>1. SUFFICES ASSUME Init, CallInv PROVE HeldInv
    OBVIOUS
  <2>2. ids = {} /\ Busy = {} /\ next = <<>> /\ i = 1
    BY <2>1 DEF Init, Busy
  <2>3. \A k \in i .. Len(next) : FALSE
    BY <2>2
  <2>4. QED BY <2>1, <2>2, <2>3 DEF HeldInv, HeldSound
<1>2. HeldInv /\ CallInv' /\ [Next]_vars => HeldInv'
  BY StepHeld
<1>3. QED BY <1>1, <1>2, CallsCorrect, PTL DEF Spec

-----------------------------------------------------------------------------
(* Operations with names: each step of the core is one of theirs, or none.  *)

LEMMA TurnParts ==
  /\ Frame = "call" => Turn = TurnOf(cur)
  /\ Frame = "nextcall" => Turn = TurnOf(next[i])
  /\ Frame \notin {"call", "nextcall"} => Turn = Promise!NoTurn
  BY DEF Turn, Promise!NoTurn

LEMMA TurnOfParts ==
  ASSUME NEW x
  PROVE  TurnOf(x).op = x.op /\ (TurnOf(x).own <=> callback[x.user] = "own")
  BY DEF TurnOf

\* While a callback runs, it is that of a pending operation.
LEMMA TurnSound ==
  ASSUME TypeOK, SlotSound, PoolSound, IdSound
  PROVE  /\ Frame = "call" => cur # NoCqe
         /\ Frame = "nextcall" => i \in i .. Len(next) /\ i \in DOMAIN next
         /\ Frame \in {"call", "nextcall"} =>
              Turn.op \in Ops /\ Turn # Promise!NoTurn
<1>1. Frame = "call" => cur # NoCqe
  BY DEF TypeOK
<1>2. Frame = "nextcall" => i \in i .. Len(next) /\ i \in DOMAIN next
  BY DEF TypeOK, Typed
<1>3. Frame \in {"call", "nextcall"} => Turn.op \in Ops
  BY <1>1, <1>2, TurnParts, TurnOfParts, NamesAgree
<1>4. Promise!NoTurn.op \notin Ops
  BY DEF Promise!NoTurn, NoOp, Ops
<1>5. QED BY <1>1, <1>2, <1>3, <1>4

\* The callback that runs stays the one it is while the callbacks of its slot and of
\* the loop stay.
LEMMA TurnStays ==
  ASSUME TypeOK, Frame' = Frame, cur' = cur, i' = i,
         Frame = "call" => callback'[cur.user] = callback[cur.user],
         Frame = "nextcall" => /\ next'[i] = next[i]
                               /\ callback'[next[i].user] = callback[next[i].user]
  PROVE  Turn' = Turn
<1>1. CASE Frame = "call"
  <2>1. TurnOf(cur)' = TurnOf(cur)
    BY <1>1 DEF TurnOf
  <2>2. QED BY <1>1, <2>1 DEF Turn
<1>2. CASE Frame = "nextcall"
  <2>1. TurnOf(next[i])' = TurnOf(next[i])
    BY <1>2 DEF TurnOf
  <2>2. QED BY <1>2, <2>1 DEF Turn
<1>3. CASE Frame \notin {"call", "nextcall"}
  BY <1>3 DEF Turn
<1>4. QED BY <1>1, <1>2, <1>3

\* A cancellation takes the callback that runs from its operation, if that is the one.
LEMMA TurnCancelled ==
  ASSUME TypeOK, SlotSound, PoolSound, IdSound, NEW id \in ids,
         Frame' = Frame, cur' = cur, i' = i,
         callback'[id.user] # "own",
         \A v \in Busy : v # id.user => callback'[v] = callback[v],
         Frame = "nextcall" => next'[i] = next[i]
  PROVE  Turn' = IF Turn.op = id.op THEN [Turn EXCEPT !.own = FALSE] ELSE Turn
<1>1. \A v \in Busy : owner[v] = id.op <=> v = id.user
  BY NamesAgree
<1>2. CASE Frame = "call"
  <2>1. cur.user \in Busy /\ owner[cur.user] = cur.op
    BY <1>2, TurnSound, NamesAgree
  <2>2. /\ Turn = TurnOf(cur)
        /\ Turn' = [op |-> cur.op, own |-> callback'[cur.user] = "own"]
    BY <1>2 DEF Turn, TurnOf
  <2>3. QED BY <1>1, <2>1, <2>2 DEF TurnOf
<1>3. CASE Frame = "nextcall"
  <2>1. next[i].user \in Busy /\ owner[next[i].user] = next[i].op
    BY <1>3, TurnSound, NamesAgree
  <2>2. /\ Turn = TurnOf(next[i])
        /\ Turn' = [op |-> next[i].op, own |-> callback'[next[i].user] = "own"]
    BY <1>3 DEF Turn, TurnOf
  <2>3. QED BY <1>1, <2>1, <2>2 DEF TurnOf
<1>4. CASE Frame \notin {"call", "nextcall"}
  <2>1. Turn = Promise!NoTurn /\ Turn' = Promise!NoTurn
    BY <1>4, TurnParts DEF Turn, Promise!NoTurn
  <2>2. Turn.op # id.op
    BY <2>1, NamesAgree DEF Promise!NoTurn, NoOp
  <2>3. QED BY <2>1, <2>2
<1>5. QED BY <1>2, <1>3, <1>4

LEMMA PendingGrows ==
  ASSUME TypeOK, NEW u \in Users, u \notin Busy, NEW o \in Ops,
         owner' = [owner EXCEPT ![u] = o]
  PROVE  Pending' = Pending \cup {o}
<1>1. /\ owner'[u] = o /\ o # NoOp /\ u \in Busy'
      /\ \A v \in Users : v # u => owner'[v] = owner[v]
  BY DEF TypeOK, Typed, Ops, NoOp, Busy
<1>2. \A v : v \in Busy' <=> v = u \/ v \in Busy
  BY <1>1 DEF Busy
<1>3. \A v \in Busy : v \in Users /\ v # u
  BY DEF Busy
<1>4. QED BY <1>1, <1>2, <1>3 DEF Pending

LEMMA PendingShrinks ==
  ASSUME TypeOK, PoolSound, NEW u \in Busy, FreeUser(u)
  PROVE  Pending' = Pending \ {owner[u]}
<1>1. /\ u \in Users /\ owner'[u] = NoOp
      /\ \A v \in Users : v # u => owner'[v] = owner[v]
  BY DEF FreeUser, TypeOK, Typed, Busy
<1>2. \A v : v \in Busy' <=> v # u /\ v \in Busy
  BY <1>1 DEF Busy
<1>3. \A v \in Busy : v \in Users /\ (owner[v] = owner[u] => v = u)
  BY DEF Busy, PoolSound
<1>4. QED BY <1>1, <1>2, <1>3 DEF Pending

LEMMA PendingIs ==
  ASSUME TypeOK, SlotSound, PoolSound, IdSound
  PROVE  /\ \A id \in ids : id.op \in Pending
         /\ \A k \in i .. Len(next) : next[k].op \in Pending
         /\ cur # NoCqe => cur.op \in Pending
         /\ Busy = {} => Pending = {}
  BY NamesAgree DEF Pending

\* What is started, with or without a callback, or to cancel something.
LEMMA BeganPromised ==
  ASSUME TypeOK, SlotSound, PoolSound, IdSound, QuietSound, HeldSound,
         NEW u \in Users, Began(u)
  PROVE  Promise!Next
<1> DEFINE new == nops + 1
<1>1. /\ u \notin Busy /\ new \in Ops /\ nops' = new
      /\ Frame' = Frame /\ cur' = cur /\ i' = i /\ Looping' = Looping
      /\ owner' = [owner EXCEPT ![u] = new]
      /\ [user |-> u, op |-> new] \in NextUsers
      /\ next' = next \/ next' = Append(next, [user |-> u, op |-> new])
  BY BoundsAssumption
  DEF Began, Started, TypeOK, Typed, Ops, NextUsers, Looping
<1>2. Pending' = Pending \cup {new}
  BY <1>1, PendingGrows
<1>3. Frame = "nextcall" => next'[i] = next[i] /\ next[i].user \in Busy
  BY <1>1, NextGrown, TurnSound, NamesAgree
<1>4. Frame = "call" => cur.user \in Busy
  BY TurnSound, NamesAgree
<1>5. ASSUME NEW how, callback' = [callback EXCEPT ![u] = how],
             quiet' = quiet \/ quiet' = quiet \cup {new}
      PROVE  Promise!Next
  <2>1. \A v \in Busy : callback'[v] = callback[v]
    BY <1>1, <1>5, NamesAgree DEF TypeOK, Typed
  <2>2. Turn' = Turn
    BY <1>1, <1>3, <1>4, <2>1, TurnStays
  <2>3. Promise!Start
    BY <1>1, <1>2, <1>5, <2>2 DEF Promise!Start
  <2>4. QED BY <2>3 DEF Promise!Next
<1>6. ASSUME NEW id \in ids, NEW how \in {"swapped", "noop"},
             quiet' = quiet \cup {id.op, new},
             callback' = [[callback EXCEPT ![u] = "noop"] EXCEPT ![id.user] = how]
      PROVE  Promise!Next
  <2>1. /\ callback'[id.user] # "own"
        /\ \A v \in Busy : v # id.user => callback'[v] = callback[v]
    BY <1>1, <1>6, NamesAgree DEF TypeOK, Typed
  <2>2. Turn' = IF Turn.op = id.op THEN [Turn EXCEPT !.own = FALSE] ELSE Turn
    BY <1>1, <1>3, <2>1, TurnCancelled
  <2>3. id.op \in Pending \ quiet
    BY PendingIs DEF HeldSound
  <2>4. Promise!Cancel(id.op)
    BY <1>1, <1>2, <1>6, <2>2, <2>3 DEF Promise!Cancel
  <2>5. QED BY <2>3, <2>4 DEF Promise!Next
<1>7. QED BY <1>5, <1>6 DEF Began

LEMMA CancelNextPromised ==
  ASSUME TypeOK, SlotSound, PoolSound, IdSound, HeldSound,
         NEW id \in ids, NEW how \in {"swapped", "noop"}, CancelNext(id, how)
  PROVE  Promise!Next
<1>1. /\ quiet' = quiet \cup {id.op} /\ nops' = nops /\ Pending' = Pending
      /\ callback' = [callback EXCEPT ![id.user] = how]
      /\ UNCHANGED <<next, i, cur>> /\ Frame' = Frame /\ Looping' = Looping
  BY DEF CancelNext, Redirect, Busy, Frame, Looping, Pending
<1>2. /\ callback'[id.user] # "own"
      /\ \A v \in Busy : v # id.user => callback'[v] = callback[v]
  BY <1>1, NamesAgree DEF TypeOK, Typed
<1>3. Turn' = IF Turn.op = id.op THEN [Turn EXCEPT !.own = FALSE] ELSE Turn
  BY <1>1, <1>2, TurnCancelled
<1>4. id.op \in Pending \ quiet
  BY PendingIs DEF HeldSound
<1>5. Promise!Cancel(id.op)
  BY <1>1, <1>3, <1>4 DEF Promise!Cancel
<1>6. QED BY <1>4, <1>5 DEF Promise!Next

\* A callback that starts is the operation's own unless that is silent.
LEMMA CallPromised ==
  ASSUME TypeOK, SlotSound, PoolSound, IdSound, QuietSound, NEW x,
         x.user \in Busy, owner[x.user] = x.op, Calls(x.user, x.op),
         Frame \notin {"call", "nextcall"},
         Turn' = [op |-> x.op, own |-> callback[x.user] = "own"],
         quiet' = quiet \/ quiet' = quiet \cup {x.op},
         nops' = nops, owner' = owner, Looping' = Looping
  PROVE  Promise!Next
<1>1. (callback[x.user] = "own") = (x.op \notin quiet)
  BY DEF Calls, QuietSound
<1>2. Turn' = [op |-> x.op, own |-> x.op \notin quiet]
  BY <1>1
<1>3. Turn = Promise!NoTurn /\ Pending' = Pending /\ x.op \in Pending
  BY TurnParts DEF Pending, Busy
<1>4. Promise!Call(x.op)
  BY <1>2, <1>3 DEF Promise!Call
<1>5. QED BY <1>3, <1>4 DEF Promise!Next

LEMMA CqeCallPromised ==
  ASSUME TypeOK, SlotSound, PoolSound, IdSound, QuietSound, CqeCall, ~lapped'
  PROVE  Promise!Next
<1>1. /\ UNCHANGED <<owner, callback, nops, cur>> /\ cur # NoCqe
      /\ Frame = "taken" /\ Frame' = "call" /\ once' = once
      /\ quiet' = quiet \/ quiet' = quiet \cup {cur.op}
      /\ pc = "taken" /\ ~cur.notif
  BY DEF CqeCall, Slot, TypeOK, Frame
<1>2. Turn' = [op |-> cur.op, own |-> callback[cur.user] = "own"]
  BY <1>1 DEF Turn, TurnOf
<1>3. Calls(cur.user, cur.op) /\ cur.user \in Busy /\ owner[cur.user] = cur.op
  BY <1>1, NamesAgree DEF QuietSound
<1>4. Looping' = Looping
  BY <1>1 DEF Looping
<1>5. QED BY <1>1, <1>2, <1>3, <1>4, CallPromised

LEMMA NextCallPromised ==
  ASSUME TypeOK, SlotSound, PoolSound, IdSound, QuietSound, HeldSound, NextCall
  PROVE  Promise!Next
<1>1. /\ UNCHANGED <<owner, callback, nops, next, i>>
      /\ Frame = "next" /\ Frame' = "nextcall" /\ once' = once
      /\ quiet' = quiet \cup {next[i].op}
  BY DEF NextCall, Frame
<1>2. Turn' = [op |-> next[i].op, own |-> callback[next[i].user] = "own"]
  BY <1>1 DEF Turn, TurnOf
<1>3. i \in i .. Len(next)
  BY DEF NextCall, TypeOK, Typed
<1>4. /\ Calls(next[i].user, next[i].op) /\ next[i].user \in Busy
      /\ owner[next[i].user] = next[i].op
  BY <1>1, <1>3, NamesAgree DEF HeldSound
<1>5. Looping' = Looping
  BY <1>1 DEF Looping
<1>6. QED BY <1>1, <1>2, <1>4, <1>5, CallPromised

\* An operation that has no id any more is silent.
LEMMA DroppedIsSilent ==
  ASSUME HeldSound, NEW u \in Busy, Dropped(owner[u])
  PROVE  owner[u] \in quiet
  BY DEF HeldSound

LEMMA NextReturnPromised ==
  ASSUME TypeOK, SlotSound, PoolSound, IdSound, HeldSound, NextReturn
  PROVE  Promise!Next
<1>1. /\ UNCHANGED <<nops, quiet>> /\ FreeUser(next[i].user)
      /\ Frame = "nextcall" /\ Frame' = "next" /\ once' = once
  BY DEF NextReturn, Frame
<1>2. next[i].user \in Busy /\ owner[next[i].user] = next[i].op
  BY <1>1, TurnSound, NamesAgree
<1>3. next[i].op \in quiet
  BY <1>1, <1>2, DroppedIsSilent DEF IdSound
<1>4. Turn # Promise!NoTurn /\ Turn.op = next[i].op
  BY <1>1, TurnSound, TurnParts, TurnOfParts
<1>5. Turn' = Promise!NoTurn /\ Looping' = Looping
  BY <1>1 DEF Turn, Promise!NoTurn, Looping
<1>6. Pending' = Pending \ ({Turn.op} \cap quiet)
  BY <1>1, <1>2, <1>3, <1>4, PendingShrinks
<1>7. Promise!Return
  BY <1>1, <1>4, <1>5, <1>6 DEF Promise!Return
<1>8. QED BY <1>7 DEF Promise!Next

LEMMA CqeReturnPromised ==
  ASSUME TypeOK, SlotSound, PoolSound, IdSound, HeldSound, CqeReturn, ~lapped'
  PROVE  Promise!Next
<1>1. /\ UNCHANGED <<nops, quiet>> /\ cur # NoCqe
      /\ IF cur.more THEN owner' = owner ELSE FreeUser(cur.user)
      /\ Frame = "call" /\ Frame' = "drain" /\ once' = once
  BY DEF CqeReturn, Finish, Slot, Frame, TypeOK
<1>2. cur.user \in Busy /\ owner[cur.user] = cur.op
  BY <1>1, NamesAgree
<1>3. ~cur.more => cur.op \in quiet
  BY <1>1, <1>2, DroppedIsSilent DEF IdSound
<1>4. Turn # Promise!NoTurn /\ Turn.op = cur.op
  BY <1>1, TurnSound, TurnParts, TurnOfParts
<1>5. Turn' = Promise!NoTurn /\ Looping' = Looping
  BY <1>1 DEF Turn, Promise!NoTurn, Looping
<1>6. Pending' = Pending \/ Pending' = Pending \ ({Turn.op} \cap quiet)
  <2>1. CASE cur.more
    BY <1>1, <2>1 DEF Pending, Busy
  <2>2. CASE ~cur.more
    BY <1>1, <1>2, <1>3, <1>4, <2>2, PendingShrinks
  <2>3. QED BY <2>1, <2>2
<1>7. Promise!Return
  BY <1>1, <1>4, <1>5, <1>6 DEF Promise!Return
<1>8. QED BY <1>7 DEF Promise!Next

\* What changes nothing that the promise speaks of.
LEMMA Stutters ==
  ASSUME UNCHANGED <<nops, owner, quiet>>, Turn' = Turn, Looping' = Looping
  PROVE  UNCHANGED Promised
  BY DEF Promised, Pending, Busy

\* The notification of a zerocopy send ends it, when its result was called.
LEMMA CqeNotifPromised ==
  ASSUME TypeOK, SlotSound, PoolSound, NotifSound, IdSound, HeldSound, CqeNotif,
         ~lapped'
  PROVE  Promise!Next \/ UNCHANGED Promised
<1>1. /\ UNCHANGED <<nops, quiet>> /\ cur # NoCqe /\ cur.notif
      /\ IF cur.more THEN owner' = owner ELSE FreeUser(cur.user)
      /\ Frame = "taken" /\ Frame' = "drain" /\ once' = once
  BY DEF CqeNotif, Finish, Slot, Frame, TypeOK
<1>2. /\ Turn = Promise!NoTurn /\ Turn' = Promise!NoTurn
      /\ Looping' = Looping
  BY <1>1 DEF Turn, Promise!NoTurn, Looping
<1>3. CASE cur.more
  BY <1>1, <1>2, <1>3, Stutters
<1>4. CASE ~cur.more
  <2>1. cur.user \in Busy /\ owner[cur.user] = cur.op /\ cur.op \in Pending
    BY <1>1, NamesAgree DEF Pending
  <2>2. cur.op \in quiet
    BY <1>1, <2>1, DroppedIsSilent DEF NotifSound
  <2>3. Pending' = Pending \ {cur.op}
    BY <1>1, <1>4, <2>1, PendingShrinks
  <2>4. Promise!End(cur.op)
    BY <1>1, <1>2, <2>1, <2>2, <2>3 DEF Promise!End
  <2>5. QED BY <2>1, <2>4 DEF Promise!Next
<1>5. QED BY <1>3, <1>4

\* The loop is entered, and left when the pool is empty.
LEMMA LoopPromised ==
  ASSUME TypeOK, SlotSound, PoolSound, IdSound,
         RunLoop \/ RunOnce \/ LoopTest \/ NextDone \/ EnterDone \/ RingCqe \/ RingEmpty
  PROVE  Promise!Next \/ UNCHANGED Promised
<1>1. /\ UNCHANGED <<nops, owner, quiet>> /\ Pending' = Pending
      /\ Turn = Promise!NoTurn /\ Turn' = Promise!NoTurn
  BY DEF RunLoop, RunOnce, LoopTest, NextDone, EnterDone, RingCqe, RingEmpty, AfterOnce,
     Turn, Frame, Promise!NoTurn, Pending, Busy
<1>2. CASE Looping' = Looping
  BY <1>1, <1>2, Stutters
<1>3. CASE RunLoop
  <2>1. ~Looping /\ Looping'
    BY <1>3 DEF RunLoop, Looping, Frame
  <2>2. Looping' = TRUE
    BY <2>1 DEF Looping
  <2>3. Promise!Enter
    BY <1>1, <2>1, <2>2 DEF Promise!Enter
  <2>4. QED BY <2>3 DEF Promise!Next
<1>4. CASE LoopTest /\ Busy = {} /\ ~once
  <2>1. Looping /\ ~Looping' /\ Pending = {}
    BY <1>4, PendingIs DEF LoopTest, Looping, Frame
  <2>2. Looping' = FALSE
    BY <2>1 DEF Looping
  <2>3. Promise!Leave
    BY <1>1, <2>1, <2>2 DEF Promise!Leave
  <2>4. QED BY <2>3 DEF Promise!Next
<1>5. CASE LoopTest /\ (Busy # {} \/ once)
  <2>1. Looping' = Looping
    BY <1>5 DEF LoopTest, Looping, Frame
  <2>2. QED BY <1>2, <2>1
<1>6. CASE RunOnce \/ NextDone \/ EnterDone \/ RingCqe \/ RingEmpty
  <2>1. Looping' = Looping
    BY <1>6 DEF RunOnce, NextDone, EnterDone, RingCqe, RingEmpty, AfterOnce, Looping, Frame
  <2>2. QED BY <1>2, <2>1
<1>7. QED BY <1>3, <1>4, <1>5, <1>6

LEMMA StepPromised ==
  ASSUME HeldInv, [Next]_vars, ~lapped'
  PROVE  Promise!Next \/ UNCHANGED Promised
<1>1. /\ TypeOK /\ SlotSound /\ PoolSound /\ NotifSound /\ IdSound
      /\ QuietSound /\ HeldSound
  BY LappedStays DEF HeldInv, CallInv, IdInv, SlotInv
<1>2. CASE Api
  BY <1>1, <1>2, ApiBegins, BeganPromised
<1>3. CASE \E id \in ids, how \in {"swapped", "noop"} : CancelNext(id, how)
  BY <1>1, <1>3, CancelNextPromised
<1>4. CASE Kernel \/ FlushDone \/ UNCHANGED vars
  <2>1. /\ UNCHANGED <<nops, owner, callback, quiet, next, i, cur, once>>
        /\ Frame' = Frame
    BY <1>1, <1>4 DEF Kernel, KernelTake, KernelMore, KernelLast, FlushDone, vars, Frame,
       TypeOK, Typed, AppPcs
  <2>2. Turn' = Turn /\ Looping' = Looping
    BY <1>1, <2>1, TurnStays DEF Looping
  <2>3. QED BY <2>1, <2>2, Stutters
<1>5. CASE CqeCall
  BY <1>1, <1>5, CqeCallPromised
<1>6. CASE NextCall
  BY <1>1, <1>6, NextCallPromised
<1>7. CASE NextReturn
  BY <1>1, <1>7, NextReturnPromised
<1>8. CASE CqeReturn
  BY <1>1, <1>8, CqeReturnPromised
<1>9. CASE CqeNotif
  BY <1>1, <1>9, CqeNotifPromised
<1>10. CASE RunLoop \/ RunOnce \/ LoopTest \/ NextDone \/ EnterDone \/ RingCqe \/ RingEmpty
  BY <1>1, <1>10, LoopPromised
<1>11. QED
  BY <1>2, <1>3, <1>4, <1>5, <1>6, <1>7, <1>8, <1>9, <1>10 DEF Next, Loop

\* The core implements operations with names, by addresses that are used again: a
\* callback that is called is that of a pending operation, its own if and only if the
\* operation was neither cancelled nor had its last call; the operation is over only
\* then; and reactor_loop returns when none is pending.
THEOREM ImplementsOperationsAlways == Spec => ImplementsOperations
<1>1. Init => Promise!Init
  <2>1. SUFFICES ASSUME Init PROVE Promise!Init
    OBVIOUS
  <2>2. nops = 0 /\ Busy = {} /\ quiet = {} /\ Frame = "app"
    BY <2>1 DEF Init, Busy, Frame
  <2>3. Pending = {} /\ Turn = Promise!NoTurn /\ Looping = FALSE
    BY <2>2, TurnParts DEF Pending, Looping
  <2>4. QED BY <2>2, <2>3 DEF Promise!Init
<1>2. HeldInv /\ [Next]_vars => [lapped' \/ Promise!Next]_Promised
  BY StepPromised
<1>3. QED BY <1>1, <1>2, HeldCorrect, PTL DEF Spec, ImplementsOperations
=============================================================================
