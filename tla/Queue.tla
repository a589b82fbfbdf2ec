-------------------------------- MODULE Queue --------------------------------
(****************************************************************************)
(* queue.c: elements of a fixed size through a pipe, from producers to      *)
(* consumers that may run in threads of their own (as example/queue.c       *)
(* does).  A producer collects elements in output_queued while it writes    *)
(* output; a consumer reads a batch and hands it over one by one.           *)
(*                                                                          *)
(* A byte is known by its producer and its number there.  Producers and     *)
(* consumers may be closed and opened again.  The ring appears as in        *)
(* Stream: a cancelled operation may still be carried out, on a buffer that *)
(* is nobody's, but not after one that was submitted later.                 *)
(****************************************************************************)
EXTENDS Integers, Sequences, FiniteSetsExt

CONSTANTS
  Producers, Consumers,
  ElementSize,     \* bytes of an element
  WriteMax,        \* elements written at once; 128 in the code
  Batch,           \* batch_size of the consumers
  PipeSize,        \* bytes the pipe holds
  PipeBuf,         \* bytes the pipe takes at once or not at all
  MaxPushes,       \* bound: elements of all producers
  MaxInterrupts,   \* bound: operations that end with EINTR
  MaxCloses,       \* bound: closes of producers and consumers
  MaxReopens       \* bound: producers and consumers that are opened again

ASSUME SizesAssumption ==
  /\ {ElementSize, WriteMax, Batch, PipeSize} \subseteq Nat \ {0}
  /\ PipeBuf \in 0 .. PipeSize
ASSUME BoundsAssumption ==
  {MaxPushes, MaxInterrupts, MaxCloses, MaxReopens} \subseteq Nat

VARIABLES
  prod,       \* the producers: queue_producer, and history
  cons,       \* the consumers: queue_consumer, the handler, and history
  pipe,       \* the bytes in the pipe
  interrupts, \* operations that ended with EINTR so far
  reopened,   \* history: producers and consumers that were opened again
  failed      \* an assertion has failed, and ended the program

vars == <<prod, cons, pipe, interrupts, reopened, failed>>

None        == 0       \* no operation
Waits       == -1      \* an operation in the kernel
Interrupted == -4      \* its result

Bytes == Producers \X (Nat \ {0})
Run(p, from, n) == [j \in 1 .. n |-> <<p, from + j>>]
Element(p, k) == Run(p, (k - 1) * ElementSize, ElementSize)
Lesser(a, b) == IF a <= b THEN a ELSE b

\* A producer: producer->queue is set, output and output_offset, output_queued;
\* the write, and what it was submitted with; what cancelled writes may still
\* write; the elements pushed so far.
ProducerStates ==
  [open : BOOLEAN, output : Seq(Bytes), offset : Nat, queued : Seq(Bytes),
   write : {None, Waits, Interrupted} \cup Nat, chunk : Seq(Bytes),
   orphans : Seq(Seq(Bytes)), pushed : Nat]

\* A consumer: consumer->queue is set, the read, the batch it returned; the end
\* of the element that is being handed over (0 outside of the handler) and the
\* handler's local abort flag; where consumer->abort points: to nothing, to the flag
\* of the handler that runs, or to that of one that has returned; a close has
\* written to the latter; the cancelled reads that are left; the bytes handed over.
ConsumerStates ==
  [open : BOOLEAN, read : {None, Waits, Interrupted} \cup Nat,
   input : Seq(Bytes), at : Nat, aborted : BOOLEAN,
   abort : {"null", "live", "dangling"}, wild : BOOLEAN, orphans : Nat,
   popped : Seq(Bytes)]

\* Types; what is closed has no operation that would call it back.
TypeOK ==
  /\ prod \in [Producers -> ProducerStates]
  /\ cons \in [Consumers -> ConsumerStates]
  /\ pipe \in Seq(Bytes) /\ Len(pipe) <= PipeSize
  /\ interrupts \in 0 .. MaxInterrupts /\ failed \in BOOLEAN
  /\ reopened \subseteq Producers \cup Consumers
  /\ \A p \in Producers : ~prod[p].open => prod[p].write = None
  /\ \A c \in Consumers :
       /\ ~cons[c].open => cons[c].read = None
       /\ (cons[c].abort = "live") <=> (cons[c].at > 0)
       /\ cons[c].aborted => cons[c].at > 0
       /\ cons[c].open /\ ~cons[c].aborted => cons[c].at <= Len(cons[c].input)

\* queue_construct; queue_producer_construct, _open; queue_consumer_construct,
\* _open.
Init ==
  /\ prod = [p \in Producers |->
               [open |-> TRUE, output |-> <<>>, offset |-> 0, queued |-> <<>>,
                write |-> None, chunk |-> <<>>, orphans |-> <<>>, pushed |-> 0]]
  /\ cons = [c \in Consumers |->
               [open |-> TRUE, read |-> None, input |-> <<>>, at |-> 0,
                aborted |-> FALSE, abort |-> "null", wild |-> FALSE,
                orphans |-> 0, popped |-> <<>>]]
  /\ pipe = <<>> /\ interrupts = 0 /\ reopened = {} /\ failed = FALSE

MayClose ==
  Cardinality({p \in Producers : ~prod[p].open})
    + Cardinality({c \in Consumers : ~cons[c].open})
    + Cardinality(reopened) < MaxCloses

MayReopen(x) == x \notin reopened /\ Cardinality(reopened) < MaxReopens

-----------------------------------------------------------------------------
(* Producers *)

\* The part of output that is written next.
Chunk(r) ==
  SubSeq(r.output, r.offset + 1,
         Lesser(Len(r.output), r.offset + WriteMax * ElementSize))

StartWrite(r) ==
  IF r.output = <<>> THEN r ELSE [r EXCEPT !.write = Waits, !.chunk = Chunk(r)]

Swap(r) == [r EXCEPT !.output = r.queued, !.offset = 0, !.queued = <<>>]

UpdateSwapsBusy(r) ==                                               \* mutant
  LET s == IF r.offset = 0 THEN Swap(r) ELSE r
  IN  IF s.write # None THEN s ELSE StartWrite(s)

\* queue_producer_update: one write at a time; when all of output is out, what
\* was queued meanwhile is next.
Update(r) ==
  IF r.write # None THEN r
  ELSE StartWrite(IF r.offset = Len(r.output) THEN Swap(r) ELSE r)

MayPush ==
  MapThenSumSet(LAMBDA p : prod[p].pushed, Producers) < MaxPushes

\* queue_producer_push
Push(p) ==
  /\ ~failed /\ prod[p].open /\ MayPush
  /\ LET r == prod[p]
         s == [r EXCEPT !.queued = @ \o Element(p, r.pushed + 1), !.pushed = @ + 1]
     IN  prod' = [prod EXCEPT ![p] = Update(s)]
  /\ UNCHANGED <<cons, pipe, interrupts, reopened, failed>>

\* queue_producer_push_sync, by an application that has pushed nothing that is
\* still on its way to the pipe; it waits for room.
PushSync(p) ==
  /\ ~failed /\ prod[p].open /\ MayPush
  /\ prod[p].output = <<>> /\ prod[p].queued = <<>> /\ prod[p].orphans = <<>>
  /\ Len(pipe) + ElementSize <= PipeSize
  /\ pipe' = pipe \o Element(p, prod[p].pushed + 1)
  /\ prod' = [prod EXCEPT ![p].pushed = @ + 1]
  /\ UNCHANGED <<cons, interrupts, reopened, failed>>

ProducerWriteRepeats(p) ==                                          \* mutant
  /\ ~failed /\ prod[p].write \notin {None, Waits}
  /\ prod' = [prod EXCEPT ![p] =
       LET r == [@ EXCEPT !.write = None, !.chunk = <<>>] IN
         Update([r EXCEPT !.offset = IF @ + Len(prod[p].chunk) = Len(r.output)
                                     THEN Len(r.output) ELSE @])]
  /\ UNCHANGED <<cons, pipe, interrupts, reopened, failed>>

\* queue_producer_write: what an interrupted or a partial write has left is
\* written again; part of an element fails the assertion.
ProducerWrite(p) ==
  /\ ~failed /\ prod[p].write \notin {None, Waits}
  /\ LET result == prod[p].write
         r == [prod[p] EXCEPT !.write = None, !.chunk = <<>>]
     IN  IF result = Interrupted
         THEN prod' = [prod EXCEPT ![p] = Update(r)] /\ UNCHANGED failed
         ELSE /\ failed' = (result % ElementSize # 0)
              /\ prod' = [prod EXCEPT ![p] =
                            Update([r EXCEPT !.offset = @ + result])]
  /\ UNCHANGED <<cons, pipe, interrupts, reopened>>

\* queue_producer_close: a write in flight keeps its buffer, the rest is freed.
ProducerClose(p) ==
  /\ ~failed /\ prod[p].open /\ MayClose
  /\ LET r == prod[p]
         s == [r EXCEPT !.open = FALSE, !.output = <<>>, !.queued = <<>>,
                        !.write = None, !.chunk = <<>>,
                        !.orphans = IF r.write = Waits THEN Append(@, r.chunk) ELSE @]
     IN  prod' = [prod EXCEPT ![p] = s]
  /\ UNCHANGED <<cons, pipe, interrupts, reopened, failed>>

\* queue_producer_open, after queue_producer_close: output_offset is what it was.
ProducerOpen(p) ==
  /\ ~failed /\ ~prod[p].open /\ MayReopen(p)
  /\ prod' = [prod EXCEPT ![p].open = TRUE] /\ reopened' = reopened \cup {p}
  /\ UNCHANGED <<cons, pipe, interrupts, failed>>

-----------------------------------------------------------------------------
(* Consumers *)

\* queue_consumer_update: one read at a time.
StartRead(r) == IF r.read = None THEN [r EXCEPT !.read = Waits] ELSE r

\* queue_consumer_pop, in the callback too: the handler, which reads by itself after
\* the batch, then finds the read.
Pop(c) ==
  /\ ~failed /\ cons[c].open
  /\ cons' = [cons EXCEPT ![c] = StartRead(@)]
  /\ UNCHANGED <<prod, pipe, interrupts, reopened, failed>>

\* queue_consumer_pop_sync, which waits for an element; not while a read is in
\* flight or a batch is handed over, which it would overtake.
PopSync(c) ==
  /\ ~failed /\ cons[c].open /\ cons[c].at = 0 /\ cons[c].read = None
  /\ Len(pipe) >= ElementSize
  /\ cons' = [cons EXCEPT ![c].popped = @ \o SubSeq(pipe, 1, ElementSize)]
  /\ pipe' = SubSeq(pipe, ElementSize + 1, Len(pipe))
  /\ UNCHANGED <<prod, interrupts, reopened, failed>>

\* The callback is called with the next element of the batch, and consumer->abort
\* points to the flag of this handler.
HandOver(r) ==
  [r EXCEPT !.at = @ + ElementSize, !.abort = "live",
            !.popped = @ \o SubSeq(r.input, r.at + 1, r.at + ElementSize)]

\* queue_consumer_read up to its first callback.
ConsumerRead(c) ==
  /\ ~failed /\ cons[c].at = 0 /\ cons[c].read \notin {None, Waits}
  /\ LET result == cons[c].read
         r == [cons[c] EXCEPT !.read = None]
     IN  IF result = Interrupted
         THEN cons' = [cons EXCEPT ![c] = StartRead(r)] /\ UNCHANGED failed
         ELSE /\ failed' = (result % ElementSize # 0)
              /\ cons' = [cons EXCEPT ![c] = HandOver(r)]
  /\ UNCHANGED <<prod, pipe, interrupts, reopened>>

\* The end of a handler: an aborted one leaves consumer->abort as it is.
Aborted(r) == [r EXCEPT !.at = 0, !.aborted = FALSE, !.abort = "dangling"]
Done(r)    == [r EXCEPT !.at = 0, !.abort = "null"]

ReturnSkipsLast(c) ==                                               \* mutant
  /\ ~failed /\ cons[c].at > 0
  /\ cons' = [cons EXCEPT ![c] =
       IF cons[c].aborted THEN Aborted(@)
       ELSE IF cons[c].at + ElementSize < Len(cons[c].input) THEN HandOver(@)
       ELSE StartRead(Done(@))]
  /\ UNCHANGED <<prod, pipe, interrupts, reopened, failed>>

ReturnIdle(c) ==                                                    \* mutant
  /\ ~failed /\ cons[c].at > 0
  /\ cons' = [cons EXCEPT ![c] =
       IF cons[c].aborted THEN Aborted(@)
       ELSE IF cons[c].at < Len(cons[c].input) THEN HandOver(@)
       ELSE Done(@)]
  /\ UNCHANGED <<prod, pipe, interrupts, reopened, failed>>

\* The callback returns to queue_consumer_read, which goes on unless it was
\* aborted.
Return(c) ==
  /\ ~failed /\ cons[c].at > 0
  /\ cons' = [cons EXCEPT ![c] =
       IF cons[c].aborted THEN Aborted(@)
       ELSE IF cons[c].at < Len(cons[c].input) THEN HandOver(@)
       ELSE StartRead(Done(@))]
  /\ UNCHANGED <<prod, pipe, interrupts, reopened, failed>>

ConsumerCloseUnflagged(c) ==                                        \* mutant
  /\ ~failed /\ cons[c].open /\ MayClose
  /\ cons' = [cons EXCEPT ![c] =
       [@ EXCEPT !.open = FALSE, !.read = None,
                 !.orphans = IF cons[c].read = Waits THEN @ + 1 ELSE @]]
  /\ UNCHANGED <<prod, pipe, interrupts, reopened, failed>>

\* queue_consumer_close: *consumer->abort is set if there is one.
ConsumerClose(c) ==
  /\ ~failed /\ cons[c].open /\ MayClose
  /\ LET r == cons[c]
         s == [r EXCEPT !.open = FALSE, !.read = None,
                        !.aborted = (r.aborted \/ r.abort = "live"),
                        !.wild = (r.wild \/ r.abort = "dangling"),
                        !.orphans = IF r.read = Waits THEN @ + 1 ELSE @]
     IN  cons' = [cons EXCEPT ![c] = s]
  /\ UNCHANGED <<prod, pipe, interrupts, reopened, failed>>

\* queue_consumer_open, after queue_consumer_close, in the callback too.
ConsumerOpen(c) ==
  /\ ~failed /\ ~cons[c].open /\ MayReopen(c)
  /\ cons' = [cons EXCEPT ![c].open = TRUE] /\ reopened' = reopened \cup {c}
  /\ UNCHANGED <<prod, pipe, interrupts, failed>>

-----------------------------------------------------------------------------
(* The kernel: a pipe takes what there is room for, but few bytes all or    *)
(* not at all, and gives what there is.                                     *)

Fits(n, size) ==
  /\ n \in 1 .. size /\ Len(pipe) + n <= PipeSize
  /\ size <= PipeBuf => n = size

\* The buffer is read when the bytes are written.
KernelWrite(p) ==
  \E n \in 1 .. PipeSize :
    /\ ~failed
    /\ prod[p].write = Waits /\ prod[p].orphans = <<>>
    /\ Fits(n, Len(prod[p].chunk))
    /\ LET from == prod[p].offset IN
         pipe' = pipe \o SubSeq(prod[p].output, from + 1, from + n)
    /\ prod' = [prod EXCEPT ![p].write = n]
    /\ UNCHANGED <<cons, interrupts, reopened, failed>>

\* A cancelled write ends, having written something or nothing.
KernelOrphanWrite(p) ==
  \E n \in 0 .. PipeSize :
    /\ ~failed /\ prod[p].orphans # <<>>
    /\ n = 0 \/ Fits(n, Len(Head(prod[p].orphans)))
    /\ pipe' = pipe \o SubSeq(Head(prod[p].orphans), 1, n)
    /\ prod' = [prod EXCEPT ![p].orphans = Tail(@)]
    /\ UNCHANGED <<cons, interrupts, reopened, failed>>

ReadSize == Lesser(Len(pipe), Batch * ElementSize)
AfterRead == SubSeq(pipe, ReadSize + 1, Len(pipe))

\* A read that was submitted in the callback is taken after the batch was handed
\* over: the submission queue is not so full that it is flushed in the callback.
Taking(r) == r.read = Waits /\ (r.at = 0 \/ r.aborted)

KernelRead(c) ==
  /\ ~failed /\ Taking(cons[c]) /\ cons[c].orphans = 0 /\ pipe # <<>>
  /\ cons' = [cons EXCEPT ![c] =
       [@ EXCEPT !.read = ReadSize, !.input = SubSeq(pipe, 1, ReadSize)]]
  /\ pipe' = AfterRead
  /\ UNCHANGED <<prod, interrupts, reopened, failed>>

KernelOrphanRead(c) ==
  /\ ~failed /\ cons[c].orphans > 0
  /\ cons' = [cons EXCEPT ![c].orphans = @ - 1]
  /\ pipe' \in {pipe, AfterRead}
  /\ UNCHANGED <<prod, interrupts, reopened, failed>>

KernelInterrupt ==
  /\ ~failed /\ interrupts < MaxInterrupts /\ interrupts' = interrupts + 1
  /\ \/ \E p \in Producers :
          /\ prod[p].write = Waits
          /\ prod' = [prod EXCEPT ![p].write = Interrupted] /\ UNCHANGED cons
     \/ \E c \in Consumers :
          /\ Taking(cons[c])
          /\ cons' = [cons EXCEPT ![c].read = Interrupted] /\ UNCHANGED prod
  /\ UNCHANGED <<pipe, reopened, failed>>

-----------------------------------------------------------------------------

ProducerApi(p) == Push(p) \/ PushSync(p) \/ ProducerClose(p) \/ ProducerOpen(p)
ConsumerApi(c) == Pop(c) \/ PopSync(c) \/ ConsumerClose(c) \/ ConsumerOpen(c)
ProducerLoop(p) == ProducerWrite(p) \/ KernelWrite(p)
ConsumerLoop(c) == ConsumerRead(c) \/ Return(c) \/ KernelRead(c)

Next ==
  \/ \E p \in Producers :
       ProducerApi(p) \/ ProducerLoop(p) \/ KernelOrphanWrite(p)
  \/ \E c \in Consumers :
       ConsumerApi(c) \/ ConsumerLoop(c) \/ KernelOrphanRead(c)
  \/ KernelInterrupt

Spec == Init /\ [][Next]_vars

FairSpec ==
  /\ Spec
  /\ \A p \in Producers : WF_vars(ProducerLoop(p))
  /\ \A c \in Consumers : WF_vars(ConsumerLoop(c))

-----------------------------------------------------------------------------
(* Properties *)

BytesOf(s) == {s[k] : k \in DOMAIN s}

\* What the pipe has taken of output.
Written(r) == IF r.write \in Nat THEN r.offset + r.write ELSE r.offset

\* What producer p has not written to the pipe.
Unsent(p) ==
  LET r == prod[p]
  IN  BytesOf(SubSeq(r.output, Written(r) + 1, Len(r.output))) \cup BytesOf(r.queued)

\* What consumer c has read and not handed over.
InHand(c) ==
  LET r == cons[c]
  IN  IF r.at > 0 \/ r.read > 0
      THEN BytesOf(SubSeq(r.input, r.at + 1, Len(r.input))) ELSE {}

\* A consumer gets the bytes of a producer in order, and no byte comes twice or
\* to two consumers.
OnceInOrder ==
  /\ \A c \in Consumers : LET s == cons[c].popped IN
       \A j \in DOMAIN s : \A i \in 1 .. j - 1 :
         s[i][1] = s[j][1] => s[i][2] < s[j][2]
  /\ \A c, d \in Consumers :
       c # d => BytesOf(cons[c].popped) \cap BytesOf(cons[d].popped) = {}

\* While nothing is closed every byte pushed is somewhere: not written yet, in
\* the pipe, read, or handed over.
NothingLost ==
  (\A p \in Producers : prod[p].open) /\ (\A c \in Consumers : cons[c].open) =>
    UNION {BytesOf(Run(p, 0, prod[p].pushed * ElementSize)) : p \in Producers}
      = BytesOf(pipe) \cup (UNION {Unsent(p) : p \in Producers})
          \cup (UNION {InHand(c) \cup BytesOf(cons[c].popped) : c \in Consumers})

\* Elements are handed over whole, also when producers share the pipe.
ElementsWhole ==
  \A c \in Consumers : LET s == cons[c].popped IN
    \A k \in DOMAIN s :
      /\ s[k][2] % ElementSize = k % ElementSize
      /\ k % ElementSize # 1 % ElementSize =>
           s[k] = <<s[k - 1][1], s[k - 1][2] + 1>>

\* A producer that writes nothing has nothing to write, unless it was opened again
\* after a close in the middle of output: then output_offset never fits, and what
\* is pushed stays.
IdleByReopenOnly ==
  \A p \in Producers : LET r == prod[p] IN
    r.open /\ r.write = None =>
      \/ r.output = <<>> /\ r.queued = <<>>
      \/ p \in reopened /\ r.offset # 0

\* Producers and consumers that share a pipe pass on whole elements, each once and
\* to one consumer, in the order of its producer, also when they are closed and
\* opened again, and no producer keeps its elements for no reason.
PoppedSound == TypeOK /\ OnceInOrder /\ ElementsWhole /\ IdleByReopenOnly

\* The part of output that is being written stays as it was submitted.
InFlightIntact ==
  \A p \in Producers : LET r == prod[p] IN
    r.write # None =>
      /\ r.offset + Len(r.chunk) <= Len(r.output)
      /\ SubSeq(r.output, r.offset + 1, r.offset + Len(r.chunk)) = r.chunk

\* Elements are safe in the two buffers of a producer and in the batch of a
\* consumer, while some are written and handed over.
BuffersSound == NothingLost /\ InFlightIntact

\* queue_consumer_close is the end of the callbacks, in the middle of a batch too:
\* it tells the handler that is running, whatever other handlers were aborted before.
\* The one way to write to the flag of a handler that has returned is to open the
\* consumer once more, and close it again.
ClosedIsSilent ==
  [][\A c \in Consumers :
       /\ ~cons[c].open => cons'[c].popped = cons[c].popped
       /\ cons[c].open /\ ~cons'[c].open => (cons'[c].aborted <=> cons[c].at > 0)
       /\ cons'[c].wild => c \in reopened']_vars

\* queue_consumer_close writes to the flag of the handler that is calling it, and to
\* no other place.
FlagIsAlive == \A c \in Consumers : ~cons[c].wild

\* A producer and a consumer that have the pipe to themselves implement a FIFO
\* channel of bytes, in whatever pieces the pipe takes them, until one is closed.
BytesPushed == LET p == CHOOSE p \in Producers : TRUE IN prod[p].pushed * ElementSize
BytesPopped ==
  LET s == cons[CHOOSE c \in Consumers : TRUE].popped IN [k \in DOMAIN s |-> s[k][2]]
Alone == INSTANCE Channel WITH put <- BytesPushed, got <- BytesPopped
ImplementsChannel == Alone!Spec

\* What is pushed is popped in the end, once the consumer has begun to pop, if
\* neither is closed.
PushedIsPopped ==
  \A p \in Producers, c \in Consumers : \A k \in 1 .. MaxPushes :
    (prod[p].pushed >= k /\ (cons[c].read # None \/ cons[c].at > 0))
      ~> (Len(cons[c].popped) >= k * ElementSize \/ ~prod[p].open \/ ~cons[c].open)

\* The assertions of the handlers: results are whole elements.
ResultsAreWhole == ~failed

-----------------------------------------------------------------------------
(* The invariant of the proofs. *)

\* The pipe takes every write whole, or may cut it anywhere since bytes are elements.
\* With WriteMax = 128 and PipeBuf = 4096, elements of up to 32 bytes are such.
WritesAreWhole == ElementSize = 1 \/ WriteMax * ElementSize <= PipeBuf

IsMultiple(n) == n % ElementSize = 0

\* The bytes of a producer have increasing numbers in s, and those in A come before
\* those in B.
Increasing(s) ==
  \A j \in DOMAIN s : \A i \in 1 .. j - 1 :
    s[i][1] = s[j][1] => s[i][2] < s[j][2]
Before(A, B) == \A x \in A, y \in B : x[1] = y[1] => x[2] < y[2]

\* A sequence of whole elements.
Whole(s) ==
  /\ IsMultiple(Len(s))
  /\ \A k \in DOMAIN s :
       /\ s[k][2] % ElementSize = k % ElementSize
       /\ k % ElementSize # 1 % ElementSize =>
            s[k] = <<s[k - 1][1], s[k - 1][2] + 1>>

Sound(s) == Increasing(s) /\ Whole(s)

\* The number of the last byte before output, and of the last one that is not
\* waiting in output or output_queued.
Base(r) == r.pushed * ElementSize - Len(r.queued) - Len(r.output)
Sent(r) == IF r.write = None THEN Base(r) ELSE Base(r) + Written(r)

\* output and output_queued have the last bytes that were pushed.
Filled(p, r) ==
  /\ Base(r) >= 0 /\ r.output = Run(p, Base(r), Len(r.output))
  /\ r.queued = Run(p, Base(r) + Len(r.output), Len(r.queued))
  /\ IsMultiple(Len(r.output)) /\ IsMultiple(Len(r.queued)) /\ IsMultiple(r.offset)

\* A write is in flight while there is output, and nothing waits without one but
\* behind an offset that was left by a close.
Writing(r) ==
  IF r.write = None
  THEN r.output = <<>> /\ (r.offset = 0 \/ ~r.open => r.queued = <<>>)
  ELSE /\ r.open /\ r.offset < Len(r.output) /\ r.chunk = Chunk(r)
       /\ r.write \in {Waits, Interrupted} \cup 1 .. Len(r.chunk)
       /\ r.write \in Nat => IsMultiple(r.write)

\* What is left of the writes that were cancelled.
Orphaned(p, r) ==
  \A k \in DOMAIN r.orphans : LET s == r.orphans[k] IN
    /\ Sound(s) /\ Len(s) <= WriteMax * ElementSize
    /\ \A x \in BytesOf(s) : x[1] = p /\ x[2] <= Sent(r)
    /\ \A i \in 1 .. k - 1 : Before(BytesOf(r.orphans[i]), BytesOf(s))

ProducersKept ==
  \A p \in Producers :
    Filled(p, prod[p]) /\ Writing(prod[p]) /\ Orphaned(p, prod[p])

\* What a consumer has read and will hand over, and what it has taken in all.
Rest(r) ==
  IF r.at > 0 /\ ~r.aborted THEN SubSeq(r.input, r.at + 1, Len(r.input))
  ELSE IF r.read > 0 THEN r.input ELSE <<>>
Taken(r) == BytesOf(r.popped) \cup BytesOf(Rest(r))

Reading(r) ==
  /\ r.at > 0 /\ ~r.aborted => r.open /\ ~(r.read > 0) /\ r.at <= Len(r.input)
  /\ r.read > 0 => r.read = Len(r.input)
  /\ r.aborted => r.at > 0
  /\ (r.abort = "live") <=> (r.at > 0)
  /\ ~r.open => r.read = None
  /\ IsMultiple(r.at)
  /\ Sound(r.popped) /\ Sound(Rest(r))
  /\ Before(BytesOf(r.popped), BytesOf(Rest(r)))

ConsumersKept == \A c \in Consumers : Reading(cons[c])

\* What was never closed has cancelled nothing.
ClosedOnly ==
  /\ \A p \in Producers : LET r == prod[p] IN
       r.open /\ p \notin reopened =>
         r.orphans = <<>> /\ (r.write = None => r.offset = 0)
  /\ \A c \in Consumers :
       /\ cons[c].open /\ c \notin reopened =>
            cons[c].orphans = 0 /\ ~cons[c].aborted /\ cons[c].abort # "dangling"
       /\ cons[c].wild => c \in reopened

\* What has left the producers comes in the order of their bytes, and what one
\* consumer has taken is nowhere else.
Flowing == BytesOf(pipe) \cup UNION {Taken(cons[c]) : c \in Consumers}
FlowKept ==
  /\ Sound(pipe)
  /\ \A c \in Consumers : Before(Taken(cons[c]), BytesOf(pipe))
  /\ \A c, d \in Consumers : c # d => Taken(cons[c]) \cap Taken(cons[d]) = {}
  /\ \A x \in Flowing :
       /\ x[2] <= Sent(prod[x[1]])
       /\ \A k \in DOMAIN prod[x[1]].orphans :
            Before({x}, BytesOf(prod[x[1]].orphans[k]))

\* What has left the producers is in the pipe or taken, as long as nothing was
\* closed.
NothingClosed ==
  /\ reopened = {} /\ \A p \in Producers : prod[p].open
  /\ \A c \in Consumers : cons[c].open
Covered ==
  NothingClosed =>
    \A p \in Producers : \A n \in 1 .. Sent(prod[p]) : <<p, n>> \in Flowing

QueueInv ==
  /\ TypeOK /\ ProducersKept /\ ConsumersKept /\ ClosedOnly /\ FlowKept /\ Covered
  /\ ResultsAreWhole

\* With one producer and one consumer, of which none is opened again, what has left
\* the producer are its first bytes, in a line through the pipe and the consumer,
\* until the consumer is closed.
InLine(p, r, s, q) ==
  LET l == s.popped \o (Rest(s) \o q)
      n == Len(l)
  IN  /\ s.popped = Run(p, 0, Len(s.popped))
      /\ s.open =>
           /\ l = Run(p, 0, n)
           /\ r.open => n = Sent(r)
           /\ r.orphans # <<>> => r.orphans = <<Run(p, n, Len(r.orphans[1]))>>
Lined(p, c) == InLine(p, prod[p], cons[c], pipe)
==============================================================================
