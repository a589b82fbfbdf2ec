-------------------------------- MODULE Stream --------------------------------
(****************************************************************************)
(* stream.c: a buffered stream over a descriptor.  Output collects in       *)
(* data_next; a flush swaps it with data, which is then written, in as many *)
(* pieces as the kernel likes, and is not touched until all of it is out.   *)
(* Input is appended to a buffer that the application consumes.             *)
(*                                                                          *)
(* Bytes are numbered: the k-th byte given to stream_write is k, and so is  *)
(* the k-th byte of the peer.  A stream is opened once after construction.  *)
(* The callback of an operation cancelled by stream_close does not run: its *)
(* replacement frees the buffer when the kernel is done with it (see        *)
(* SwappedCallbackIsLast in Reactor).                                       *)
(****************************************************************************)
EXTENDS Integers, Sequences

CONSTANTS
  Kinds,     \* descriptors: "socket", "file" or "pipe"
  MaxOut,    \* bound: bytes given to stream_write
  MaxIn,     \* bound: bytes the peer sends
  MaxReads   \* bound: calls of stream_read

ASSUME KindsAssumption  == Kinds \subseteq {"socket", "file", "pipe"}
ASSUME BoundsAssumption ==
  MaxOut \in Nat /\ MaxIn \in Nat /\ MaxReads \in Nat

VARIABLES
  open,      \* stream->fd >= 0
  kind,      \* what the descriptor is; stream->type is FILE unless a socket
  data, dataNext, partial, offset,   \* stream->output
  writing,   \* output.id and its request: none or one
  orphan,    \* what a cancelled write may still write
  input, inOffset,                   \* stream->input
  reading,   \* input.id and its request: none or one
  pc,        \* "loop", or "callback" while stream->user runs
  event,     \* the last event it was called with
  wire,      \* what was written to the descriptor
  short,     \* history: a write to what is no socket was not taken whole
  broken,    \* an operation on the descriptor has failed
  arrived,   \* bytes the peer's side has handed over
  accepted, consumed, reads          \* history: bytes and reads so far

outVars == <<data, dataNext, partial, offset, writing>>
inVars  == <<input, inOffset, reading>>
calls   == <<pc, event>>
vars == <<open, kind, short, outVars, orphan, inVars, calls, wire, broken, arrived,
          accepted, consumed, reads>>

\* Nothing has gone wrong yet.
Up == open /\ ~broken

\* The rest of a partial write is sent to a socket only: elsewhere all of data is
\* written once more, and counted as the rest.
Exact == kind = "socket" \/ ~short

Waits   == -2                       \* the result of a request in the kernel
Failure == -1
Results == Nat \cup {Failure, Waits}
Bytes   == 1 .. MaxOut
Ahead(from, n) == [k \in 1 .. n |-> from + k]

\* Types; partial_write points into the buffer that is being written while writes
\* are exact, a file has no hole, and no operation started before stream_close is
\* left to call the stream back.
TypeOK ==
  /\ open \in BOOLEAN /\ kind \in Kinds
  /\ data \in Seq(Bytes) /\ dataNext \in Seq(Bytes) /\ orphan \in Seq(Bytes)
  /\ partial \in Nat /\ (Up /\ Exact => partial <= Len(data)) /\ offset \in Nat
  /\ Len(writing) <= 1 /\ Len(reading) <= 1
  /\ \A k \in DOMAIN writing :
       writing[k].done \in Results /\ (writing[k].up => open)
  /\ \A k \in DOMAIN reading :
       reading[k].done \in Results /\ (reading[k].up => open)
  /\ input \in Seq(1 .. MaxIn) /\ inOffset \in Nat
  /\ pc \in {"loop", "callback"}
  /\ event \in {"none", "read", "close", "error", "flushed"}
  /\ wire \in Seq(Bytes) /\ broken \in BOOLEAN /\ short \in BOOLEAN
  /\ kind = "file" => offset <= Len(wire)
  /\ arrived \in 0 .. MaxIn /\ consumed \in 0 .. MaxIn
  /\ accepted \in 0 .. MaxOut /\ reads \in 0 .. MaxReads

\* stream_construct and stream_open.
Init ==
  /\ open = TRUE /\ kind \in Kinds
  /\ data = <<>> /\ dataNext = <<>> /\ partial = 0 /\ offset = 0
  /\ writing = <<>> /\ orphan = <<>>
  /\ input = <<>> /\ inOffset = 0 /\ reading = <<>>
  /\ pc = "loop" /\ event = "none"
  /\ wire = <<>> /\ short = FALSE /\ broken = FALSE /\ arrived = 0
  /\ accepted = 0 /\ consumed = 0 /\ reads = 0

-----------------------------------------------------------------------------
(* Output *)

\* stream_flushed
Flushed(d, n) == d = <<>> /\ n = <<>>

\* stream_write
Write(n) ==
  /\ n > 0 /\ accepted + n <= MaxOut
  /\ dataNext' = dataNext \o Ahead(accepted, n)
  /\ accepted' = accepted + n
  /\ UNCHANGED <<open, kind, short, data, partial, offset, writing, orphan, inVars,
                 wire, broken, arrived, consumed, reads, calls>>

SendAll(d, p, o) ==                                                 \* mutant
  <<[bytes |-> d, from |-> 0, at |-> o, up |-> open, done |-> Waits]>>

\* stream_send: the rest of the buffer to a socket, but all of it to anything else,
\* which is a file at its offset for stream_open.
Send(d, p, o) ==
  IF kind = "socket"
  THEN <<[bytes |-> SubSeq(d, p + 1, Len(d)), from |-> p, at |-> 0,
         up |-> open, done |-> Waits]>>
  ELSE <<[bytes |-> d, from |-> 0, at |-> o, up |-> open, done |-> Waits]>>

FlushBuffersSwapped(d, p, o, busy) ==                               \* mutant
  IF Flushed(d, dataNext)
  THEN data' = d /\ dataNext' = dataNext /\ writing' = busy
  ELSE /\ data' = dataNext /\ dataNext' = d
       /\ writing' = IF busy = <<>> THEN Send(dataNext, p, o) ELSE busy

\* stream_flush: the buffers are swapped unless there is nothing to write or a
\* write is in flight.
FlushBuffers(d, p, o, busy) ==
  IF Flushed(d, dataNext) \/ busy # <<>>
  THEN data' = d /\ dataNext' = dataNext /\ writing' = busy
  ELSE data' = dataNext /\ dataNext' = d /\ writing' = Send(dataNext, p, o)

\* stream_flush called by the application; on a stream that is closed or broken
\* it starts a write that fails.
Flush ==
  /\ FlushBuffers(data, partial, offset, writing)
  /\ UNCHANGED <<open, kind, short, partial, offset, orphan, inVars, wire, broken,
                 arrived, accepted, consumed, reads, calls>>

\* The callback stream->user is called.
Call(e) == pc' = "callback" /\ event' = e

SendCallbackNoFlush ==                                              \* mutant
  /\ pc = "loop" /\ writing # <<>> /\ writing[1].done \in Nat \ {0}
  /\ partial' = 0 /\ offset' = offset + writing[1].done
  /\ data' = <<>> /\ writing' = <<>> /\ UNCHANGED dataNext
  /\ IF dataNext = <<>> THEN Call("flushed") ELSE UNCHANGED calls
  /\ UNCHANGED <<open, kind, short, orphan, inVars, wire, broken, arrived,
                 accepted, consumed, reads>>

SendCallbackFlushedEarly ==                                         \* mutant
  /\ pc = "loop" /\ writing # <<>> /\ writing[1].done \in Nat \ {0}
  /\ partial' = 0 /\ offset' = offset + writing[1].done
  /\ FlushBuffers(<<>>, 0, offset + writing[1].done, <<>>)
  /\ Call("flushed")
  /\ UNCHANGED <<open, kind, short, orphan, inVars, wire, broken, arrived,
                 accepted, consumed, reads>>

\* stream_send_callback: an error is reported, after a partial write stream_send is
\* called again, and what was collected meanwhile is flushed when the counts add up
\* to data.
SendCallback ==
  /\ pc = "loop"
  /\ writing # <<>> /\ writing[1].done # Waits
  /\ LET result == writing[1].done IN
       \/ /\ result <= 0
          /\ writing' = <<>>
          /\ Call("error")
          /\ UNCHANGED <<data, dataNext, partial, offset>>
       \/ /\ result > 0
          /\ Len(data) - partial # result
          /\ partial' = partial + result
          /\ writing' = Send(data, partial + result, offset)
          /\ UNCHANGED <<data, dataNext, offset, calls>>
       \/ /\ result > 0
          /\ Len(data) - partial = result
          /\ partial' = 0
          /\ offset' = offset + result
          /\ FlushBuffers(<<>>, 0, offset + result, <<>>)
          /\ IF Flushed(data', dataNext')
             THEN Call("flushed")
             ELSE UNCHANGED calls
  /\ UNCHANGED <<open, kind, short, orphan, inVars, wire, broken, arrived,
                 accepted, consumed, reads>>

-----------------------------------------------------------------------------
(* Input *)

\* stream_read: the request writes behind the end of the buffer.
Read(size) ==
  /\ reads < MaxReads /\ reads' = reads + 1
  /\ reading = <<>>
  /\ reading' = <<[end |-> Len(input), size |-> size, at |-> inOffset,
                   up |-> open, done |-> Waits]>>
  /\ UNCHANGED <<open, kind, short, outVars, orphan, input, inOffset, wire, broken,
                 arrived, accepted, consumed, calls>>

\* stream_consume, by an application that has no read in flight (as server_read
\* does): the buffer moves.
Consume(n) ==
  /\ n \in 1 .. Len(input) /\ reading = <<>>
  /\ input' = SubSeq(input, n + 1, Len(input))
  /\ consumed' = consumed + n
  /\ UNCHANGED <<open, kind, short, outVars, orphan, inOffset, reading, wire,
                 broken, arrived, accepted, reads, calls>>

\* The handler takes result bytes at the end of the buffer as it is now.
RecvAppend(result) ==
  /\ input' = input \o Ahead(inOffset, result)
  /\ inOffset' = inOffset + result

\* stream_recv_callback
RecvCallback ==
  /\ pc = "loop"
  /\ reading # <<>> /\ reading[1].done # Waits
  /\ reading' = <<>>
  /\ LET result == reading[1].done IN
       IF result > 0
       THEN RecvAppend(result) /\ Call("read")
       ELSE /\ Call(IF result = 0 THEN "close" ELSE "error")
            /\ UNCHANGED <<input, inOffset>>
  /\ UNCHANGED <<open, kind, short, outVars, orphan, wire, broken, arrived,
                 accepted, consumed, reads>>

-----------------------------------------------------------------------------

CloseUncancelled ==                                                 \* mutant
  /\ open /\ open' = FALSE
  /\ reading' = <<>> /\ input' = IF reading # <<>> THEN <<>> ELSE input
  /\ UNCHANGED <<kind, short, outVars, orphan, inOffset, wire, broken, arrived,
                 accepted, consumed, reads, calls>>

\* stream_close: operations in flight are cancelled, with their buffers, which
\* leave the stream.
Close ==
  /\ open \/ reading # <<>> \/ writing # <<>>
  /\ open' = FALSE
  /\ reading' = <<>>
  /\ input' = IF reading # <<>> THEN <<>> ELSE input
  /\ writing' = <<>>
  /\ data' = IF writing # <<>> THEN <<>> ELSE data
  /\ orphan' = IF open /\ writing # <<>> /\ writing[1].done = Waits
               THEN writing[1].bytes ELSE orphan
  /\ UNCHANGED <<kind, short, dataNext, partial, offset, inOffset, wire, broken,
                 arrived, accepted, consumed, reads, calls>>

Return ==
  /\ pc = "callback"
  /\ pc' = "loop"
  /\ UNCHANGED <<open, kind, short, outVars, orphan, inVars, wire, broken, arrived,
                 accepted, consumed, reads, event>>

-----------------------------------------------------------------------------
(* The kernel and the peer *)

\* Bytes go to a file at an offset, else behind what was written before.
Put(bytes, at) ==
  IF kind = "file"
  THEN SubSeq(wire, 1, at) \o bytes
         \o SubSeq(wire, at + Len(bytes) + 1, Len(wire))
  ELSE wire \o bytes

\* A write reads the buffer when it is done, and takes any first part of it.  A
\* partial_write beyond the buffer grows for ever; it is bounded by MaxOut here.
KernelWrite(n) ==
  /\ ~broken /\ partial <= MaxOut
  /\ writing # <<>> /\ writing[1].up /\ writing[1].done = Waits
  /\ n \in 1 .. Len(writing[1].bytes)
  /\ short' = (short \/ (kind # "socket" /\ n < Len(writing[1].bytes)))
  /\ writing' = <<[writing[1] EXCEPT !.done = n]>>
  /\ LET from == writing[1].from IN
       wire' = Put(SubSeq(data, from + 1, from + n), writing[1].at)
  /\ UNCHANGED <<open, kind, data, dataNext, partial, offset, orphan,
                 inVars, broken, arrived, accepted, consumed, reads, calls>>

\* An error is final: the connection is gone, or fd was -1.
KernelWriteFails ==
  /\ writing # <<>> /\ writing[1].done = Waits
  /\ writing' = <<[writing[1] EXCEPT !.done = Failure]>>
  /\ broken' = (broken \/ writing[1].up)
  /\ UNCHANGED <<open, kind, short, data, dataNext, partial, offset, orphan,
                 inVars, wire, arrived, accepted, consumed, reads, calls>>

\* A cancelled write may still have been carried out.
KernelOrphan(n) ==
  /\ orphan # <<>> /\ ~broken
  /\ n \in 1 .. Len(orphan)
  /\ wire' = IF kind = "file" THEN Put(SubSeq(orphan, 1, n), offset)
                              ELSE wire \o SubSeq(orphan, 1, n)
  /\ orphan' = <<>>
  /\ UNCHANGED <<open, kind, short, outVars, inVars, broken, arrived, accepted,
                 consumed, reads, calls>>

\* A read returns what a socket has next, or what a file has at the offset.
KernelRead(n) ==
  /\ ~broken
  /\ reading # <<>> /\ reading[1].up /\ reading[1].done = Waits
  /\ LET from == IF kind = "file" THEN reading[1].at ELSE arrived IN
       /\ n \in 0 .. reading[1].size /\ from + n <= MaxIn
       /\ n = 0 => from = MaxIn
       /\ arrived' = from + n
  /\ reading' = <<[reading[1] EXCEPT !.done = n]>>
  /\ UNCHANGED <<open, kind, short, outVars, orphan, input, inOffset, wire, broken,
                 accepted, consumed, reads, calls>>

KernelReadFails ==
  /\ reading # <<>> /\ reading[1].done = Waits
  /\ reading' = <<[reading[1] EXCEPT !.done = Failure]>>
  /\ broken' = (broken \/ reading[1].up)
  /\ UNCHANGED <<open, kind, short, outVars, orphan, input, inOffset, wire,
                 arrived, accepted, consumed, reads, calls>>

Api ==
  \/ \E n \in 1 .. 2 : Write(n)
  \/ Flush
  \/ \E size \in 1 .. 2 : Read(size)
  \/ \E n \in 1 .. Len(input) : Consume(n)
  \/ Close

Loop == SendCallback \/ RecvCallback \/ Return

KernelWrites ==
  \/ \E n \in Bytes : KernelWrite(n)
  \/ KernelWriteFails

Kernel ==
  \/ KernelWrites
  \/ \E n \in Bytes : KernelOrphan(n)
  \/ \E n \in 0 .. MaxIn : KernelRead(n)
  \/ KernelReadFails

Next == Api \/ Loop \/ Kernel

Spec     == Init /\ [][Next]_vars
FairSpec == Spec /\ WF_vars(Loop) /\ WF_vars(KernelWrites)

-----------------------------------------------------------------------------
(* Properties *)

\* What of data has not been written yet.
Unsent ==
  LET out == IF writing # <<>> /\ writing[1].done # Waits THEN writing[1].done
             ELSE 0
  IN  SubSeq(data, partial + out + 1, Len(data))

C == INSTANCE Channel WITH put <- accepted, got <- wire

\* The descriptor gets what stream_write was given, in order and once, whenever
\* stream_write and stream_flush are called: a socket in whatever pieces the kernel
\* takes, a file or a pipe up to the first write that is not taken whole, its part
\* included.
OutputInOrder == C!Init /\ [][Exact => C!Next]_<<accepted, wire>>

\* The same without an exception, which does not hold: the retry of a partial write
\* writes to a file or a pipe what is there already, and its count stands for bytes
\* that are not.
AlwaysInOrder == C!Spec

\* While the stream is up and writes are exact no byte is lost: it is on the wire, in
\* the part of data not yet written, or in data_next.
NothingLost ==
  Up /\ Exact => wire \o Unsent \o dataNext = Ahead(0, accepted)

\* While a write is in flight the buffer it reads is left as it was submitted,
\* whatever is written and flushed meanwhile.
InFlightIntact ==
  \A i \in DOMAIN writing :
    LET w == writing[i] IN
      \A k \in DOMAIN w.bytes :
        w.from + k \in DOMAIN data /\ data[w.from + k] = w.bytes[k]

\* Output is safe in its two buffers, whenever they are swapped.
OutputSound == NothingLost /\ InFlightIntact

\* STREAM_FLUSHED is called when all that was ever written is out, as long as writes
\* are exact.
FlushedMeansSent ==
  [][Exact /\ pc = "loop" /\ pc' = "callback" /\ event' = "flushed" =>
       Len(wire) = accepted]_vars

\* Input is handed to the application in order and once, while it consumes and
\* reads: what it holds follows what it has consumed, up to what has arrived.
InputInOrder ==
  Up =>
    /\ input = Ahead(consumed, Len(input))
    /\ consumed + Len(input)
         + (IF reading # <<>> /\ reading[1].done \in Nat THEN reading[1].done
            ELSE 0) = arrived
    /\ reading # <<>> => reading[1].end = Len(input)

\* Nothing is lost between the application, the two output buffers, the input
\* buffer and the kernel, and a stream that was closed has nothing in flight that
\* would call it back.
StreamSound == TypeOK /\ OutputSound /\ InputInOrder

\* What a request has done and its callback has not been told yet.
Told(request) == IF request # <<>> /\ request[1].done \in Nat THEN request[1].done ELSE 0

WriteRequests ==
  [bytes : Seq(Bytes), from : Nat, at : Nat, up : BOOLEAN, done : Results]
ReadRequests  == [end : Nat, size : Nat, at : Nat, up : BOOLEAN, done : Results]

\* A request is of the stream as it is, open or closed: one of a closed stream can
\* only fail.  A write has the rest of data, and the offset of a file.
WritesHeld ==
  /\ writing \in Seq(WriteRequests)
  /\ \A k \in DOMAIN writing : LET w == writing[k] IN
       /\ w.up = open
       /\ w.bytes = SubSeq(data, w.from + 1, Len(data))
       /\ kind # "socket" => w.from = 0 /\ w.at = offset
       /\ w.done \in Nat => open /\ w.done \in 1 .. Len(w.bytes)
       /\ w.done = Failure => ~Up

ReadsHeld ==
  /\ reading \in Seq(ReadRequests)
  /\ \A k \in DOMAIN reading : LET r == reading[k] IN
       /\ r.up = open
       /\ r.done \in Nat => open
       /\ r.done = Failure => ~Up

\* The stream is up, or has yet to be told of a write that was before it broke, and
\* writes are exact.
Flows == Exact /\ open /\ (~broken \/ Told(writing) > 0)

\* The number of bytes that left data before it was what it is.
Base == Len(wire) - Told(writing) - partial

\* The offset of a file is not behind its end, also for the next write.
OffsetKept == kind = "file" => offset + Told(writing) <= Len(wire)

\* The wire is the first bytes; data and data_next are what follows in the order in
\* which they were written, and a file's offset is where data begins; a write that is
\* exact, but to a socket, was whole.
OutputKept ==
  /\ Exact => wire = Ahead(0, Len(wire)) /\ Len(wire) <= accepted
  /\ Flows =>
       /\ Base \in Nat
       /\ data = Ahead(Base, Len(data))
       /\ dataNext = Ahead(Base + Len(data), Len(dataNext))
       /\ Base + Len(data) + Len(dataNext) = accepted
       /\ partial + Told(writing) <= Len(data)
       /\ writing = <<>> => data = <<>> /\ partial = 0
       /\ writing # <<>> => writing[1].from = partial
       /\ kind = "file" => offset = Base
       /\ kind # "socket" =>
            /\ partial = 0
            /\ writing # <<>> /\ writing[1].done \in Nat => Told(writing) = Len(data)

\* A cancelled write has what is next on the wire, as long as it may be carried out.
OrphanKept ==
  orphan # <<>> /\ ~broken =>
    /\ ~open
    /\ Exact =>
         /\ orphan = Ahead(Len(wire), Len(orphan)) /\ Len(wire) + Len(orphan) <= accepted
         /\ kind = "file" => offset = Len(wire)

\* The input of an open stream is what follows the consumed bytes, up to those that
\* the next callback adds.
InputKept ==
  /\ consumed + Len(input) <= MaxIn
  /\ open =>
       /\ input = Ahead(consumed, Len(input)) /\ inOffset = consumed + Len(input)
       /\ inOffset + Told(reading) = arrived
       /\ \A k \in DOMAIN reading :
            reading[k].end = Len(input) /\ reading[k].at = inOffset

\* The inductive invariant of a stream.
StreamInv ==
  TypeOK /\ WritesHeld /\ OffsetKept /\ OutputKept /\ OrphanKept /\ ReadsHeld /\ InputKept

\* Once a flush has started, all output is written in the end, what was collected
\* during the flush included, unless the stream fails or is closed; a write to a file
\* or a pipe that was not taken whole may be repeated for ever.
OutputDrains == (writing # <<>>) ~> (Flushed(data, dataNext) \/ ~Up \/ ~Exact)
==============================================================================
