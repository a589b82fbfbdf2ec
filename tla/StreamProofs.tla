----------------------------- MODULE StreamProofs -----------------------------
(* Proofs about Stream, over any descriptor, for any number of bytes:        *)
(* that what it writes and hands over is what was given to it, in order and  *)
(* once.  Every buffer holds bytes with numbers that follow each other, so   *)
(* the invariant is about where each begins and how long it is.              *)
EXTENDS Stream, SequenceTheorems, TLAPS

-----------------------------------------------------------------------------
(* Bytes that follow each other are numbers that do. *)

LEMMA AheadIs ==
  ASSUME NEW a \in Nat, NEW n \in Nat
  PROVE  /\ Ahead(a, n) \in Seq(Nat) /\ Len(Ahead(a, n)) = n
         /\ DOMAIN Ahead(a, n) = 1 .. n
         /\ \A k \in 1 .. n : Ahead(a, n)[k] = a + k
  BY DEF Ahead

LEMMA AheadTyped ==
  ASSUME NEW a \in Nat, NEW n \in Nat, NEW max \in Nat, a + n <= max
  PROVE  Ahead(a, n) \in Seq(1 .. max)
  BY DEF Ahead

LEMMA AheadEmpty ==
  ASSUME NEW a \in Nat
  PROVE  Ahead(a, 0) = <<>>
  BY DEF Ahead

LEMMA AheadJoins ==
  ASSUME NEW a \in Nat, NEW n \in Nat, NEW m \in Nat
  PROVE  Ahead(a, n) \o Ahead(a + n, m) = Ahead(a, n + m)
<1> DEFINE s == Ahead(a, n)
           t == Ahead(a + n, m)
<1>1. a + n \in Nat /\ n + m \in Nat
  OBVIOUS
<1>2. /\ s \in Seq(Nat) /\ Len(s) = n /\ \A k \in 1 .. n : s[k] = a + k
      /\ t \in Seq(Nat) /\ Len(t) = m /\ \A k \in 1 .. m : t[k] = a + n + k
  BY <1>1, AheadIs
<1> HIDE DEF s, t
<1>3. s \o t \in Seq(Nat) /\ Len(s \o t) = n + m
  BY <1>2, ConcatProperties
<1>4. ASSUME NEW k \in 1 .. n + m
      PROVE  (s \o t)[k] = a + k
  <2>1. (s \o t)[k] = IF k <= n THEN s[k] ELSE t[k - n]
    BY <1>2, ConcatProperties
  <2>2. QED BY <1>2, <2>1
<1>5. /\ Ahead(a, n + m) \in Seq(Nat) /\ Len(Ahead(a, n + m)) = n + m
      /\ \A k \in 1 .. n + m : Ahead(a, n + m)[k] = a + k
  BY <1>1, AheadIs
<1>6. s \o t = Ahead(a, n + m)
  BY <1>3, <1>4, <1>5, SeqEqual
<1>7. QED BY <1>6 DEF s, t

\* The part of them after the p-th and up to the q-th.
Part(s, p, q) == SubSeq(s, p + 1, q)

LEMMA AheadParts ==
  ASSUME NEW a \in Nat, NEW n \in Nat, NEW p \in Nat, NEW q \in Nat, p <= q, q <= n
  PROVE  Part(Ahead(a, n), p, q) = Ahead(a + p, q - p)
<1>1. /\ Ahead(a, n) \in Seq(Nat) /\ Len(Ahead(a, n)) = n
      /\ \A k \in 1 .. n : Ahead(a, n)[k] = a + k
  BY AheadIs
<1>2. SubSeq(Ahead(a, n), p + 1, q) = [k \in 1 .. q - p |-> Ahead(a, n)[k + p]]
  BY <1>1
<1>3. QED BY <1>1, <1>2 DEF Ahead, Part

-----------------------------------------------------------------------------
(* The two halves of the invariant: output, and input with the callbacks. *)

OutTyped ==
  /\ open \in BOOLEAN /\ kind \in Kinds /\ broken \in BOOLEAN
  /\ data \in Seq(Bytes) /\ dataNext \in Seq(Bytes) /\ orphan \in Seq(Bytes)
  /\ partial \in Nat /\ (Up /\ Exact => partial <= Len(data)) /\ offset \in Nat
  /\ Len(writing) <= 1
  /\ wire \in Seq(Bytes) /\ accepted \in 0 .. MaxOut /\ short \in BOOLEAN
  /\ kind = "file" => offset <= Len(wire)

InTyped ==
  /\ open \in BOOLEAN /\ broken \in BOOLEAN
  /\ Len(reading) <= 1
  /\ input \in Seq(1 .. MaxIn) /\ inOffset \in Nat
  /\ pc \in {"loop", "callback"}
  /\ event \in {"none", "read", "close", "error", "flushed"}
  /\ arrived \in 0 .. MaxIn /\ consumed \in 0 .. MaxIn /\ reads \in 0 .. MaxReads

OutInv == OutTyped /\ WritesHeld /\ OffsetKept /\ OutputKept /\ OrphanKept
InInv  == InTyped /\ ReadsHeld /\ InputKept

LEMMA Members ==
  ASSUME NEW S, NEW s \in Seq(S)
  PROVE  /\ \A k \in DOMAIN s : s[k] \in S
         /\ Len(s) <= 1 => s = <<>> \/ (DOMAIN s = {1} /\ s[1] \in S)
<1>1. DOMAIN s = 1 .. Len(s) /\ Len(s) \in Nat
  OBVIOUS
<1>2. \A k \in DOMAIN s : s[k] \in S
  OBVIOUS
<1>3. Len(s) = 0 => s = <<>>
  OBVIOUS
<1>4. ASSUME Len(s) <= 1, s # <<>>
      PROVE  DOMAIN s = {1}
  <2>1. Len(s) = 1
    BY <1>1, <1>3, <1>4
  <2>2. 1 .. 1 = {1}
    OBVIOUS
  <2>3. QED BY <1>1, <2>1, <2>2
<1>5. QED BY <1>2, <1>4

LEMMA Halves == StreamInv <=> OutInv /\ InInv
<1>1. ASSUME WritesHeld, ReadsHeld
      PROVE  TypeOK <=> OutTyped /\ InTyped
  <2>1. ASSUME NEW k \in DOMAIN writing
        PROVE  writing[k].done \in Results /\ (writing[k].up => open)
    <3>1. writing[k] \in WriteRequests /\ writing[k].up = open
      BY <1>1, Members DEF WritesHeld
    <3>2. QED BY <3>1 DEF WriteRequests
  <2>2. ASSUME NEW k \in DOMAIN reading
        PROVE  reading[k].done \in Results /\ (reading[k].up => open)
    <3>1. reading[k] \in ReadRequests /\ reading[k].up = open
      BY <1>1, Members DEF ReadsHeld
    <3>2. QED BY <3>1 DEF ReadRequests
  <2>3. QED BY <2>1, <2>2 DEF TypeOK, OutTyped, InTyped
<1>2. QED BY <1>1 DEF StreamInv, OutInv, InInv

LEMMA HalvesNext == StreamInv' <=> OutInv' /\ InInv'
  BY Halves, PTL

LEMMA BoundsTyped == MaxOut \in Nat /\ MaxIn \in Nat /\ MaxReads \in Nat
  BY BoundsAssumption

\* There is no write in flight, or there is one.
LEMMA WritingIs ==
  ASSUME OutTyped, WritesHeld
  PROVE  /\ writing = <<>> => Told(writing) = 0 /\ DOMAIN writing = {}
         /\ writing # <<>> =>
              /\ DOMAIN writing = {1} /\ writing[1] \in WriteRequests
              /\ Told(writing) = IF writing[1].done \in Nat THEN writing[1].done ELSE 0
         /\ Told(writing) \in Nat
<1>1. writing \in Seq(WriteRequests) /\ Len(writing) <= 1
  BY DEF OutTyped, WritesHeld
<1> HIDE DEF WriteRequests
<1>2. CASE writing = <<>>
  BY <1>2 DEF Told
<1>3. CASE writing # <<>>
  <2>1. DOMAIN writing = {1} /\ writing[1] \in WriteRequests
    BY <1>1, <1>3, Members
  <2>2. QED BY <1>3, <2>1 DEF Told
<1>4. QED BY <1>2, <1>3

LEMMA SendIs ==
  ASSUME NEW d \in Seq(Bytes), NEW p \in Nat, NEW o \in Nat, open \in BOOLEAN
  PROVE  /\ Send(d, p, o) \in Seq(WriteRequests) /\ Len(Send(d, p, o)) = 1
         /\ Send(d, p, o) # <<>> /\ DOMAIN Send(d, p, o) = {1}
         /\ Send(d, p, o)[1].up = open /\ Send(d, p, o)[1].done = Waits
         /\ Send(d, p, o)[1].from = IF kind = "socket" THEN p ELSE 0
         /\ Send(d, p, o)[1].at = IF kind = "socket" THEN 0 ELSE o
         /\ Send(d, p, o)[1].bytes = SubSeq(d, Send(d, p, o)[1].from + 1, Len(d))
         /\ Told(Send(d, p, o)) = 0
<1> DEFINE w == [bytes |-> SubSeq(d, p + 1, Len(d)), from |-> p, at |-> 0,
                 up |-> open, done |-> Waits]
           v == [bytes |-> d, from |-> 0, at |-> o, up |-> open, done |-> Waits]
<1>1. SubSeq(d, p + 1, Len(d)) \in Seq(Bytes) /\ SubSeq(d, 0 + 1, Len(d)) = d
  OBVIOUS
<1>2. w \in WriteRequests /\ v \in WriteRequests
  BY <1>1 DEF WriteRequests, Results, Waits
<1>3. Send(d, p, o) = IF kind = "socket" THEN <<w>> ELSE <<v>>
  BY DEF Send
<1>4. Waits \notin Nat
  BY DEF Waits
<1>5. CASE kind = "socket"
  BY <1>2, <1>3, <1>4, <1>5 DEF Told
<1>6. CASE kind # "socket"
  BY <1>1, <1>2, <1>3, <1>4, <1>6 DEF Told
<1>7. QED BY <1>5, <1>6

\* Input, the application's calls for it, and the end of a callback leave output;
\* the descriptor may break.
LEMMA OutSame ==
  ASSUME OutInv, broken' \in BOOLEAN, broken => broken',
         UNCHANGED <<open, kind, short, data, dataNext, partial, offset, writing, orphan,
                     wire, accepted>>
  PROVE  OutInv'
<1>1. OutTyped /\ WritesHeld /\ OffsetKept /\ OutputKept /\ OrphanKept
  BY DEF OutInv
<1>2. OutTyped'
  BY <1>1 DEF OutTyped, Up, Exact
<1>3. WritesHeld' /\ OffsetKept'
  BY <1>1 DEF WritesHeld, Up, OffsetKept, Told
<1>4. OutputKept'
  BY <1>1 DEF OutputKept, Flows, Exact, Base, Told
<1>5. OrphanKept'
  BY <1>1 DEF OrphanKept, Exact
<1>6. QED BY <1>2, <1>3, <1>4, <1>5 DEF OutInv

\* What the invariant says of the output that flows.
LEMMA FlowIs ==
  ASSUME OutInv, Flows
  PROVE  /\ Base \in Nat /\ Len(wire) \in Nat /\ Len(data) \in Nat /\ Len(dataNext) \in Nat
         /\ Len(wire) = Base + Told(writing) + partial
         /\ data = Ahead(Base, Len(data))
         /\ dataNext = Ahead(Base + Len(data), Len(dataNext))
         /\ Base + Len(data) + Len(dataNext) = accepted
         /\ partial + Told(writing) <= Len(data)
         /\ writing = <<>> => data = <<>> /\ partial = 0
         /\ writing # <<>> => writing[1].from = partial
         /\ kind = "file" => offset = Base
         /\ kind # "socket" =>
              /\ partial = 0
              /\ writing # <<>> /\ writing[1].done \in Nat => Told(writing) = Len(data)
         /\ Exact /\ wire = Ahead(0, Len(wire)) /\ Len(wire) <= accepted
<1>1. OutTyped /\ WritesHeld /\ OutputKept
  BY DEF OutInv
<1>2. Told(writing) \in Nat /\ partial \in Nat
  BY <1>1, WritingIs DEF OutTyped
<1>3. Len(wire) \in Nat /\ Len(data) \in Nat /\ Len(dataNext) \in Nat
  BY <1>1 DEF OutTyped
<1>4. Len(wire) = Base + Told(writing) + partial
  BY <1>2, <1>3 DEF Base
<1>5. Exact
  BY DEF Flows
<1>6. QED BY <1>1, <1>3, <1>4, <1>5 DEF OutputKept

\* stream_write
LEMMA WriteKeeps ==
  ASSUME OutInv, NEW n \in 1 .. 2, Write(n)
  PROVE  OutInv'
<1>1. OutTyped /\ WritesHeld /\ OffsetKept /\ OutputKept /\ OrphanKept
  BY DEF OutInv
<1>2. /\ accepted + n <= MaxOut /\ accepted \in Nat /\ n \in Nat /\ accepted' = accepted + n
      /\ accepted' \in 0 .. MaxOut
      /\ dataNext' = dataNext \o Ahead(accepted, n)
      /\ UNCHANGED <<open, kind, short, data, partial, offset, writing, orphan, wire,
                     broken>>
  BY <1>1, BoundsTyped DEF Write, inVars, OutTyped
<1>3. /\ Ahead(accepted, n) \in Seq(Bytes)
      /\ dataNext' \in Seq(Bytes)
      /\ Len(dataNext') = Len(dataNext) + n
  <2>1. Ahead(accepted, n) \in Seq(Bytes)
    BY <1>2, AheadTyped, BoundsTyped DEF Bytes
  <2>2. dataNext \in Seq(Bytes)
    BY <1>1 DEF OutTyped
  <2>3. Len(Ahead(accepted, n)) = n
    BY <1>2, AheadIs
  <2> HIDE DEF Bytes
  <2>4. QED BY <1>2, <2>1, <2>2, <2>3, ConcatProperties
<1>4. OutTyped'
  BY <1>1, <1>2, <1>3 DEF OutTyped, Up, Exact
<1>5. WritesHeld' /\ OffsetKept' /\ (Exact' <=> Exact)
  BY <1>1, <1>2 DEF WritesHeld, Up, OffsetKept, Exact
<1>6. OutputKept'
  <2>1. Exact => wire' = Ahead(0, Len(wire')) /\ Len(wire') <= accepted'
    <3>1. /\ Exact => wire = Ahead(0, Len(wire)) /\ Len(wire) <= accepted
          /\ Len(wire) \in Nat
      BY <1>1 DEF OutputKept, OutTyped
    <3>2. QED BY <1>2, <3>1
  <2>2. ASSUME Flows
        PROVE  /\ dataNext' = Ahead(Base + Len(data), Len(dataNext'))
               /\ Base + Len(data) + Len(dataNext') = accepted'
    <3> DEFINE a == Base + Len(data)
               m == Len(dataNext)
    <3>1. /\ dataNext = Ahead(a, m) /\ a \in Nat /\ m \in Nat /\ a + m = accepted
      BY <2>2, FlowIs
    <3> HIDE DEF a, m
    <3>2. dataNext' = Ahead(a, m + n)
      BY <1>2, <3>1, AheadJoins
    <3>3. Len(dataNext') = m + n
      BY <1>3 DEF m
    <3>4. dataNext' = Ahead(a, Len(dataNext'))
      BY <3>2, <3>3
    <3>5. a + (m + n) = accepted'
      BY <1>2, <3>1
    <3>6. a + Len(dataNext') = accepted'
      BY <3>3, <3>5
    <3>7. QED BY <3>4, <3>6 DEF a
  <2>3. Base' = Base /\ (Flows' => Flows) /\ Told(writing') = Told(writing)
    BY <1>2, <1>5 DEF Base, Flows
  <2>4. QED BY <1>1, <1>2, <1>5, <2>1, <2>2, <2>3 DEF OutputKept
<1>7. OrphanKept'
  <2>1. ASSUME Len(orphan) \in Nat, Len(wire) \in Nat, Len(wire) + Len(orphan) <= accepted
        PROVE  Len(wire) + Len(orphan) <= accepted'
    BY <1>2, <2>1
  <2>2. Len(orphan) \in Nat /\ Len(wire) \in Nat
    BY <1>1 DEF OutTyped
  <2>3. QED BY <1>1, <1>2, <1>5, <2>1, <2>2 DEF OrphanKept
<1>8. QED BY <1>4, <1>5, <1>6, <1>7 DEF OutInv

\* A write that is submitted has the rest of the buffer.
LEMMA SentHeld ==
  ASSUME OutTyped, NEW d \in Seq(Bytes), NEW p \in Nat, NEW o \in Nat,
         writing' = Send(d, p, o), data' = d, open' = open, kind' = kind, offset' = o
  PROVE  /\ WritesHeld' /\ Len(writing') <= 1 /\ Told(writing') = 0
         /\ writing' # <<>> /\ writing'[1].done \notin Nat
         /\ writing'[1].from = IF kind = "socket" THEN p ELSE 0
         /\ writing'[1].at = IF kind = "socket" THEN 0 ELSE o
<1>1. open \in BOOLEAN
  BY DEF OutTyped
<1>2. /\ writing' \in Seq(WriteRequests) /\ Len(writing') = 1
      /\ writing' # <<>> /\ DOMAIN writing' = {1}
      /\ writing'[1].up = open /\ writing'[1].done = Waits
      /\ writing'[1].from = IF kind = "socket" THEN p ELSE 0
      /\ writing'[1].at = IF kind = "socket" THEN 0 ELSE o
      /\ writing'[1].bytes = SubSeq(d, writing'[1].from + 1, Len(d))
      /\ Told(writing') = 0
  <2> DEFINE w == Send(d, p, o)
  <2>1. /\ w \in Seq(WriteRequests) /\ Len(w) = 1 /\ w # <<>> /\ DOMAIN w = {1}
        /\ w[1].up = open /\ w[1].done = Waits
        /\ w[1].from = IF kind = "socket" THEN p ELSE 0
        /\ w[1].at = IF kind = "socket" THEN 0 ELSE o
        /\ w[1].bytes = SubSeq(d, w[1].from + 1, Len(d))
        /\ Told(w) = 0
    <3>1. d \in Seq(Bytes) /\ p \in Nat /\ o \in Nat
      OBVIOUS
    <3>2. QED BY ONLY <1>1, <3>1, SendIs
  <2>2. writing' = w
    OBVIOUS
  <2> HIDE DEF w
  <2>3. QED BY <2>1, <2>2
<1>3. Waits \notin Nat /\ Waits # Failure
  BY DEF Waits, Failure
<1>4. WritesHeld'
  BY <1>2, <1>3 DEF WritesHeld
<1>5. QED BY <1>2, <1>3, <1>4

\* A stream of which nothing is in data, and nothing in flight, begins to write what
\* was collected.
LEMMA SwapKeeps ==
  ASSUME OutTyped, Exact => wire = Ahead(0, Len(wire)) /\ Len(wire) <= accepted,
         NEW p \in Nat, NEW o \in Nat, kind = "file" => o <= Len(wire),
         Exact /\ open /\ ~broken =>
           /\ p = 0 /\ Len(wire) + Len(dataNext) = accepted
           /\ dataNext = Ahead(Len(wire), Len(dataNext))
           /\ dataNext' = <<>>
           /\ kind = "file" => o = Len(wire),
         dataNext' \in Seq(Bytes),
         data' = dataNext, writing' = Send(dataNext, p, o), partial' = p, offset' = o,
         orphan # <<>> /\ ~broken => ~open /\ offset' = offset,
         OrphanKept,
         UNCHANGED <<open, kind, short, orphan, wire, broken, accepted>>
  PROVE  OutInv'
<1>0. Exact' <=> Exact
  BY DEF Exact
<1>1. /\ dataNext \in Seq(Bytes) /\ Len(dataNext) \in Nat /\ Len(wire) \in Nat
      /\ accepted \in Nat
  BY BoundsTyped DEF OutTyped
<1>2. /\ WritesHeld' /\ Len(writing') <= 1 /\ Told(writing') = 0
      /\ writing' # <<>> /\ writing'[1].done \notin Nat
      /\ writing'[1].from = IF kind = "socket" THEN p ELSE 0
      /\ writing'[1].at = IF kind = "socket" THEN 0 ELSE o
  BY <1>1, SentHeld
<1>3. OutTyped' /\ OffsetKept'
  <2>1. OutTyped'
    BY <1>0, <1>1, <1>2 DEF OutTyped, Up
  <2>2. OffsetKept'
    BY <1>1, <1>2 DEF OffsetKept
  <2>3. QED BY <2>1, <2>2
<1>4. OutputKept'
  <2>1. Flows' => Exact /\ open /\ ~broken
    BY <1>0, <1>2 DEF Flows
  <2>2. ASSUME Exact, open, ~broken
        PROVE  /\ Base' = Len(wire) /\ Len(dataNext') = 0
               /\ dataNext' = Ahead(Base' + Len(data'), Len(dataNext'))
    <3>1. Base' = Len(wire)
      BY <1>1, <1>2, <2>2 DEF Base
    <3>2. dataNext' = <<>> /\ Len(dataNext') = 0
      BY <2>2
    <3>3. Len(wire) + Len(dataNext) \in Nat
      BY <1>1
    <3>4. Ahead(Len(wire) + Len(dataNext), 0) = <<>>
      BY <3>3, AheadEmpty
    <3>5. QED BY <3>1, <3>2, <3>4
  <2>3. Exact => wire' = Ahead(0, Len(wire')) /\ Len(wire') <= accepted'
    OBVIOUS
  <2>4. ASSUME Exact, open, ~broken
        PROVE  /\ Base' \in Nat /\ data' = Ahead(Base', Len(data'))
               /\ Base' + Len(data') + Len(dataNext') = accepted'
               /\ partial' = 0 /\ partial' + Told(writing') <= Len(data')
               /\ writing'[1].from = partial'
               /\ kind' = "file" => offset' = Base'
    BY <1>1, <1>2, <2>2, <2>4
  <2>5. QED BY <1>0, <1>2, <2>1, <2>2, <2>3, <2>4 DEF OutputKept
<1>5. OrphanKept'
  BY <1>0 DEF OrphanKept
<1>6. QED BY <1>2, <1>3, <1>4, <1>5 DEF OutInv

\* stream_flush, called by the application
LEMMA FlushKeeps ==
  ASSUME OutInv, Flush
  PROVE  OutInv'
<1>1. OutTyped /\ WritesHeld /\ OffsetKept /\ OutputKept /\ OrphanKept
  BY DEF OutInv
<1>2. /\ UNCHANGED <<open, kind, short, partial, offset, orphan, wire, broken, accepted>>
      /\ FlushBuffers(data, partial, offset, writing)
  BY DEF Flush
<1>3. CASE Flushed(data, dataNext) \/ writing # <<>>
  <2>1. UNCHANGED <<data, dataNext, writing>>
    BY <1>2, <1>3 DEF FlushBuffers
  <2>2. QED BY <1>1, <1>2, <2>1, OutSame DEF OutTyped
<1>4. CASE ~(Flushed(data, dataNext) \/ writing # <<>>)
  <2>1. /\ data' = dataNext /\ dataNext' = data
        /\ writing' = Send(dataNext, partial, offset) /\ writing = <<>>
    BY <1>2, <1>4 DEF FlushBuffers
  <2>2. Told(writing) = 0
    BY <1>1, <2>1, WritingIs
  <2>3. ASSUME Exact, open, ~broken
        PROVE  /\ partial = 0 /\ Len(wire) + Len(dataNext) = accepted
               /\ dataNext = Ahead(Len(wire), Len(dataNext))
               /\ dataNext' = <<>>
               /\ kind = "file" => offset = Len(wire)
    <3>1. Flows
      BY <2>3 DEF Flows
    <3>2. data = <<>> /\ partial = 0 /\ Len(data) = 0
      BY <2>1, <3>1, FlowIs
    <3>3. Base = Len(wire) /\ Base \in Nat /\ Len(dataNext) \in Nat
      BY <2>2, <3>1, <3>2, FlowIs
    <3>4. Base + Len(data) = Len(wire)
      BY <3>2, <3>3
    <3>5. QED BY <2>1, <3>1, <3>2, <3>3, <3>4, FlowIs
  <2>4. orphan # <<>> /\ ~broken => ~open
    BY <1>1 DEF OrphanKept
  <2>5. /\ partial \in Nat /\ offset \in Nat /\ data \in Seq(Bytes)
        /\ kind = "file" => offset <= Len(wire)
        /\ Exact => wire = Ahead(0, Len(wire)) /\ Len(wire) <= accepted
    BY <1>1 DEF OutTyped, OutputKept
  <2>6. QED BY <1>1, <1>2, <2>1, <2>3, <2>4, <2>5, SwapKeeps
<1>5. QED BY <1>3, <1>4

\* A write of which the callback is told had an error, which is the end of the flow,
\* or was a part of data.
LEMMA ToldIs ==
  ASSUME OutInv, writing # <<>>, writing[1].done # Waits
  PROVE  /\ writing[1].done \in Int
         /\ writing[1].done <= 0 => ~Up
         /\ writing[1].done > 0 => /\ writing[1].done \in Nat /\ (Exact => Flows) /\ open
                                   /\ Told(writing) = writing[1].done
<1>1. OutTyped /\ WritesHeld
  BY DEF OutInv
<1>2. /\ DOMAIN writing = {1} /\ writing[1] \in WriteRequests
      /\ Told(writing) = IF writing[1].done \in Nat THEN writing[1].done ELSE 0
  BY <1>1, WritingIs
<1>3. writing[1].done \in Nat \/ writing[1].done = Failure
  BY <1>2 DEF WriteRequests, Results
<1>4. writing[1].done \in Nat => open /\ writing[1].done \in 1 .. Len(writing[1].bytes)
  BY <1>1, <1>2 DEF WritesHeld
<1>5. writing[1].done = Failure => ~Up
  BY <1>1, <1>2 DEF WritesHeld
<1>6. Len(writing[1].bytes) \in Nat
  BY <1>2 DEF WriteRequests
<1> DEFINE result == writing[1].done
<1> HIDE DEF result
<1>7. CASE result \in Nat
  <2>1. result > 0
    BY <1>4, <1>6, <1>7 DEF result
  <2>2. QED BY <1>2, <1>4, <1>7, <2>1 DEF result, Flows
<1>8. CASE result = Failure
  BY <1>5, <1>8 DEF Failure, result
<1>9. QED BY <1>3, <1>7, <1>8 DEF result

\* stream_send_callback: the stream has failed, or writes the rest, or is flushed and
\* writes what was collected.
LEMMA SendCallbackKeeps ==
  ASSUME OutInv, SendCallback
  PROVE  /\ OutInv'
         /\ Exact /\ pc = "loop" /\ pc' = "callback" /\ event' = "flushed"
              => Len(wire) = accepted
<1> DEFINE result == writing[1].done
<1>1. OutTyped /\ WritesHeld /\ OffsetKept /\ OutputKept /\ OrphanKept
  BY DEF OutInv
<1>2. /\ writing # <<>> /\ result # Waits
      /\ UNCHANGED <<open, kind, short, orphan, wire, broken, accepted>>
  BY DEF SendCallback
<1>3. /\ result \in Int
      /\ result <= 0 => ~Up
      /\ result > 0 => result \in Nat /\ (Exact => Flows) /\ open /\ Told(writing) = result
  BY <1>2, ToldIs
<1>4. /\ Exact => wire = Ahead(0, Len(wire)) /\ Len(wire) <= accepted
      /\ partial \in Nat /\ offset \in Nat /\ data \in Seq(Bytes)
      /\ dataNext \in Seq(Bytes) /\ Len(wire) \in Nat /\ Len(data) \in Nat
  BY <1>1 DEF OutputKept, OutTyped
<1>5. <<>> \in Seq(Bytes) /\ Len(<<>>) = 0 /\ (Exact' <=> Exact)
  BY <1>2 DEF Exact
<1>6. CASE /\ result <= 0 /\ writing' = <<>> /\ Call("error")
           /\ UNCHANGED <<data, dataNext, partial, offset>>
  <2>1. ~(open /\ ~broken)
    BY <1>3, <1>6 DEF Up
  <2>2. Told(<<>>) = 0
    BY DEF Told
  <2>3. OutTyped'
    BY <1>1, <1>2, <1>5, <1>6 DEF OutTyped, Up
  <2>4. WritesHeld' /\ OffsetKept'
    <3>1. WritesHeld'
      BY <1>5, <1>6 DEF WritesHeld
    <3>2. OffsetKept'
      BY <1>1, <1>2, <1>4, <1>6, <2>2 DEF OffsetKept, OutTyped
    <3>3. QED BY <3>1, <3>2
  <2>5. OutputKept'
    BY <1>2, <1>4, <1>5, <1>6, <2>1, <2>2 DEF OutputKept, Flows
  <2>6. OrphanKept'
    BY <1>1, <1>2, <1>5, <1>6 DEF OrphanKept
  <2>7. QED BY <1>6, <2>3, <2>4, <2>5, <2>6 DEF OutInv, Call
<1>7. CASE /\ result > 0 /\ Len(data) - partial # result
           /\ partial' = partial + result
           /\ writing' = Send(data, partial + result, offset)
           /\ UNCHANGED <<data, dataNext, offset, calls>>
  <2>1. /\ (Exact => Flows) /\ open /\ Told(writing) = result /\ result \in Nat
        /\ partial + result \in Nat /\ partial' \in Nat
    BY <1>3, <1>4, <1>7
  <2>2. Exact =>
        /\ Base \in Nat /\ Len(wire) = Base + Told(writing) + partial
        /\ data = Ahead(Base, Len(data))
        /\ dataNext = Ahead(Base + Len(data), Len(dataNext))
        /\ Base + Len(data) + Len(dataNext) = accepted
        /\ partial + Told(writing) <= Len(data)
        /\ kind # "socket" => Told(writing) = Len(data) /\ partial = 0
    BY <1>2, <2>1, FlowIs
  <2>3. Exact => kind = "socket"
    BY <1>4, <1>7, <2>1, <2>2
  <2>4. /\ WritesHeld' /\ Len(writing') <= 1 /\ Told(writing') = 0
        /\ writing' # <<>> /\ writing'[1].done \notin Nat
        /\ writing'[1].from = IF kind = "socket" THEN partial + result ELSE 0
    BY <1>1, <1>2, <1>4, <1>7, <2>1, SentHeld
  <2>5. OutTyped' /\ OffsetKept'
    <3>1. OutTyped'
      BY <1>1, <1>2, <1>5, <1>7, <2>1, <2>2, <2>4 DEF OutTyped, Up
    <3>2. OffsetKept'
      BY <1>1, <1>2, <1>4, <1>7, <2>4 DEF OffsetKept, OutTyped
    <3>3. QED BY <3>1, <3>2
  <2>6. OrphanKept'
    BY <1>1, <1>2, <1>5, <1>7 DEF OrphanKept
  <2>7. Exact => Base' = Base
    <3>1. Base' = Len(wire) - 0 - (partial + result)
      BY <1>2, <1>7, <2>4 DEF Base
    <3>2. QED BY <1>4, <2>1, <2>2, <3>1, SMTT(30)
  <2>8. OutputKept'
    <3>1. Exact => partial' + Told(writing') <= Len(data')
      BY <1>7, <2>1, <2>2, <2>4
    <3>2. Exact => writing'[1].from = partial'
      BY <1>7, <2>3, <2>4
    <3>3. Flows' => Exact
      BY <1>5 DEF Flows
    <3>4. QED
      BY <1>2, <1>4, <1>5, <1>7, <2>2, <2>3, <2>4, <2>7, <3>1, <3>2, <3>3 DEF OutputKept
  <2>9. QED BY <1>7, <2>4, <2>5, <2>6, <2>8 DEF OutInv, calls
<1>8. CASE /\ result > 0 /\ Len(data) - partial = result
           /\ partial' = 0 /\ offset' = offset + result
           /\ FlushBuffers(<<>>, 0, offset + result, <<>>)
           /\ IF Flushed(data', dataNext') THEN Call("flushed") ELSE UNCHANGED calls
  <2>1. /\ (Exact => Flows) /\ open /\ Told(writing) = result /\ result \in Nat
        /\ offset + result \in Nat
    BY <1>3, <1>4, <1>8
  <2>2. /\ Exact => /\ Base \in Nat /\ Len(wire) = Base + Told(writing) + partial
                    /\ dataNext = Ahead(Base + Len(data), Len(dataNext))
                    /\ Base + Len(data) + Len(dataNext) = accepted
                    /\ kind = "file" => partial = 0 /\ offset = Base
        /\ Len(dataNext) \in Nat
    BY <1>4, <2>1, FlowIs
  <2>3. Exact => Len(wire) = Base + Len(data)
    BY <1>4, <1>8, <2>1, <2>2
  <2>4. /\ Exact /\ kind = "file" => offset + result = Len(wire)
        /\ kind = "file" => offset + result <= Len(wire)
    BY <1>1, <1>4, <2>1, <2>2 DEF OffsetKept
  <2>5. orphan # <<>> /\ ~broken => ~open
    BY <1>1 DEF OrphanKept
  <2>6. CASE dataNext = <<>>
    <3>1. data' = <<>> /\ dataNext' = <<>> /\ writing' = <<>>
      BY <1>8, <2>6 DEF FlushBuffers, Flushed
    <3>2. Len(dataNext) = 0 /\ (Exact => Len(wire) = accepted)
      BY <1>5, <2>2, <2>3, <2>6
    <3>3. Told(<<>>) = 0
      BY DEF Told
    <3>4. OutTyped' /\ OffsetKept'
      <4>1. OutTyped'
        BY <1>1, <1>2, <1>5, <1>8, <2>1, <2>4, <3>1 DEF OutTyped, Up
      <4>2. OffsetKept'
        BY <1>2, <1>4, <1>8, <2>1, <2>4, <3>1, <3>3 DEF OffsetKept
      <4>3. QED BY <4>1, <4>2
    <3>5. WritesHeld'
      BY <1>5, <3>1 DEF WritesHeld
    <3>6. Base' = Len(wire)
      BY <1>2, <1>4, <1>8, <3>1, <3>3 DEF Base
    <3>7. OutputKept'
      <4>1. Ahead(Len(wire), 0) = <<>> /\ Len(wire) + 0 = Len(wire)
        BY <1>4, AheadEmpty
      <4>2. Len(data') = 0 /\ Len(dataNext') = 0
        BY <3>1
      <4>3. /\ data' = Ahead(Base', Len(data'))
            /\ dataNext' = Ahead(Base' + Len(data'), Len(dataNext'))
        BY <1>4, <3>1, <3>6, <4>1, <4>2
      <4>4. /\ Exact => Base' + Len(data') + Len(dataNext') = accepted'
            /\ partial' + Told(writing') <= Len(data')
        BY <1>2, <1>4, <1>8, <3>1, <3>2, <3>3, <3>6, <4>2
      <4>5. Flows' => Exact
        BY <1>5 DEF Flows
      <4>6. QED BY <1>2, <1>4, <1>5, <1>8, <2>4, <3>1, <3>6, <4>3, <4>4, <4>5 DEF OutputKept
    <3>8. OrphanKept'
      BY <1>1, <1>2, <2>1, <2>5 DEF OrphanKept
    <3>9. QED BY <3>2, <3>4, <3>5, <3>7, <3>8 DEF OutInv
  <2>7. CASE dataNext # <<>>
    <3>1. /\ data' = dataNext /\ dataNext' = <<>>
          /\ writing' = Send(dataNext, 0, offset + result)
      BY <1>8, <2>7 DEF FlushBuffers, Flushed
    <3>2. OutInv'
      <4>1. Exact =>
              /\ dataNext = Ahead(Len(wire), Len(dataNext))
              /\ Len(wire) + Len(dataNext) = accepted
        BY <2>2, <2>3
      <4>2. 0 \in Nat
        OBVIOUS
      <4>3. QED
        BY <1>1, <1>2, <1>4, <1>5, <1>8, <2>1, <2>4, <2>5, <3>1, <4>1, <4>2, SwapKeeps
    <3>3. UNCHANGED calls
      BY <1>8, <2>7, <3>1 DEF Flushed
    <3>4. QED BY <3>2, <3>3 DEF calls
  <2>8. QED BY <2>6, <2>7
<1>9. QED BY <1>6, <1>7, <1>8 DEF SendCallback

\* The kernel ends a write.
LEMMA WriteEnds ==
  ASSUME OutTyped, WritesHeld, writing # <<>>, writing[1].done = Waits,
         NEW n \in Results, writing' = <<[writing[1] EXCEPT !.done = n]>>,
         UNCHANGED <<data, open, kind, offset>>,
         n \in Nat => open /\ n \in 1 .. Len(writing[1].bytes),
         n = Failure => ~Up'
  PROVE  /\ WritesHeld' /\ Len(writing') <= 1 /\ Told(writing) = 0
         /\ Told(writing') = IF n \in Nat THEN n ELSE 0
         /\ writing' # <<>>
         /\ writing'[1].from = writing[1].from /\ writing'[1].at = writing[1].at
         /\ writing'[1].done = n
<1> DEFINE w == [writing[1] EXCEPT !.done = n]
<1>1. /\ DOMAIN writing = {1} /\ writing[1] \in WriteRequests
      /\ Told(writing) = IF writing[1].done \in Nat THEN writing[1].done ELSE 0
  BY WritingIs
<1>2. /\ writing[1].up = open
      /\ writing[1].bytes = SubSeq(data, writing[1].from + 1, Len(data))
      /\ kind # "socket" => writing[1].from = 0 /\ writing[1].at = offset
  BY <1>1 DEF WritesHeld
<1>3. Waits \notin Nat
  BY DEF Waits
<1>4. /\ w \in WriteRequests /\ w.up = writing[1].up /\ w.bytes = writing[1].bytes
      /\ w.from = writing[1].from /\ w.at = writing[1].at /\ w.done = n
  BY <1>1 DEF WriteRequests
<1>5. writing' = <<w>>
  OBVIOUS
<1> HIDE DEF w
<1>6. /\ writing' \in Seq(WriteRequests) /\ Len(writing') = 1 /\ writing' # <<>>
      /\ DOMAIN writing' = {1} /\ writing'[1] = w
  BY <1>4, <1>5
<1>7. Told(writing') = IF n \in Nat THEN n ELSE 0
  BY <1>4, <1>6 DEF Told
<1>8. WritesHeld'
  <2>1. /\ w.up = open' /\ w.bytes = SubSeq(data', w.from + 1, Len(data'))
        /\ kind' # "socket" => w.from = 0 /\ w.at = offset'
        /\ w.done \in Nat => open' /\ w.done \in 1 .. Len(w.bytes)
        /\ w.done = Failure => ~Up'
    BY <1>2, <1>4
  <2>2. QED BY <1>6, <2>1 DEF WritesHeld
<1>9. QED BY <1>1, <1>3, <1>4, <1>6, <1>7, <1>8

\* Bytes that are next on the wire are put there, which for a file is its offset.
LEMMA PutIs ==
  ASSUME OutTyped, wire = Ahead(0, Len(wire)), NEW n \in Nat, NEW at,
         kind = "file" => at = Len(wire)
  PROVE  Put(Ahead(Len(wire), n), at) = Ahead(0, Len(wire) + n)
<1> DEFINE len == Len(wire)
           s   == Ahead(len, n)
<1>1. wire \in Seq(Bytes) /\ len \in Nat
  BY DEF OutTyped
<1>2. wire \o s = Ahead(0, len + n)
  <2>1. Ahead(0, len) \o Ahead(0 + len, n) = Ahead(0, len + n)
    BY <1>1, AheadJoins
  <2>2. 0 + len = len
    BY <1>1
  <2>3. QED BY <2>1, <2>2
<1>3. s \in Seq(Nat) /\ Len(s) = n
  BY <1>1, AheadIs
<1> HIDE DEF s
<1>4. SubSeq(wire, 1, len) = wire
  BY <1>1, SubSeqFull
<1>5. SubSeq(wire, len + n + 1, len) = <<>>
  BY <1>1, SubSeqEmpty
<1>6. (wire \o s) \o <<>> = wire \o s
  <2>1. wire \o s \in Seq(Nat)
    <3>1. Ahead(0, len + n) \in Seq(Nat)
      BY <1>1, AheadIs
    <3>2. QED BY <1>2, <3>1
  <2>2. QED BY <2>1, ConcatEmptySeq
<1>7. CASE kind = "file"
  <2>1. Put(s, at) = SubSeq(wire, 1, len) \o s \o SubSeq(wire, len + Len(s) + 1, len)
    BY <1>7 DEF Put
  <2>2. QED BY <1>2, <1>3, <1>4, <1>5, <1>6, <2>1 DEF s
<1>8. CASE kind # "file"
  BY <1>2, <1>8 DEF Put, s
<1>9. QED BY <1>7, <1>8

\* What is put on the wire, within a file or at its end, leaves no hole, and covers
\* what it is put on.
LEMMA PutTyped ==
  ASSUME OutTyped, NEW s \in Seq(Bytes), NEW at \in Nat, kind = "file" => at <= Len(wire)
  PROVE  /\ Put(s, at) \in Seq(Bytes) /\ Len(Put(s, at)) >= Len(wire)
         /\ kind = "file" => Len(Put(s, at)) >= at + Len(s)
<1> DEFINE l == Len(wire)
           n == Len(s)
           S == Bytes
<1>1. wire \in Seq(S) /\ l \in Nat /\ n \in Nat /\ s \in Seq(S)
  BY DEF OutTyped
<1> HIDE DEF l, n, S
<1>2. CASE kind = "file"
  <2> DEFINE a == SubSeq(wire, 1, at)
             b == SubSeq(wire, at + n + 1, l)
             m == Len(b)
  <2>1. a \in Seq(S) /\ Len(a) = at
    <3>1. \A k \in 1 .. at : wire[k] \in S
      BY <1>1, <1>2 DEF l
    <3>2. a \in Seq(S) /\ Len(a) = IF 1 <= at THEN at - 1 + 1 ELSE 0
      BY <3>1, SubSeqProperties
    <3>3. QED BY <3>2
  <2>2. b \in Seq(S) /\ m \in Nat /\ m >= l - (at + n)
    <3> DEFINE f == at + n + 1
    <3>1. \A k \in f .. l : wire[k] \in S
      BY <1>1 DEF l
    <3>2. f \in Nat
      BY <1>1
    <3> HIDE DEF f
    <3>3. SubSeq(wire, f, l) \in Seq(S)
          /\ Len(SubSeq(wire, f, l)) = IF f <= l THEN l - f + 1 ELSE 0
      BY <1>1, <3>1, <3>2, SubSeqProperties
    <3>4. QED BY <1>1, <3>2, <3>3 DEF f
  <2>3. Put(s, at) = a \o s \o b
    BY <1>2 DEF Put, l, n
  <2> HIDE DEF a, b
  <2>4. a \o s \in Seq(S) /\ Len(a \o s) = at + n
    BY <1>1, <2>1 DEF n
  <2>5. a \o s \o b \in Seq(S) /\ Len(a \o s \o b) = at + n + m
    BY <2>2, <2>4
  <2> HIDE DEF m
  <2>6. at + n + m >= l /\ at + n + m >= at + n
    BY <1>1, <2>2
  <2>7. QED BY <2>3, <2>5, <2>6 DEF l, n, S
<1>3. CASE kind # "file"
  <2>1. Put(s, at) = wire \o s
    BY <1>3 DEF Put
  <2>2. wire \o s \in Seq(S) /\ Len(wire \o s) = l + n
    BY <1>1 DEF l, n
  <2>3. QED BY <1>1, <1>3, <2>1, <2>2 DEF l, S
<1>4. QED BY <1>2, <1>3

\* A write is carried out, in part or whole: if writes are exact, it puts on the wire
\* what is next there.
LEMMA KernelWriteKeeps ==
  ASSUME OutInv, NEW n \in Bytes, KernelWrite(n)
  PROVE  /\ OutInv'
         /\ Exact => n \in 1 .. accepted - Len(wire) /\ wire' = Ahead(0, Len(wire) + n)
<1>1. OutTyped /\ WritesHeld /\ OffsetKept /\ OutputKept /\ OrphanKept
  BY DEF OutInv
<1> DEFINE w == writing[1]
<1>2. /\ writing # <<>> /\ w.done = Waits /\ w.up
      /\ n \in 1 .. Len(w.bytes) /\ ~broken /\ n \in Nat
      /\ short' = (short \/ (kind # "socket" /\ n < Len(w.bytes)))
      /\ writing' = <<[w EXCEPT !.done = n]>>
      /\ UNCHANGED <<open, kind, data, dataNext, partial, offset, orphan, broken, accepted>>
      /\ wire' = Put(SubSeq(data, w.from + 1, w.from + n), w.at)
  BY BoundsTyped DEF KernelWrite, Bytes
<1>3. /\ DOMAIN writing = {1} /\ w \in WriteRequests
      /\ w.up = open
      /\ w.bytes = SubSeq(data, w.from + 1, Len(data))
      /\ kind # "socket" => w.from = 0 /\ w.at = offset
  BY <1>1, <1>2, WritingIs DEF WritesHeld
<1>4. open /\ (Exact => Flows) /\ n \in Results
  BY <1>2, <1>3 DEF Flows, Results
<1>5. /\ WritesHeld' /\ Len(writing') <= 1 /\ Told(writing) = 0
      /\ Told(writing') = n
      /\ writing' # <<>>
      /\ writing'[1].from = w.from /\ writing'[1].at = w.at
      /\ writing'[1].done = n
  <2>1. Failure \notin Nat
    BY DEF Failure
  <2>2. QED BY <1>1, <1>2, <1>4, <2>1, WriteEnds
<1> HIDE DEF w
<1>6. w.from \in Nat /\ w.at \in Nat /\ w.bytes \in Seq(Bytes) /\ Len(w.bytes) \in Nat
  <2> DEFINE S == Bytes
  <2>1. w \in [bytes : Seq(S), from : Nat, at : Nat, up : BOOLEAN, done : Results]
    BY <1>3 DEF WriteRequests
  <2> HIDE DEF S
  <2>2. w.from \in Nat /\ w.at \in Nat /\ w.bytes \in Seq(S)
    BY <2>1
  <2>3. Len(w.bytes) \in Nat
    BY <2>2
  <2>4. QED BY <2>2, <2>3 DEF S
<1>7. /\ Exact' => Exact
      /\ Exact' /\ kind # "socket" => n = Len(w.bytes)
      /\ short' \in BOOLEAN
  <2>1. n <= Len(w.bytes)
    BY <1>2, <1>6
  <2>2. ~(n < Len(w.bytes)) => n = Len(w.bytes)
    BY <1>2, <1>6, <2>1
  <2>3. short \in BOOLEAN
    BY <1>1 DEF OutTyped
  <2>4. short' \in BOOLEAN
    BY <1>2, <2>3, Zenon
  <2>5. ~short' => ~short /\ (kind # "socket" => ~(n < Len(w.bytes)))
    BY <1>2, <2>3, Zenon
  <2>6. kind' = kind
    BY <1>2
  <2> HIDE DEF w
  <2>7. QED BY <2>2, <2>4, <2>5, <2>6 DEF Exact
<1>8. /\ wire' \in Seq(Bytes) /\ Len(wire') >= Len(wire)
      /\ kind = "file" => Len(wire') >= offset + n
  <2> DEFINE t == SubSeq(data, w.from + 1, w.from + n)
             d == Len(data)
             f == w.from
             S == Bytes
  <2>1. data \in Seq(S) /\ d \in Nat /\ f \in Nat /\ n \in Nat /\ 1 <= n
    BY <1>1, <1>2, <1>6 DEF OutTyped
  <2>2. f + n <= d
    <3>1. w.bytes = SubSeq(data, f + 1, d)
      BY <1>3
    <3> HIDE DEF d, f, S
    <3>2. Len(w.bytes) = IF f + 1 <= d THEN d - f ELSE 0
      BY <2>1, <3>1
    <3>3. n <= Len(w.bytes)
      BY <1>2, <1>6
    <3>4. QED BY <2>1, <3>2, <3>3
  <2>3. t \in Seq(S) /\ Len(t) = n
    <3> HIDE DEF d, f, S
    <3>1. f + n \in Nat /\ f + 1 \in Nat
      BY <2>1
    <3>2. \A k \in f + 1 .. f + n : data[k] \in S
      BY <2>1, <2>2 DEF d
    <3> DEFINE g == f + 1
               h == f + n
    <3>3. g \in Int /\ h \in Int /\ g <= h /\ h - g + 1 = n
      BY <2>1
    <3>4. \A k \in g .. h : data[k] \in S
      BY <3>2
    <3> HIDE DEF g, h
    <3>5. SubSeq(data, g, h) \in Seq(S) /\ Len(SubSeq(data, g, h)) = h - g + 1
      BY <3>3, <3>4, SubSeqProperties
    <3>6. QED BY <3>3, <3>5 DEF g, h, f
  <2>4. kind = "file" => w.at <= Len(wire) /\ w.at = offset
    BY <1>1, <1>3 DEF OutTyped
  <2>5. wire' = Put(t, w.at)
    BY <1>2
  <2> HIDE DEF t, d, f
  <2>6. /\ Put(t, w.at) \in Seq(Bytes) /\ Len(Put(t, w.at)) >= Len(wire)
        /\ kind = "file" => Len(Put(t, w.at)) >= w.at + Len(t)
    BY <1>1, <1>6, <2>3, <2>4, PutTyped
  <2>7. QED BY <2>3, <2>4, <2>5, <2>6
<1>9. Len(wire) \in Nat /\ Len(wire') \in Nat /\ offset \in Nat
  BY <1>1, <1>8 DEF OutTyped
<1>10. OutTyped' /\ OffsetKept'
  <2>1. OffsetKept'
    BY <1>2, <1>5, <1>8 DEF OffsetKept
  <2>2. kind' = "file" => offset' <= Len(wire')
    BY <1>1, <1>2, <1>8, <1>9 DEF OutTyped
  <2>3. OutTyped'
    BY <1>1, <1>2, <1>5, <1>7, <1>8, <2>2 DEF OutTyped, Up
  <2>4. QED BY <2>1, <2>3
<1>11. ASSUME Exact
       PROVE  /\ Base \in Nat /\ Len(wire) = Base + partial
              /\ partial \in Nat /\ Len(data) \in Nat /\ Len(dataNext) \in Nat
              /\ data = Ahead(Base, Len(data))
              /\ dataNext = Ahead(Base + Len(data), Len(dataNext))
              /\ Base + Len(data) + Len(dataNext) = accepted
              /\ partial <= Len(data) /\ w.from = partial
              /\ kind = "file" => offset = Base
              /\ kind # "socket" => partial = 0
              /\ wire = Ahead(0, Len(wire))
  BY <1>1, <1>2, <1>4, <1>5, <1>11, FlowIs DEF OutTyped, w
<1>12. ASSUME Exact
       PROVE  /\ Len(w.bytes) = Len(data) - partial /\ partial + n <= Len(data)
              /\ SubSeq(data, partial + 1, partial + n) = Ahead(Len(wire), n)
  <2> DEFINE d == Len(data)
             b == Base
  <2>0. /\ d \in Nat /\ b \in Nat /\ partial \in Nat /\ partial <= d
        /\ data = Ahead(b, d) /\ Len(wire) = b + partial /\ n \in Nat
        /\ w.bytes = SubSeq(data, partial + 1, d)
        /\ n \in 1 .. Len(w.bytes)
    BY <1>2, <1>3, <1>11, <1>12
  <2> HIDE DEF d, b
  <2>1. Part(Ahead(b, d), partial, d) = Ahead(b + partial, d - partial)
    BY <2>0, AheadParts
  <2>2. d - partial \in Nat /\ b + partial \in Nat
    BY <2>0
  <2>3. Len(Ahead(b + partial, d - partial)) = d - partial
    BY <2>2, AheadIs
  <2>4. Len(w.bytes) = d - partial /\ partial + n <= d /\ partial + n \in Nat
    BY <2>0, <2>1, <2>2, <2>3 DEF Part
  <2>5. SubSeq(Ahead(b, d), partial + 1, partial + n) = Ahead(b + partial, n)
    <3> DEFINE q == partial + n
    <3>1. q \in Nat /\ partial <= q /\ q <= d /\ q - partial = n
      BY <2>0, <2>4
    <3> HIDE DEF q
    <3>2. Part(Ahead(b, d), partial, q) = Ahead(b + partial, q - partial)
      BY <2>0, <3>1, AheadParts
    <3>3. QED BY <3>1, <3>2 DEF q, Part
  <2>6. QED BY <2>0, <2>4, <2>5 DEF d
<1>13. ASSUME Exact
       PROVE  /\ wire' = Ahead(0, Len(wire) + n)
              /\ Len(wire) + n <= accepted /\ Len(wire') = Len(wire) + n
              /\ n \in 1 .. accepted - Len(wire)
  <2>1. kind = "file" => w.at = Len(wire)
    BY <1>3, <1>11, <1>13
  <2>2. wire' = Ahead(0, Len(wire) + n)
    BY <1>1, <1>2, <1>11, <1>12, <1>13, <2>1, PutIs
  <2>3. Len(wire') = Len(wire) + n
    <3>1. Len(wire) + n \in Nat
      BY <1>2, <1>9
    <3>2. QED BY <2>2, <3>1, AheadIs
  <2>4. accepted \in Nat
    BY <1>1, BoundsTyped DEF OutTyped
  <2>5. Base + Len(data) <= accepted
    BY <1>11, <1>13, <2>4
  <2>6. Len(wire) + n <= accepted
    BY <1>2, <1>9, <1>11, <1>12, <1>13, <2>4, <2>5, SMTT(30)
  <2>7. n \in 1 .. accepted - Len(wire)
    BY <1>2, <1>6, <1>9, <2>4, <2>6
  <2>8. QED BY <2>2, <2>3, <2>6, <2>7
<1>14. OutputKept'
  <2>1. Exact => Base' = Base
    <3>1. Base' = Len(wire') - Told(writing') - partial'
      BY DEF Base
    <3>2. QED BY <1>2, <1>5, <1>9, <1>11, <1>13, <3>1
  <2>2. Exact => partial' + Told(writing') <= Len(data')
    BY <1>2, <1>5, <1>12
  <2>3. Exact' /\ kind # "socket" => Told(writing') = Len(data)
    BY <1>5, <1>7, <1>11, <1>12
  <2>4. Flows' => Exact'
    BY DEF Flows
  <2>5. QED BY <1>2, <1>5, <1>7, <1>9, <1>11, <1>13, <2>1, <2>2, <2>3, <2>4 DEF OutputKept
<1>15. OrphanKept'
  BY <1>1, <1>2, <1>4 DEF OrphanKept
<1>16. QED BY <1>5, <1>10, <1>13, <1>14, <1>15 DEF OutInv

\* A write fails: the descriptor is broken, if it was open.
LEMMA KernelWriteFailsKeeps ==
  ASSUME OutInv, KernelWriteFails
  PROVE  OutInv'
<1>1. OutTyped /\ WritesHeld /\ OffsetKept /\ OutputKept /\ OrphanKept
  BY DEF OutInv
<1>2. /\ writing # <<>> /\ writing[1].done = Waits
      /\ writing' = <<[writing[1] EXCEPT !.done = Failure]>>
      /\ broken' = (broken \/ writing[1].up)
      /\ UNCHANGED <<open, kind, short, data, dataNext, partial, offset, orphan, wire,
                     accepted>>
  BY DEF KernelWriteFails
<1>3. writing[1].up = open
  BY <1>1, <1>2, WritingIs DEF WritesHeld
<1>4. ~(open' /\ ~broken') /\ broken' \in BOOLEAN
  BY <1>1, <1>2, <1>3 DEF OutTyped
<1>5. /\ WritesHeld' /\ Len(writing') <= 1 /\ Told(writing') = 0
  <2>1. Failure \in Results /\ Failure \notin Nat
    BY DEF Results, Failure
  <2>2. QED BY <1>1, <1>2, <1>4, <2>1, WriteEnds DEF Up
<1>6. OutTyped' /\ OffsetKept' /\ (Exact' <=> Exact)
  BY <1>1, <1>2, <1>4, <1>5 DEF OutTyped, Up, OffsetKept, Exact
<1>7. OutputKept'
  BY <1>1, <1>2, <1>4, <1>5, <1>6 DEF OutputKept, Flows
<1>8. OrphanKept'
  BY <1>1, <1>2, <1>6 DEF OrphanKept
<1>9. QED BY <1>5, <1>6, <1>7, <1>8 DEF OutInv

\* A cancelled write is carried out after all.
LEMMA KernelOrphanKeeps ==
  ASSUME OutInv, NEW n \in Bytes, KernelOrphan(n)
  PROVE  /\ OutInv'
         /\ Exact => n \in 1 .. accepted - Len(wire) /\ wire' = Ahead(0, Len(wire) + n)
<1>1. OutTyped /\ WritesHeld /\ OffsetKept /\ OutputKept /\ OrphanKept
  BY DEF OutInv
<1>2. /\ orphan # <<>> /\ ~broken /\ n \in 1 .. Len(orphan) /\ n \in Nat
      /\ orphan' = <<>>
      /\ UNCHANGED <<open, kind, short, data, dataNext, partial, offset, writing, broken,
                     accepted>>
      /\ wire' = IF kind = "file" THEN Put(SubSeq(orphan, 1, n), offset)
                                  ELSE wire \o SubSeq(orphan, 1, n)
  BY BoundsTyped DEF KernelOrphan, outVars, Bytes
<1>3. /\ ~open
      /\ Exact => /\ orphan = Ahead(Len(wire), Len(orphan))
                  /\ Len(wire) + Len(orphan) <= accepted
                  /\ kind = "file" => offset = Len(wire)
      /\ Exact' <=> Exact
  BY <1>1, <1>2 DEF OrphanKept, Exact
<1>4. /\ Len(wire) \in Nat /\ Len(orphan) \in Nat /\ accepted \in Nat
      /\ accepted \in 0 .. MaxOut /\ orphan \in Seq(Bytes) /\ offset \in Nat
      /\ kind = "file" => offset <= Len(wire)
  BY <1>1, BoundsTyped DEF OutTyped
<1>5. wire' \in Seq(Bytes) /\ Len(wire') >= Len(wire)
  <2> DEFINE t == SubSeq(orphan, 1, n)
             S == Bytes
  <2>1. t \in Seq(S)
    <3>1. orphan \in Seq(S)
      BY <1>4
    <3>2. \A k \in 1 .. n : orphan[k] \in S
      <4> HIDE DEF S
      <4>1. n <= Len(orphan)
        BY <1>2, <1>4
      <4>2. QED BY <1>2, <1>4, <3>1, <4>1
    <3> HIDE DEF S
    <3>3. SubSeq(orphan, 1, n) \in Seq(S)
      BY <1>2, <3>2, SubSeqProperties
    <3>4. QED BY <3>3
  <2>2. wire' = Put(t, offset)
    BY <1>2 DEF Put
  <2> HIDE DEF t
  <2>3. QED BY <1>1, <1>4, <2>1, <2>2, PutTyped
<1>6. ASSUME Exact
      PROVE  SubSeq(orphan, 1, n) = Ahead(Len(wire), n)
  <2> DEFINE b == Len(wire)
             d == Len(orphan)
  <2>1. /\ b \in Nat /\ d \in Nat /\ orphan = Ahead(b, d) /\ n \in Nat /\ 0 <= n /\ n <= d
        /\ 0 \in Nat
    BY <1>2, <1>3, <1>4, <1>6
  <2> HIDE DEF b, d
  <2>2. Part(Ahead(b, d), 0, n) = Ahead(b + 0, n - 0)
    BY <2>1, AheadParts
  <2>3. b + 0 = b /\ n - 0 = n /\ 0 + 1 = 1
    BY <2>1
  <2>4. QED BY <2>1, <2>2, <2>3 DEF Part, b
<1>7. ASSUME Exact
      PROVE  /\ wire' = Ahead(0, Len(wire) + n) /\ Len(wire') = Len(wire) + n
             /\ Len(wire) + n <= accepted /\ n \in 1 .. accepted - Len(wire)
  <2>1. wire = Ahead(0, Len(wire))
    BY <1>1, <1>7 DEF OutputKept
  <2>2. Put(Ahead(Len(wire), n), offset) = Ahead(0, Len(wire) + n)
    BY <1>1, <1>2, <1>3, <1>7, <2>1, PutIs
  <2>3. wire' = Ahead(0, Len(wire) + n)
    BY <1>2, <1>6, <1>7, <2>2 DEF Put
  <2>4. Len(wire) + n \in Nat /\ Len(wire) + n <= accepted /\ 1 <= n
    <3>1. Len(wire) + Len(orphan) <= accepted /\ n <= Len(orphan) /\ 1 <= n
      BY <1>2, <1>3, <1>4, <1>7
    <3>2. QED BY <1>2, <1>4, <3>1
  <2>5. Len(wire') = Len(wire) + n
    BY <2>3, <2>4, AheadIs
  <2>6. n \in 1 .. accepted - Len(wire)
    BY <1>2, <1>4, <2>4
  <2>7. QED BY <2>3, <2>4, <2>5, <2>6
<1>8. OutTyped'
  <2>1. <<>> \in Seq(Bytes)
    OBVIOUS
  <2>2. kind' = "file" => offset' <= Len(wire')
    BY <1>2, <1>4, <1>5
  <2>3. QED BY <1>1, <1>2, <1>3, <1>5, <2>1, <2>2 DEF OutTyped, Up
<1>9. WritesHeld' /\ OffsetKept'
  <2>1. Told(writing) \in Nat
    BY <1>1, WritingIs
  <2>2. Len(wire') \in Nat
    BY <1>5
  <2>3. OffsetKept'
    BY <1>1, <1>2, <1>4, <1>5, <2>1, <2>2 DEF OffsetKept
  <2>4. WritesHeld'
    BY <1>1, <1>2 DEF WritesHeld, Up
  <2>5. QED BY <2>3, <2>4
<1>10. OutputKept'
  BY <1>2, <1>3, <1>7 DEF OutputKept, Flows
<1>11. OrphanKept'
  BY <1>2 DEF OrphanKept
<1>12. QED BY <1>7, <1>8, <1>9, <1>10, <1>11 DEF OutInv

\* stream_close: a write in flight leaves the stream with its buffer.
LEMMA CloseKeepsOutput ==
  ASSUME OutInv, Close
  PROVE  OutInv'
<1>1. OutTyped /\ WritesHeld /\ OffsetKept /\ OutputKept /\ OrphanKept
  BY DEF OutInv
<1>2. /\ open' = FALSE /\ writing' = <<>>
      /\ data' = IF writing # <<>> THEN <<>> ELSE data
      /\ orphan' = IF open /\ writing # <<>> /\ writing[1].done = Waits
                   THEN writing[1].bytes ELSE orphan
      /\ UNCHANGED <<kind, short, dataNext, partial, offset, wire, broken, accepted>>
  BY DEF Close
<1>3. <<>> \in Seq(Bytes) /\ Len(<<>>) = 0 /\ <<>> \in Seq(WriteRequests)
  OBVIOUS
<1>4. WritesHeld' /\ OffsetKept' /\ (Exact' <=> Exact)
  <2>1. Told(writing') = 0
    BY <1>2 DEF Told
  <2>2. OffsetKept'
    BY <1>1, <1>2, <2>1 DEF OutTyped, OffsetKept
  <2>3. QED BY <1>2, <1>3, <2>2 DEF WritesHeld, Exact
<1>5. orphan' \in Seq(Bytes)
  <2>1. writing # <<>> => writing[1] \in WriteRequests
    BY <1>1, WritingIs
  <2>2. writing # <<>> => writing[1].bytes \in Seq(Bytes)
    BY <2>1 DEF WriteRequests
  <2>3. QED BY <1>1, <1>2, <2>2 DEF OutTyped
<1>6. OutTyped'
  <2>1. data' \in Seq(Bytes)
    BY <1>1, <1>2, <1>3 DEF OutTyped
  <2>2. Len(writing') <= 1
    <3>1. Len(writing') = 0
      BY <1>2
    <3>2. QED BY <3>1
  <2>3. ~Up' /\ open' \in BOOLEAN
    BY <1>2 DEF Up
  <2>4. QED BY <1>1, <1>2, <1>5, <2>1, <2>2, <2>3 DEF OutTyped
<1>7. OutputKept'
  BY <1>1, <1>2, <1>4 DEF OutputKept, Flows
<1>8. OrphanKept'
  <2>1. CASE Exact /\ open /\ writing # <<>> /\ writing[1].done = Waits /\ ~broken
    <3>1. /\ Flows /\ Waits \notin Nat
      BY <2>1 DEF Flows, Waits
    <3>2. /\ Told(writing) = 0
          /\ writing[1].bytes = SubSeq(data, writing[1].from + 1, Len(data))
      BY <1>1, <2>1, <3>1, WritingIs DEF WritesHeld
    <3> DEFINE b == Base
               d == Len(data)
    <3>3. /\ b \in Nat /\ d \in Nat /\ Len(wire) = b + partial /\ Len(wire) \in Nat
          /\ data = Ahead(b, d) /\ writing[1].from = partial /\ partial <= d
          /\ partial \in Nat
          /\ b + d + Len(dataNext) = accepted /\ Len(dataNext) \in Nat
          /\ kind = "file" => partial = 0 /\ offset = b
      BY <1>1, <2>1, <3>1, <3>2, FlowIs DEF OutTyped
    <3>4. orphan' = SubSeq(data, partial + 1, d)
      BY <1>2, <2>1, <3>2, <3>3
    <3> HIDE DEF b, d
    <3>5. b \in Nat /\ d \in Nat /\ partial \in Nat /\ d <= d /\ d - partial \in Nat
      BY <3>3
    <3>6. Part(Ahead(b, d), partial, d) = Ahead(b + partial, d - partial)
      BY ONLY <3>3, <3>5, AheadParts
    <3>7. orphan' = Ahead(Len(wire), d - partial)
      BY <3>3, <3>4, <3>6 DEF Part
    <3>8. Len(orphan') = d - partial
      BY <3>3, <3>5, <3>7, AheadIs
    <3>9. Len(wire) + Len(orphan') <= accepted
      BY <3>3, <3>8
    <3>10. kind = "file" => offset = Len(wire)
      BY <3>3
    <3>11. QED BY <1>2, <3>7, <3>8, <3>9, <3>10 DEF OrphanKept
  <2>2. CASE broken \/ ~Exact
    BY <1>2, <1>4, <2>2 DEF OrphanKept
  <2>3. CASE ~(open /\ writing # <<>> /\ writing[1].done = Waits) /\ ~broken
    BY <1>1, <1>2, <1>4, <2>3 DEF OrphanKept
  <2>4. QED BY <1>1, <2>1, <2>2, <2>3 DEF OutTyped
<1>9. QED BY <1>4, <1>6, <1>7, <1>8 DEF OutInv

-----------------------------------------------------------------------------
(* The actions keep the input half. *)

\* There is no read in flight, or there is one.
LEMMA ReadingIs ==
  ASSUME InTyped, ReadsHeld
  PROVE  /\ reading = <<>> => Told(reading) = 0 /\ DOMAIN reading = {}
         /\ reading # <<>> =>
              /\ DOMAIN reading = {1} /\ reading[1] \in ReadRequests
              /\ reading[1].up = open
              /\ Told(reading) = IF reading[1].done \in Nat THEN reading[1].done ELSE 0
         /\ Told(reading) \in Nat
<1>1. reading \in Seq(ReadRequests) /\ Len(reading) <= 1
  BY DEF InTyped, ReadsHeld
<1> HIDE DEF ReadRequests
<1>2. CASE reading = <<>>
  BY <1>2 DEF Told
<1>3. CASE reading # <<>>
  <2>1. DOMAIN reading = {1} /\ reading[1] \in ReadRequests
    BY <1>1, <1>3, Members
  <2>2. reading[1].up = open
    BY <2>1 DEF ReadsHeld
  <2>3. QED BY <1>3, <2>1, <2>2 DEF Told
<1>4. QED BY <1>2, <1>3

\* Output leaves input; the descriptor may break and the callback be called.
LEMMA InSame ==
  ASSUME InInv, broken' \in BOOLEAN, broken => broken',
         pc' \in {"loop", "callback"},
         event' \in {"none", "read", "close", "error", "flushed"},
         UNCHANGED <<open, input, inOffset, reading, arrived, consumed, reads>>
  PROVE  InInv'
<1>1. InTyped /\ ReadsHeld /\ InputKept
  BY DEF InInv
<1>2. InTyped'
  BY <1>1 DEF InTyped
<1>3. ReadsHeld'
  BY <1>1 DEF ReadsHeld, Up
<1>4. InputKept'
  BY <1>1 DEF InputKept
<1>5. QED BY <1>2, <1>3, <1>4 DEF InInv

\* stream_read
LEMMA ReadKeeps ==
  ASSUME InInv, NEW size \in 1 .. 2, Read(size)
  PROVE  InInv'
<1> DEFINE r == [end |-> Len(input), size |-> size, at |-> inOffset,
                 up |-> open, done |-> Waits]
<1>1. InTyped /\ ReadsHeld /\ InputKept
  BY DEF InInv
<1>2. /\ reads < MaxReads /\ reads' = reads + 1 /\ reading = <<>> /\ reading' = <<r>>
      /\ UNCHANGED <<open, input, inOffset, broken, arrived, consumed, pc, event>>
  BY DEF Read, calls
<1>3. r \in ReadRequests
  BY <1>1 DEF ReadRequests, Results, Waits, InTyped
<1>4. /\ r.up = open /\ r.done = Waits /\ r.end = Len(input) /\ r.at = inOffset
      /\ Waits \notin Nat /\ Waits # Failure
  BY DEF Waits, Failure
<1> HIDE DEF r
<1>5. /\ reading' \in Seq(ReadRequests) /\ Len(reading') = 1 /\ DOMAIN reading' = {1}
      /\ reading'[1] = r /\ Told(reading') = 0
  BY <1>2, <1>3, <1>4 DEF Told
<1>6. reads' \in 0 .. MaxReads
  BY <1>1, <1>2, BoundsTyped DEF InTyped
<1>7. InTyped'
  BY <1>1, <1>2, <1>5, <1>6 DEF InTyped
<1>8. ReadsHeld'
  BY <1>2, <1>4, <1>5 DEF ReadsHeld
<1>9. InputKept'
  <2>1. Told(reading) = 0
    BY <1>1, <1>2, ReadingIs
  <2>2. QED BY <1>1, <1>2, <1>4, <1>5, <2>1 DEF InputKept
<1>10. QED BY <1>7, <1>8, <1>9 DEF InInv

\* stream_consume
LEMMA ConsumeKeeps ==
  ASSUME InInv, NEW n \in 1 .. Len(input), Consume(n)
  PROVE  InInv'
<1>1. InTyped /\ ReadsHeld /\ InputKept
  BY DEF InInv
<1>2. /\ input' = SubSeq(input, n + 1, Len(input)) /\ consumed' = consumed + n
      /\ UNCHANGED <<open, inOffset, reading, broken, arrived, reads, pc, event>>
  BY DEF Consume, calls
<1> DEFINE c == consumed
           d == Len(input)
<1>3. /\ c \in Nat /\ d \in Nat /\ n \in Nat /\ n <= d /\ 1 <= n /\ c + d <= MaxIn
      /\ input \in Seq(1 .. MaxIn) /\ reading = <<>>
  BY <1>1, BoundsTyped DEF InTyped, InputKept, Consume
<1>4. input' \in Seq(1 .. MaxIn) /\ Len(input') = d - n
  <2> DEFINE S == 1 .. MaxIn
             m == n + 1
  <2>1. /\ input \in Seq(S) /\ input' = SubSeq(input, m, d)
        /\ m \in Int /\ d \in Int /\ m >= 1 /\ m <= d + 1
    BY <1>2, <1>3
  <2> HIDE DEF S
  <2>2. \A k \in m .. d : input[k] \in S
    BY <2>1
  <2> HIDE DEF m, d
  <2>3. input' \in Seq(S) /\ Len(input') = IF m <= d THEN d - m + 1 ELSE 0
    BY <2>1, <2>2, SubSeqProperties
  <2>4. Len(input') = d - n
    BY <1>3, <2>1, <2>3 DEF m
  <2>5. QED BY <2>3, <2>4 DEF S
<1>5. consumed' \in 0 .. MaxIn /\ consumed' + Len(input') = c + d
  <2>1. consumed' = c + n
    BY <1>2
  <2>2. Len(input') = d - n
    BY <1>4
  <2> DEFINE l == Len(input')
  <2> HIDE DEF c, d, l
  <2>3. l = d - n /\ c \in Nat /\ d \in Nat /\ n \in Nat /\ n <= d /\ c + d <= MaxIn
    BY <1>3, <2>2 DEF l
  <2>4. consumed' + l = c + d /\ consumed' \in 0 .. MaxIn
    BY <2>1, <2>3, BoundsTyped
  <2>5. QED BY <2>4 DEF l
<1>6. InTyped'
  BY <1>1, <1>2, <1>4, <1>5 DEF InTyped
<1>7. ReadsHeld'
  BY <1>1, <1>2 DEF ReadsHeld, Up
<1>8. InputKept'
  <2>1. ASSUME open
        PROVE  input' = Ahead(consumed', Len(input'))
    <3>1. input = Ahead(c, d)
      BY <1>1, <2>1 DEF InputKept
    <3> HIDE DEF c, d
    <3>2. d <= d
      BY <1>3
    <3>3. Part(Ahead(c, d), n, d) = Ahead(c + n, d - n)
      BY <1>3, <3>2, AheadParts
    <3>4. QED BY <1>2, <1>4, <3>1, <3>3 DEF Part, c, d
  <2>2. DOMAIN reading' = {}
    BY <1>2, <1>3
  <2>3. consumed' + Len(input') <= MaxIn
    BY <1>3, <1>5
  <2>4. open => inOffset' = consumed' + Len(input')
    BY <1>1, <1>2, <1>5 DEF InputKept
  <2>5. QED BY <1>1, <1>2, <2>1, <2>2, <2>3, <2>4 DEF InputKept
<1>9. QED BY <1>6, <1>7, <1>8 DEF InInv

\* stream_recv_callback
LEMMA RecvCallbackKeeps ==
  ASSUME InInv, RecvCallback
  PROVE  InInv' /\ event' # "flushed"
<1> DEFINE result == reading[1].done
<1>1. InTyped /\ ReadsHeld /\ InputKept
  BY DEF InInv
<1>2. /\ reading # <<>> /\ result # Waits /\ reading' = <<>>
      /\ IF result > 0
         THEN RecvAppend(result) /\ Call("read")
         ELSE /\ Call(IF result = 0 THEN "close" ELSE "error")
              /\ UNCHANGED <<input, inOffset>>
      /\ UNCHANGED <<open, broken, arrived, consumed, reads>>
  BY DEF RecvCallback
<1>3. /\ DOMAIN reading = {1} /\ reading[1] \in ReadRequests
      /\ Told(reading) = IF result \in Nat THEN result ELSE 0
      /\ Told(reading) \in Nat
  BY <1>1, <1>2, ReadingIs
<1>4. result \in Nat \/ result = Failure
  BY <1>2, <1>3 DEF ReadRequests, Results
<1>5. result \in Nat => open
  BY <1>1, <1>3 DEF ReadsHeld
<1>6. /\ <<>> \in Seq(ReadRequests) /\ Told(<<>>) = 0
      /\ Len(reading') <= 1 /\ DOMAIN reading' = {}
  <2>1. Len(reading') = 0 /\ DOMAIN reading' = {}
    BY <1>2
  <2>2. QED BY <2>1 DEF Told
<1>7. ReadsHeld'
  BY <1>2, <1>6 DEF ReadsHeld
<1> DEFINE c == consumed
           d == Len(input)
<1>8. c \in Nat /\ d \in Nat /\ inOffset \in Nat /\ arrived \in Nat /\ arrived <= MaxIn
  BY <1>1, BoundsTyped DEF InTyped
<1> HIDE DEF result
<1>9. CASE result \in Nat \ {0}
  <2>1. /\ open /\ Told(reading) = result /\ result > 0
        /\ RecvAppend(result) /\ Call("read")
    BY <1>2, <1>3, <1>5, <1>9
  <2>2. /\ input = Ahead(c, d) /\ inOffset = c + d /\ inOffset + result = arrived
    BY <1>1, <2>1 DEF InputKept
  <2>3. input' = input \o Ahead(inOffset, result) /\ inOffset' = inOffset + result
    BY <2>1 DEF RecvAppend
  <2> HIDE DEF c, d
  <2>4. input' = Ahead(c, d + result)
    <3>1. Ahead(c, d) \o Ahead(c + d, result) = Ahead(c, d + result)
      BY <1>8, <1>9, AheadJoins
    <3>2. input' = Ahead(c, d) \o Ahead(c + d, result)
      BY <2>2, <2>3
    <3>3. QED BY <3>1, <3>2
  <2>5. d + result \in Nat /\ c + (d + result) = arrived /\ c + (d + result) <= MaxIn
    BY <1>8, <1>9, <2>2
  <2>6. Len(input') = d + result /\ input' \in Seq(1 .. MaxIn)
    BY <1>8, <2>4, <2>5, AheadIs, AheadTyped, BoundsTyped
  <2>7. InTyped'
    BY <1>1, <1>2, <1>6, <1>8, <1>9, <2>1, <2>3, <2>6 DEF InTyped, Call
  <2>8. InputKept'
    <3>1. input' = Ahead(consumed', Len(input')) /\ consumed' + Len(input') <= MaxIn
      BY <1>2, <2>4, <2>5, <2>6 DEF c
    <3>2. inOffset' = consumed' + Len(input')
      BY <1>2, <1>8, <1>9, <2>2, <2>3, <2>5, <2>6 DEF c
    <3>3. inOffset' + Told(reading') = arrived'
      <4>1. Told(reading') = 0 /\ inOffset' = arrived /\ arrived' = arrived
        BY <1>2, <1>6, <2>2, <2>3
      <4>2. QED BY <1>8, <4>1
    <3>4. QED BY <1>6, <3>1, <3>2, <3>3 DEF InputKept
  <2>9. QED BY <1>7, <2>1, <2>7, <2>8 DEF InInv, Call
<1>10. CASE result \notin Nat \ {0}
  <2>1. ~(result > 0)
    BY <1>4, <1>10 DEF Failure
  <2>2. /\ UNCHANGED <<input, inOffset>>
        /\ Call(IF result = 0 THEN "close" ELSE "error")
    BY <1>2, <2>1
  <2>3. Told(reading) = 0
    BY <1>3, <1>10
  <2>4. pc' = "callback" /\ event' \in {"close", "error"}
    BY <2>2 DEF Call
  <2>5. InTyped'
    BY <1>1, <1>2, <1>6, <2>2, <2>4 DEF InTyped
  <2>6. InputKept'
    BY <1>1, <1>2, <1>6, <2>2, <2>3 DEF InputKept
  <2>7. QED BY <1>7, <2>4, <2>5, <2>6 DEF InInv
<1>11. QED BY <1>9, <1>10

\* The kernel ends a read.
LEMMA ReadEnds ==
  ASSUME InTyped, ReadsHeld, reading # <<>>, reading[1].done = Waits,
         NEW n \in Results, reading' = <<[reading[1] EXCEPT !.done = n]>>,
         open' = open, n \in Nat => open, n = Failure => ~Up'
  PROVE  /\ ReadsHeld' /\ Len(reading') <= 1 /\ Told(reading) = 0
         /\ Told(reading') = IF n \in Nat THEN n ELSE 0
         /\ DOMAIN reading = {1} /\ DOMAIN reading' = {1}
         /\ reading'[1].end = reading[1].end /\ reading'[1].at = reading[1].at
<1> DEFINE r == [reading[1] EXCEPT !.done = n]
<1>1. /\ DOMAIN reading = {1} /\ reading[1] \in ReadRequests /\ reading[1].up = open
      /\ Told(reading) = IF reading[1].done \in Nat THEN reading[1].done ELSE 0
  BY ReadingIs
<1>2. Waits \notin Nat
  BY DEF Waits
<1>3. /\ r \in ReadRequests /\ r.up = reading[1].up /\ r.done = n
      /\ r.end = reading[1].end /\ r.at = reading[1].at
  BY <1>1 DEF ReadRequests
<1>4. reading' = <<r>>
  OBVIOUS
<1> HIDE DEF r
<1>5. /\ reading' \in Seq(ReadRequests) /\ Len(reading') = 1 /\ reading' # <<>>
      /\ DOMAIN reading' = {1} /\ reading'[1] = r
  BY <1>3, <1>4
<1>6. Told(reading') = IF n \in Nat THEN n ELSE 0
  BY <1>3, <1>5 DEF Told
<1>7. ReadsHeld'
  BY <1>1, <1>3, <1>5 DEF ReadsHeld
<1>8. QED BY <1>1, <1>2, <1>3, <1>5, <1>6, <1>7

\* A read is carried out: what it got is what follows the input, for a file because
\* the offset of the request is still that of the input.
LEMMA KernelReadKeeps ==
  ASSUME InInv, NEW n \in 0 .. MaxIn, KernelRead(n)
  PROVE  InInv'
<1> DEFINE from == IF kind = "file" THEN reading[1].at ELSE arrived
<1>1. InTyped /\ ReadsHeld /\ InputKept
  BY DEF InInv
<1>2. /\ reading # <<>> /\ reading[1].up /\ reading[1].done = Waits
      /\ n \in Nat /\ from + n <= MaxIn /\ arrived' = from + n
      /\ reading' = <<[reading[1] EXCEPT !.done = n]>>
      /\ UNCHANGED <<open, input, inOffset, broken, consumed, reads, pc, event>>
  BY BoundsTyped DEF KernelRead, calls
<1>3. open
  BY <1>1, <1>2, ReadingIs
<1>4. /\ ReadsHeld' /\ Len(reading') <= 1 /\ Told(reading) = 0 /\ Told(reading') = n
      /\ DOMAIN reading = {1} /\ DOMAIN reading' = {1}
      /\ reading'[1].end = reading[1].end /\ reading'[1].at = reading[1].at
  <2>1. n \in Results /\ n # Failure
    BY <1>2 DEF Results, Failure
  <2>2. QED BY <1>1, <1>2, <1>3, <2>1, ReadEnds
<1>5. /\ inOffset \in Nat /\ arrived \in Nat /\ consumed \in Nat /\ Len(input) \in Nat
      /\ input = Ahead(consumed, Len(input)) /\ inOffset = consumed + Len(input)
      /\ inOffset = arrived
      /\ reading[1].end = Len(input) /\ reading[1].at = inOffset
  BY <1>1, <1>3, <1>4, BoundsTyped DEF InTyped, InputKept
<1>6. arrived' = arrived + n /\ arrived' \in 0 .. MaxIn
  BY <1>2, <1>5, BoundsTyped
<1>7. InTyped'
  BY <1>1, <1>2, <1>4, <1>6 DEF InTyped
<1>8. InputKept'
  BY <1>1, <1>2, <1>4, <1>5, <1>6 DEF InputKept
<1>9. QED BY <1>4, <1>7, <1>8 DEF InInv

\* A read fails: the descriptor is broken, if it was open.
LEMMA KernelReadFailsKeeps ==
  ASSUME InInv, KernelReadFails
  PROVE  /\ InInv'
         /\ broken' \in BOOLEAN /\ (broken => broken')
<1>1. InTyped /\ ReadsHeld /\ InputKept
  BY DEF InInv
<1>2. /\ reading # <<>> /\ reading[1].done = Waits
      /\ reading' = <<[reading[1] EXCEPT !.done = Failure]>>
      /\ broken' = (broken \/ reading[1].up)
      /\ UNCHANGED <<open, input, inOffset, arrived, consumed, reads, pc, event>>
  BY DEF KernelReadFails, calls
<1>3. reading[1].up = open
  BY <1>1, <1>2, ReadingIs
<1>4. ~(open' /\ ~broken') /\ broken' \in BOOLEAN
  BY <1>1, <1>2, <1>3 DEF InTyped
<1>5. /\ ReadsHeld' /\ Len(reading') <= 1 /\ Told(reading) = 0 /\ Told(reading') = 0
      /\ DOMAIN reading = {1} /\ DOMAIN reading' = {1}
      /\ reading'[1].end = reading[1].end /\ reading'[1].at = reading[1].at
  <2>1. Failure \in Results /\ Failure \notin Nat
    BY DEF Results, Failure
  <2>2. QED BY <1>1, <1>2, <1>4, <2>1, ReadEnds DEF Up
<1>6. InTyped'
  BY <1>1, <1>2, <1>4, <1>5 DEF InTyped
<1>7. InputKept'
  BY <1>1, <1>2, <1>5 DEF InputKept
<1>8. QED BY <1>2, <1>4, <1>5, <1>6, <1>7 DEF InInv

\* stream_close: a read in flight leaves the stream with its buffer.
LEMMA CloseKeepsInput ==
  ASSUME InInv, Close
  PROVE  InInv'
<1>1. InTyped /\ ReadsHeld /\ InputKept
  BY DEF InInv
<1>2. /\ open' = FALSE /\ reading' = <<>>
      /\ input' = IF reading # <<>> THEN <<>> ELSE input
      /\ UNCHANGED <<inOffset, broken, arrived, consumed, reads, pc, event>>
  BY DEF Close, calls
<1>3. /\ <<>> \in Seq(1 .. MaxIn) /\ Len(<<>>) = 0 /\ <<>> \in Seq(ReadRequests)
      /\ DOMAIN reading' = {} /\ Len(reading') <= 1
  <2>1. Len(reading') = 0 /\ DOMAIN reading' = {}
    BY <1>2
  <2>2. QED BY <2>1
<1>4. InTyped'
  BY <1>1, <1>2, <1>3 DEF InTyped
<1>5. ReadsHeld'
  BY <1>2, <1>3 DEF ReadsHeld
<1>6. InputKept'
  <2>1. consumed' + Len(input') <= MaxIn
    BY <1>1, <1>2, <1>3, BoundsTyped DEF InputKept, InTyped
  <2>2. QED BY <1>2, <2>1 DEF InputKept
<1>7. QED BY <1>4, <1>5, <1>6 DEF InInv

-----------------------------------------------------------------------------
(* The theorems. *)

LEMMA InitHolds == Init => StreamInv
<1> SUFFICES ASSUME Init
             PROVE  StreamInv
  OBVIOUS
<1>1. /\ open = TRUE /\ kind \in Kinds
      /\ data = <<>> /\ dataNext = <<>> /\ partial = 0 /\ offset = 0
      /\ writing = <<>> /\ orphan = <<>>
      /\ input = <<>> /\ inOffset = 0 /\ reading = <<>>
      /\ pc = "loop" /\ event = "none"
      /\ wire = <<>> /\ short = FALSE /\ broken = FALSE /\ arrived = 0
      /\ accepted = 0 /\ consumed = 0 /\ reads = 0
  BY DEF Init
<1>2. /\ Len(<<>>) = 0 /\ <<>> \in Seq(Bytes) /\ <<>> \in Seq(1 .. MaxIn)
      /\ <<>> \in Seq(WriteRequests) /\ <<>> \in Seq(ReadRequests) /\ DOMAIN <<>> = {}
      /\ 0 \in 0 .. MaxIn /\ 0 \in 0 .. MaxOut /\ 0 \in 0 .. MaxReads
  BY BoundsTyped
<1>3. Told(<<>>) = 0 /\ Ahead(0, 0) = <<>>
  BY AheadEmpty DEF Told
<1>4. OutTyped /\ InTyped
  <2>1. /\ Len(writing) <= 1 /\ Len(reading) <= 1 /\ partial <= Len(data) /\ 0 \in Nat
        /\ offset <= Len(wire)
    BY <1>1, <1>2
  <2>2. OutTyped
    BY <1>1, <1>2, <2>1 DEF OutTyped
  <2>3. InTyped
    BY <1>1, <1>2, <2>1 DEF InTyped
  <2>4. QED BY <2>2, <2>3
<1>5. WritesHeld /\ ReadsHeld
  BY <1>1, <1>2 DEF WritesHeld, ReadsHeld
<1>6. Base = 0
  BY <1>1, <1>2, <1>3 DEF Base
<1>7. OutputKept /\ OffsetKept
  BY <1>1, <1>2, <1>3, <1>6 DEF OutputKept, OffsetKept
<1>8. OrphanKept
  BY <1>1 DEF OrphanKept
<1>9. InputKept
  BY <1>1, <1>2, <1>3, BoundsTyped DEF InputKept
<1>10. QED BY <1>4, <1>5, <1>7, <1>8, <1>9, Halves DEF OutInv, InInv

\* What a step does to the wire and to what was accepted, as long as writes are exact.
Grows ==
  \/ \E n \in 1 .. MaxOut - accepted : accepted' = accepted + n /\ wire' = wire
  \/ ~Exact
  \/ \E n \in 1 .. accepted - Len(wire) :
       wire' = Ahead(0, Len(wire) + n) /\ accepted' = accepted
  \/ UNCHANGED <<wire, accepted>>

\* A step keeps both halves; a stream says it is flushed when all is on the wire.
LEMMA StepKeeps ==
  ASSUME StreamInv, [Next]_vars
  PROVE  /\ StreamInv' /\ Grows
         /\ Exact /\ pc = "loop" /\ pc' = "callback" /\ event' = "flushed"
              => Len(wire) = accepted
<1>1. OutInv /\ InInv
  BY Halves
<1>2. /\ open \in BOOLEAN /\ broken \in BOOLEAN /\ pc \in {"loop", "callback"}
      /\ event \in {"none", "read", "close", "error", "flushed"}
  BY <1>1 DEF InInv, InTyped
<1>3. SUFFICES /\ OutInv' /\ InInv' /\ Grows
               /\ Exact /\ pc = "loop" /\ pc' = "callback" /\ event' = "flushed"
                    => Len(wire) = accepted
  BY HalvesNext
<1>4. ASSUME NEW n \in 1 .. 2, Write(n)
      PROVE  OutInv' /\ InInv' /\ Grows /\ UNCHANGED calls
  <2>1. OutInv'
    BY <1>1, <1>4, WriteKeeps
  <2>2. InInv'
    BY <1>1, <1>2, <1>4, InSame DEF Write, inVars, calls
  <2>3. accepted \in Nat
    BY <1>1, BoundsTyped DEF OutInv, OutTyped
  <2>4. n \in 1 .. MaxOut - accepted /\ accepted' = accepted + n /\ wire' = wire
    BY <1>4, <2>3, BoundsTyped DEF Write
  <2>5. QED BY <1>4, <2>1, <2>2, <2>4 DEF Grows, Write
<1>5. ASSUME Flush
      PROVE  OutInv' /\ InInv' /\ Grows /\ UNCHANGED calls
  <2>1. OutInv'
    BY <1>1, <1>5, FlushKeeps
  <2>2. InInv'
    BY <1>1, <1>2, <1>5, InSame DEF Flush, inVars, calls
  <2>3. QED BY <1>5, <2>1, <2>2 DEF Grows, Flush
<1>6. ASSUME NEW size \in 1 .. 2, Read(size)
      PROVE  OutInv' /\ InInv' /\ Grows /\ UNCHANGED calls
  <2>1. InInv'
    BY <1>1, <1>6, ReadKeeps
  <2>2. OutInv'
    BY <1>1, <1>2, <1>6, OutSame DEF Read, outVars
  <2>3. QED BY <1>6, <2>1, <2>2 DEF Grows, Read
<1>7. ASSUME NEW n \in 1 .. Len(input), Consume(n)
      PROVE  OutInv' /\ InInv' /\ Grows /\ UNCHANGED calls
  <2>1. InInv'
    BY <1>1, <1>7, ConsumeKeeps
  <2>2. OutInv'
    BY <1>1, <1>2, <1>7, OutSame DEF Consume, outVars
  <2>3. QED BY <1>7, <2>1, <2>2 DEF Grows, Consume
<1>8. ASSUME Close
      PROVE  OutInv' /\ InInv' /\ Grows /\ UNCHANGED calls
  <2>1. OutInv' /\ InInv'
    BY <1>1, <1>8, CloseKeepsOutput, CloseKeepsInput
  <2>2. QED BY <1>8, <2>1 DEF Grows, Close
<1>9. ASSUME SendCallback
      PROVE  /\ OutInv' /\ InInv' /\ Grows
             /\ Exact /\ pc = "loop" /\ pc' = "callback" /\ event' = "flushed"
                  => Len(wire) = accepted
  <2>1. /\ OutInv'
        /\ Exact /\ pc = "loop" /\ pc' = "callback" /\ event' = "flushed"
             => Len(wire) = accepted
    BY <1>1, <1>9, SendCallbackKeeps
  <2>2. UNCHANGED <<open, input, inOffset, reading, wire, broken, arrived, accepted,
                    consumed, reads>>
    BY <1>9 DEF SendCallback, inVars
  <2>3. \/ UNCHANGED <<pc, event>>
        \/ pc' = "callback" /\ event' \in {"error", "flushed"}
    BY <1>9 DEF SendCallback, Call, calls
  <2>4. InInv'
    BY <1>1, <1>2, <2>2, <2>3, InSame
  <2>5. QED BY <2>1, <2>2, <2>4 DEF Grows
<1>10. ASSUME RecvCallback
       PROVE  OutInv' /\ InInv' /\ Grows /\ event' # "flushed"
  <2>1. InInv' /\ event' # "flushed"
    BY <1>1, <1>10, RecvCallbackKeeps
  <2>2. OutInv'
    BY <1>1, <1>2, <1>10, OutSame DEF RecvCallback, outVars
  <2>3. QED BY <1>10, <2>1, <2>2 DEF Grows, RecvCallback
<1>11. ASSUME Return
       PROVE  OutInv' /\ InInv' /\ Grows /\ pc' # "callback"
  <2>1. InInv'
    BY <1>1, <1>2, <1>11, InSame DEF Return, inVars
  <2>2. OutInv'
    BY <1>1, <1>2, <1>11, OutSame DEF Return, outVars
  <2>3. QED BY <1>11, <2>1, <2>2 DEF Grows, Return
<1>12. ASSUME NEW n \in Bytes, KernelWrite(n)
       PROVE  OutInv' /\ InInv' /\ Grows /\ UNCHANGED calls
  <2>1. /\ OutInv'
        /\ Exact => n \in 1 .. accepted - Len(wire) /\ wire' = Ahead(0, Len(wire) + n)
    BY <1>1, <1>12, KernelWriteKeeps
  <2>2. InInv'
    BY <1>1, <1>2, <1>12, InSame DEF KernelWrite, inVars, calls
  <2>3. QED BY <1>12, <2>1, <2>2 DEF Grows, KernelWrite
<1>13. ASSUME KernelWriteFails
       PROVE  OutInv' /\ InInv' /\ Grows /\ UNCHANGED calls
  <2>1. OutInv'
    BY <1>1, <1>13, KernelWriteFailsKeeps
  <2>2. broken' \in BOOLEAN
    BY <2>1 DEF OutInv, OutTyped
  <2>3. InInv'
    BY <1>1, <1>2, <1>13, <2>2, InSame DEF KernelWriteFails, inVars, calls
  <2>4. QED BY <1>13, <2>1, <2>3 DEF Grows, KernelWriteFails
<1>14. ASSUME NEW n \in Bytes, KernelOrphan(n)
       PROVE  OutInv' /\ InInv' /\ Grows /\ UNCHANGED calls
  <2>1. /\ OutInv'
        /\ Exact => n \in 1 .. accepted - Len(wire) /\ wire' = Ahead(0, Len(wire) + n)
    BY <1>1, <1>14, KernelOrphanKeeps
  <2>2. InInv'
    BY <1>1, <1>2, <1>14, InSame DEF KernelOrphan, inVars, calls
  <2>3. QED BY <1>14, <2>1, <2>2 DEF Grows, KernelOrphan
<1>15. ASSUME NEW n \in 0 .. MaxIn, KernelRead(n)
       PROVE  OutInv' /\ InInv' /\ Grows /\ UNCHANGED calls
  <2>1. InInv'
    BY <1>1, <1>15, KernelReadKeeps
  <2>2. OutInv'
    BY <1>1, <1>2, <1>15, OutSame DEF KernelRead, outVars
  <2>3. QED BY <1>15, <2>1, <2>2 DEF Grows, KernelRead
<1>16. ASSUME KernelReadFails
       PROVE  OutInv' /\ InInv' /\ Grows /\ UNCHANGED calls
  <2>1. InInv' /\ broken' \in BOOLEAN /\ (broken => broken')
    BY <1>1, <1>16, KernelReadFailsKeeps
  <2>2. OutInv'
    BY <1>1, <1>16, <2>1, OutSame DEF KernelReadFails, outVars
  <2>3. QED BY <1>16, <2>1, <2>2 DEF Grows, KernelReadFails
<1>17. ASSUME UNCHANGED vars
       PROVE  OutInv' /\ InInv' /\ Grows /\ UNCHANGED calls
  <2>1. InInv'
    BY <1>1, <1>2, <1>17, InSame DEF vars, inVars, calls
  <2>2. OutInv'
    BY <1>1, <1>2, <1>17, OutSame DEF vars, outVars
  <2>3. QED BY <1>17, <2>1, <2>2 DEF Grows, vars
<1>18. QED
  BY <1>4, <1>5, <1>6, <1>7, <1>8, <1>9, <1>10, <1>11, <1>12, <1>13, <1>14, <1>15, <1>16,
     <1>17 DEF Next, Api, Loop, Kernel, KernelWrites, calls

\* The inductive invariant of a stream.
THEOREM StreamCorrect == Spec => []StreamInv
<1>1. Init => StreamInv
  BY InitHolds
<1>2. StreamInv /\ [Next]_vars => StreamInv'
  BY StepKeeps
<1>3. QED BY <1>1, <1>2, PTL DEF Spec

\* What a write in flight is to write is a part of data, from its place on.
LEMMA InFlightSafe == StreamInv => InFlightIntact
<1> SUFFICES ASSUME StreamInv,
                    NEW i \in DOMAIN writing, NEW k \in DOMAIN writing[i].bytes
             PROVE  /\ writing[i].from + k \in DOMAIN data
                    /\ data[writing[i].from + k] = writing[i].bytes[k]
  BY DEF InFlightIntact
<1> DEFINE from == writing[i].from
           d    == Len(data)
           S    == Bytes
<1>1. OutTyped /\ WritesHeld
  BY Halves DEF OutInv
<1>2. writing[i] \in WriteRequests /\ writing[i].bytes = SubSeq(data, from + 1, d)
  BY <1>1, Members DEF WritesHeld
<1>3. from \in Nat /\ d \in Nat /\ data \in Seq(S)
  BY <1>1, <1>2 DEF WriteRequests, OutTyped
<1>4. k \in DOMAIN SubSeq(data, from + 1, d)
  BY <1>2
<1> HIDE DEF from, d, S
<1>5. SubSeq(data, from + 1, d) = [j \in 1 .. d - from |-> data[j + from]]
  BY <1>3
<1>6. k \in 1 .. d - from /\ SubSeq(data, from + 1, d)[k] = data[k + from]
  BY <1>4, <1>5
<1>7. from + k \in 1 .. d /\ k + from = from + k
  BY <1>3, <1>6
<1>8. DOMAIN data = 1 .. d
  BY <1>3 DEF d
<1>9. QED BY <1>2, <1>6, <1>7, <1>8 DEF from, d

\* The bytes after those on the wire are the rest of data, and then data_next.
LEMMA AllKept == StreamInv => NothingLost
<1> SUFFICES ASSUME StreamInv, Up, Exact
             PROVE  wire \o Unsent \o dataNext = Ahead(0, accepted)
  BY DEF NothingLost
<1> DEFINE out == Told(writing)
           b   == Base
           d   == Len(data)
           n   == Len(dataNext)
           p   == partial + out
<1>1. OutInv /\ OutTyped /\ WritesHeld /\ OutputKept
  BY Halves DEF OutInv
<1>2. Flows
  BY DEF Flows, Up
<1>3. /\ b \in Nat /\ d \in Nat /\ n \in Nat /\ out \in Nat /\ p \in Nat /\ p <= d
      /\ Len(wire) = b + p
      /\ data = Ahead(b, d) /\ dataNext = Ahead(b + d, n) /\ b + d + n = accepted
      /\ wire = Ahead(0, Len(wire))
  BY <1>1, <1>2, FlowIs, WritingIs, SMTT(30) DEF OutTyped, OutputKept
<1>4. Unsent = SubSeq(data, p + 1, d)
  <2>1. out = IF writing # <<>> /\ writing[1].done # Waits THEN writing[1].done ELSE 0
    <3>1. ASSUME writing # <<>>
          PROVE  /\ out = IF writing[1].done \in Nat THEN writing[1].done ELSE 0
                 /\ writing[1].done \in Nat \/ writing[1].done = Waits
      <4>1. /\ DOMAIN writing = {1} /\ writing[1] \in WriteRequests
            /\ out = IF writing[1].done \in Nat THEN writing[1].done ELSE 0
        BY <1>1, <3>1, WritingIs
      <4>2. writing[1].done # Failure
        BY <1>1, <4>1 DEF WritesHeld
      <4>3. QED BY <4>1, <4>2 DEF WriteRequests, Results
    <3>2. writing = <<>> => out = 0
      BY <1>1, WritingIs
    <3>3. Waits \notin Nat
      BY DEF Waits
    <3>4. QED BY <3>1, <3>2, <3>3
  <2>2. Unsent = LET o == out IN SubSeq(data, partial + o + 1, d)
    BY <2>1 DEF Unsent
  <2>3. QED BY <2>2
<1> HIDE DEF out, b, d, n, p
<1>5. Unsent = Ahead(b + p, d - p)
  <2>1. d <= d
    BY <1>3
  <2>2. Part(Ahead(b, d), p, d) = Ahead(b + p, d - p)
    BY <1>3, <2>1, AheadParts
  <2>3. QED BY <1>3, <1>4, <2>2 DEF Part
<1>6. wire \o Unsent = Ahead(0, b + d)
  <2>1. b + p \in Nat /\ d - p \in Nat /\ 0 + (b + p) = b + p /\ (b + p) + (d - p) = b + d
    BY <1>3
  <2>2. Ahead(0, b + p) \o Ahead(0 + (b + p), d - p) = Ahead(0, (b + p) + (d - p))
    BY <2>1, AheadJoins
  <2>3. QED BY <1>3, <1>5, <2>1, <2>2
<1>7. Ahead(0, b + d) \o dataNext = Ahead(0, accepted)
  <2>1. b + d \in Nat /\ 0 + (b + d) = b + d
    BY <1>3
  <2>2. Ahead(0, b + d) \o Ahead(0 + (b + d), n) = Ahead(0, (b + d) + n)
    BY <1>3, <2>1, AheadJoins, ZenonT(30)
  <2>3. QED BY <1>3, <2>1, <2>2
<1>8. QED BY <1>6, <1>7

\* What is in the buffer follows what was consumed.
LEMMA InputSafe == StreamInv => InputInOrder
<1> SUFFICES ASSUME StreamInv, Up
             PROVE  /\ input = Ahead(consumed, Len(input))
                    /\ consumed + Len(input)
                         + (IF reading # <<>> /\ reading[1].done \in Nat
                            THEN reading[1].done ELSE 0) = arrived
                    /\ reading # <<>> => reading[1].end = Len(input)
  BY DEF InputInOrder
<1>1. InTyped /\ ReadsHeld /\ InputKept /\ open
  BY Halves DEF InInv, Up
<1>2. Told(reading) = IF reading # <<>> /\ reading[1].done \in Nat
                      THEN reading[1].done ELSE 0
  BY DEF Told
<1>3. reading # <<>> => DOMAIN reading = {1}
  BY <1>1, ReadingIs
<1>4. QED BY <1>1, <1>2, <1>3 DEF InputKept

\* StreamSound, for any number of bytes and of reads: what was written is on the wire
\* or in one of the two buffers, nothing twice and nothing lost, unless a write to a
\* file or a pipe was not taken whole; the buffer of a write in flight is not touched;
\* input is handed over in order; and no operation started before stream_close is left
\* to call the stream back.
THEOREM StreamSoundAlways == Spec => []StreamSound
<1>1. StreamInv => StreamSound
  BY InFlightSafe, AllKept, InputSafe DEF StreamInv, StreamSound, OutputSound
<1>2. QED BY <1>1, StreamCorrect, PTL

\* FlushedMeansSent: STREAM_FLUSHED is only called when every byte ever written is on
\* the wire, those that were collected during the flush included; with the same
\* exception.
THEOREM FlushedMeansSentAlways == Spec => FlushedMeansSent
<1>1. StreamInv /\ [Next]_vars
        => (Exact /\ pc = "loop" /\ pc' = "callback" /\ event' = "flushed"
              => Len(wire) = accepted)
  BY StepKeeps
<1>2. QED BY <1>1, StreamCorrect, PTL DEF Spec, FlushedMeansSent

\* OutputInOrder: the stream and its descriptor are a channel of the bytes written, as
\* Channel specifies it: whatever was put is got in order and once, by a socket however
\* it takes the bytes, and by a file or a pipe up to the first write that is not taken
\* whole.
THEOREM OutputInOrderAlways == Spec => OutputInOrder
<1>1. Init => C!Init
  BY DEF Init, C!Init
<1>2. StreamInv /\ [Next]_vars => [Exact => C!Next]_<<accepted, wire>>
  <2> SUFFICES ASSUME StreamInv, [Next]_vars, Exact
               PROVE  C!Next \/ UNCHANGED <<accepted, wire>>
    OBVIOUS
  <2>1. /\ wire = Ahead(0, Len(wire)) /\ Len(wire) \in Nat /\ accepted \in Nat
    BY Halves, BoundsTyped DEF OutInv, OutTyped, OutputKept
  <2>2. ASSUME NEW n \in 1 .. MaxOut - accepted, accepted' = accepted + n, wire' = wire
        PROVE  C!Next
    <3>1. n > 0 /\ n \in 1 .. accepted' - accepted
      BY <2>1, <2>2, BoundsTyped
    <3>2. C!Put(n)
      BY <2>2, <3>1 DEF C!Put
    <3>3. QED BY <3>1, <3>2 DEF C!Next
  <2>3. ASSUME NEW n \in 1 .. accepted - Len(wire),
               wire' = Ahead(0, Len(wire) + n), accepted' = accepted
        PROVE  C!Next
    <3> DEFINE l == Len(wire)
    <3>1. wire = Ahead(0, l) /\ l \in Nat /\ n \in Nat /\ wire' = Ahead(0, l + n)
      BY <2>1, <2>3
    <3>2. C!Numbers(l, n) = Ahead(l, n)
      BY DEF C!Numbers, Ahead
    <3> HIDE DEF l
    <3>3. 0 + l = l
      BY <3>1
    <3>4. wire' = wire \o C!Numbers(l, n)
      <4>1. Ahead(0, l) \o Ahead(0 + l, n) = Ahead(0, l + n)
        BY <3>1, AheadJoins
      <4>2. QED BY <3>1, <3>2, <3>3, <4>1
    <3>5. C!Get(n)
      BY <2>3, <3>4 DEF C!Get, l
    <3>6. QED BY <3>5 DEF C!Next
  <2>4. Grows
    BY StepKeeps
  <2>5. QED BY <2>2, <2>3, <2>4 DEF Grows
<1>3. QED BY <1>1, <1>2, StreamCorrect, PTL DEF Spec, OutputInOrder
=============================================================================
