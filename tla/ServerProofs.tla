----------------------------- MODULE ServerProofs -----------------------------
(* Proofs about Server, for any number of clients and of requests: sessions  *)
(* take their requests in order and once, answer them in order, and leave    *)
(* the input alone while the application has a request.                      *)
EXTENDS Server, SequenceTheorems, TLAPS

-----------------------------------------------------------------------------
(* Numbers that follow each other. *)

Counted(from, n) == [k \in 1 .. n |-> from + k]

LEMMA CountedIs ==
  ASSUME NEW a \in Nat, NEW n \in Nat
  PROVE  /\ Counted(a, n) \in Seq(Nat) /\ Len(Counted(a, n)) = n
         /\ DOMAIN Counted(a, n) = 1 .. n
         /\ \A k \in 1 .. n : Counted(a, n)[k] = a + k
  BY DEF Counted

LEMMA CountedTyped ==
  ASSUME NEW a \in Nat, NEW n \in Nat, NEW max \in Nat, a + n <= max
  PROVE  Counted(a, n) \in Seq(1 .. max)
  BY DEF Counted

LEMMA CountedEmpty ==
  ASSUME NEW a \in Nat
  PROVE  Counted(a, 0) = <<>>
  BY DEF Counted

LEMMA CountedJoins ==
  ASSUME NEW a \in Nat, NEW n \in Nat, NEW m \in Nat
  PROVE  Counted(a, n) \o Counted(a + n, m) = Counted(a, n + m)
<1> DEFINE s == Counted(a, n)
           t == Counted(a + n, m)
<1>1. a + n \in Nat /\ n + m \in Nat
  OBVIOUS
<1>2. /\ s \in Seq(Nat) /\ Len(s) = n /\ \A k \in 1 .. n : s[k] = a + k
      /\ t \in Seq(Nat) /\ Len(t) = m /\ \A k \in 1 .. m : t[k] = a + n + k
  BY <1>1, CountedIs
<1> HIDE DEF s, t
<1>3. s \o t \in Seq(Nat) /\ Len(s \o t) = n + m
  BY <1>2, ConcatProperties
<1>4. ASSUME NEW k \in 1 .. n + m
      PROVE  (s \o t)[k] = a + k
  <2>1. (s \o t)[k] = IF k <= n THEN s[k] ELSE t[k - n]
    BY <1>2, ConcatProperties
  <2>2. QED BY <1>2, <2>1
<1>5. /\ Counted(a, n + m) \in Seq(Nat) /\ Len(Counted(a, n + m)) = n + m
      /\ \A k \in 1 .. n + m : Counted(a, n + m)[k] = a + k
  BY <1>1, CountedIs
<1>6. s \o t = Counted(a, n + m)
  BY <1>3, <1>4, <1>5, SeqEqual
<1>7. QED BY <1>6 DEF s, t

\* What follows the o-th element of s is left when t comes behind.
LEMMA RestJoins ==
  ASSUME NEW S, NEW s \in Seq(S), NEW t \in Seq(S), NEW o \in Nat, o <= Len(s)
  PROVE  SubSeq(s \o t, o + 1, Len(s \o t)) = SubSeq(s, o + 1, Len(s)) \o t
<1> DEFINE u == s \o t
           n == Len(s)
           m == Len(t)
           a == SubSeq(u, o + 1, Len(u))
           b == SubSeq(s, o + 1, n)
<1>1. n \in Nat /\ m \in Nat /\ o \in Nat /\ o <= n
  OBVIOUS
<1>2. /\ u \in Seq(S) /\ Len(u) = n + m
      /\ \A k \in 1 .. n + m : u[k] = IF k <= n THEN s[k] ELSE t[k - n]
  BY ConcatProperties
<1>3. b = [k \in 1 .. n - o |-> s[k + o]]
  OBVIOUS
<1>4. Len(b) = n - o /\ \A k \in 1 .. n - o : b[k] = s[k + o]
  BY <1>1, <1>3
<1>5. b \in Seq(S)
  BY <1>1, <1>3
<1> HIDE DEF b, u
<1>6. a = [k \in 1 .. n + m - o |-> u[k + o]]
  BY <1>1, <1>2
<1>7. Len(a) = n + m - o /\ \A k \in 1 .. n + m - o : a[k] = u[k + o]
  BY <1>1, <1>6
<1>8. a \in Seq(S)
  <2>1. \A k \in 1 .. n + m - o : k + o \in 1 .. Len(u)
    BY <1>1, <1>2
  <2>2. [k \in 1 .. n + m - o |-> u[k + o]] \in Seq(S)
    BY <1>1, <1>2, <2>1
  <2>3. QED BY <1>6, <2>2
<1>9. /\ b \o t \in Seq(S) /\ Len(b \o t) = (n - o) + m
      /\ \A k \in 1 .. (n - o) + m :
           (b \o t)[k] = IF k <= n - o THEN b[k] ELSE t[k - (n - o)]
  <2>1. Len(t) = m /\ Len(b) = n - o /\ t \in Seq(S)
    BY <1>4
  <2> HIDE DEF n, m
  <2>2. /\ b \o t \in Seq(S) /\ Len(b \o t) = Len(b) + Len(t)
        /\ \A k \in 1 .. Len(b) + Len(t) :
             (b \o t)[k] = IF k <= Len(b) THEN b[k] ELSE t[k - Len(b)]
    BY <1>5, <2>1, ConcatProperties
  <2>3. QED BY <2>1, <2>2
<1> HIDE DEF a, n, m
<1>10. ASSUME NEW k \in 1 .. n + m - o
       PROVE  a[k] = (b \o t)[k]
  <2>1. /\ k \in Nat /\ k + o \in 1 .. n + m /\ k \in 1 .. (n - o) + m
        /\ (k + o <= n <=> k <= n - o) /\ k + o - n = k - (n - o)
        /\ k <= n - o => k \in 1 .. n - o
    BY <1>1
  <2>2. a[k] = u[k + o] /\ u[k + o] = IF k + o <= n THEN s[k + o] ELSE t[k + o - n]
    <3> DEFINE l == k + o
    <3>1. a[k] = u[l] /\ l = k + o
      BY <1>7
    <3>2. l \in 1 .. n + m
      BY <2>1
    <3> HIDE DEF l
    <3>3. u[l] = IF l <= n THEN s[l] ELSE t[l - n]
      BY <1>2, <3>2
    <3>4. QED BY <1>1, <2>1, <3>1, <3>3
  <2>3. (b \o t)[k] = IF k <= n - o THEN b[k] ELSE t[k - (n - o)]
    BY <1>9, <2>1
  <2>4. k <= n - o => b[k] = s[k + o]
    BY <1>4, <2>1
  <2>5. QED BY <2>1, <2>2, <2>3, <2>4
<1>11. n + m - o = (n - o) + m
  BY <1>1
<1>12. a = b \o t
  BY <1>7, <1>8, <1>9, <1>10, <1>11, SeqEqual
<1>13. QED BY <1>12 DEF a, b, u, n

-----------------------------------------------------------------------------
(* What the invariant says of one session. *)

LEMMA BoundsTyped ==
  /\ MaxRequests \in Nat
  /\ None \notin Clients /\ Waits \notin Clients /\ Done \notin Clients
  /\ Failed \notin Clients
  /\ None # Waits /\ None # Done /\ None # Failed
  /\ Waits # Done /\ Waits # Failed /\ Done # Failed
  BY BoundsAssumption, ClientsAssumption DEF None, Waits, Done, Failed

\* Its fields.
LEMMA FieldsTyped ==
  ASSUME NEW r \in Sessions
  PROVE  /\ r.state \in {"new", "accepted", "open", "gone", "leaked"}
         /\ r.input \in Seq(Bytes) /\ r.offset \in Nat
         /\ r.read \in {None, Waits, Done, Failed} /\ r.batch \in Seq(Bytes)
         /\ r.data \in Seq(Numbers) /\ r.dataNext \in Seq(Numbers)
         /\ r.write \in {None, Waits, Done, Failed} /\ r.busy \in BOOLEAN
         /\ r.sent \in 0 .. 2 * MaxRequests /\ r.bad \in 0 .. MaxRequests
         /\ r.called \in 0 .. MaxRequests /\ r.got \in Seq(Numbers)
  BY DEF Sessions

Fits(r) ==
  /\ r.state \in {"new", "accepted"} =>
       /\ r.input = <<>> /\ r.offset = 0 /\ r.data = <<>> /\ r.dataNext = <<>>
       /\ r.sent = 0 /\ r.called = 0 /\ r.got = <<>>
  /\ r.offset <= Len(r.input) /\ 2 * r.called <= r.sent
  /\ r.busy => r.called > 0
  /\ r.read # Done => r.batch = <<>>
  /\ r.write = None <=> r.data = <<>>

Idle(r) == r.read = None /\ r.write = None /\ ~r.busy

\* What the session has, and what it was asked for: both are in order.
Output(r)   == r.got \o (IF r.write = Done THEN <<>> ELSE r.data) \o r.dataNext
Answered(r) == IF r.busy THEN r.called - 1 ELSE r.called
InOrder(r) ==
  Rest(r) \o r.batch = [k \in 1 .. r.sent - 2 * r.called |-> 2 * r.called + k]
OutOrder(r) == Output(r) = [k \in 1 .. Answered(r) |-> k]

Kept(r) ==
  /\ r \in Sessions /\ Fits(r)
  /\ r.state # "open" => Idle(r)
  /\ r.state = "open" => InOrder(r) /\ OutOrder(r)

\* It waits for one thing at a time; the application may run in it.
Duplex(r, here) ==
  /\ r.read # None => ~r.busy /\ r.write = None /\ Flushed(r) /\ ~here
  /\ here \/ r.read # None \/ r.write # None \/ r.busy


\* What the kernel does to r leaves what the program has of it as it is.
Steady(r, q) ==
  /\ Kept(q) /\ q.state = "open" /\ q.busy = r.busy /\ q.input = r.input
  /\ \A here \in BOOLEAN : Duplex(r, here) => Duplex(q, here)

\* What it says of the server.
Controlled ==
  /\ open \in BOOLEAN /\ accept \in {None, Waits, Failed} \cup Clients
  /\ at \in Clients \cup {None} /\ abort \in BOOLEAN /\ held \subseteq Clients
  /\ \A c \in Clients : Live(c) => open
  /\ at # None => (abort <=> ~Live(at))
  /\ (accept # None) <=> open
  /\ HeldIsBusy /\ StatesAgree

EachKept ==
  \A c \in Clients : Kept(session[c]) /\ (Live(c) => Duplex(session[c], at = c))

LEMMA Parts ==
  ServerInv <=> session \in [Clients -> Sessions] /\ Controlled /\ EachKept
<1>1. ASSUME session \in [Clients -> Sessions], NEW c \in Clients
      PROVE  session[c] \in Sessions
  BY <1>1
<1>2. TypeOK <=>
        /\ session \in [Clients -> Sessions]
        /\ open \in BOOLEAN /\ accept \in {None, Waits, Failed} \cup Clients
        /\ at \in Clients \cup {None} /\ abort \in BOOLEAN /\ held \subseteq Clients
        /\ \A c \in Clients : Live(c) => open
        /\ at # None => (abort <=> ~Live(at))
        /\ (accept # None) <=> open
        /\ \A c \in Clients : session[c].state # "open" => Idle(session[c])
  BY DEF TypeOK, Idle, Live
<1>3. HalfDuplex <=> \A c \in Clients : Live(c) => Duplex(session[c], at = c)
  BY DEF HalfDuplex, Duplex
<1>4. ServedInOrder <=>
        \A c \in Clients : session[c].state = "open" =>
                             InOrder(session[c]) /\ OutOrder(session[c])
  BY DEF ServedInOrder, Live, InOrder, OutOrder, Output, Answered
<1>5. SessionsFit <=> \A c \in Clients : Fits(session[c])
  BY DEF SessionsFit, Fits
<1>6. QED
  BY <1>1, <1>2, <1>3, <1>4, <1>5 DEF ServerInv, ServerSound, Controlled, EachKept, Kept

-----------------------------------------------------------------------------
(* What the functions of server.c do with a session. *)

LEMMA RestTyped ==
  ASSUME NEW r \in Sessions, r.offset <= Len(r.input)
  PROVE  /\ Rest(r) \in Seq(Bytes)
         /\ Len(Rest(r)) = Len(r.input) - r.offset
         /\ \A k \in 1 .. Len(Rest(r)) : Rest(r)[k] = r.input[k + r.offset]
<1> DEFINE n == Len(r.input)
           o == r.offset
           s == r.input
           S == Bytes
<1>1. s \in Seq(S) /\ n \in Nat /\ o \in Nat /\ o <= n /\ n = Len(s)
  BY FieldsTyped
<1>2. Rest(r) = SubSeq(s, o + 1, n)
  BY DEF Rest
<1> HIDE DEF n, o, s, S
<1>3. SubSeq(s, o + 1, n) = [k \in 1 .. n - o |-> s[k + o]]
  BY <1>1
<1>4. \A k \in 1 .. n - o : k + o \in 1 .. Len(s)
  BY <1>1
<1>5. [k \in 1 .. n - o |-> s[k + o]] \in Seq(S)
  BY <1>1, <1>4
<1>6. Len([k \in 1 .. n - o |-> s[k + o]]) = n - o
  BY <1>1
<1>7. QED BY <1>2, <1>3, <1>5, <1>6 DEF n, o, s, S

\* server_flush
LEMMA FlushIs ==
  ASSUME NEW r \in Sessions
  PROVE  /\ Flush(r) \in Sessions
         /\ Flush(r).state = r.state /\ Flush(r).input = r.input
         /\ Flush(r).offset = r.offset /\ Flush(r).read = r.read
         /\ Flush(r).batch = r.batch /\ Flush(r).busy = r.busy
         /\ Flush(r).sent = r.sent /\ Flush(r).bad = r.bad
         /\ Flush(r).called = r.called /\ Flush(r).got = r.got
         /\ IF Flushed(r) \/ r.write # None THEN Flush(r) = r
            ELSE /\ Flush(r).data = r.dataNext /\ Flush(r).dataNext = r.data
                 /\ Flush(r).write = Waits
  BY DEF Flush, Sessions

\* server_read
LEMMA ReadIs ==
  ASSUME NEW r \in Sessions, r.offset <= Len(r.input)
  PROVE  /\ Read(r) \in Sessions
         /\ Read(r).input = Rest(r) /\ Read(r).offset = 0 /\ Read(r).read = Waits
         /\ Read(r).state = r.state /\ Read(r).batch = r.batch
         /\ Read(r).data = r.data /\ Read(r).dataNext = r.dataNext
         /\ Read(r).write = r.write /\ Read(r).busy = r.busy
         /\ Read(r).sent = r.sent /\ Read(r).bad = r.bad
         /\ Read(r).called = r.called /\ Read(r).got = r.got
<1>1. Rest(r) \in Seq(Bytes)
  BY RestTyped
<1>2. QED BY <1>1 DEF Read, Sessions

\* stream_destruct
LEMMA GoneKept ==
  ASSUME NEW r \in Sessions, 2 * r.called <= r.sent
  PROVE  Kept(Gone(r)) /\ Gone(r).state = "gone" /\ Gone(r).read = None
         /\ Gone(r).called = r.called
<1>1. <<>> \in Seq(Bytes) /\ <<>> \in Seq(Numbers)
  OBVIOUS
<1>2. Gone(r) \in Sessions
  BY <1>1, FieldsTyped DEF Gone, Sessions
<1>3. /\ Gone(r).state = "gone" /\ Gone(r).read = None
      /\ Gone(r).input = <<>> /\ Gone(r).offset = 0 /\ Gone(r).batch = <<>>
      /\ Gone(r).data = <<>> /\ Gone(r).write = None /\ Gone(r).busy = FALSE
      /\ Gone(r).called = r.called /\ Gone(r).sent = r.sent
  BY DEF Gone, Sessions
<1>4. Len(<<>>) = 0
  OBVIOUS
<1>5. QED BY <1>2, <1>3, <1>4 DEF Kept, Fits, Idle

\* The order of the output after a flush, which only swaps an empty buffer.
LEMMA FlushKept ==
  ASSUME NEW r, Kept(r), r.state = "open"
  PROVE  /\ Kept(Flush(r)) /\ Flush(r).state = "open"
         /\ ~Flushed(r) => Flush(r).write # None
<1>1. r \in Sessions /\ Fits(r) /\ InOrder(r) /\ OutOrder(r)
  BY DEF Kept
<1> DEFINE q == Flush(r)
<1>2. /\ q \in Sessions
      /\ q.state = r.state /\ q.input = r.input /\ q.offset = r.offset
      /\ q.read = r.read /\ q.batch = r.batch /\ q.busy = r.busy
      /\ q.sent = r.sent /\ q.called = r.called /\ q.got = r.got
      /\ IF Flushed(r) \/ r.write # None THEN q = r
         ELSE /\ q.data = r.dataNext /\ q.dataNext = r.data /\ q.write = Waits
  BY <1>1, FlushIs
<1> HIDE DEF q
<1>3. Rest(q) = Rest(r)
  BY <1>2 DEF Rest
<1>4. CASE Flushed(r) \/ r.write # None
  BY <1>2, <1>4 DEF q
<1>5. CASE ~(Flushed(r) \/ r.write # None)
  <2>1. r.data = <<>> /\ r.dataNext # <<>>
    BY <1>1, <1>5 DEF Fits, Flushed
  <2>2. q.write # None /\ q.write # Done /\ q.data # <<>>
    BY <1>2, <1>5, <2>1, BoundsTyped
  <2>3. Fits(q)
    BY <1>1, <1>2, <2>2 DEF Fits
  <2>4. InOrder(q)
    BY <1>1, <1>2, <1>3 DEF InOrder
  <2>5. Output(q) = Output(r)
    <3> DEFINE s == r.got
               t == r.dataNext
               S == Numbers
    <3>1. s \in Seq(S) /\ t \in Seq(S)
      BY <1>1, FieldsTyped
    <3>2. Output(r) = s \o <<>> \o t
      BY <1>5, <2>1, BoundsTyped DEF Output
    <3>3. Output(q) = s \o t \o <<>>
      BY <1>2, <1>5, <2>1, <2>2 DEF Output
    <3> HIDE DEF s, t, S
    <3>4. s \o t \in Seq(S)
      BY <3>1, ConcatProperties
    <3>5. s \o <<>> = s /\ s \o t \o <<>> = s \o t
      BY <3>1, <3>4, ConcatEmptySeq
    <3>6. QED BY <3>2, <3>3, <3>5
  <2>6. OutOrder(q)
    BY <1>1, <1>2, <2>5 DEF OutOrder, Answered
  <2>7. QED BY <1>2, <2>2, <2>3, <2>4, <2>6 DEF Kept, q
<1>6. QED BY <1>4, <1>5

\* What is left of the input stays what it is when it moves to the front.
LEMMA ReadKept ==
  ASSUME NEW r, Kept(r), r.state = "open", r.read # Done, Flushed(r), ~r.busy
  PROVE  /\ Kept(Read(r)) /\ Read(r).state = "open" /\ Duplex(Read(r), FALSE)
         /\ ~Read(r).busy
<1>1. r \in Sessions /\ Fits(r) /\ InOrder(r) /\ OutOrder(r)
  BY DEF Kept
<1> DEFINE q == Read(r)
<1>2. /\ q \in Sessions
      /\ q.input = Rest(r) /\ q.offset = 0 /\ q.read = Waits
      /\ q.state = r.state /\ q.batch = r.batch
      /\ q.data = r.data /\ q.dataNext = r.dataNext
      /\ q.write = r.write /\ q.busy = r.busy
      /\ q.sent = r.sent /\ q.called = r.called /\ q.got = r.got
  BY <1>1, ReadIs DEF Fits
<1> HIDE DEF q
<1>3. Rest(r) \in Seq(Bytes)
  BY <1>1, RestTyped DEF Fits
<1>4. Rest(q) = Rest(r)
  <2>1. Rest(q) = SubSeq(Rest(r), 0 + 1, Len(Rest(r)))
    BY <1>2 DEF Rest
  <2> DEFINE s == Rest(r)
             S == Bytes
  <2>2. s \in Seq(S)
    BY <1>3
  <2> HIDE DEF s, S
  <2>3. SubSeq(s, 1, Len(s)) = s
    BY <2>2, SubSeqFull
  <2>4. 0 + 1 = 1
    OBVIOUS
  <2>5. QED BY <2>1, <2>3, <2>4 DEF s
<1>5. r.batch = <<>> /\ r.write = None
  BY <1>1 DEF Fits, Flushed
<1>6. Fits(q)
  <2>1. q.offset <= Len(q.input)
    BY <1>2, <1>3
  <2>2. q.state \notin {"new", "accepted"}
    BY <1>2
  <2>3. QED BY <1>1, <1>2, <1>5, <2>1, <2>2 DEF Fits
<1>7. InOrder(q)
  BY <1>1, <1>2, <1>4 DEF InOrder
<1>8. OutOrder(q)
  BY <1>1, <1>2 DEF OutOrder, Output, Answered
<1>9. Duplex(q, FALSE)
  BY <1>2, <1>5, BoundsTyped DEF Duplex, Flushed
<1>10. QED BY <1>2, <1>6, <1>7, <1>8, <1>9 DEF Kept, q

\* server_io: a session without a request in progress writes or reads.
LEMMA IOKept ==
  ASSUME NEW r, Kept(r), r.state = "open", r.read = None, ~r.busy
  PROVE  /\ Kept(IO(r)) /\ IO(r).state = "open" /\ Duplex(IO(r), FALSE)
         /\ ~IO(r).busy
<1>1. r \in Sessions
  BY DEF Kept
<1>2. CASE Flushed(r)
  BY <1>2, ReadKept, BoundsTyped DEF IO
<1>3. CASE ~Flushed(r)
  <2> DEFINE q == Flush(r)
  <2>1. Kept(q) /\ q.state = "open" /\ q.write # None
    BY <1>3, FlushKept
  <2>2. q.read = None /\ q.busy = r.busy
    BY <1>1, FlushIs
  <2>3. IO(r) = q
    BY <1>3 DEF IO
  <2> HIDE DEF q
  <2>4. QED BY <2>1, <2>2, <2>3 DEF Duplex
<1>4. QED BY <1>2, <1>3

\* A write is told to be over: data is free again.
LEMMA SentKept ==
  ASSUME NEW r, Kept(r), r.state = "open", r.write # None,
         NEW q, q = [r EXCEPT !.write = None, !.data = <<>>]
  PROVE  /\ q \in Sessions /\ q.state = "open" /\ q.busy = r.busy /\ q.read = r.read
         /\ q.called = r.called /\ q.sent = r.sent /\ q.input = r.input
         /\ 2 * q.called <= q.sent
         /\ r.write = Done => Kept(q)
<1>1. r \in Sessions /\ Fits(r) /\ InOrder(r) /\ OutOrder(r)
  BY DEF Kept
<1>2. <<>> \in Seq(Numbers)
  OBVIOUS
<1>3. /\ q \in Sessions /\ q.write = None /\ q.data = <<>>
      /\ q.state = r.state /\ q.input = r.input /\ q.offset = r.offset
      /\ q.read = r.read /\ q.batch = r.batch /\ q.busy = r.busy
      /\ q.dataNext = r.dataNext
      /\ q.sent = r.sent /\ q.called = r.called /\ q.got = r.got
  BY <1>1, <1>2 DEF Sessions
<1>4. Fits(q)
  BY <1>1, <1>3 DEF Fits
<1>5. ASSUME r.write = Done
      PROVE  Kept(q)
  <2>1. Output(q) = Output(r)
    BY <1>3, <1>5, BoundsTyped DEF Output
  <2>2. Rest(q) = Rest(r)
    BY <1>3 DEF Rest
  <2>3. InOrder(q) /\ OutOrder(q)
    BY <1>1, <1>3, <2>1, <2>2 DEF InOrder, OutOrder, Answered
  <2>4. QED BY <1>3, <1>4, <2>3 DEF Kept
<1>6. QED BY <1>1, <1>3, <1>5 DEF Fits

\* Bytes that have arrived are put behind the input.
LEMMA ArrivedKept ==
  ASSUME NEW r, Kept(r), r.state = "open", r.read = Done,
         NEW q, q = [r EXCEPT !.read = None, !.input = r.input \o r.batch, !.batch = <<>>]
  PROVE  /\ Kept(q) /\ q.state = "open" /\ q.read = None /\ q.busy = r.busy
         /\ q.called = r.called /\ q.sent = r.sent
<1>1. r \in Sessions /\ Fits(r) /\ InOrder(r) /\ OutOrder(r)
  BY DEF Kept
<1> DEFINE s == r.input
           t == r.batch
           o == r.offset
           S == Bytes
<1>2. s \in Seq(S) /\ t \in Seq(S) /\ o \in Nat /\ o <= Len(s) /\ <<>> \in Seq(S)
  BY <1>1, FieldsTyped DEF Fits
<1>3. /\ q.input = s \o t /\ q.read = None /\ q.batch = <<>>
      /\ q.state = r.state /\ q.offset = o
      /\ q.write = r.write /\ q.busy = r.busy
      /\ q.data = r.data /\ q.dataNext = r.dataNext
      /\ q.sent = r.sent /\ q.called = r.called /\ q.got = r.got
  BY <1>1 DEF Sessions
<1>4. s \o t \in Seq(S) /\ Len(s \o t) = Len(s) + Len(t) /\ Len(t) \in Nat /\ Len(s) \in Nat
  <2> HIDE DEF s, t, S
  <2>1. QED BY <1>2, ConcatProperties
<1>5. q \in Sessions
  BY <1>1, <1>2, <1>4 DEF Sessions
<1>6. Rest(q) = Rest(r) \o t
  <2>1. Rest(q) = SubSeq(s \o t, o + 1, Len(s \o t)) /\ Rest(r) = SubSeq(s, o + 1, Len(s))
    BY <1>3 DEF Rest
  <2> HIDE DEF s, t, o, S
  <2>2. SubSeq(s \o t, o + 1, Len(s \o t)) = SubSeq(s, o + 1, Len(s)) \o t
    BY <1>2, RestJoins
  <2>3. QED BY <2>1, <2>2
<1>7. Fits(q)
  <2>1. q.offset <= Len(q.input)
    <3> HIDE DEF s, t, o
    <3>1. o <= Len(s) + Len(t)
      BY <1>2, <1>4
    <3>2. QED BY <1>3, <1>4, <3>1
  <2>2. QED BY <1>1, <1>3, <2>1 DEF Fits
<1>8. InOrder(q)
  <2>1. Rest(q) \o <<>> = Rest(q)
    <3>1. Rest(q) \in Seq(Bytes)
      BY <1>5, <1>7, RestTyped DEF Fits
    <3>2. QED BY <3>1, ConcatEmptySeq
  <2>2. QED BY <1>1, <1>3, <1>6, <2>1 DEF InOrder
<1>9. OutOrder(q)
  BY <1>1, <1>3 DEF OutOrder, Output, Answered
<1>10. QED BY <1>3, <1>5, <1>7, <1>8, <1>9 DEF Kept

\* Two bytes less: the numbers of what is left.
LEMMA TwoTaken ==
  ASSUME NEW n \in Nat, NEW m \in Nat, NEW o \in Nat, NEW l \in Nat, NEW N \in Nat,
         2 * n <= m, m <= 2 * N, o <= l, l - o = m - 2 * n, l - o >= 2
  PROVE  /\ n + 1 \in 0 .. N /\ n + 1 > 0 /\ n + 1 # n /\ (n + 1) - 1 = n
         /\ o + 2 \in Nat /\ o + 2 <= l /\ 2 * (n + 1) <= m
         /\ m - 2 * (n + 1) \in Nat /\ m - 2 * (n + 1) = l - (o + 2)
         /\ \A k \in 1 .. m - 2 * (n + 1) :
              /\ k + 2 \in 1 .. m - 2 * n /\ k + (o + 2) = (k + 2) + o
              /\ 2 * n + (k + 2) = 2 * (n + 1) + k
  OBVIOUS

\* The next request is taken from the front of the input, when all of it is there.
LEMMA ServedKept ==
  ASSUME NEW r, Kept(r), r.state = "open", r.read = None, ~r.busy, Len(Rest(r)) >= 2,
         NEW q, q = [r EXCEPT !.offset = r.offset + 2, !.busy = TRUE, !.called = r.called + 1]
  PROVE  /\ Kept(q) /\ q.state = "open" /\ q.busy /\ q.read = None
         /\ q.called = r.called + 1 /\ q.called # r.called
<1>1. r \in Sessions /\ Fits(r) /\ InOrder(r) /\ OutOrder(r)
  BY DEF Kept
<1> DEFINE n == r.called
           m == r.sent
           o == r.offset
           e == Rest(r)
           l == Len(r.input)
<1>2. /\ n \in Nat /\ m \in Nat /\ o \in Nat /\ 2 * n <= m /\ m <= 2 * MaxRequests
      /\ l \in Nat /\ o <= l
  BY <1>1, FieldsTyped, BoundsTyped DEF Fits
<1>3. /\ e \in Seq(Bytes) /\ Len(e) = l - o
      /\ \A k \in 1 .. Len(e) : e[k] = r.input[k + o]
  BY <1>1, RestTyped DEF Fits
<1>4. e = [k \in 1 .. m - 2 * n |-> 2 * n + k]
  <2>1. r.batch = <<>>
    BY <1>1, BoundsTyped DEF Fits
  <2>2. e \o <<>> = e
    BY <1>3, ConcatEmptySeq
  <2>3. QED BY <1>1, <2>1, <2>2 DEF InOrder
<1>5. /\ q.offset = o + 2 /\ q.busy = TRUE /\ q.called = n + 1 /\ q.read = r.read
      /\ q.input = r.input /\ q.batch = r.batch /\ q.state = r.state
      /\ q.write = r.write /\ q.data = r.data /\ q.dataNext = r.dataNext
      /\ q.sent = m /\ q.got = r.got
  BY <1>1 DEF Sessions
<1>6. Len(e) = m - 2 * n /\ \A k \in 1 .. m - 2 * n : e[k] = 2 * n + k
  <2>1. m - 2 * n \in Nat
    BY <1>2
  <2> DEFINE f == [k \in 1 .. m - 2 * n |-> 2 * n + k]
  <2>2. Len(f) = m - 2 * n /\ \A k \in 1 .. m - 2 * n : f[k] = 2 * n + k
    BY <2>1
  <2> HIDE DEF f, e, n, m
  <2>3. e = f
    BY <1>4 DEF f
  <2>4. QED BY <2>2, <2>3
<1>7. /\ n + 1 \in 0 .. MaxRequests /\ n + 1 > 0 /\ n + 1 # n /\ (n + 1) - 1 = n
      /\ o + 2 \in Nat /\ o + 2 <= l /\ 2 * (n + 1) <= m
      /\ m - 2 * (n + 1) \in Nat /\ m - 2 * (n + 1) = l - (o + 2)
      /\ \A k \in 1 .. m - 2 * (n + 1) :
           /\ k + 2 \in 1 .. m - 2 * n /\ k + (o + 2) = (k + 2) + o
           /\ 2 * n + (k + 2) = 2 * (n + 1) + k
  <2>1. Len(e) >= 2 /\ MaxRequests \in Nat
    BY BoundsTyped
  <2> HIDE DEF e, n, m, o, l
  <2>2. l - o = m - 2 * n /\ l - o >= 2
    BY <1>3, <1>6, <2>1
  <2>3. /\ n \in Nat /\ m \in Nat /\ o \in Nat /\ l \in Nat /\ MaxRequests \in Nat
        /\ 2 * n <= m /\ m <= 2 * MaxRequests /\ o <= l
    BY <1>2, <2>1
  <2>4. QED BY ONLY <2>2, <2>3, TwoTaken
<1>8. q \in Sessions
  BY <1>1, <1>7 DEF Sessions
<1>9. Fits(q)
  BY <1>1, <1>5, <1>7 DEF Fits
<1>10. InOrder(q)
  <2> DEFINE g == Rest(q)
  <2>1. /\ g \in Seq(Bytes) /\ Len(g) = Len(q.input) - q.offset
        /\ \A k \in 1 .. Len(g) : g[k] = q.input[k + q.offset]
    BY <1>8, <1>9, RestTyped DEF Fits
  <2> HIDE DEF g, e, n, m, o
  <2>2. /\ Len(g) = m - 2 * (n + 1)
        /\ \A k \in 1 .. Len(g) : g[k] = r.input[k + (o + 2)]
    BY <1>5, <1>7, <2>1
  <2>3. ASSUME NEW k \in 1 .. m - 2 * (n + 1)
        PROVE  g[k] = 2 * (n + 1) + k
    <3> DEFINE j == k + 2
    <3>1. j \in 1 .. m - 2 * n /\ k + (o + 2) = j + o /\ 2 * n + j = 2 * (n + 1) + k
      BY <1>7
    <3>2. g[k] = r.input[j + o]
      BY <2>2, <3>1
    <3> HIDE DEF j
    <3>3. e[j] = r.input[j + o] /\ e[j] = 2 * n + j
      BY <1>3, <1>6, <3>1
    <3>4. QED BY <3>1, <3>2, <3>3
  <2>4. g = [k \in 1 .. m - 2 * (n + 1) |-> 2 * (n + 1) + k]
    <3>1. DOMAIN g = 1 .. m - 2 * (n + 1) /\ g = [k \in DOMAIN g |-> g[k]]
      BY <2>1, <2>2
    <3>2. QED BY <2>3, <3>1
  <2>5. q.batch = <<>>
    BY <1>1, <1>5, BoundsTyped DEF Fits
  <2>6. g \o <<>> = g
    BY <2>1, ConcatEmptySeq
  <2>7. q.sent = m /\ q.called = n + 1
    BY <1>5 DEF n, m
  <2>8. QED BY <2>4, <2>5, <2>6, <2>7 DEF InOrder, g
<1>11. OutOrder(q)
  <2>1. Answered(q) = Answered(r)
    BY <1>5, <1>7 DEF Answered
  <2>2. Output(q) = Output(r)
    BY <1>5 DEF Output
  <2>3. QED BY <1>1, <2>1, <2>2 DEF OutOrder
<1>12. QED BY <1>5, <1>7, <1>8, <1>9, <1>10, <1>11 DEF Kept

\* A request has its response.
LEMMA RespondedKept ==
  ASSUME NEW r, Kept(r), r.state = "open", r.busy,
         NEW q, q = [r EXCEPT !.busy = FALSE, !.dataNext = Append(r.dataNext, r.called)]
  PROVE  /\ Kept(q) /\ q.state = "open" /\ ~q.busy /\ q.dataNext # <<>>
         /\ q.read = r.read /\ q.write = r.write /\ q.input = r.input
         /\ q.called = r.called /\ ~Flushed(q)
<1>1. r \in Sessions /\ Fits(r) /\ InOrder(r) /\ OutOrder(r)
  BY DEF Kept
<1> DEFINE n == r.called
           s == r.got \o (IF r.write = Done THEN <<>> ELSE r.data)
           t == r.dataNext
           S == Numbers
<1>2. n \in Nat /\ n > 0 /\ n \in S /\ t \in Seq(S) /\ s \in Seq(S)
  <2>1. n \in 0 .. MaxRequests /\ n > 0
    BY <1>1, FieldsTyped DEF Fits
  <2>2. n \in Nat /\ n \in S
    BY <2>1, BoundsTyped DEF Numbers
  <2> DEFINE u == IF r.write = Done THEN <<>> ELSE r.data
             g == r.got
  <2>3. u \in Seq(S) /\ g \in Seq(S) /\ t \in Seq(S)
    <3>1. <<>> \in Seq(S)
      OBVIOUS
    <3>2. QED BY <1>1, <3>1, FieldsTyped
  <2> HIDE DEF u, g, S, n
  <2>4. g \o u \in Seq(S)
    BY <2>3, ConcatProperties
  <2>5. QED BY <2>1, <2>2, <2>3, <2>4 DEF u, g
<1>3. Append(t, n) \in Seq(S) /\ Append(t, n) # <<>>
  <2> HIDE DEF t, n, S
  <2>1. QED BY <1>2, AppendProperties
<1>4. /\ q.busy = FALSE /\ q.dataNext = Append(t, n)
      /\ q.offset = r.offset /\ q.called = r.called /\ q.read = r.read
      /\ q.input = r.input /\ q.batch = r.batch /\ q.state = r.state
      /\ q.write = r.write /\ q.data = r.data
      /\ q.sent = r.sent /\ q.got = r.got
  BY <1>1 DEF Sessions
<1>5. q \in Sessions
  BY <1>1, <1>3 DEF Sessions
<1>6. Fits(q)
  BY <1>1, <1>4 DEF Fits
<1>7. InOrder(q)
  <2>1. Rest(q) = Rest(r)
    BY <1>4 DEF Rest
  <2>2. QED BY <1>1, <1>4, <2>1 DEF InOrder
<1>8. OutOrder(q)
  <2>1. Output(r) = s \o t /\ Output(q) = s \o Append(t, n)
    BY <1>4 DEF Output
  <2>2. Output(r) = [k \in 1 .. n - 1 |-> k] /\ Answered(q) = n
    BY <1>1, <1>4 DEF OutOrder, Answered
  <2> HIDE DEF s, t, n, S
  <2>3. s \o Append(t, n) = Append(s \o t, n)
    <3>1. s \in Seq(S) /\ t \in Seq(S) /\ n \in S
      BY <1>2
    <3>2. QED BY <3>1
  <2>4. s \o t = [k \in 1 .. n - 1 |-> k]
    BY <2>1, <2>2
  <2>5. Append([k \in 1 .. n - 1 |-> k], n) = [k \in 1 .. n |-> k]
    <3>1. n \in Nat /\ n > 0
      BY <1>2
    <3>2. QED BY <3>1
  <2>6. QED BY <2>1, <2>2, <2>3, <2>4, <2>5 DEF OutOrder
<1>9. QED BY <1>3, <1>4, <1>5, <1>6, <1>7, <1>8 DEF Kept, Flushed

\* The kernel has read n bytes that the client sent after the others.
LEMMA KernelReadKept ==
  ASSUME NEW r, Kept(r), r.state = "open", r.read = Waits,
         NEW n \in Bytes, r.sent + n <= 2 * MaxRequests,
         NEW b, b = Counted(r.sent, n),
         NEW q, q = [r EXCEPT !.read = Done, !.sent = r.sent + n, !.batch = b]
  PROVE  Steady(r, q)
<1>1. r \in Sessions /\ Fits(r) /\ InOrder(r) /\ OutOrder(r)
  BY DEF Kept
<1> DEFINE a == 2 * r.called
           m == r.sent
<1>2. /\ a \in Nat /\ m \in Nat /\ a <= m /\ m - a \in Nat /\ a + (m - a) = m
      /\ n \in Nat /\ m + n \in 0 .. 2 * MaxRequests /\ (m - a) + n = (m + n) - a
      /\ a <= m + n /\ 2 * MaxRequests \in Nat
  <2>1. r.called \in Nat /\ m \in Nat /\ a <= m
    BY <1>1, FieldsTyped, BoundsTyped DEF Fits
  <2>2. a \in Nat
    BY <2>1
  <2>3. n \in Nat /\ MaxRequests \in Nat /\ m + n <= 2 * MaxRequests
    BY BoundsTyped DEF Bytes
  <2> HIDE DEF a, m
  <2>4. QED BY <2>1, <2>2, <2>3
<1>3. b = Counted(m, n)
  OBVIOUS
<1>4. b \in Seq(Bytes)
  <2> HIDE DEF m
  <2>1. m + n <= 2 * MaxRequests
    BY <1>2
  <2>2. QED BY <1>2, <1>3, <2>1, CountedTyped DEF Bytes
<1>5. /\ q.read = Done /\ q.sent = m + n /\ q.batch = b
      /\ q.offset = r.offset /\ q.called = r.called /\ q.busy = r.busy
      /\ q.input = r.input /\ q.state = r.state /\ q.dataNext = r.dataNext
      /\ q.write = r.write /\ q.data = r.data /\ q.got = r.got
  BY <1>1 DEF Sessions
<1>6. q \in Sessions
  BY <1>1, <1>2, <1>4, BoundsTyped DEF Sessions
<1>7. Fits(q)
  <2>1. 2 * q.called <= q.sent
    BY <1>2, <1>5
  <2>2. QED BY <1>1, <1>5, <2>1 DEF Fits
<1>8. InOrder(q)
  <2>1. Rest(q) = Rest(r)
    BY <1>5 DEF Rest
  <2>2. Rest(r) \in Seq(Bytes)
    BY <1>1, RestTyped DEF Fits
  <2>3. r.batch = <<>>
    BY <1>1, BoundsTyped DEF Fits
  <2>4. Rest(r) = Counted(a, m - a)
    <3>1. Rest(r) \o <<>> = Rest(r)
      BY <2>2, ConcatEmptySeq
    <3>2. QED BY <1>1, <2>3, <3>1 DEF InOrder, Counted
  <2> DEFINE x == m - a
  <2> HIDE DEF x, a, m
  <2>5. Counted(a, x) \o Counted(a + x, n) = Counted(a, x + n)
    BY <1>2, CountedJoins, ZenonT(30) DEF x
  <2>6. Rest(q) \o q.batch = Counted(a, (m + n) - a)
    BY <1>2, <1>3, <1>5, <2>1, <2>4, <2>5 DEF x
  <2>7. q.sent - 2 * q.called = (m + n) - a /\ 2 * q.called = a
    BY <1>5 DEF a
  <2>8. Rest(q) \o q.batch = Counted(2 * q.called, q.sent - 2 * q.called)
    BY <2>6, <2>7
  <2>9. QED BY <2>8 DEF InOrder, Counted
<1>9. OutOrder(q)
  BY <1>1, <1>5 DEF OutOrder, Output, Answered
<1>10. ASSUME NEW here \in BOOLEAN, Duplex(r, here)
       PROVE  Duplex(q, here)
  BY <1>5, <1>10, BoundsTyped DEF Duplex, Flushed
<1>11. QED BY <1>5, <1>6, <1>7, <1>8, <1>9, <1>10 DEF Kept, Steady

\* It has failed.
LEMMA KernelReadFailsKept ==
  ASSUME NEW r, Kept(r), r.state = "open", r.read = Waits,
         NEW q, q = [r EXCEPT !.read = Failed]
  PROVE  Steady(r, q)
<1>1. r \in Sessions /\ Fits(r) /\ InOrder(r) /\ OutOrder(r)
  BY DEF Kept
<1>2. /\ q \in Sessions /\ q.read = Failed /\ q.sent = r.sent /\ q.batch = r.batch
      /\ q.offset = r.offset /\ q.called = r.called /\ q.busy = r.busy
      /\ q.input = r.input /\ q.state = r.state /\ q.dataNext = r.dataNext
      /\ q.write = r.write /\ q.data = r.data /\ q.got = r.got
  BY <1>1 DEF Sessions
<1>3. Fits(q)
  BY <1>1, <1>2, BoundsTyped DEF Fits
<1>4. InOrder(q) /\ OutOrder(q)
  <2>1. Rest(q) = Rest(r) /\ Output(q) = Output(r)
    BY <1>2 DEF Rest, Output
  <2>2. QED BY <1>1, <1>2, <2>1 DEF InOrder, OutOrder, Answered
<1>5. ASSUME NEW here \in BOOLEAN, Duplex(r, here)
      PROVE  Duplex(q, here)
  BY <1>2, <1>5, BoundsTyped DEF Duplex, Flushed
<1>6. QED BY <1>2, <1>3, <1>4, <1>5 DEF Kept, Steady

\* The client has received what was written.
LEMMA KernelWriteKept ==
  ASSUME NEW r, Kept(r), r.state = "open", r.write = Waits,
         NEW g, g = r.got \o r.data,
         NEW q, q = [r EXCEPT !.write = Done, !.got = g]
  PROVE  Steady(r, q)
<1>1. r \in Sessions /\ Fits(r) /\ InOrder(r) /\ OutOrder(r)
  BY DEF Kept
<1> DEFINE s == r.got
           t == r.data
           u == r.dataNext
           S == Numbers
<1>2. s \in Seq(S) /\ t \in Seq(S) /\ u \in Seq(S) /\ s \o t \in Seq(S)
  <2>1. s \in Seq(S) /\ t \in Seq(S) /\ u \in Seq(S)
    BY <1>1, FieldsTyped
  <2> HIDE DEF s, t, u, S
  <2>2. QED BY <2>1, ConcatProperties
<1>3. /\ q.write = Done /\ q.got = s \o t /\ q.read = r.read
      /\ q.sent = r.sent /\ q.batch = r.batch
      /\ q.offset = r.offset /\ q.called = r.called /\ q.busy = r.busy
      /\ q.input = r.input /\ q.state = r.state /\ q.dataNext = r.dataNext
      /\ q.data = r.data
  BY <1>1 DEF Sessions
<1>4. q \in Sessions
  BY <1>1, <1>2 DEF Sessions
<1>5. Fits(q)
  BY <1>1, <1>3, BoundsTyped DEF Fits
<1>6. InOrder(q)
  BY <1>1, <1>3 DEF InOrder, Rest
<1>7. Output(q) = Output(r)
  <2>1. Output(r) = s \o t \o u
    BY BoundsTyped DEF Output
  <2>2. Output(q) = (s \o t) \o <<>> \o u
    BY <1>3 DEF Output
  <2> HIDE DEF s, t, u, S
  <2>3. (s \o t) \o <<>> = s \o t
    BY <1>2, ConcatEmptySeq
  <2>4. QED BY <2>1, <2>2, <2>3
<1>8. OutOrder(q)
  BY <1>1, <1>3, <1>7 DEF OutOrder, Answered
<1>9. ASSUME NEW here \in BOOLEAN, Duplex(r, here)
      PROVE  Duplex(q, here)
  BY <1>3, <1>9, BoundsTyped DEF Duplex, Flushed
<1>10. QED BY <1>3, <1>4, <1>5, <1>6, <1>8, <1>9 DEF Kept, Steady

\* The client could not be written to.
LEMMA KernelWriteFailsKept ==
  ASSUME NEW r, Kept(r), r.state = "open", r.write = Waits,
         NEW q, q = [r EXCEPT !.write = Failed]
  PROVE  Steady(r, q)
<1>1. r \in Sessions /\ Fits(r) /\ InOrder(r) /\ OutOrder(r)
  BY DEF Kept
<1>2. /\ q \in Sessions /\ q.read = r.read /\ q.sent = r.sent /\ q.batch = r.batch
      /\ q.offset = r.offset /\ q.called = r.called /\ q.busy = r.busy
      /\ q.input = r.input /\ q.state = r.state /\ q.dataNext = r.dataNext
      /\ q.write = Failed /\ q.data = r.data /\ q.got = r.got
  BY <1>1 DEF Sessions
<1>3. Fits(q)
  BY <1>1, <1>2, BoundsTyped DEF Fits
<1>4. Output(q) = Output(r)
  BY <1>2, BoundsTyped DEF Output
<1>5. InOrder(q) /\ OutOrder(q)
  BY <1>1, <1>2, <1>4 DEF InOrder, Rest, OutOrder, Answered
<1>6. ASSUME NEW here \in BOOLEAN, Duplex(r, here)
      PROVE  Duplex(q, here)
  BY <1>2, <1>6, BoundsTyped DEF Duplex, Flushed
<1>7. QED BY <1>2, <1>3, <1>5, <1>6 DEF Kept, Steady

\* A connection becomes a session, which reads.
LEMMA AcceptedKept ==
  ASSUME NEW r, Kept(r), r.state \in {"new", "accepted"},
         NEW q, q = [r EXCEPT !.state = "open"]
  PROVE  /\ Kept(Read(q)) /\ Read(q).state = "open" /\ Duplex(Read(q), FALSE)
         /\ ~Read(q).busy
<1>1. /\ r \in Sessions /\ Fits(r) /\ Idle(r)
      /\ r.input = <<>> /\ r.offset = 0 /\ r.data = <<>> /\ r.dataNext = <<>>
      /\ r.sent = 0 /\ r.called = 0 /\ r.got = <<>> /\ r.batch = <<>>
  BY BoundsTyped DEF Kept, Fits, Idle
<1>2. /\ q \in Sessions /\ q.state = "open" /\ q.read = None /\ q.write = None
      /\ q.busy = FALSE /\ q.input = <<>> /\ q.offset = 0 /\ q.batch = <<>>
      /\ q.data = <<>> /\ q.dataNext = <<>>
      /\ q.sent = 0 /\ q.called = 0 /\ q.got = <<>>
  BY <1>1 DEF Sessions, Idle
<1>3. Fits(q)
  BY <1>1, <1>2, BoundsTyped DEF Fits
<1>4. <<>> \o <<>> = <<>> /\ Len(<<>>) = 0
  OBVIOUS
<1>5. InOrder(q)
  <2>1. Rest(q) = SubSeq(<<>>, 0 + 1, Len(<<>>))
    BY <1>2 DEF Rest
  <2>2. SubSeq(<<>>, 0 + 1, 0) = <<>>
    OBVIOUS
  <2>3. [k \in 1 .. 0 - 2 * 0 |-> 2 * 0 + k] = <<>>
    OBVIOUS
  <2>4. QED BY <1>2, <1>4, <2>1, <2>2, <2>3 DEF InOrder
<1>6. OutOrder(q)
  <2>1. [k \in 1 .. 0 |-> k] = <<>>
    OBVIOUS
  <2>2. QED BY <1>2, <1>4, <2>1 DEF OutOrder, Output, Answered
<1>7. Kept(q) /\ Flushed(q)
  BY <1>2, <1>3, <1>5, <1>6 DEF Kept, Flushed
<1>8. QED BY <1>2, <1>7, ReadKept, BoundsTyped

-----------------------------------------------------------------------------
(* Steps change one session. *)

\* What happens to the session c, which becomes q, to the connection that was
\* accepted, to the session the application runs in, and to its requests.
Change(c, q) ==
  /\ session' = [session EXCEPT ![c] = q] /\ Kept(q) /\ open' = open
  /\ q.state = "open" => open /\ Duplex(q, at' = c)
  /\ \/ accept' = accept /\ accept # c
     \/ accept' = Waits /\ accept # None
     \/ accept' = c /\ accept # None /\ q.state = "accepted"
  /\ \/ at' = at /\ abort' = abort /\ (at = c => q.state = session[c].state)
     \/ at' = None /\ at \in {None, c} /\ ~abort' /\ abort' \in BOOLEAN
     \/ at' = c /\ at \in {None, c} /\ ~abort' /\ abort' \in BOOLEAN /\ q.state = "open"
     \/ at' = at /\ at = c /\ q.state = "gone" /\ abort' = TRUE
  /\ held' \subseteq held \cup {c}
  /\ c \in held' => IF q.state = "open" THEN q.busy ELSE q.state = "gone"

\* The application keeps what it has.
Intact(c, q) ==
  /\ (session[c].busy \/ at = c) /\ (q.busy \/ at' = c)
       /\ q.called = session[c].called /\ q.state = "open" =>
     q.input = session[c].input
  /\ c \in held \cap held' /\ session[c].state = "open" /\ q.state # "open" =>
     session[c].write = Failed

LEMMA PartsNext ==
  ServerInv' <=>
    /\ session' \in [Clients -> Sessions] /\ Controlled'
    /\ \A c \in Clients :
         Kept(session'[c]) /\ (session'[c].state = "open" => Duplex(session'[c], at' = c))
<1>1. ServerInv' <=> (session \in [Clients -> Sessions])' /\ Controlled' /\ EachKept'
  BY Parts, PTL
<1>2. EachKept' <=>
        \A c \in Clients :
          Kept(session'[c]) /\ (session'[c].state = "open" => Duplex(session'[c], at' = c))
  BY DEF EachKept, Live
<1>3. QED BY <1>1, <1>2

LEMMA ControlKept ==
  ASSUME Controlled, session \in [Clients -> Sessions], NEW c \in Clients, NEW q,
         Change(c, q)
  PROVE  Controlled'
<1>1. q \in Sessions
  BY DEF Change, Kept
<1>2. session'[c] = q /\ \A d \in Clients \ {c} : session'[d] = session[d]
  BY DEF Change
<1>3. open' \in BOOLEAN /\ accept' \in {None, Waits, Failed} \cup Clients
  BY DEF Controlled, Change
<1>4. at' \in Clients \cup {None} /\ abort' \in BOOLEAN /\ held' \subseteq Clients
  BY DEF Controlled, Change
<1>5. \A d \in Clients : Live(d)' => open'
  BY <1>2 DEF Controlled, Change, Live
<1>6. /\ at # None => (abort <=> session[at].state # "open")
      /\ IF at = None THEN ~abort ELSE session[at].state \in {"open", "gone"}
      /\ at \in Clients \cup {None}
  BY DEF Controlled, StatesAgree, Live
<1>7. /\ at' # None => (abort' <=> session'[at'].state # "open")
      /\ IF at' = None THEN ~abort' ELSE session'[at'].state \in {"open", "gone"}
  <2>1. CASE at' = at /\ abort' = abort /\ (at = c => q.state = session[c].state)
    BY <1>2, <1>6, <2>1
  <2>2. CASE at' = None /\ ~abort'
    BY <2>2
  <2>3. CASE at' = c /\ ~abort' /\ abort' \in BOOLEAN /\ q.state = "open"
    BY <1>2, <2>3, BoundsTyped
  <2>4. CASE at' = at /\ at = c /\ q.state = "gone" /\ abort' = TRUE
    BY <1>2, <2>4, BoundsTyped
  <2>5. QED BY <2>1, <2>2, <2>3, <2>4 DEF Change
<1>8. (accept' # None) <=> open'
  BY BoundsTyped DEF Controlled, Change
<1>9. HeldIsBusy'
  <2>1. HeldIsBusy /\ held \subseteq Clients
    BY DEF Controlled
  <2>2. ASSUME NEW d \in held'
        PROVE  IF session'[d].state = "open" THEN session'[d].busy
               ELSE session'[d].state = "gone"
    <3>1. CASE d = c
      BY <1>2, <3>1 DEF Change
    <3>2. CASE d # c
      <4>1. d \in held /\ session'[d] = session[d]
        BY <1>2, <2>1, <3>2 DEF Change
      <4>2. QED BY <2>1, <4>1 DEF HeldIsBusy, Live
    <3>3. QED BY <3>1, <3>2
  <2>3. QED BY <2>2 DEF HeldIsBusy, Live
<1>10. accept' \in Clients => session'[accept'].state = "accepted"
  <2>1. accept \in Clients => session[accept].state = "accepted"
    BY DEF Controlled, StatesAgree
  <2>2. CASE accept' = accept /\ accept # c
    BY <1>2, <2>1, <2>2
  <2>3. CASE accept' = Waits
    BY <2>3, BoundsTyped
  <2>4. CASE accept' = c /\ q.state = "accepted"
    BY <1>2, <2>4
  <2>5. QED BY <2>2, <2>3, <2>4 DEF Change
<1>11. (at # None => (abort <=> ~Live(at)))'
  BY <1>7 DEF Live
<1>12. StatesAgree'
  BY <1>7, <1>10 DEF StatesAgree
<1>13. QED BY <1>3, <1>4, <1>5, <1>8, <1>9, <1>11, <1>12 DEF Controlled

LEMMA ChangeKept ==
  ASSUME ServerInv, NEW c \in Clients, NEW q, Change(c, q)
  PROVE  ServerInv'
<1>1. /\ session \in [Clients -> Sessions] /\ Controlled
      /\ \A d \in Clients :
           Kept(session[d]) /\ (Live(d) => Duplex(session[d], at = d))
  BY Parts DEF EachKept
<1>2. q \in Sessions /\ Kept(q) /\ (q.state = "open" => Duplex(q, at' = c))
  BY DEF Change, Kept
<1>3. session'[c] = q /\ \A d \in Clients \ {c} : session'[d] = session[d]
  BY <1>1 DEF Change
<1>4. session' \in [Clients -> Sessions]
  BY <1>1, <1>2 DEF Change
<1>5. Controlled'
  BY <1>1, ControlKept
<1>6. \A d \in Clients \ {c} : (at' = d) = (at = d)
  BY BoundsTyped DEF Change
<1>7. ASSUME NEW d \in Clients \ {c}
      PROVE  /\ Kept(session'[d])
             /\ session'[d].state = "open" => Duplex(session'[d], at' = d)
  BY <1>1, <1>3, <1>6, <1>7 DEF Live
<1>8. QED BY <1>2, <1>3, <1>4, <1>5, <1>7, PartsNext

\* What InputIntact and HeldUntilSendFails say of a step.
InputStays ==
  \A c \in Clients :
    (session[c].busy \/ at = c) /\ (session'[c].busy \/ at' = c)
      /\ session'[c].called = session[c].called =>
        /\ session'[c].read = None
        /\ session'[c].state = "open" => session'[c].input = session[c].input
HeldStays ==
  \A c \in held \cap held' : Live(c) /\ ~Live(c)' => session[c].write = Failed

\* A session that the application runs in, or that has a request, does not read.
LEMMA BusyNotReading ==
  ASSUME ServerInv
  PROVE  \A c \in Clients : session[c].busy \/ at = c => session[c].read = None
<1>1. \A c \in Clients :
        Kept(session[c]) /\ (Live(c) => Duplex(session[c], at = c))
  BY Parts DEF EachKept
<1>2. QED BY <1>1 DEF Kept, Live, Duplex, Idle

LEMMA BusyNotReadingNext ==
  ASSUME ServerInv'
  PROVE  \A c \in Clients : session'[c].busy \/ at' = c => session'[c].read = None
<1>1. \A c \in Clients :
         Kept(session'[c]) /\ (session'[c].state = "open" => Duplex(session'[c], at' = c))
  BY PartsNext
<1>2. QED BY <1>1 DEF Kept, Duplex, Idle

LEMMA ChangeIntact ==
  ASSUME ServerInv, NEW c \in Clients, NEW q, Change(c, q), Intact(c, q)
  PROVE  InputStays /\ HeldStays
<1>1. session \in [Clients -> Sessions] /\ held \subseteq Clients
  BY Parts DEF Controlled
<1>2. session'[c] = q /\ \A d \in Clients \ {c} : session'[d] = session[d]
  BY <1>1 DEF Change
<1>3. \A d \in Clients : session'[d].busy \/ at' = d => session'[d].read = None
  BY ChangeKept, BusyNotReadingNext
<1>4. InputStays
  BY <1>2, <1>3 DEF InputStays, Intact
<1>5. HeldStays
  BY <1>1, <1>2 DEF HeldStays, Intact, Live
<1>6. QED BY <1>4, <1>5

-----------------------------------------------------------------------------
(* What each handler changes. *)

LEMMA SessionFacts ==
  ASSUME ServerInv, NEW c \in Clients
  PROVE  /\ session \in [Clients -> Sessions] /\ session[c] \in Sessions
         /\ Kept(session[c]) /\ held \subseteq Clients
         /\ session[c].state = "open" =>
              /\ open
              /\ session[c].read # None =>
                   /\ ~session[c].busy /\ session[c].write = None
                   /\ Flushed(session[c]) /\ at # c
         /\ session[c].state = "open" => Duplex(session[c], at = c)
         /\ session[c].state # "open" => Idle(session[c])
         /\ accept = c => session[c].state = "accepted"
         /\ c \in held =>
              IF session[c].state = "open" THEN session[c].busy
              ELSE session[c].state = "gone"
         /\ at = c => /\ session[c].state \in {"open", "gone"}
                      /\ abort <=> session[c].state # "open"
         /\ at = None => ~abort
         /\ at \in Clients \cup {None} /\ abort \in BOOLEAN
         /\ open <=> accept # None
         /\ 2 * session[c].called <= session[c].sent
<1>1. /\ session \in [Clients -> Sessions] /\ Controlled
      /\ Kept(session[c])
      /\ session[c].state = "open" => Duplex(session[c], at = c)
  BY Parts DEF EachKept, Live
<1>2. session[c] \in Sessions
  BY <1>1
<1>3. session[c].state # "open" => Idle(session[c])
  BY <1>1 DEF Kept
<1>4. session[c].state = "open" /\ session[c].read # None =>
        /\ ~session[c].busy /\ session[c].write = None
        /\ Flushed(session[c]) /\ at # c
  BY <1>1 DEF Duplex
<1>5. /\ accept = c => session[c].state = "accepted"
      /\ at = c => session[c].state \in {"open", "gone"}
      /\ at = None => ~abort
  BY <1>1, BoundsTyped DEF Controlled, StatesAgree
<1>6. c \in held =>
        IF session[c].state = "open" THEN session[c].busy ELSE session[c].state = "gone"
  BY <1>1 DEF Controlled, HeldIsBusy, Live
<1>7. /\ session[c].state = "open" => open
      /\ at = c => (abort <=> session[c].state # "open")
      /\ at \in Clients \cup {None} /\ abort \in BOOLEAN /\ held \subseteq Clients
      /\ open <=> accept # None
  BY <1>1, BoundsTyped DEF Controlled, Live
<1>8. 2 * session[c].called <= session[c].sent
  BY <1>1 DEF Kept, Fits
<1>9. QED BY <1>1, <1>2, <1>3, <1>4, <1>5, <1>6, <1>7, <1>8

\* server_parse
LEMMA ParseKept ==
  ASSUME NEW c \in Clients, NEW r, Kept(r), r.state = "open", r.read = None, ~r.busy,
         Parse(c, r)
  PROVE  \E q :
           /\ session' = [session EXCEPT ![c] = q] /\ Kept(q)
           /\ \/ q.state = "gone" /\ ~q.busy /\ at' = None /\ held' = held
              \/ /\ q.state = "open" /\ Duplex(q, FALSE) /\ ~q.busy
                 /\ at' = None /\ held' = held
              \/ /\ q.state = "open" /\ Duplex(q, TRUE) /\ q.busy
                 /\ q.called # r.called
                 /\ at' = c /\ held' = held \cup {c}
<1>1. r \in Sessions /\ 2 * r.called <= r.sent /\ Rest(r) \in Seq(Bytes)
  BY RestTyped DEF Kept, Fits
<1>2. CASE Invalid(r)
  <2>1. session' = [session EXCEPT ![c] = Gone(r)] /\ at' = None /\ held' = held
    BY <1>2 DEF Parse, Set
  <2>2. Kept(Gone(r)) /\ Gone(r).state = "gone"
    BY <1>1, GoneKept
  <2>3. ~Gone(r).busy
    BY <2>2 DEF Kept, Idle
  <2>4. QED BY <2>1, <2>2, <2>3
<1>3. CASE ~Invalid(r) /\ Incomplete(r)
  <2>1. session' = [session EXCEPT ![c] = IO(r)] /\ at' = None /\ held' = held
    BY <1>3 DEF Parse, Set
  <2>2. QED BY <2>1, IOKept
<1>4. CASE ~Invalid(r) /\ ~Incomplete(r)
  <2> DEFINE q == [r EXCEPT !.offset = r.offset + 2, !.busy = TRUE,
                            !.called = r.called + 1]
  <2>1. session' = [session EXCEPT ![c] = q] /\ at' = c /\ held' = held \cup {c}
    BY <1>4 DEF Parse, Set
  <2>2. Len(Rest(r)) >= 2
    BY <1>1, <1>4 DEF Incomplete
  <2>3. Kept(q) /\ q.state = "open" /\ q.busy /\ q.read = None /\ q.called # r.called
    BY <2>2, ServedKept
  <2> HIDE DEF q
  <2>4. Duplex(q, TRUE)
    BY <2>3 DEF Duplex
  <2>5. QED BY <2>1, <2>3, <2>4
<1>5. QED BY <1>2, <1>3, <1>4

\* It is only called for a session without a request.
LEMMA ParseChanges ==
  ASSUME ServerInv, NEW c \in Clients, session[c].state = "open", ~session[c].busy,
         at \in {None, c},
         NEW r, Kept(r), r.state = "open", r.read = None, ~r.busy,
         r.called = session[c].called, Parse(c, r),
         open' = open, accept' = accept, ~abort', abort' \in BOOLEAN
  PROVE  \E q : Change(c, q) /\ Intact(c, q)
<1>1. /\ open /\ accept # c /\ c \notin held
  BY SessionFacts
<1>2. PICK q :
        /\ session' = [session EXCEPT ![c] = q] /\ Kept(q)
        /\ \/ q.state = "gone" /\ ~q.busy /\ at' = None /\ held' = held
           \/ /\ q.state = "open" /\ Duplex(q, FALSE) /\ ~q.busy
              /\ at' = None /\ held' = held
           \/ /\ q.state = "open" /\ Duplex(q, TRUE) /\ q.busy
              /\ q.called # r.called
              /\ at' = c /\ held' = held \cup {c}
  BY ParseKept
<1>3. c # None
  BY BoundsTyped
<1>4. CASE q.state = "gone" /\ ~q.busy /\ at' = None /\ held' = held
  <2>1. Change(c, q)
    BY <1>1, <1>2, <1>4 DEF Change
  <2>2. Intact(c, q)
    BY <1>1, <1>4 DEF Intact
  <2>3. QED BY <2>1, <2>2
<1>5. CASE q.state = "open" /\ Duplex(q, FALSE) /\ ~q.busy /\ at' = None /\ held' = held
  <2>1. (at' = c) = FALSE
    BY <1>3, <1>5
  <2>2. Change(c, q)
    BY <1>1, <1>2, <1>5, <2>1 DEF Change
  <2>3. Intact(c, q)
    BY <1>1, <1>3, <1>5 DEF Intact
  <2>4. QED BY <2>2, <2>3
<1>6. CASE /\ q.state = "open" /\ Duplex(q, TRUE) /\ q.busy /\ q.called # r.called
           /\ at' = c /\ held' = held \cup {c}
  <2>1. (at' = c) = TRUE
    BY <1>6
  <2>2. Change(c, q)
    BY <1>1, <1>2, <1>6, <2>1 DEF Change
  <2>3. Intact(c, q)
    BY <1>1, <1>6 DEF Intact
  <2>4. QED BY <2>2, <2>3
<1>7. QED BY <1>2, <1>4, <1>5, <1>6

\* The bytes that arrive are parsed, or the session ends.
LEMMA RecvCallbackChanges ==
  ASSUME ServerInv, NEW c \in Clients, RecvCallback(c)
  PROVE  \E q : Change(c, q) /\ Intact(c, q)
<1> DEFINE x == session[c]
           r == [session[c] EXCEPT !.read = None]
<1>1. /\ at = None /\ x.read \in {Done, Failed}
      /\ open' = open /\ accept' = accept /\ abort' = abort
  BY DEF RecvCallback
<1>2. x.state = "open"
  BY <1>1, SessionFacts, BoundsTyped DEF Idle
<1>3. /\ x \in Sessions /\ Kept(x) /\ ~x.busy /\ x.write = None /\ open
      /\ accept # c /\ c \notin held /\ ~abort' /\ abort' \in BOOLEAN
      /\ 2 * x.called <= x.sent /\ c # None
  BY <1>1, <1>2, SessionFacts, BoundsTyped
<1>4. CASE x.read = Failed
  <2> DEFINE q == Gone(r)
  <2>1. session' = [session EXCEPT ![c] = q] /\ at' = at /\ held' = held
    BY <1>4 DEF RecvCallback, Set
  <2>2. r \in Sessions /\ r.called = x.called /\ r.sent = x.sent
    BY <1>3 DEF Sessions
  <2>3. Kept(q) /\ q.state = "gone"
    BY <1>3, <2>2, GoneKept
  <2> HIDE DEF q
  <2>4. Change(c, q)
    BY <1>1, <1>3, <2>1, <2>3 DEF Change
  <2>5. Intact(c, q)
    BY <1>3, <2>3 DEF Intact
  <2>6. QED BY <2>4, <2>5
<1>5. CASE x.read # Failed
  <2> DEFINE q == [x EXCEPT !.read = None, !.input = x.input \o x.batch, !.batch = <<>>]
  <2>1. Parse(c, [r EXCEPT !.input = r.input \o r.batch, !.batch = <<>>])
    BY <1>5 DEF RecvCallback
  <2>2. [r EXCEPT !.input = r.input \o r.batch, !.batch = <<>>] = q
    <3>1. r.input = x.input /\ r.batch = x.batch
      BY <1>3 DEF Sessions
    <3>2. QED BY <1>3, <3>1 DEF Sessions
  <2>3. x.read = Done
    BY <1>1, <1>5
  <2>4. /\ Kept(q) /\ q.state = "open" /\ q.read = None /\ q.busy = x.busy
        /\ q.called = x.called
    BY <1>2, <1>3, <2>3, ArrivedKept
  <2>5. Parse(c, q)
    BY <2>1, <2>2
  <2> HIDE DEF q
  <2>6. QED BY <1>1, <1>2, <1>3, <2>4, <2>5, ParseChanges
<1>6. QED BY <1>4, <1>5

\* A response that was sent makes room for the next one, or for the next request.
LEMMA SendCallbackChanges ==
  ASSUME ServerInv, NEW c \in Clients, SendCallback(c)
  PROVE  \E q : Change(c, q) /\ Intact(c, q)
<1> DEFINE x == session[c]
           s == [session[c] EXCEPT !.write = None, !.data = <<>>]
           r == Flush(s)
<1>1. /\ at = None /\ x.write \in {Done, Failed}
      /\ open' = open /\ accept' = accept /\ abort' = abort
      /\ \/ x.write = Failed /\ Set(c, Gone(r)) /\ UNCHANGED <<at, held>>
         \/ /\ x.write = Done /\ (~Flushed(r) \/ r.busy)
            /\ Set(c, r) /\ UNCHANGED <<at, held>>
         \/ /\ x.write = Done /\ Flushed(r) /\ ~r.busy
            /\ IF Rest(r) = <<>> THEN Set(c, Read(r)) /\ UNCHANGED <<at, held>>
               ELSE Parse(c, r)
  BY DEF SendCallback
<1>2. x.state = "open" /\ x.write # None
  BY <1>1, SessionFacts, BoundsTyped DEF Idle
<1>3. /\ x \in Sessions /\ Kept(x) /\ open /\ x.read = None
      /\ accept # c /\ ~abort' /\ abort' \in BOOLEAN /\ c # None
      /\ (c \in held => x.busy)
  BY <1>1, <1>2, SessionFacts, BoundsTyped
<1>4. /\ s \in Sessions /\ s.state = "open" /\ s.busy = x.busy /\ s.read = None
      /\ s.called = x.called /\ s.input = x.input /\ 2 * s.called <= s.sent
      /\ x.write = Done => Kept(s)
  <2>1. s = [x EXCEPT !.write = None, !.data = <<>>]
    OBVIOUS
  <2> HIDE DEF s, x
  <2>2. QED BY <1>2, <1>3, <2>1, SentKept
<1> HIDE DEF s
<1>5. /\ r \in Sessions /\ r.state = "open" /\ r.busy = x.busy /\ r.read = None
      /\ r.called = x.called /\ r.input = x.input /\ 2 * r.called <= r.sent
  BY <1>4, FlushIs
<1>6. ASSUME x.write = Done
      PROVE  Kept(r) /\ (~Flushed(r) => r.write # None)
  <2>1. Kept(r) /\ (~Flushed(s) => r.write # None)
    BY <1>4, <1>6, FlushKept
  <2>2. ~Flushed(r) => ~Flushed(s)
    BY DEF Flush
  <2>3. QED BY <2>1, <2>2
<1> HIDE DEF r
<1>7. CASE x.write = Failed /\ Set(c, Gone(r)) /\ UNCHANGED <<at, held>>
  <2> DEFINE q == Gone(r)
  <2>1. session' = [session EXCEPT ![c] = q] /\ at' = at /\ held' = held
    BY <1>7 DEF Set
  <2>2. Kept(q) /\ q.state = "gone"
    BY <1>5, GoneKept
  <2> HIDE DEF q
  <2>3. Change(c, q)
    BY <1>1, <1>3, <2>1, <2>2 DEF Change
  <2>4. Intact(c, q)
    BY <1>7, <2>2 DEF Intact
  <2>5. QED BY <2>3, <2>4
<1>8. CASE /\ x.write = Done /\ (~Flushed(r) \/ r.busy)
           /\ Set(c, r) /\ UNCHANGED <<at, held>>
  <2>1. session' = [session EXCEPT ![c] = r] /\ at' = at /\ held' = held
    BY <1>8 DEF Set
  <2>2. Duplex(r, at' = c)
    BY <1>5, <1>6, <1>8 DEF Duplex
  <2>3. Change(c, r)
    BY <1>1, <1>3, <1>5, <1>6, <1>8, <2>1, <2>2 DEF Change
  <2>4. Intact(c, r)
    BY <1>5 DEF Intact
  <2>5. QED BY <2>3, <2>4
<1>9. CASE x.write = Done /\ Flushed(r) /\ ~r.busy /\ Rest(r) # <<>> /\ Parse(c, r)
  BY <1>1, <1>2, <1>3, <1>5, <1>6, <1>9, ParseChanges
<1>10. CASE /\ x.write = Done /\ Flushed(r) /\ ~r.busy
            /\ Set(c, Read(r)) /\ UNCHANGED <<at, held>>
  <2> DEFINE q == Read(r)
  <2>1. session' = [session EXCEPT ![c] = q] /\ at' = at /\ held' = held
    BY <1>10 DEF Set
  <2>2. r.read # Done
    BY <1>5, BoundsTyped
  <2>3. Kept(q) /\ q.state = "open" /\ Duplex(q, FALSE) /\ ~q.busy
    BY <1>5, <1>6, <1>10, <2>2, ReadKept
  <2> HIDE DEF q
  <2>4. (at' = c) = FALSE /\ c \notin held
    BY <1>1, <1>3, <1>5, <1>10, <2>1
  <2>5. Change(c, q)
    BY <1>1, <1>3, <2>1, <2>3, <2>4 DEF Change
  <2>6. Intact(c, q)
    BY <2>3, <2>4 DEF Intact
  <2>7. QED BY <2>5, <2>6
<1>11. QED BY <1>1, <1>7, <1>8, <1>9, <1>10

\* What the application has done to the request decides how it goes on.
LEMMA ReturnChanges ==
  ASSUME ServerInv, Return
  PROVE  at \in Clients /\ \E q : Change(at, q) /\ Intact(at, q)
<1> DEFINE c == at
           x == session[at]
<1>1. c \in Clients /\ c # None
  BY Parts DEF Return, Controlled
<1>2. /\ abort' = FALSE /\ open' = open /\ accept' = accept
      /\ IF abort THEN at' = None /\ UNCHANGED <<session, held>>
         ELSE IF x.busy THEN Set(c, Flush(x)) /\ at' = None /\ UNCHANGED held
         ELSE Parse(c, x)
  BY DEF Return
<1>3. /\ x \in Sessions /\ Kept(x) /\ session \in [Clients -> Sessions]
      /\ x.state \in {"open", "gone"} /\ (abort <=> x.state # "open")
      /\ accept # c
      /\ c \in held => IF x.state = "open" THEN x.busy ELSE x.state = "gone"
      /\ x.state = "open" => open /\ x.read = None
  BY <1>1, SessionFacts
<1>4. ASSUME NEW y \in Clients, y = c
      PROVE  \E q : Change(y, q) /\ Intact(y, q)
  <2> DEFINE z == session[y]
  <2>1. z = x /\ at = y /\ y # None
    BY <1>1, <1>4
  <2>2. CASE abort
    <3>1. session' = [session EXCEPT ![y] = z] /\ at' = None /\ held' = held
      BY <1>2, <1>3, <2>2
    <3>2. z.state = "gone"
      BY <1>3, <2>1, <2>2
    <3>3. Change(y, z)
      BY <1>2, <1>3, <2>1, <3>1, <3>2 DEF Change
    <3>4. Intact(y, z)
      BY DEF Intact
    <3>5. QED BY <3>3, <3>4
  <2>3. CASE ~abort /\ x.busy
    <3> DEFINE q == Flush(z)
    <3>1. session' = [session EXCEPT ![y] = q] /\ at' = None /\ held' = held
      BY <1>2, <1>4, <2>1, <2>3 DEF Set
    <3>2. z \in Sessions /\ z.state = "open" /\ z.read = None /\ Kept(z) /\ z.busy
      BY <1>3, <2>1, <2>3
    <3>3. /\ Kept(q) /\ q.state = "open" /\ q.read = None /\ q.busy = z.busy
          /\ q.input = z.input
      BY <3>2, FlushKept, FlushIs
    <3> HIDE DEF q
    <3>4. Duplex(q, at' = y)
      BY <3>2, <3>3 DEF Duplex
    <3>5. Change(y, q)
      BY <1>2, <1>3, <2>1, <2>3, <3>1, <3>2, <3>3, <3>4 DEF Change
    <3>6. Intact(y, q)
      BY <3>3 DEF Intact
    <3>7. QED BY <3>5, <3>6
  <2>4. CASE ~abort /\ ~x.busy
    <3>1. Parse(y, z) /\ ~abort' /\ abort' \in BOOLEAN
      BY <1>2, <1>4, <2>1, <2>4
    <3>2. /\ z.state = "open" /\ z.read = None /\ Kept(z) /\ ~z.busy
          /\ at \in {None, y}
      BY <1>3, <2>1, <2>4
    <3>3. QED BY <1>2, <3>1, <3>2, ParseChanges
  <2>5. QED BY <2>2, <2>3, <2>4
<1>5. QED BY <1>1, <1>4

\* Connections become sessions: from the kernel and from the application.
LEMMA AcceptChanges ==
  ASSUME ServerInv, NEW c \in Clients, session[c].state \in {"new", "accepted"},
         Accepted(c), open, open' = open, UNCHANGED <<at, abort, held>>,
         \/ accept' = accept /\ accept # c
         \/ accept' = Waits /\ accept # None
  PROVE  \E q : Change(c, q) /\ Intact(c, q)
<1> DEFINE x == session[c]
           r == [x EXCEPT !.state = "open"]
           q == Read(r)
<1>1. Kept(x) /\ x \in Sessions /\ at # c /\ c \notin held
  BY SessionFacts
<1>2. Kept(q) /\ q.state = "open" /\ Duplex(q, FALSE) /\ ~q.busy
  BY <1>1, AcceptedKept
<1>3. session' = [session EXCEPT ![c] = q]
  BY DEF Accepted, Set
<1> HIDE DEF q
<1>4. (at' = c) = FALSE
  BY <1>1
<1>5. Change(c, q)
  BY <1>1, <1>2, <1>3, <1>4 DEF Change
<1>6. Intact(c, q)
  BY <1>1, <1>2, <1>4 DEF Intact
<1>7. QED BY <1>5, <1>6

\* The response is behind the earlier ones, and leaves when the application is not
\* called.
LEMMA RespondChanges ==
  ASSUME ServerInv, NEW c \in Clients, Respond(c)
  PROVE  \E q : Change(c, q) /\ Intact(c, q)
<1> DEFINE x == session[c]
           r == [x EXCEPT !.busy = FALSE, !.dataNext = Append(x.dataNext, x.called)]
           q == IF at = c THEN r ELSE Flush(r)
<1>1. /\ x.state = "open" /\ x.busy /\ session' = [session EXCEPT ![c] = q]
      /\ held' = held \ {c}
      /\ open' = open /\ accept' = accept /\ at' = at /\ abort' = abort
  BY DEF Respond, Live, Set
<1>2. Kept(x) /\ x \in Sessions /\ x.read = None /\ open /\ accept # c
  BY <1>1, SessionFacts
<1>3. /\ Kept(r) /\ r.state = "open" /\ ~r.busy /\ ~Flushed(r)
      /\ r.read = None /\ r.input = x.input
  BY <1>1, <1>2, RespondedKept, ZenonT(30)
<1>4. r \in Sessions
  BY <1>3 DEF Kept
<1> HIDE DEF r
<1>5. /\ Kept(q) /\ q.state = "open" /\ q.read = None /\ q.input = x.input
      /\ at # c => q.write # None
  BY <1>3, <1>4, FlushKept, FlushIs
<1> HIDE DEF q
<1>6. Duplex(q, at' = c)
  BY <1>1, <1>5 DEF Duplex
<1>7. Change(c, q)
  BY <1>1, <1>2, <1>5, <1>6 DEF Change
<1>8. Intact(c, q)
  BY <1>1, <1>5 DEF Intact
<1>9. QED BY <1>7, <1>8

\* The application ends the session of a request it has.
LEMMA DisconnectChanges ==
  ASSUME ServerInv, NEW c \in Clients, Disconnect(c)
  PROVE  \E q : Change(c, q) /\ Intact(c, q)
<1> DEFINE x == session[c]
           q == Gone(x)
<1>1. /\ x.state = "open" /\ session' = [session EXCEPT ![c] = q]
      /\ held' = held \ {c} /\ abort' = (abort \/ at = c)
      /\ open' = open /\ accept' = accept /\ at' = at
  BY DEF Disconnect, Live, Set
<1>2. x \in Sessions /\ 2 * x.called <= x.sent /\ accept # c /\ abort \in BOOLEAN
  BY <1>1, SessionFacts
<1>3. Kept(q) /\ q.state = "gone"
  BY <1>2, GoneKept
<1> HIDE DEF q
<1>4. \/ at' = at /\ abort' = abort /\ at # c
      \/ at' = at /\ at = c /\ abort' = TRUE
  BY <1>1, <1>2
<1>5. Change(c, q)
  BY <1>1, <1>2, <1>3, <1>4 DEF Change
<1>6. Intact(c, q)
  BY <1>1, <1>3 DEF Intact
<1>7. QED BY <1>5, <1>6

\* The kernel takes a connection for the server.
LEMMA KernelAcceptChanges ==
  ASSUME ServerInv, NEW c \in Clients, KernelAccept(c)
  PROVE  \E q : Change(c, q) /\ Intact(c, q)
<1> DEFINE x == session[c]
           q == [x EXCEPT !.state = "accepted"]
<1>1. /\ x.state = "new" /\ session' = [session EXCEPT ![c] = q]
      /\ accept = Waits /\ accept' = c
      /\ open' = open /\ at' = at /\ abort' = abort /\ held' = held
  BY DEF KernelAccept, Set
<1>2. Kept(x) /\ x \in Sessions /\ at # c /\ c \notin held /\ Idle(x) /\ Fits(x)
  BY <1>1, SessionFacts DEF Kept
<1>3. /\ q \in Sessions /\ q.state = "accepted" /\ q.read = x.read
      /\ q.write = x.write /\ q.busy = x.busy /\ q.input = x.input
      /\ q.offset = x.offset /\ q.data = x.data /\ q.dataNext = x.dataNext
      /\ q.sent = x.sent /\ q.called = x.called /\ q.got = x.got
      /\ q.batch = x.batch
  BY <1>2 DEF Sessions
<1> HIDE DEF q
<1>4. Kept(q)
  <2>1. Fits(q)
    BY <1>1, <1>2, <1>3 DEF Fits
  <2>2. Idle(q)
    BY <1>2, <1>3 DEF Idle
  <2>3. QED BY <1>3, <2>1, <2>2 DEF Kept
<1>5. Change(c, q)
  BY <1>1, <1>2, <1>3, <1>4, BoundsTyped DEF Change
<1>6. Intact(c, q)
  BY <1>1, <1>3 DEF Intact
<1>7. QED BY <1>5, <1>6

\* What the kernel does to a session leaves it and its request as they are.
LEMMA KernelChanges ==
  ASSUME ServerInv, NEW c \in Clients, session[c].state = "open",
         NEW q, session' = [session EXCEPT ![c] = q],
         Steady(session[c], q),
         UNCHANGED <<open, accept, at, abort, held>>
  PROVE  Change(c, q) /\ Intact(c, q)
<1>1. /\ open /\ accept # c /\ Duplex(session[c], at = c)
      /\ c \in held => session[c].busy
  BY SessionFacts
<1>2. Duplex(q, at = c)
  <2>1. (at = c) \in BOOLEAN
    OBVIOUS
  <2>2. QED BY <1>1, <2>1 DEF Steady
<1>3. Duplex(q, at' = c)
  BY <1>2
<1>4. Change(c, q)
  BY <1>1, <1>3 DEF Change, Steady
<1>5. QED BY <1>4 DEF Intact, Steady

LEMMA KernelReadChanges ==
  ASSUME ServerInv, NEW c \in Clients, NEW n \in Bytes, KernelRead(c, n)
  PROVE  \E q : Change(c, q) /\ Intact(c, q)
<1> DEFINE x == session[c]
           b == [k \in 1 .. n |-> x.sent + k]
           q == [x EXCEPT !.read = Done, !.sent = x.sent + n, !.batch = b]
<1>1. /\ x.read = Waits /\ x.sent + n <= 2 * MaxRequests
      /\ session' = [session EXCEPT ![c] = q]
      /\ UNCHANGED <<open, accept, at, abort, held>>
  BY DEF KernelRead, Set
<1>2. x.state = "open" /\ Kept(x)
  BY <1>1, SessionFacts, BoundsTyped DEF Idle
<1>3. Steady(x, q)
  <2>1. q = [x EXCEPT !.read = Done, !.sent = x.sent + n, !.batch = b]
    OBVIOUS
  <2>2. b = Counted(x.sent, n)
    BY DEF Counted
  <2> HIDE DEF q, x, b
  <2>3. QED BY <1>1, <1>2, <2>1, <2>2, KernelReadKept
<1> HIDE DEF q
<1>4. QED BY <1>1, <1>2, <1>3, KernelChanges

LEMMA KernelReadFailsChanges ==
  ASSUME ServerInv, NEW c \in Clients, KernelReadFails(c)
  PROVE  \E q : Change(c, q) /\ Intact(c, q)
<1> DEFINE x == session[c]
           q == [x EXCEPT !.read = Failed]
<1>1. /\ x.read = Waits /\ session' = [session EXCEPT ![c] = q]
      /\ UNCHANGED <<open, accept, at, abort, held>>
  BY DEF KernelReadFails, Set
<1>2. x.state = "open" /\ Kept(x)
  BY <1>1, SessionFacts, BoundsTyped DEF Idle
<1>3. Steady(x, q)
  BY <1>1, <1>2, KernelReadFailsKept
<1> HIDE DEF q
<1>4. QED BY <1>1, <1>2, <1>3, KernelChanges

LEMMA WritesChanges ==
  ASSUME ServerInv, NEW c \in Clients, Writes(c)
  PROVE  \E q : Change(c, q) /\ Intact(c, q)
<1> DEFINE x == session[c]
<1>1. /\ x.write = Waits /\ UNCHANGED <<open, accept, at, abort, held>>
  BY DEF Writes, KernelWrite, KernelWriteFails
<1>2. x.state = "open" /\ Kept(x)
  BY <1>1, SessionFacts, BoundsTyped DEF Idle
<1>3. CASE KernelWrite(c)
  <2> DEFINE g == x.got \o x.data
             q == [x EXCEPT !.write = Done, !.got = g]
  <2>1. session' = [session EXCEPT ![c] = q]
    BY <1>3 DEF KernelWrite, Set
  <2>2. Steady(x, q)
    <3>1. q = [x EXCEPT !.write = Done, !.got = g] /\ g = x.got \o x.data
      OBVIOUS
    <3> HIDE DEF q, x, g
    <3>2. QED BY <1>1, <1>2, <3>1, KernelWriteKept
  <2> HIDE DEF q
  <2>3. QED BY <1>1, <1>2, <2>1, <2>2, KernelChanges
<1>4. CASE KernelWriteFails(c)
  <2> DEFINE q == [x EXCEPT !.write = Failed]
  <2>1. session' = [session EXCEPT ![c] = q]
    BY <1>4 DEF KernelWriteFails, Set
  <2>2. Steady(x, q)
    BY <1>1, <1>2, KernelWriteFailsKept
  <2> HIDE DEF q
  <2>3. QED BY <1>1, <1>2, <2>1, <2>2, KernelChanges
<1>5. QED BY <1>3, <1>4 DEF Writes

-----------------------------------------------------------------------------
(* Steps that change no session, or all of them. *)

\* The listening socket has failed, or is asked again after that.
LEMMA StillKept ==
  ASSUME ServerInv, UNCHANGED <<open, session, at, abort, held>>,
         accept' = accept \/ (accept # None /\ accept' \in {Waits, Failed})
  PROVE  ServerInv' /\ InputStays /\ HeldStays
<1>1. /\ session \in [Clients -> Sessions] /\ Controlled
      /\ \A c \in Clients :
           Kept(session[c]) /\ (Live(c) => Duplex(session[c], at = c))
  BY Parts DEF EachKept
<1>2. Controlled'
  <2>1. /\ HeldIsBusy' /\ (at # None => (abort <=> ~Live(at)))'
        /\ \A c \in Clients : Live(c)' => open'
    BY <1>1 DEF Controlled, HeldIsBusy, Live
  <2>2. StatesAgree'
    BY <1>1, BoundsTyped DEF Controlled, StatesAgree
  <2>3. accept' \in {None, Waits, Failed} \cup Clients /\ ((accept' # None) <=> open')
    BY <1>1, BoundsTyped DEF Controlled
  <2>4. QED BY <1>1, <2>1, <2>2, <2>3 DEF Controlled
<1>3. ServerInv'
  BY <1>1, <1>2, PartsNext DEF Live
<1>4. InputStays
  BY <1>3, BusyNotReadingNext DEF InputStays
<1>5. HeldStays
  BY DEF HeldStays, Live
<1>6. QED BY <1>3, <1>4, <1>5

\* server_close leaves no session.
LEMMA CloseKept ==
  ASSUME ServerInv, Close
  PROVE  ServerInv' /\ InputStays /\ HeldStays
<1> DEFINE q(c) ==
      IF Live(c) THEN Gone(session[c])
      ELSE IF accept = c THEN [session[c] EXCEPT !.state = "leaked"]
      ELSE session[c]
<1>1. /\ open' = FALSE /\ accept' = None /\ session' = [c \in Clients |-> q(c)]
      /\ abort' = (at # None) /\ held' = {} /\ at' = at
  BY DEF Close
<1>2. ASSUME NEW c \in Clients
      PROVE  /\ q(c) \in Sessions /\ Kept(q(c)) /\ q(c).state # "open"
             /\ at = c => q(c).state = "gone"
  <2> DEFINE x == session[c]
  <2>1. /\ Kept(x) /\ x \in Sessions /\ 2 * x.called <= x.sent
        /\ accept = c => x.state = "accepted"
        /\ at = c => x.state \in {"open", "gone"}
    BY SessionFacts
  <2>2. CASE Live(c)
    <3>1. q(c) = Gone(x)
      BY <2>2
    <3>2. Kept(Gone(x)) /\ Gone(x).state = "gone"
      BY <2>1, GoneKept
    <3>3. QED BY <3>1, <3>2 DEF Kept
  <2>3. CASE ~Live(c) /\ accept = c
    <3> DEFINE y == [x EXCEPT !.state = "leaked"]
    <3>1. q(c) = y
      BY <2>3
    <3>2. /\ y \in Sessions /\ y.state = "leaked" /\ y.read = x.read
          /\ y.write = x.write /\ y.busy = x.busy /\ y.input = x.input
          /\ y.offset = x.offset /\ y.data = x.data /\ y.dataNext = x.dataNext
          /\ y.sent = x.sent /\ y.called = x.called /\ y.got = x.got
          /\ y.batch = x.batch
      BY <2>1 DEF Sessions
    <3> HIDE DEF y
    <3>3. Fits(x) /\ Idle(x)
      BY <2>1, <2>3 DEF Kept
    <3>4. Fits(y) /\ Idle(y)
      BY <3>2, <3>3 DEF Fits, Idle
    <3>5. Kept(y)
      BY <3>2, <3>4 DEF Kept
    <3>6. QED BY <2>1, <2>3, <3>1, <3>2, <3>5
  <2>4. CASE ~Live(c) /\ accept # c
    <3>1. q(c) = x
      BY <2>4
    <3>2. QED BY <2>1, <2>4, <3>1 DEF Live
  <2>5. QED BY <2>2, <2>3, <2>4
<1> HIDE DEF q
<1>3. \A c \in Clients : session'[c] = q(c)
  BY <1>1
<1>4. session' \in [Clients -> Sessions]
  BY <1>1, <1>2
<1>5. Controlled'
  <2>1. at \in Clients \cup {None}
    BY Parts DEF Controlled
  <2>2. (at # None => (abort <=> ~Live(at)))'
    BY <1>1, <1>2, <1>3, <2>1 DEF Live
  <2>3. StatesAgree'
    BY <1>1, <1>2, <1>3, <2>1, BoundsTyped DEF StatesAgree
  <2>4. HeldIsBusy' /\ \A c \in Clients : Live(c)' => open'
    BY <1>1, <1>2, <1>3 DEF HeldIsBusy, Live
  <2>5. QED BY <1>1, <2>1, <2>2, <2>3, <2>4 DEF Controlled
<1>6. ServerInv'
  BY <1>2, <1>3, <1>4, <1>5, PartsNext
<1>7. InputStays
  BY <1>2, <1>3, <1>6, BusyNotReadingNext DEF InputStays
<1>8. HeldStays
  BY <1>1 DEF HeldStays
<1>9. QED BY <1>6, <1>7, <1>8

-----------------------------------------------------------------------------
(* The whole. *)

LEMMA InitKept ==
  ASSUME Init
  PROVE  ServerInv
<1>1. /\ open = TRUE /\ accept = Waits /\ at = None /\ abort = FALSE /\ held = {}
      /\ session \in [Clients -> Sessions]
      /\ \A c \in Clients :
           /\ session[c].state = "new" /\ session[c].input = <<>>
           /\ session[c].offset = 0 /\ session[c].read = None
           /\ session[c].batch = <<>> /\ session[c].data = <<>>
           /\ session[c].dataNext = <<>> /\ session[c].write = None
           /\ session[c].busy = FALSE /\ session[c].sent = 0
           /\ session[c].called = 0 /\ session[c].got = <<>>
  <2>1. PICK bad \in [Clients -> 0 .. MaxRequests] :
          session = [c \in Clients |->
            [state |-> "new", input |-> <<>>, offset |-> 0, read |-> None,
             batch |-> <<>>, data |-> <<>>, dataNext |-> <<>>, write |-> None,
             busy |-> FALSE, sent |-> 0, bad |-> bad[c], called |-> 0,
             got |-> <<>>]]
    BY DEF Init
  <2>2. <<>> \in Seq(Bytes) /\ <<>> \in Seq(Numbers)
    OBVIOUS
  <2>3. 0 \in 0 .. MaxRequests /\ 0 \in 0 .. 2 * MaxRequests
    BY BoundsTyped
  <2>4. session \in [Clients -> Sessions]
    BY <2>1, <2>2, <2>3 DEF Sessions
  <2>5. QED BY <2>1, <2>4 DEF Init
<1>2. Controlled
  <2>1. \A c \in Clients : ~Live(c)
    BY <1>1 DEF Live
  <2>2. QED BY <1>1, <2>1, BoundsTyped DEF Controlled, HeldIsBusy, StatesAgree
<1>3. ASSUME NEW c \in Clients
      PROVE  Kept(session[c]) /\ ~Live(c)
  <2>1. 0 <= Len(<<>>)
    OBVIOUS
  <2>2. Fits(session[c])
    BY <1>1, <2>1 DEF Fits
  <2>3. QED BY <1>1, <2>2 DEF Kept, Idle, Live
<1>4. QED BY <1>1, <1>2, <1>3, Parts DEF EachKept

LEMMA StepKept ==
  ASSUME ServerInv, [Next]_vars
  PROVE  ServerInv' /\ InputStays /\ HeldStays
<1>1. ASSUME NEW c \in Clients, \E q : Change(c, q) /\ Intact(c, q)
      PROVE  ServerInv' /\ InputStays /\ HeldStays
  BY <1>1, ChangeKept, ChangeIntact
<1>2. CASE AcceptCallback
  <2>1. /\ at = None /\ accept \notin {None, Waits} /\ accept' = Waits
        /\ UNCHANGED <<open, at, abort, held>>
        /\ IF accept = Failed THEN UNCHANGED session ELSE Accepted(accept)
    BY <1>2 DEF AcceptCallback
  <2>2. CASE accept = Failed
    BY <2>1, <2>2, StillKept
  <2>3. CASE accept # Failed
    <3>1. accept \in Clients
      BY <2>1, <2>3, Parts DEF Controlled
    <3>2. session[accept].state = "accepted" /\ open
      BY <3>1, SessionFacts, BoundsTyped
    <3> DEFINE c == accept
    <3>3. Accepted(c) /\ c \in Clients /\ session[c].state \in {"new", "accepted"}
      BY <2>1, <2>3, <3>1, <3>2
    <3>4. \E q : Change(c, q) /\ Intact(c, q)
      BY <2>1, <3>2, <3>3, AcceptChanges
    <3>5. QED BY <1>1, <3>1, <3>4
  <2>4. QED BY <2>2, <2>3
<1>3. CASE Return
  BY <1>1, <1>3, ReturnChanges
<1>4. CASE Close
  BY <1>4, CloseKept
<1>5. CASE KernelAcceptFails
  <2>1. accept # None
    BY <1>5, BoundsTyped DEF KernelAcceptFails
  <2>2. QED BY <1>5, <2>1, StillKept DEF KernelAcceptFails
<1>6. ASSUME NEW c \in Clients, Handler(c)
      PROVE  ServerInv' /\ InputStays /\ HeldStays
  BY <1>1, <1>6, RecvCallbackChanges, SendCallbackChanges DEF Handler
<1>7. ASSUME NEW c \in Clients, Accept(c)
      PROVE  ServerInv' /\ InputStays /\ HeldStays
  <2>1. accept # c
    BY <1>7, SessionFacts DEF Accept
  <2>2. QED BY <1>1, <1>7, <2>1, AcceptChanges DEF Accept
<1>8. ASSUME NEW c \in Clients, Respond(c)
      PROVE  ServerInv' /\ InputStays /\ HeldStays
  BY <1>1, <1>8, RespondChanges
<1>9. ASSUME NEW c \in Clients, Disconnect(c)
      PROVE  ServerInv' /\ InputStays /\ HeldStays
  BY <1>1, <1>9, DisconnectChanges
<1>10. ASSUME NEW c \in Clients, KernelAccept(c)
       PROVE  ServerInv' /\ InputStays /\ HeldStays
  BY <1>1, <1>10, KernelAcceptChanges
<1>11. ASSUME NEW c \in Clients, KernelReadFails(c)
       PROVE  ServerInv' /\ InputStays /\ HeldStays
  BY <1>1, <1>11, KernelReadFailsChanges
<1>12. ASSUME NEW c \in Clients, Writes(c)
       PROVE  ServerInv' /\ InputStays /\ HeldStays
  BY <1>1, <1>12, WritesChanges
<1>13. ASSUME NEW c \in Clients, NEW n \in Bytes, KernelRead(c, n)
       PROVE  ServerInv' /\ InputStays /\ HeldStays
  BY <1>1, <1>13, KernelReadChanges
<1>14. CASE UNCHANGED vars
  BY <1>14, StillKept DEF vars
<1>15. QED
  BY <1>2, <1>3, <1>4, <1>5, <1>6, <1>7, <1>8, <1>9, <1>10, <1>11, <1>12, <1>13, <1>14
     DEF Next

\* The inductive invariant: every session and the server's control of them agree, at
\* every moment between two callbacks.
THEOREM ServerCorrect == Spec => []ServerInv
<1>1. Init => ServerInv
  BY InitKept
<1>2. ServerInv /\ [Next]_vars => ServerInv'
  BY StepKept
<1>3. QED BY <1>1, <1>2, PTL DEF Spec

\* server_parse takes the requests of a connection in order and once, however they
\* are cut, the responses leave in that order, and a session either reads, or
\* writes, or waits for a response: for any clients and any number of requests.
THEOREM ServerSoundAlways == Spec => []ServerSound
<1>1. ServerInv => ServerSound
  BY DEF ServerInv
<1>2. QED BY <1>1, ServerCorrect, PTL

\* No step moves the input buffer a request points into while the application has
\* the request, and only a failed send takes the request from it.
THEOREM RequestIntactAlways == Spec => RequestIntact
<1>1. ServerInv /\ [Next]_vars => [InputStays]_vars /\ [HeldStays]_vars
  BY StepKept
<1>2. Spec => [][InputStays]_vars /\ [][HeldStays]_vars
  BY <1>1, ServerCorrect, PTL DEF Spec
<1>3. InputIntact <=> [][InputStays]_vars
  BY PTL DEF InputIntact, InputStays
<1>4. HeldUntilSendFails <=> [][HeldStays]_vars
  BY PTL DEF HeldUntilSendFails, HeldStays
<1>5. QED BY <1>2, <1>3, <1>4, PTL DEF RequestIntact
=============================================================================
