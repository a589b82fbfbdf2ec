----------------------------- MODULE EventProofs -----------------------------
(* Proofs about event.c, for any number of event_open and event_signal      *)
(* calls: one read listens as long as the event is open, no signal is lost  *)
(* or counted twice, and a closed descriptor calls nothing.                 *)
EXTENDS Event, FiniteSetTheorems, FunctionTheorems, TLAPS

-----------------------------------------------------------------------------
(* What appending to a queue and taking its head do to its elements and to  *)
(* their number.                                                           *)

\* The places and the number of the elements of s that are in X.
Places(s, X)  == {k \in DOMAIN s : s[k] \in X}
CountIn(s, X) == Cardinality(Places(s, X))

LEMMA Elements ==
  ASSUME NEW S, NEW s \in Seq(S)
  PROVE  \A k \in DOMAIN s : s[k] \in S /\ k \in Nat
  OBVIOUS

LEMMA Appended ==
  ASSUME NEW S, NEW s \in Seq(S), NEW x \in S
  PROVE  /\ Append(s, x) \in Seq(S)
         /\ Len(Append(s, x)) = Len(s) + 1
         /\ Len(s) \in Nat /\ Len(s) + 1 \notin DOMAIN s
         /\ Len(s) + 1 \in DOMAIN Append(s, x)
         /\ Append(s, x)[Len(s) + 1] = x
         /\ \A k \in DOMAIN s : /\ k \in Nat /\ k < Len(s) + 1
                                /\ k \in DOMAIN Append(s, x)
                                /\ Append(s, x)[k] = s[k]
         /\ \A k \in DOMAIN Append(s, x) : k \in DOMAIN s \/ k = Len(s) + 1
  OBVIOUS

LEMMA Shortened ==
  ASSUME NEW S, NEW s \in Seq(S), s # <<>>
  PROVE  /\ Tail(s) \in Seq(S)
         /\ Len(s) \in Nat /\ Len(Tail(s)) = Len(s) - 1
         /\ 1 \in DOMAIN s /\ Head(s) = s[1] /\ s[1] \in S
         /\ \A k \in DOMAIN Tail(s) : /\ k \in Nat /\ k + 1 \in DOMAIN s /\ k + 1 # 1
                                      /\ Tail(s)[k] = s[k + 1]
         /\ \A k \in DOMAIN s : k # 1 =>
              /\ k \in Nat /\ k - 1 \in DOMAIN Tail(s) /\ Tail(s)[k - 1] = s[k]
<1>1. /\ Tail(s) \in Seq(S) /\ 1 \in DOMAIN s /\ Head(s) = s[1] /\ s[1] \in S
      /\ Len(s) \in Nat /\ Len(Tail(s)) = Len(s) - 1
  OBVIOUS
<1>2. ASSUME NEW k \in DOMAIN Tail(s)
      PROVE  /\ k \in Nat /\ k + 1 \in DOMAIN s /\ k + 1 # 1
             /\ Tail(s)[k] = s[k + 1]
  OBVIOUS
<1>3. ASSUME NEW k \in DOMAIN s, k # 1
      PROVE  k \in Nat /\ k - 1 \in DOMAIN Tail(s) /\ Tail(s)[k - 1] = s[k]
  BY <1>3
<1>4. QED BY <1>1, <1>2, <1>3

LEMMA CountZero ==
  ASSUME NEW S, NEW s \in Seq(S), NEW X
  PROVE  /\ IsFiniteSet(Places(s, X)) /\ CountIn(s, X) \in Nat
         /\ CountIn(s, X) = 0 <=> \A k \in DOMAIN s : s[k] \notin X
<1>1. IsFiniteSet(DOMAIN s)
  BY FS_Interval
<1>2. Places(s, X) \in SUBSET (DOMAIN s)
  BY DEF Places
<1>3. IsFiniteSet(Places(s, X))
  BY <1>1, <1>2, FS_Subset
<1>4. CountIn(s, X) \in Nat
  BY <1>3, FS_CardinalityType DEF CountIn
<1>5. CountIn(s, X) = 0 <=> Places(s, X) = {}
  BY <1>3, FS_EmptySet DEF CountIn
<1>6. QED BY <1>3, <1>4, <1>5 DEF Places

LEMMA CountAppended ==
  ASSUME NEW S, NEW s \in Seq(S), NEW x \in S, NEW X
  PROVE  CountIn(Append(s, x), X) = CountIn(s, X) + (IF x \in X THEN 1 ELSE 0)
<1> DEFINE n == Len(s) + 1
           t == Append(s, x)
<1>1. /\ n \notin DOMAIN s /\ n \in DOMAIN t /\ t[n] = x
      /\ \A k \in DOMAIN s : k \in DOMAIN t /\ t[k] = s[k]
      /\ \A k \in DOMAIN t : k \in DOMAIN s \/ k = n
  BY Appended
<1>2. IsFiniteSet(Places(s, X)) /\ CountIn(s, X) \in Nat
  BY CountZero
<1>3. n \notin Places(s, X)
  BY <1>1 DEF Places
<1> HIDE DEF n, t
<1>4. CASE x \in X
  <2>1. Places(t, X) = Places(s, X) \cup {n}
    BY <1>1, <1>4 DEF Places
  <2>2. QED BY <1>2, <1>3, <1>4, <2>1, FS_AddElement DEF CountIn, t
<1>5. CASE x \notin X
  <2>1. Places(t, X) = Places(s, X)
    BY <1>1, <1>5 DEF Places
  <2>2. QED BY <1>2, <1>5, <2>1 DEF CountIn, t
<1>6. QED BY <1>4, <1>5

LEMMA CountShortened ==
  ASSUME NEW S, NEW s \in Seq(S), s # <<>>, NEW X
  PROVE  CountIn(s, X) = CountIn(Tail(s), X) + (IF s[1] \in X THEN 1 ELSE 0)
<1> DEFINE t == Tail(s)
           R == Places(s, X) \ {1}
<1>1. /\ t \in Seq(S) /\ 1 \in DOMAIN s
      /\ \A k \in DOMAIN t : k \in Nat /\ k + 1 \in DOMAIN s /\ k + 1 # 1 /\ t[k] = s[k + 1]
      /\ \A k \in DOMAIN s : k # 1 => k \in Nat /\ k - 1 \in DOMAIN t /\ t[k - 1] = s[k]
  BY Shortened
<1>2. /\ IsFiniteSet(Places(s, X)) /\ CountIn(s, X) \in Nat
      /\ IsFiniteSet(Places(t, X)) /\ CountIn(t, X) \in Nat
  BY <1>1, CountZero
<1>3. Cardinality(R) = CountIn(t, X)
  <2> DEFINE f == [k \in Places(t, X) |-> k + 1]
  <2> HIDE DEF t
  <2>1. f \in [Places(t, X) -> R]
    BY <1>1 DEF Places
  <2>2. \A a, b \in Places(t, X) : f[a] = f[b] => a = b
    BY <1>1 DEF Places
  <2>3. \A r \in R : \E k \in Places(t, X) : f[k] = r
    <3>1. ASSUME NEW r \in R
          PROVE  r - 1 \in Places(t, X) /\ f[r - 1] = r
      BY <1>1 DEF Places
    <3>2. QED BY <3>1
  <2>4. f \in Bijection(Places(t, X), R)
    BY <2>1, <2>2, <2>3, Fun_IsBij
  <2>5. ExistsBijection(Places(t, X), R)
    BY <2>4 DEF ExistsBijection
  <2>6. QED BY <1>2, <2>5, FS_Bijection DEF CountIn
<1>4. Cardinality(R) = IF 1 \in Places(s, X) THEN CountIn(s, X) - 1 ELSE CountIn(s, X)
  BY <1>2, FS_RemoveElement DEF CountIn
<1>5. 1 \in Places(s, X) <=> s[1] \in X
  BY <1>1 DEF Places
<1> HIDE DEF R, t
<1>6. QED BY <1>2, <1>3, <1>4, <1>5 DEF t

-----------------------------------------------------------------------------

Whats == {"read", "write", "cancel", "close"}

LEMMA JobType ==
  /\ \A w \in Whats, f \in Fds \cup {Closed} : Job(w, f) \in Jobs
  /\ \A w, f : Job(w, f).what = w /\ Job(w, f).fd = f
  /\ \A j \in Jobs : /\ j = Job(j.what, j.fd)
                     /\ j.what \in Whats /\ j.fd \in Fds \cup {Closed}
  /\ \A w, v, f, g : Job(w, f) = Job(v, g) <=> w = v /\ f = g
  BY DEF Job, Jobs, Whats

\* The counts of Event, of any queue, set of reads and completions.
QueuedIn(s, what, f) == CountIn(s, {Job(what, f)})
CompletedIn(c, f)    == CountIn(c, {[fd |-> f, ok |-> b] : b \in BOOLEAN})
Held(r, f)           == IF f \in r THEN 1 ELSE 0
ReadsIn(s, r, c, f)  == QueuedIn(s, "read", f) + Held(r, f) + CompletedIn(c, f)

LEMMA QueuedIs ==
  ASSUME NEW s, NEW what, NEW f
  PROVE  Cardinality({k \in DOMAIN s : s[k] = Job(what, f)}) = QueuedIn(s, what, f)
<1>1. {k \in DOMAIN s : s[k] = Job(what, f)} = Places(s, {Job(what, f)})
  BY DEF Places
<1>2. QED BY <1>1 DEF QueuedIn, CountIn

LEMMA CompletedIs ==
  ASSUME NEW c \in Seq(Done), NEW f
  PROVE  Cardinality({k \in DOMAIN c : c[k].fd = f}) = CompletedIn(c, f)
<1> DEFINE X == {[fd |-> f, ok |-> b] : b \in BOOLEAN}
<1>1. \A k \in DOMAIN c : c[k] \in Done
  BY Elements
<1>2. \A x \in Done : x.fd = f <=> x \in X
  BY DEF Done
<1> HIDE DEF X
<1>3. {k \in DOMAIN c : c[k].fd = f} = Places(c, X)
  BY <1>1, <1>2 DEF Places
<1>4. QED BY <1>3 DEF CompletedIn, CountIn, X

LEMMA ReadsAre ==
  ASSUME NEW s, NEW r, NEW c \in Seq(Done), NEW f
  PROVE  Cardinality({k \in DOMAIN s : s[k] = Job("read", f)})
           + Cardinality(r \cap {f})
           + Cardinality({k \in DOMAIN c : c[k].fd = f}) = ReadsIn(s, r, c, f)
<1>1. Cardinality(r \cap {f}) = Held(r, f)
  <2>1. r \cap {f} = IF f \in r THEN {f} ELSE {}
    OBVIOUS
  <2>2. QED BY <2>1, FS_Singleton, FS_EmptySet DEF Held
<1>2. QED BY <1>1, QueuedIs, CompletedIs DEF ReadsIn

\* What the counts say of the places.
LEMMA QueuedSay ==
  ASSUME NEW s \in Seq(Jobs), NEW w, NEW f
  PROVE  /\ QueuedIn(s, w, f) \in Nat
         /\ QueuedIn(s, w, f) = 0 <=> \A k \in DOMAIN s : s[k] # Job(w, f)
<1>1. /\ CountIn(s, {Job(w, f)}) \in Nat
      /\ CountIn(s, {Job(w, f)}) = 0 <=> \A k \in DOMAIN s : s[k] \notin {Job(w, f)}
  BY CountZero
<1>2. QED BY <1>1 DEF QueuedIn

LEMMA CompletedSay ==
  ASSUME NEW c \in Seq(Done), NEW f
  PROVE  /\ CompletedIn(c, f) \in Nat
         /\ CompletedIn(c, f) = 0 <=> \A k \in DOMAIN c : c[k].fd # f
<1> DEFINE X == {[fd |-> f, ok |-> b] : b \in BOOLEAN}
<1>1. \A k \in DOMAIN c : c[k] \in Done
  BY Elements
<1>2. \A x \in Done : x.fd = f <=> x \in X
  BY DEF Done
<1> HIDE DEF X
<1>3. CountIn(c, X) \in Nat /\ (CountIn(c, X) = 0 <=> \A k \in DOMAIN c : c[k] \notin X)
  BY CountZero
<1>4. QED BY <1>1, <1>2, <1>3 DEF CompletedIn, X

LEMMA ReadsSay ==
  ASSUME NEW s \in Seq(Jobs), NEW r, NEW c \in Seq(Done), NEW f
  PROVE  /\ ReadsIn(s, r, c, f) \in Nat
         /\ ReadsIn(s, r, c, f) = 0 <=> /\ \A k \in DOMAIN s : s[k] # Job("read", f)
                                        /\ f \notin r
                                        /\ \A k \in DOMAIN c : c[k].fd # f
<1>1. Held(r, f) \in Nat /\ (Held(r, f) = 0 <=> f \notin r)
  BY DEF Held
<1>2. /\ QueuedIn(s, "read", f) \in Nat
      /\ QueuedIn(s, "read", f) = 0 <=> \A k \in DOMAIN s : s[k] # Job("read", f)
  BY QueuedSay
<1>3. /\ CompletedIn(c, f) \in Nat
      /\ CompletedIn(c, f) = 0 <=> \A k \in DOMAIN c : c[k].fd # f
  BY CompletedSay
<1>4. ReadsIn(s, r, c, f) \in Nat
  BY <1>1, <1>2, <1>3 DEF ReadsIn
<1>5. ReadsIn(s, r, c, f) = 0 <=>
        QueuedIn(s, "read", f) = 0 /\ Held(r, f) = 0 /\ CompletedIn(c, f) = 0
  BY <1>1, <1>2, <1>3 DEF ReadsIn
<1>6. QED BY <1>1, <1>2, <1>3, <1>4, <1>5

LEMMA CountsAppended ==
  ASSUME NEW s \in Seq(Jobs), NEW w, NEW f, Job(w, f) \in Jobs
  PROVE  /\ \A v, g : QueuedIn(Append(s, Job(w, f)), v, g) =
                        QueuedIn(s, v, g) + (IF v = w /\ g = f THEN 1 ELSE 0)
         /\ \A r, c, g : c \in Seq(Done) =>
              ReadsIn(Append(s, Job(w, f)), r, c, g) =
                ReadsIn(s, r, c, g) + (IF w = "read" /\ g = f THEN 1 ELSE 0)
<1>1. ASSUME NEW v, NEW g
      PROVE  QueuedIn(Append(s, Job(w, f)), v, g) =
               QueuedIn(s, v, g) + (IF v = w /\ g = f THEN 1 ELSE 0)
  <2>1. Job(w, f) \in {Job(v, g)} <=> v = w /\ g = f
    BY JobType
  <2>2. CountIn(Append(s, Job(w, f)), {Job(v, g)}) =
          CountIn(s, {Job(v, g)}) + (IF Job(w, f) \in {Job(v, g)} THEN 1 ELSE 0)
    BY CountAppended
  <2>3. QED BY <2>1, <2>2 DEF QueuedIn
<1>2. ASSUME NEW r, NEW c, NEW g, c \in Seq(Done)
      PROVE  ReadsIn(Append(s, Job(w, f)), r, c, g) =
               ReadsIn(s, r, c, g) + (IF w = "read" /\ g = f THEN 1 ELSE 0)
  <2>1. QueuedIn(s, "read", g) \in Nat /\ CompletedIn(c, g) \in Nat
    BY <1>2, QueuedSay, CompletedSay
  <2>2. QueuedIn(Append(s, Job(w, f)), "read", g) =
          QueuedIn(s, "read", g) + (IF w = "read" /\ g = f THEN 1 ELSE 0)
    BY <1>1
  <2>3. Held(r, g) \in Nat
    BY DEF Held
  <2>4. QED BY <2>1, <2>2, <2>3 DEF ReadsIn
<1>3. QED BY <1>1, <1>2

LEMMA CountsShortened ==
  ASSUME NEW s \in Seq(Jobs), s # <<>>
  PROVE  \A v, g : QueuedIn(s, v, g) =
                     QueuedIn(Tail(s), v, g) + (IF s[1] = Job(v, g) THEN 1 ELSE 0)
<1>1. ASSUME NEW v, NEW g
      PROVE  QueuedIn(s, v, g) =
               QueuedIn(Tail(s), v, g) + (IF s[1] = Job(v, g) THEN 1 ELSE 0)
  <2>1. CountIn(s, {Job(v, g)}) =
          CountIn(Tail(s), {Job(v, g)}) + (IF s[1] \in {Job(v, g)} THEN 1 ELSE 0)
    BY CountShortened
  <2>2. QED BY <2>1 DEF QueuedIn
<1>2. QED BY <1>1

LEMMA CompletedAppended ==
  ASSUME NEW c \in Seq(Done), NEW x \in Done
  PROVE  \A g : CompletedIn(Append(c, x), g) =
                  CompletedIn(c, g) + (IF g = x.fd THEN 1 ELSE 0)
<1>1. ASSUME NEW g
      PROVE  CompletedIn(Append(c, x), g) = CompletedIn(c, g) + (IF g = x.fd THEN 1 ELSE 0)
  <2> DEFINE X == {[fd |-> g, ok |-> a] : a \in BOOLEAN}
  <2>1. x \in X <=> g = x.fd
    BY DEF Done
  <2> HIDE DEF X
  <2>2. CountIn(Append(c, x), X) = CountIn(c, X) + (IF x \in X THEN 1 ELSE 0)
    BY CountAppended
  <2>3. QED BY <2>1, <2>2 DEF CompletedIn, X
<1>2. QED BY <1>1

LEMMA CompletedShortened ==
  ASSUME NEW c \in Seq(Done), c # <<>>
  PROVE  \A g : CompletedIn(c, g) = CompletedIn(Tail(c), g) + (IF c[1].fd = g THEN 1 ELSE 0)
<1>1. ASSUME NEW g
      PROVE  CompletedIn(c, g) = CompletedIn(Tail(c), g) + (IF c[1].fd = g THEN 1 ELSE 0)
  <2> DEFINE X == {[fd |-> g, ok |-> a] : a \in BOOLEAN}
  <2>1. c[1] \in Done
    BY Shortened
  <2>2. c[1] \in X <=> c[1].fd = g
    BY <2>1 DEF Done
  <2> HIDE DEF X
  <2>3. CountIn(c, X) = CountIn(Tail(c), X) + (IF c[1] \in X THEN 1 ELSE 0)
    BY CountShortened
  <2>4. QED BY <2>2, <2>3 DEF CompletedIn, X
<1>2. QED BY <1>1

-----------------------------------------------------------------------------
(* The order of reads and cancellations, of any queue *)

Before(s, r, f, k) ==
  /\ f \in r => \E j \in DOMAIN s : j < k /\ s[j] = Job("cancel", f)
  /\ \A i \in DOMAIN s : s[i] = Job("read", f) =>
       \E j \in DOMAIN s : i < j /\ j < k /\ s[j] = Job("cancel", f)

First(s, r, c, d) ==
  /\ \A f \in Fds \ {d} : Before(s, r, f, Len(s) + 1)
  /\ \A g \in Fds, f \in Fds : f < g =>
       /\ \A k \in DOMAIN s : s[k] = Job("read", g) => Before(s, r, f, k)
       /\ g \in r \/ (\E k \in DOMAIN c : c[k].fd = g) => Before(s, r, f, 1)

LEMMA FirstIs == CancelledFirst <=> First(sq, reading, cq, fd)
  BY DEF CancelledFirst, CancelledBefore, First, Before

LEMMA BeforeAppend ==
  ASSUME NEW s \in Seq(Jobs), NEW r, NEW w, NEW f, Job(w, f) \in Jobs,
         NEW g, w = "read" => g # f, NEW k \in 1 .. Len(s) + 1
  PROVE  LET t == Append(s, Job(w, f)) IN
         /\ Before(s, r, g, k) => Before(t, r, g, k) /\ Before(t, r, g, Len(t) + 1)
         /\ w = "cancel" /\ g = f => Before(t, r, g, Len(t) + 1)
<1> DEFINE x == Job(w, f)
           t == Append(s, x)
           n == Len(s) + 1
<1>1. /\ n \in DOMAIN t /\ t[n] = x /\ Len(t) = n /\ n \in Nat
      /\ \A i \in DOMAIN s : i \in Nat /\ i < n /\ i \in DOMAIN t /\ t[i] = s[i]
      /\ \A i \in DOMAIN t : i \in DOMAIN s \/ i = n
  BY Appended
<1>2. x # Job("read", g)
  BY JobType
<1>3. w = "cancel" /\ g = f => x = Job("cancel", g)
  OBVIOUS
<1> HIDE DEF x, t, n
<1>4. ASSUME Before(s, r, g, k)
      PROVE  Before(t, r, g, k)
  BY <1>1, <1>2, <1>4 DEF Before
<1>5. ASSUME Before(s, r, g, k)
      PROVE  Before(t, r, g, n + 1)
  <2>1. \A j \in DOMAIN s : j < k => j < n + 1
    BY <1>1
  <2>2. QED BY <1>1, <1>2, <1>5, <2>1 DEF Before
<1>6. ASSUME w = "cancel", g = f
      PROVE  Before(t, r, g, n + 1)
  <2>1. n < n + 1 /\ \A i \in DOMAIN t : t[i] = Job("read", g) => i < n
    BY <1>1, <1>2
  <2>2. QED BY <1>1, <1>3, <1>6, <2>1 DEF Before
<1>7. QED BY <1>1, <1>4, <1>5, <1>6 DEF t, x

\* A submission keeps the order if a read is of the descriptor that is open, and of
\* the last one made.
LEMMA FirstAppend ==
  ASSUME NEW s \in Seq(Jobs), NEW r, NEW c, NEW d, NEW e, First(s, r, c, d),
         NEW w, NEW f, Job(w, f) \in Jobs,
         \A g \in Fds \ {e} : Before(s, r, g, Len(s) + 1) \/ (w = "cancel" /\ g = f),
         w = "read" =>
           /\ f = e
           /\ f \in Fds => \A g \in Fds : f < g =>
                /\ \A k \in DOMAIN s : s[k] # Job("read", g)
                /\ g \notin r
                /\ \A k \in DOMAIN c : c[k].fd # g
  PROVE  First(Append(s, Job(w, f)), r, c, e)
<1> DEFINE x == Job(w, f)
           t == Append(s, x)
           n == Len(s) + 1
<1>1. /\ n \in DOMAIN t /\ t[n] = x /\ Len(t) = n /\ n \in Nat
      /\ \A i \in DOMAIN s : i \in 1 .. n /\ i \in DOMAIN t /\ t[i] = s[i]
      /\ \A i \in DOMAIN t : i \in DOMAIN s \/ i = n
      /\ n \in 1 .. n /\ 1 \in 1 .. n
  BY Appended
<1>2. ASSUME NEW g, w = "read" => g # f, NEW k \in 1 .. n
      PROVE  /\ Before(s, r, g, k) => Before(t, r, g, k) /\ Before(t, r, g, Len(t) + 1)
             /\ w = "cancel" /\ g = f => Before(t, r, g, Len(t) + 1)
  BY <1>2, BeforeAppend
<1>3. w = "read" <=> \E g : x = Job("read", g)
  BY JobType
<1>4. \A g : x = Job("read", g) => w = "read" /\ g = f
  BY JobType
<1> HIDE DEF x, t, n
<1>5. ASSUME NEW g \in Fds \ {e}
      PROVE  Before(t, r, g, Len(t) + 1)
  BY <1>1, <1>2 DEF n
<1>6. ASSUME NEW g \in Fds, NEW h \in Fds, h < g
      PROVE  /\ \A k \in DOMAIN t : t[k] = Job("read", g) => Before(t, r, h, k)
             /\ g \in r \/ (\E k \in DOMAIN c : c[k].fd = g) => Before(t, r, h, 1)
  <2>1. ASSUME NEW k \in DOMAIN t, t[k] = Job("read", g)
        PROVE  Before(t, r, h, k)
    <3>1. CASE k \in DOMAIN s
      <4>1. s[k] = Job("read", g) /\ Before(s, r, h, k) /\ k \in 1 .. n
        BY <1>1, <1>6, <2>1, <3>1 DEF First
      <4>2. w = "read" => h # f
        BY <1>6, <3>1, <4>1
      <4>3. QED BY <1>2, <4>1, <4>2
    <3>2. CASE k = n
      <4>1. w = "read" /\ g = f /\ g = e
        BY <1>1, <1>4, <2>1, <3>2
      <4>2. h # f /\ h \in Fds \ {e}
        BY <1>6, <4>1 DEF Fds
      <4>3. Before(s, r, h, n)
        BY <4>1, <4>2 DEF n
      <4>4. QED BY <1>1, <1>2, <3>2, <4>2, <4>3
    <3>3. QED BY <1>1, <3>1, <3>2
  <2>2. ASSUME g \in r \/ (\E k \in DOMAIN c : c[k].fd = g)
        PROVE  Before(t, r, h, 1)
    <3>1. Before(s, r, h, 1)
      BY <1>6, <2>2 DEF First
    <3>2. w = "read" => h # f
      BY <1>6, <2>2
    <3>3. QED BY <1>1, <1>2, <3>1, <3>2
  <2>3. QED BY <2>1, <2>2
<1>7. QED BY <1>5, <1>6 DEF First, t, x

\* Taking a submission keeps the order.
LEMMA BeforeTake ==
  ASSUME NEW s \in Seq(Jobs), s # <<>>, NEW r, NEW q, NEW f,
         f \in q => \/ f \in r /\ s[1] # Job("cancel", f)
                    \/ s[1] = Job("read", f)
  PROVE  /\ \A k \in 2 .. Len(s) + 1 : Before(s, r, f, k) => Before(Tail(s), q, f, k - 1)
         /\ Before(s, r, f, 1) => Before(Tail(s), q, f, 1)
<1> DEFINE t == Tail(s)
<1>1. /\ 1 \in DOMAIN s
      /\ \A k \in DOMAIN t : k \in Nat /\ k + 1 \in DOMAIN s /\ k + 1 # 1 /\ t[k] = s[k + 1]
      /\ \A k \in DOMAIN s : k # 1 => k \in Nat /\ k - 1 \in DOMAIN t /\ t[k - 1] = s[k]
      /\ \A k \in DOMAIN s : k \in Nat /\ k >= 1
  BY Shortened
<1>2. Job("read", f) # Job("cancel", f)
  BY JobType
<1> HIDE DEF t
<1>3. ASSUME NEW k \in 2 .. Len(s) + 1, Before(s, r, f, k)
      PROVE  Before(t, q, f, k - 1)
  <2>1. k \in Int
    OBVIOUS
  <2>2. ASSUME f \in q
        PROVE  \E j \in DOMAIN t : j < k - 1 /\ t[j] = Job("cancel", f)
    <3>1. PICK j \in DOMAIN s : j # 1 /\ j < k /\ s[j] = Job("cancel", f)
      BY <1>1, <1>2, <1>3, <2>2 DEF Before
    <3>2. j - 1 \in DOMAIN t /\ t[j - 1] = Job("cancel", f) /\ j \in Nat
      BY <1>1, <3>1
    <3>3. QED BY <2>1, <3>1, <3>2
  <2>3. ASSUME NEW i \in DOMAIN t, t[i] = Job("read", f)
        PROVE  \E j \in DOMAIN t : i < j /\ j < k - 1 /\ t[j] = Job("cancel", f)
    <3>1. i \in Nat /\ i + 1 \in DOMAIN s /\ s[i + 1] = Job("read", f)
      BY <1>1, <2>3
    <3>2. PICK j \in DOMAIN s : i + 1 < j /\ j < k /\ s[j] = Job("cancel", f)
      BY <1>3, <3>1 DEF Before
    <3>3. j \in Nat /\ j # 1
      BY <1>1, <3>1, <3>2
    <3>4. j - 1 \in DOMAIN t /\ t[j - 1] = Job("cancel", f)
      BY <1>1, <3>2, <3>3
    <3>5. i < j - 1 /\ j - 1 < k - 1
      BY <2>1, <3>1, <3>2, <3>3
    <3>6. QED BY <3>4, <3>5
  <2>4. QED BY <2>2, <2>3 DEF Before
<1>4. ASSUME Before(s, r, f, 1)
      PROVE  Before(t, q, f, 1)
  <2>1. f \notin r /\ \A i \in DOMAIN s : s[i] # Job("read", f)
    BY <1>1, <1>4 DEF Before
  <2>2. f \notin q
    BY <1>1, <2>1
  <2>3. QED BY <1>1, <2>1, <2>2 DEF Before
<1>5. QED BY <1>3, <1>4 DEF t

LEMMA FirstTake ==
  ASSUME NEW s \in Seq(Jobs), s # <<>>, NEW r, NEW c, NEW d, First(s, r, c, d),
         NEW q, NEW b,
         \A f \in Fds : f \in q => \/ f \in r /\ s[1] # Job("cancel", f)
                                   \/ s[1] = Job("read", f),
         \A g \in Fds : (\E k \in DOMAIN b : b[k].fd = g) =>
                          g \in r \/ \E k \in DOMAIN c : c[k].fd = g
  PROVE  First(Tail(s), q, b, d)
<1> DEFINE t == Tail(s)
<1>1. /\ 1 \in DOMAIN s /\ Len(s) \in Nat /\ Len(t) = Len(s) - 1
      /\ \A k \in DOMAIN t : k \in Nat /\ k + 1 \in 2 .. Len(s) + 1
                             /\ k + 1 \in DOMAIN s /\ t[k] = s[k + 1]
      /\ Len(s) + 1 \in 2 .. Len(s) + 1
  BY Shortened
<1>2. ASSUME NEW f \in Fds
      PROVE  /\ \A k \in 2 .. Len(s) + 1 : Before(s, r, f, k) => Before(t, q, f, k - 1)
             /\ Before(s, r, f, 1) => Before(t, q, f, 1)
  BY BeforeTake
<1> HIDE DEF t
<1>3. ASSUME NEW f \in Fds \ {d}
      PROVE  Before(t, q, f, Len(t) + 1)
  <2>1. Before(s, r, f, Len(s) + 1)
    BY DEF First
  <2>2. Len(t) + 1 = (Len(s) + 1) - 1
    BY <1>1
  <2>3. QED BY <1>1, <1>2, <2>1, <2>2
<1>4. ASSUME NEW g \in Fds, NEW f \in Fds, f < g
      PROVE  /\ \A k \in DOMAIN t : t[k] = Job("read", g) => Before(t, q, f, k)
             /\ g \in q \/ (\E k \in DOMAIN b : b[k].fd = g) => Before(t, q, f, 1)
  <2>1. ASSUME NEW k \in DOMAIN t, t[k] = Job("read", g)
        PROVE  Before(t, q, f, k)
    <3>1. Before(s, r, f, k + 1) /\ (k + 1) - 1 = k
      BY <1>1, <1>4, <2>1 DEF First
    <3>2. QED BY <1>1, <1>2, <3>1
  <2>2. ASSUME g \in q \/ (\E k \in DOMAIN b : b[k].fd = g)
        PROVE  Before(t, q, f, 1)
    <3>1. Before(s, r, f, 1)
      BY <1>1, <1>4, <2>2 DEF First
    <3>2. QED BY <1>2, <3>1
  <2>3. QED BY <2>1, <2>2
<1>5. QED BY <1>3, <1>4 DEF First, t

\* A read completes, or a completion is handled.
LEMMA FirstComplete ==
  ASSUME NEW s, NEW r, NEW c, NEW d, First(s, r, c, d), NEW q, NEW b, q \subseteq r,
         \A g \in Fds : (\E k \in DOMAIN b : b[k].fd = g) =>
                          g \in r \/ \E k \in DOMAIN c : c[k].fd = g
  PROVE  First(s, q, b, d)
  BY DEF First, Before

-----------------------------------------------------------------------------
(* The invariant, with its counts written for any place *)

Arrived(c, f) == \E k \in DOMAIN c : c[k] = [fd |-> f, ok |-> TRUE]

\* The callback runs and has not closed the event.
Serving == pc = "callback" /\ ~aborted

Conserved ==
  \A f \in Fds : f = fd /\ pc # "dead" =>
    sent[f] = handed[f] + QueuedIn(sq, "write", f) + count[f]
                + (IF Arrived(cq, f) THEN counter ELSE 0)

Listens ==
  /\ fd \in {Closed, opens}
  /\ Serving => fd # Closed
  /\ \A f \in Fds :
       /\ f = fd /\ pc # "dead" =>
            /\ f \notin muted
            /\ Serving => read = Closed /\ ReadsIn(sq, reading, cq, f) = 0
            /\ ~Serving => read = f /\ ReadsIn(sq, reading, cq, f) = 1
       /\ ReadsIn(sq, reading, cq, f) <= 1
       /\ f \notin muted /\ ReadsIn(sq, reading, cq, f) # 0 => f = fd

Fresh ==
  \A f \in Fds : f > opens =>
    /\ f \notin muted /\ ReadsIn(sq, reading, cq, f) = 0
    /\ sent[f] = 0 /\ handed[f] = 0

Written == \A f \in Fds : QueuedIn(sq, "write", f) + count[f] <= sent[f]
Refused ==
  /\ counter > 1 => TwoSignals
  /\ Closed \in reading => opens > 1 /\ TwoSignals
  /\ \A k \in DOMAIN sq : sq[k] = Job("read", Closed) => opens > 1 /\ TwoSignals
  /\ \A k \in DOMAIN cq : cq[k].fd = Closed => opens > 1 /\ TwoSignals

Inv == /\ TypeOK
       /\ Conserved /\ Listens /\ Fresh /\ FailsForCause
       /\ First(sq, reading, cq, fd)
       /\ Written /\ Refused /\ FlagsLeft
       /\ FailsByCountOnly /\ WildByReopenOnly

LEMMA Same == EventInv <=> Inv
<1> SUFFICES ASSUME TypeOK
             PROVE  EventInv <=> Inv
  BY DEF EventInv, EventSound, Inv
<1>1. sq \in Seq(Jobs) /\ cq \in Seq(Done) /\ fd \in Fds \cup {Closed}
  BY DEF TypeOK
<1>2. \A f : Reads(f) = ReadsIn(sq, reading, cq, f)
  BY <1>1, ReadsAre DEF Reads, Queued
<1>3. \A w, f : Queued(w, f) = QueuedIn(sq, w, f)
  BY QueuedIs DEF Queued
<1>4. \A f : Ready(f) # {} <=> Arrived(cq, f)
  BY DEF Ready, Arrived
<1>5. fd # Closed <=> fd \in Fds
  BY <1>1 DEF Fds, Closed
<1>6. Listening <=> Listens
  BY <1>2, <1>5 DEF Listening, Listens, Serving
<1>7. Unmade <=> Fresh
  BY <1>2 DEF Unmade, Fresh
<1>8. SignalsConserved <=> Conserved
  BY <1>3, <1>4, <1>5 DEF SignalsConserved, Conserved
<1>9. CountsSent <=> Written /\ Refused
  BY <1>3 DEF CountsSent, Written, Refused
<1>10. Listens => OneReader
  <2>1. ASSUME Listens, fd # Closed, pc = "loop"
        PROVE  read = fd /\ fd \notin muted /\ Reads(fd) = 1
    BY <1>2, <1>5, <2>1 DEF Listens, Serving
  <2>2. QED BY <2>1 DEF OneReader, Reads
<1>11. QED
  BY <1>6, <1>7, <1>8, <1>9, <1>10, FirstIs DEF EventInv, EventSound, Inv

LEMMA Basics ==
  ASSUME TypeOK
  PROVE  /\ sq \in Seq(Jobs) /\ cq \in Seq(Done)
         /\ fd \in Fds \cup {Closed} /\ opens \in Nat /\ opens <= MaxOpens
         /\ counter \in Nat /\ Closed \notin Fds /\ MaxOpens \in Nat
         /\ count \in [Fds -> Nat] /\ sent \in [Fds -> Nat]
         /\ handed \in [Fds -> Nat]
  BY OpensAssumption DEF TypeOK, Fds, Closed

-----------------------------------------------------------------------------
(* The calls of the application *)

LEMMA OpenSound ==
  ASSUME Inv, Open
  PROVE  Inv'
<1> DEFINE n == opens + 1
           R(f) == ReadsIn(sq, reading, cq, f)
<1>1. /\ TypeOK /\ Conserved /\ Listens /\ Fresh /\ FailsForCause
      /\ First(sq, reading, cq, fd)
      /\ Written /\ Refused /\ FlagsLeft /\ FailsByCountOnly /\ WildByReopenOnly
  BY DEF Inv
<1>2. /\ UNCHANGED <<counter, abort, aborted, pc, reading, cq, muted, count, sent,
                     handed, wild>>
      /\ fd = Closed /\ opens' = n /\ read' = fd' /\ pc \in {"loop", "callback"}
      /\ sq' = Append(sq, Job("read", fd'))
      /\ fd' = IF counter \in {0, 1} THEN n ELSE Closed
  BY DEF Open, Running
<1>3. n \in Fds /\ n \in Nat /\ n > opens /\ n > 0
  BY <1>1, Basics DEF Open, Fds
<1>4. Job("read", fd') \in Jobs /\ fd' \in Fds \cup {Closed}
  BY <1>2, <1>3, JobType DEF Whats
<1>5. sq \in Seq(Jobs) /\ cq \in Seq(Done)
  BY <1>1, Basics
<1>6. /\ sq' \in Seq(Jobs)
      /\ \A k \in DOMAIN sq' : \/ k \in DOMAIN sq /\ sq'[k] = sq[k]
                               \/ sq'[k] = Job("read", fd')
  BY <1>2, <1>4, <1>5, Appended
<1>7. \A f \in Fds :
        /\ QueuedIn(sq', "write", f) = QueuedIn(sq, "write", f)
        /\ ReadsIn(sq', reading', cq', f) = R(f) + (IF f = fd' THEN 1 ELSE 0)
  <2>1. \A f : QueuedIn(sq, "write", f) \in Nat
    BY <1>5, QueuedSay
  <2>2. \A f : QueuedIn(sq', "write", f) = QueuedIn(sq, "write", f) + 0
    BY <1>2, <1>4, <1>5, CountsAppended
  <2>3. QED BY <1>2, <1>4, <1>5, <2>1, <2>2, CountsAppended
<1>8. \A f \in Fds : R(f) \in Nat
  BY <1>5, ReadsSay
<1>9. R(n) = 0 /\ n \notin muted /\ sent[n] = 0 /\ handed[n] = 0
  BY <1>1, <1>3 DEF Fresh
<1>10. TypeOK'
  <2>1. opens' \in 0 .. MaxOpens /\ fd' \in Fds \cup {Closed}
    BY <1>2, <1>3, <1>4 DEF Fds
  <2>2. semaphore' \in [Fds -> BOOLEAN]
    BY <1>1 DEF TypeOK, Open
  <2>3. QED BY <1>1, <1>2, <1>6, <2>1, <2>2 DEF TypeOK
<1>11. Listens'
  <2>1. ~Serving
    BY <1>1, <1>2 DEF Listens
  <2>2. \A f \in Fds : f # n => f # fd'
    BY <1>1, <1>2, Basics
  <2>3. \A f \in Fds : R(f) <= 1 /\ (f \notin muted => R(f) = 0)
    BY <1>1, <1>2, Basics DEF Listens
  <2> HIDE DEF R
  <2>4. \A f \in Fds :
          /\ ReadsIn(sq', reading', cq', f) <= 1
          /\ f = fd' => f \notin muted /\ ReadsIn(sq', reading', cq', f) = 1
          /\ f \notin muted /\ ReadsIn(sq', reading', cq', f) # 0 => f = fd'
    BY <1>7, <1>8, <1>9, <2>2, <2>3
  <2>5. ~Serving' /\ fd' \in {Closed, opens'}
    BY <1>2, <2>1 DEF Serving
  <2>6. QED BY <1>2, <2>4, <2>5 DEF Listens
<1>12. Fresh'
  <2>1. ASSUME NEW f \in Fds, f > n
        PROVE  f > opens /\ f # fd'
    BY <1>2, <1>3, <2>1, Basics, <1>1 DEF Fds, Closed
  <2>2. QED BY <1>1, <1>2, <1>7, <1>8, <2>1 DEF Fresh
<1>13. FailsForCause'
  BY <1>1, <1>2, <1>6, JobType DEF FailsForCause
<1>14. First(sq', reading', cq', fd')
  <2>1. \A g \in Fds \ {fd'} : Before(sq, reading, g, Len(sq) + 1)
    BY <1>1, <1>2, Basics DEF First
  <2>2. \A g \in Fds : n < g =>
          /\ \A k \in DOMAIN sq : sq[k] # Job("read", g)
          /\ g \notin reading
          /\ \A k \in DOMAIN cq : cq[k].fd # g
    <3> SUFFICES ASSUME NEW g \in Fds, n < g
                 PROVE  /\ \A k \in DOMAIN sq : sq[k] # Job("read", g)
                        /\ g \notin reading
                        /\ \A k \in DOMAIN cq : cq[k].fd # g
      OBVIOUS
    <3>1. g > opens
      BY <1>1, <1>3, Basics DEF Fds
    <3>2. ReadsIn(sq, reading, cq, g) = 0
      BY <1>1, <3>1 DEF Fresh
    <3>3. QED BY <1>5, <3>2, ReadsSay
  <2>3. fd' \in Fds => fd' = n
    BY <1>1, <1>2, Basics
  <2>4. QED BY <1>1, <1>2, <1>4, <1>5, <2>1, <2>2, <2>3, FirstAppend
<1>15. Written'
  BY <1>1, <1>2, <1>7 DEF Written
<1>16. Refused'
  <2>1. TwoSignals => TwoSignals'
    BY <1>2, <1>3 DEF TwoSignals
  <2>2. opens > 1 => opens' > 1
    BY <1>1, <1>2, Basics
  <2>3. fd' = Closed => opens' > 1 /\ TwoSignals'
    <3>1. ASSUME fd' = Closed
          PROVE  counter > 1
      BY <1>1, <1>2, <1>3, <3>1, Basics DEF Closed
    <3>2. counter > 1 => opens' > 1 /\ TwoSignals
      BY <1>1, <1>2, Basics DEF Refused, TwoSignals
    <3>3. QED BY <2>1, <3>1, <3>2
  <2>4. Job("read", fd') = Job("read", Closed) => fd' = Closed
    BY JobType
  <2>5. QED BY <1>1, <1>2, <1>6, <2>1, <2>2, <2>3, <2>4 DEF Refused
<1>17. FlagsLeft' /\ WildByReopenOnly' /\ FailsByCountOnly'
  <2>1. opens > 0 => opens' > 1
    BY <1>1, <1>2, Basics
  <2>2. opens > 1 => opens' > 1
    BY <1>1, <1>2, Basics
  <2>3. opens > 0 => opens' > 0
    BY <1>1, <1>2, Basics
  <2>4. QED
    BY <1>1, <1>2, <2>1, <2>2, <2>3 DEF FlagsLeft, WildByReopenOnly, FailsByCountOnly
<1>18. Conserved'
  <2>1. ASSUME NEW f \in Fds, f = fd'
        PROVE  f = n /\ ~Arrived(cq, n) /\ count[n] = 0 /\ QueuedIn(sq, "write", n) = 0
    <3>1. f = n
      BY <1>2, <2>1, Basics, <1>1
    <3>2. \A k \in DOMAIN cq : cq[k].fd # n
      BY <1>5, <1>9, ReadsSay
    <3>3. /\ QueuedIn(sq, "write", n) + count[n] <= 0
          /\ QueuedIn(sq, "write", n) \in Nat /\ count[n] \in Nat
      <4>1. QueuedIn(sq, "write", n) + count[n] <= 0
        BY <1>1, <1>3, <1>9 DEF Written
      <4>2. QED BY <1>1, <1>3, <1>5, <4>1, QueuedSay, Basics
    <3>4. QED BY <3>1, <3>2, <3>3 DEF Arrived
  <2>2. QED BY <1>2, <1>7, <1>9, <2>1 DEF Conserved
<1>19. QED
  BY <1>10, <1>11, <1>12, <1>13, <1>14, <1>15, <1>16, <1>17, <1>18 DEF Inv

LEMMA Parts ==
  ASSUME Inv
  PROVE  /\ TypeOK /\ Conserved /\ Listens /\ Fresh /\ FailsForCause
         /\ First(sq, reading, cq, fd)
         /\ Written /\ Refused /\ FlagsLeft /\ FailsByCountOnly /\ WildByReopenOnly
         /\ sq \in Seq(Jobs) /\ cq \in Seq(Done)
         /\ fd \in Fds \cup {Closed} /\ opens \in Nat /\ counter \in Nat
         /\ Closed \notin Fds /\ MaxOpens \in Nat
         /\ count \in [Fds -> Nat] /\ sent \in [Fds -> Nat] /\ handed \in [Fds -> Nat]
         /\ \A f : ReadsIn(sq, reading, cq, f) \in Nat
         /\ \A w, f : QueuedIn(sq, w, f) \in Nat
<1>1. TypeOK
  BY DEF Inv
<1>2. sq \in Seq(Jobs) /\ cq \in Seq(Done)
  BY <1>1 DEF TypeOK
<1>3. \A f : ReadsIn(sq, reading, cq, f) \in Nat
  BY <1>2, ReadsSay
<1>4. \A w, f : QueuedIn(sq, w, f) \in Nat
  BY <1>2, QueuedSay
<1>5. QED BY <1>1, <1>3, <1>4, Basics DEF Inv

\* A signal: one more given, and one more in the ring or in the eventfd.
LEMMA SignalSound ==
  ASSUME Inv, Signal \/ SignalSync
  PROVE  Inv'
<1>1. /\ TypeOK /\ Conserved /\ Listens /\ Fresh /\ FailsForCause
      /\ First(sq, reading, cq, fd)
      /\ Written /\ Refused /\ FlagsLeft /\ FailsByCountOnly /\ WildByReopenOnly
      /\ sq \in Seq(Jobs) /\ cq \in Seq(Done) /\ fd \in Fds /\ fd = opens
      /\ count \in [Fds -> Nat] /\ sent \in [Fds -> Nat]
      /\ opens \in Nat /\ counter \in Nat
      /\ \A f : ReadsIn(sq, reading, cq, f) \in Nat
      /\ \A f \in Fds : /\ QueuedIn(sq, "write", f) \in Nat /\ count[f] \in Nat
                        /\ sent[f] \in Nat /\ handed[f] \in Nat
  BY Parts DEF Signal, SignalSync, Listens
<1>2. /\ UNCHANGED <<fd, read, counter, abort, aborted, pc, opens, reading, cq, muted,
                     semaphore, handed, wild>>
      /\ sent' = [sent EXCEPT ![fd] = @ + 1]
  BY DEF Signal, SignalSync
<1>3. /\ Job("write", fd) \in Jobs
      /\ \A g : Job("write", fd) # Job("read", g) /\ Job("write", fd).what # "cancel"
  BY <1>1, JobType DEF Whats
<1>4. /\ sent' \in [Fds -> Nat]
      /\ \A f \in Fds : sent'[f] = sent[f] + (IF f = fd THEN 1 ELSE 0)
  BY <1>1, <1>2
<1>5. /\ sq' \in Seq(Jobs)
      /\ \A k \in DOMAIN sq' : (k \in DOMAIN sq /\ sq'[k] = sq[k]) \/ sq'[k] = Job("write", fd)
      /\ First(sq', reading', cq', fd')
      /\ count' \in [Fds -> Nat]
      /\ \A f \in Fds :
           /\ ReadsIn(sq', reading', cq', f) = ReadsIn(sq, reading, cq, f)
           /\ QueuedIn(sq', "write", f) + count'[f]
                = QueuedIn(sq, "write", f) + count[f] + (IF f = fd THEN 1 ELSE 0)
           /\ QueuedIn(sq', "write", f) \in Nat /\ count'[f] \in Nat
  <2>1. CASE Signal
    <3>1. sq' = Append(sq, Job("write", fd)) /\ count' = count
      BY <2>1 DEF Signal
    <3>2. /\ sq' \in Seq(Jobs)
          /\ \A k \in DOMAIN sq' : (k \in DOMAIN sq /\ sq'[k] = sq[k]) \/ sq'[k] = Job("write", fd)
      BY <1>1, <1>3, <3>1, Appended
    <3>3. First(sq', reading', cq', fd')
      <4>1. \A g \in Fds \ {fd} : Before(sq, reading, g, Len(sq) + 1)
        BY <1>1 DEF First
      <4>2. QED BY <1>1, <1>2, <1>3, <3>1, <4>1, FirstAppend
    <3>4. \A f \in Fds : /\ ReadsIn(sq', reading', cq', f) = ReadsIn(sq, reading, cq, f) + 0
                         /\ QueuedIn(sq', "write", f)
                              = QueuedIn(sq, "write", f) + (IF f = fd THEN 1 ELSE 0)
      BY <1>1, <1>2, <1>3, <3>1, CountsAppended
    <3>5. ASSUME NEW f \in Fds
          PROVE  /\ ReadsIn(sq', reading', cq', f) = ReadsIn(sq, reading, cq, f)
                 /\ QueuedIn(sq', "write", f) + count'[f]
                      = QueuedIn(sq, "write", f) + count[f] + (IF f = fd THEN 1 ELSE 0)
                 /\ QueuedIn(sq', "write", f) \in Nat /\ count'[f] \in Nat
      <4>1. /\ ReadsIn(sq, reading, cq, f) \in Nat
            /\ QueuedIn(sq, "write", f) \in Nat /\ count[f] \in Nat
        BY <1>1
      <4>2. /\ ReadsIn(sq', reading', cq', f) = ReadsIn(sq, reading, cq, f) + 0
            /\ QueuedIn(sq', "write", f)
                 = QueuedIn(sq, "write", f) + (IF f = fd THEN 1 ELSE 0)
            /\ count'[f] = count[f]
        BY <3>1, <3>4
      <4>3. QED BY ONLY <4>1, <4>2
    <3>6. QED BY <1>1, <3>1, <3>2, <3>3, <3>5
  <2>2. CASE SignalSync
    <3>1. /\ sq' = sq /\ count' = [count EXCEPT ![fd] = @ + 1]
      BY <2>2 DEF SignalSync
    <3>2. First(sq', reading', cq', fd')
      BY <1>1, <1>2, <3>1
    <3>3. /\ count' \in [Fds -> Nat]
          /\ \A f \in Fds : count'[f] = count[f] + (IF f = fd THEN 1 ELSE 0)
      BY <1>1, <3>1
    <3>4. ASSUME NEW f \in Fds
          PROVE  /\ ReadsIn(sq', reading', cq', f) = ReadsIn(sq, reading, cq, f)
                 /\ QueuedIn(sq', "write", f) + count'[f]
                      = QueuedIn(sq, "write", f) + count[f] + (IF f = fd THEN 1 ELSE 0)
                 /\ QueuedIn(sq', "write", f) \in Nat /\ count'[f] \in Nat
      <4>1. /\ QueuedIn(sq, "write", f) \in Nat /\ count[f] \in Nat
            /\ count'[f] = count[f] + (IF f = fd THEN 1 ELSE 0)
        BY <1>1, <3>3
      <4>2. UNCHANGED <<sq, reading, cq>>
        BY <1>2, <3>1
      <4>3. QED BY ONLY <4>1, <4>2
    <3>5. QED BY <1>1, <1>2, <3>1, <3>2, <3>3, <3>4
  <2>3. QED BY <2>1, <2>2
<1>6. TypeOK'
  BY <1>1, <1>2, <1>4, <1>5 DEF TypeOK
<1>7. Listens' /\ Fresh'
  <2>1. Serving' <=> Serving
    BY <1>2 DEF Serving
  <2>2. \A f \in Fds : f > opens => f # fd
    BY <1>1
  <2>3. Listens'
    BY <1>1, <1>2, <1>5, <2>1 DEF Listens
  <2>4. Fresh'
    BY <1>1, <1>2, <1>4, <1>5, <2>2 DEF Fresh
  <2>5. QED BY <2>3, <2>4
<1>8. FailsForCause'
  <2>1. \A k \in DOMAIN sq' : sq'[k].what = "cancel" => k \in DOMAIN sq /\ sq'[k] = sq[k]
    BY <1>3, <1>5
  <2>2. QED BY <1>1, <1>2, <2>1 DEF FailsForCause
<1>9. Written'
  <2>1. ASSUME NEW f \in Fds
        PROVE  QueuedIn(sq', "write", f) + count'[f] <= sent'[f]
    <3>1. /\ QueuedIn(sq, "write", f) \in Nat /\ count[f] \in Nat /\ sent[f] \in Nat
          /\ QueuedIn(sq, "write", f) + count[f] <= sent[f]
      BY <1>1 DEF Written
    <3>2. /\ sent'[f] = sent[f] + (IF f = fd THEN 1 ELSE 0)
          /\ QueuedIn(sq', "write", f) + count'[f]
               = QueuedIn(sq, "write", f) + count[f] + (IF f = fd THEN 1 ELSE 0)
      BY <1>4, <1>5
    <3>3. QED BY ONLY <3>1, <3>2
  <2>2. QED BY <2>1 DEF Written
<1>10. Refused'
  <2>1. TwoSignals => TwoSignals'
    <3>1. ASSUME NEW f \in Fds, sent[f] > 1
          PROVE  sent'[f] > 1
      BY <1>1, <1>4, <3>1
    <3>2. QED BY <1>2, <3>1 DEF TwoSignals
  <2>2. QED BY <1>1, <1>2, <1>3, <1>5, <2>1 DEF Refused
<1>11. FlagsLeft' /\ WildByReopenOnly' /\ FailsByCountOnly'
  BY <1>1, <1>2 DEF FlagsLeft, WildByReopenOnly, FailsByCountOnly, Signal, SignalSync,
                    Running
<1>12. Conserved'
  <2>1. ASSUME pc # "dead"
        PROVE  sent'[fd] = handed[fd] + QueuedIn(sq', "write", fd) + count'[fd]
                             + (IF Arrived(cq, fd) THEN counter ELSE 0)
    <3>1. /\ handed[fd] \in Nat /\ counter \in Nat /\ sent[fd] \in Nat
          /\ count[fd] \in Nat /\ QueuedIn(sq, "write", fd) \in Nat
          /\ count'[fd] \in Nat /\ QueuedIn(sq', "write", fd) \in Nat
          /\ sent'[fd] = sent[fd] + 1
          /\ QueuedIn(sq', "write", fd) + count'[fd] = QueuedIn(sq, "write", fd) + count[fd] + 1
      BY <1>1, <1>4, <1>5
    <3>2. sent[fd] = handed[fd] + QueuedIn(sq, "write", fd) + count[fd]
                       + (IF Arrived(cq, fd) THEN counter ELSE 0)
      BY <1>1, <2>1 DEF Conserved
    <3>3. QED BY ONLY <3>1, <3>2
  <2>2. QED BY <1>2, <2>1 DEF Conserved
<1>13. QED
  BY <1>5, <1>6, <1>7, <1>8, <1>9, <1>10, <1>11, <1>12 DEF Inv

\* The descriptor that is closed is muted, and its read, if there is one, cancelled.
LEMMA CloseSound ==
  ASSUME Inv, Close
  PROVE  Inv'
<1> DEFINE t == IF read # Closed THEN Append(sq, Job("cancel", read)) ELSE sq
<1>1. /\ TypeOK /\ Conserved /\ Listens /\ Fresh /\ FailsForCause
      /\ First(sq, reading, cq, fd)
      /\ Written /\ Refused /\ FlagsLeft /\ FailsByCountOnly /\ WildByReopenOnly
      /\ sq \in Seq(Jobs) /\ cq \in Seq(Done) /\ fd \in Fds /\ fd = opens
      /\ opens \in Nat /\ Closed \notin Fds /\ fd # Closed
      /\ \A f : ReadsIn(sq, reading, cq, f) \in Nat
      /\ \A w, f : QueuedIn(sq, w, f) \in Nat
  BY Parts DEF Close, Listens
<1>2. /\ UNCHANGED <<read, counter, abort, pc, opens, reading, cq, count, semaphore,
                     sent, handed>>
      /\ fd' = Closed /\ pc \in {"loop", "callback"}
      /\ muted' = IF read # Closed THEN muted \cup {read} ELSE muted
      /\ aborted' = (aborted \/ abort = "live")
      /\ wild' = (wild \/ abort = "dangling")
  BY DEF Close, Running
<1>3. read # Closed => read = fd /\ ~Serving
  BY <1>1, <1>2 DEF Listens
<1>4. read = Closed => ReadsIn(sq, reading, cq, fd) = 0
  BY <1>1, <1>2 DEF Listens
<1>5. /\ Job("cancel", fd) \in Jobs /\ Job("close", fd) \in Jobs
      /\ \A g : Job("cancel", fd) # Job("read", g) /\ Job("close", fd) # Job("read", g)
      /\ Job("close", fd).what # "cancel" /\ Job("cancel", fd).fd = fd
  BY <1>1, JobType DEF Whats
<1>6. t = IF read # Closed THEN Append(sq, Job("cancel", fd)) ELSE sq
  BY <1>3
<1> HIDE DEF t
<1>7. /\ t \in Seq(Jobs)
      /\ \A k \in DOMAIN t : \/ k \in DOMAIN sq /\ t[k] = sq[k]
                             \/ read # Closed /\ t[k] = Job("cancel", fd)
      /\ \A f : /\ ReadsIn(t, reading, cq, f) = ReadsIn(sq, reading, cq, f)
                /\ QueuedIn(t, "write", f) = QueuedIn(sq, "write", f)
  <2>1. CASE read # Closed
    <3>1. t = Append(sq, Job("cancel", fd))
      BY <1>6, <2>1
    <3>2. /\ t \in Seq(Jobs)
          /\ \A k \in DOMAIN t : (k \in DOMAIN sq /\ t[k] = sq[k]) \/ t[k] = Job("cancel", fd)
      BY <1>1, <1>5, <3>1, Appended
    <3>3. \A f : /\ ReadsIn(t, reading, cq, f) = ReadsIn(sq, reading, cq, f) + 0
                 /\ QueuedIn(t, "write", f) = QueuedIn(sq, "write", f) + 0
      BY <1>1, <1>5, <3>1, CountsAppended
    <3>4. QED BY <1>1, <2>1, <3>2, <3>3
  <2>2. CASE read = Closed
    BY <1>1, <1>6, <2>2
  <2>3. QED BY <2>1, <2>2
<1>8. sq' = Append(t, Job("close", fd))
  BY <1>5, <1>7 DEF Close, t
<1>9. /\ sq' \in Seq(Jobs)
      /\ \A k \in DOMAIN sq' : \/ k \in DOMAIN sq /\ sq'[k] = sq[k]
                               \/ read # Closed /\ sq'[k] = Job("cancel", fd)
                               \/ sq'[k] = Job("close", fd)
  BY <1>5, <1>7, <1>8, Appended
<1>10. \A f : /\ ReadsIn(sq', reading', cq', f) = ReadsIn(sq, reading, cq, f)
              /\ QueuedIn(sq', "write", f) = QueuedIn(sq, "write", f)
  <2>1. \A f : /\ ReadsIn(sq', reading', cq', f) = ReadsIn(t, reading, cq, f) + 0
               /\ QueuedIn(sq', "write", f) = QueuedIn(t, "write", f) + 0
    BY <1>1, <1>2, <1>5, <1>7, <1>8, CountsAppended
  <2>2. QED BY <1>1, <1>7, <2>1
<1>11. First(sq', reading', cq', fd')
  <2>1. First(t, reading, cq, Closed)
    <3>1. \A g \in Fds \ {fd} : Before(sq, reading, g, Len(sq) + 1)
      BY <1>1 DEF First
    <3>2. CASE read # Closed
      <4>1. t = Append(sq, Job("cancel", fd))
        BY <1>6, <3>2
      <4>2. \A g \in Fds \ {Closed} : \/ Before(sq, reading, g, Len(sq) + 1)
                                      \/ "cancel" = "cancel" /\ g = fd
        BY <3>1
      <4>3. QED BY <1>1, <1>5, <4>1, <4>2, FirstAppend
    <3>3. CASE read = Closed
      <4>1. Before(sq, reading, fd, Len(sq) + 1)
        <5>1. fd \notin reading /\ \A k \in DOMAIN sq : sq[k] # Job("read", fd)
          BY <1>1, <1>4, <3>3, ReadsSay, SMTT(30)
        <5>2. QED BY <5>1 DEF Before
      <4>2. t = sq
        BY <1>6, <3>3
      <4>3. QED BY <1>1, <3>1, <4>1, <4>2 DEF First
    <3>4. QED BY <3>2, <3>3
  <2>2. \A g \in Fds \ {Closed} : Before(t, reading, g, Len(t) + 1)
    BY <2>1 DEF First
  <2>3. QED BY <1>2, <1>5, <1>7, <1>8, <2>1, <2>2, FirstAppend
<1>12. ~Serving'
  BY <1>1, <1>2 DEF Serving, TypeOK
<1>13. TypeOK'
  <2>1. muted' \subseteq Fds
    BY <1>1, <1>2, <1>3 DEF TypeOK
  <2>2. aborted' \in BOOLEAN /\ wild' \in BOOLEAN /\ (aborted' => pc' = "callback")
    BY <1>1, <1>2 DEF TypeOK
  <2>3. QED BY <1>1, <1>2, <1>9, <2>1, <2>2 DEF TypeOK
<1>14. Listens'
  <2>1. ASSUME NEW f \in Fds, f \notin muted'
        PROVE  ReadsIn(sq, reading, cq, f) = 0
    <3>1. f \notin muted
      BY <1>2, <2>1
    <3>2. CASE f = fd
      BY <1>2, <1>3, <1>4, <2>1, <3>2
    <3>3. CASE f # fd
      BY <1>1, <3>1, <3>3 DEF Listens
    <3>4. QED BY <3>2, <3>3
  <2>2. \A f \in Fds : f # fd'
    BY <1>1, <1>2
  <2>3. \A f \in Fds : ReadsIn(sq, reading, cq, f) <= 1
    BY <1>1 DEF Listens
  <2>4. QED BY <1>2, <1>10, <1>12, <2>1, <2>2, <2>3 DEF Listens
<1>15. Fresh'
  <2>1. \A f \in Fds : f > opens => f # fd
    BY <1>1
  <2>2. \A f \in Fds : f > opens => f \notin muted'
    BY <1>1, <1>2, <1>3, <2>1 DEF Fresh
  <2>3. QED BY <1>1, <1>2, <1>10, <2>2 DEF Fresh
<1>16. FailsForCause'
  <2>1. muted \subseteq muted' /\ (read # Closed => fd \in muted')
    BY <1>2, <1>3
  <2>2. QED BY <1>1, <1>2, <1>5, <1>9, <2>1 DEF FailsForCause
<1>17. Written'
  BY <1>1, <1>2, <1>10 DEF Written
<1>18. Refused'
  <2>1. TwoSignals' <=> TwoSignals
    BY <1>2 DEF TwoSignals
  <2>2. QED BY <1>1, <1>2, <1>5, <1>9, <2>1 DEF Refused
<1>19. FlagsLeft' /\ WildByReopenOnly' /\ FailsByCountOnly'
  <2>1. opens > 0
    BY <1>1 DEF Closed
  <2>2. abort = "dangling" => opens > 1
    BY <1>1 DEF FlagsLeft
  <2>3. QED BY <1>1, <1>2, <2>1, <2>2
            DEF FlagsLeft, WildByReopenOnly, FailsByCountOnly
<1>20. Conserved'
  BY <1>1, <1>2 DEF Conserved
<1>21. QED
  BY <1>11, <1>13, <1>14, <1>15, <1>16, <1>17, <1>18, <1>19, <1>20 DEF Inv

-----------------------------------------------------------------------------
(* event_read *)

\* Taking the head of the completions.
LEMMA CompletionTaken ==
  ASSUME Inv, cq # <<>>, cq' = Tail(cq), UNCHANGED <<fd, sq, reading>>
  PROVE  /\ cq' \in Seq(Done) /\ cq[1] \in Done /\ Head(cq) = cq[1] /\ 1 \in DOMAIN cq
         /\ \A k \in DOMAIN cq' : \E l \in DOMAIN cq : cq'[k] = cq[l]
         /\ \A k \in DOMAIN cq : k # 1 => \E l \in DOMAIN cq' : cq'[l] = cq[k]
         /\ First(sq', reading', cq', fd')
         /\ \A f : /\ ReadsIn(sq, reading, cq, f)
                        = ReadsIn(sq', reading', cq', f) + (IF cq[1].fd = f THEN 1 ELSE 0)
                   /\ ReadsIn(sq', reading', cq', f) \in Nat
<1>1. /\ sq \in Seq(Jobs) /\ cq \in Seq(Done) /\ First(sq, reading, cq, fd)
  BY Parts
<1>2. /\ cq' \in Seq(Done) /\ cq[1] \in Done /\ Head(cq) = cq[1] /\ 1 \in DOMAIN cq
      /\ \A k \in DOMAIN cq' : k + 1 \in DOMAIN cq /\ cq'[k] = cq[k + 1]
      /\ \A k \in DOMAIN cq : k # 1 => k - 1 \in DOMAIN cq' /\ cq'[k - 1] = cq[k]
  BY <1>1, Shortened
<1>3. \A k \in DOMAIN cq' : \E l \in DOMAIN cq : cq'[k] = cq[l]
  BY <1>2
<1>4. First(sq, reading, cq', fd)
  <2>1. \A g \in Fds : (\E k \in DOMAIN cq' : cq'[k].fd = g) =>
                         g \in reading \/ \E k \in DOMAIN cq : cq[k].fd = g
    BY <1>3
  <2>2. QED BY <1>1, <2>1 DEF First
<1>5. ASSUME NEW f
      PROVE  /\ ReadsIn(sq, reading, cq, f)
                  = ReadsIn(sq', reading', cq', f) + (IF cq[1].fd = f THEN 1 ELSE 0)
             /\ ReadsIn(sq', reading', cq', f) \in Nat
  <2>1. CompletedIn(cq, f) = CompletedIn(cq', f) + (IF cq[1].fd = f THEN 1 ELSE 0)
    BY <1>1, CompletedShortened
  <2>2. /\ CompletedIn(cq', f) \in Nat /\ QueuedIn(sq, "read", f) \in Nat
        /\ Held(reading, f) \in Nat
    BY <1>1, <1>2, QueuedSay, CompletedSay DEF Held
  <2>3. ReadsIn(sq', reading', cq', f)
          = QueuedIn(sq, "read", f) + Held(reading, f) + CompletedIn(cq', f)
    BY DEF ReadsIn
  <2>4. ReadsIn(sq, reading, cq, f)
          = QueuedIn(sq, "read", f) + Held(reading, f) + CompletedIn(cq, f)
    BY DEF ReadsIn
  <2>5. QED BY ONLY <2>1, <2>2, <2>3, <2>4
<1>6. \A k \in DOMAIN cq : k # 1 => \E l \in DOMAIN cq' : cq'[l] = cq[k]
  BY <1>2
<1>7. QED BY <1>2, <1>3, <1>4, <1>5, <1>6

\* The read that calls the callback is the one of the open descriptor; one that
\* fails is of a descriptor that eventfd() refused.
LEMMA HandleSound ==
  ASSUME Inv, Handle
  PROVE  Inv' /\ (Head(cq).ok => Head(cq).fd = fd)
<1> DEFINE h == cq[1]
           R(f) == ReadsIn(sq, reading, cq, f)
<1>1. /\ TypeOK /\ Conserved /\ Listens /\ Fresh /\ FailsForCause
      /\ Written /\ Refused /\ FlagsLeft /\ FailsByCountOnly /\ WildByReopenOnly
      /\ sq \in Seq(Jobs) /\ cq \in Seq(Done) /\ fd \in Fds \cup {Closed}
      /\ opens \in Nat /\ counter \in Nat /\ Closed \notin Fds
      /\ \A f : R(f) \in Nat
      /\ \A f \in Fds : /\ QueuedIn(sq, "write", f) \in Nat /\ count[f] \in Nat
                        /\ sent[f] \in Nat /\ handed[f] \in Nat
      /\ handed \in [Fds -> Nat]
  BY Parts
<1>2. /\ UNCHANGED <<fd, counter, aborted, opens, sq, reading, muted, count, semaphore,
                     sent, wild>>
      /\ pc = "loop" /\ cq # <<>> /\ cq' = Tail(cq) /\ read' = Closed
  BY DEF Handle
<1>3. /\ cq' \in Seq(Done) /\ h \in Done /\ Head(cq) = h /\ 1 \in DOMAIN cq
      /\ \A k \in DOMAIN cq' : \E l \in DOMAIN cq : cq'[k] = cq[l]
      /\ First(sq', reading', cq', fd')
      /\ \A f : /\ R(f) = ReadsIn(sq', reading', cq', f) + (IF h.fd = f THEN 1 ELSE 0)
                /\ ReadsIn(sq', reading', cq', f) \in Nat
  BY <1>2, CompletionTaken
<1>4. h.fd \notin muted /\ h.fd \in Fds \cup {Closed}
  BY <1>3 DEF Handle, Done
<1>5. ~aborted /\ abort # "live"
  BY <1>1, <1>2 DEF TypeOK
<1>6. Fresh' /\ FailsForCause' /\ Written' /\ Refused'
  <2>1. ASSUME NEW f \in Fds, f > opens
        PROVE  ReadsIn(sq', reading', cq', f) = 0 /\ f # h.fd
    <3>1. R(f) = 0
      BY <1>1, <2>1 DEF Fresh
    <3>2. QED BY <1>3, <3>1
  <2>2. \A f \in Fds : f > opens => handed'[f] = handed[f]
    BY <1>1, <2>1, <1>3 DEF Handle
  <2>3. Fresh'
    BY <1>1, <1>2, <2>1, <2>2 DEF Fresh
  <2>4. FailsForCause' /\ Written'
    BY <1>1, <1>2, <1>3 DEF FailsForCause, Written
  <2>5. TwoSignals' <=> TwoSignals
    BY <1>2 DEF TwoSignals
  <2>6. Refused'
    BY <1>1, <1>2, <1>3, <2>5 DEF Refused
  <2>7. QED BY <2>3, <2>4, <2>6
<1>7. CASE h.ok
  <2>1. h.fd \in Fds
    BY <1>1, <1>3, <1>4, <1>7 DEF FailsForCause
  <2>2. R(h.fd) # 0
    BY <1>3
  <2>3. h.fd = fd
    BY <1>1, <1>4, <2>1, <2>2 DEF Listens
  <2>4. R(fd) = 1 /\ ReadsIn(sq', reading', cq', fd) = 0
    <3>1. R(fd) <= 1 /\ R(fd) = ReadsIn(sq', reading', cq', fd) + 1
      BY <1>1, <1>3, <2>1, <2>3 DEF Listens
    <3>2. QED BY <1>1, <1>3, <3>1
  <2>5. /\ abort' = "live" /\ pc' = "callback"
        /\ handed' = [handed EXCEPT ![fd] = @ + counter]
    BY <1>3, <1>7, <2>3 DEF Handle
  <2>6. handed' \in [Fds -> Nat] /\ handed'[fd] = handed[fd] + counter
    BY <1>1, <2>1, <2>3, <2>5
  <2>7. TypeOK'
    BY <1>1, <1>2, <1>3, <1>5, <2>5, <2>6 DEF TypeOK
  <2>8. Listens'
    <3>1. Serving'
      BY <1>2, <1>5, <2>5 DEF Serving
    <3>2. \A f \in Fds : f # fd => ReadsIn(sq', reading', cq', f) = R(f)
      <4>1. ASSUME NEW f \in Fds, f # fd
            PROVE  ReadsIn(sq', reading', cq', f) = R(f)
        BY <1>3, <2>3, <4>1
      <4>2. QED BY <4>1
    <3>3. fd \notin muted /\ fd \in Fds /\ fd # Closed /\ fd \in {Closed, opens}
      BY <1>1, <1>4, <2>1, <2>3 DEF Listens
    <3>4. ASSUME NEW f \in Fds
          PROVE  /\ f = fd => f \notin muted /\ ReadsIn(sq', reading', cq', f) = 0
                 /\ ReadsIn(sq', reading', cq', f) <= 1
                 /\ f \notin muted /\ ReadsIn(sq', reading', cq', f) # 0 => f = fd
      BY <1>1, <2>4, <3>2, <3>3 DEF Listens
    <3>5. QED BY <1>2, <3>1, <3>3, <3>4 DEF Listens
  <2>9. FlagsLeft' /\ WildByReopenOnly' /\ FailsByCountOnly'
    BY <1>1, <1>2, <1>5, <2>5 DEF FlagsLeft, WildByReopenOnly, FailsByCountOnly
  <2>10. Conserved'
    <3>1. Arrived(cq, fd)
      BY <1>3, <1>7, <2>3 DEF Arrived, Done
    <3>2. ~Arrived(cq', fd)
      <4>1. \A k \in DOMAIN cq' : cq'[k].fd # fd
        <5>1. sq' \in Seq(Jobs) /\ cq' \in Seq(Done)
          BY <1>1, <1>2, <1>3
        <5>2. QED BY <2>4, <5>1, ReadsSay
      <4>2. QED BY <4>1 DEF Arrived
    <3>3. sent[fd] = handed[fd] + QueuedIn(sq, "write", fd) + count[fd] + counter
      BY <1>1, <1>2, <2>1, <2>3, <3>1 DEF Conserved
    <3>4. /\ handed[fd] \in Nat /\ QueuedIn(sq, "write", fd) \in Nat /\ count[fd] \in Nat
          /\ fd \in Fds
      BY <1>1, <2>1, <2>3
    <3>5. sent[fd] = handed'[fd] + QueuedIn(sq, "write", fd) + count[fd] + 0
      BY <1>1, <2>6, <3>3, <3>4
    <3>6. QED BY <1>2, <3>2, <3>5 DEF Conserved
  <2>11. QED BY <1>3, <1>6, <2>3, <2>7, <2>8, <2>9, <2>10 DEF Inv
<1>8. CASE ~h.ok
  <2>1. h.fd = Closed
    BY <1>1, <1>3, <1>4, <1>8 DEF FailsForCause
  <2>2. pc' = "dead" /\ UNCHANGED <<abort, handed>>
    BY <1>3, <1>8 DEF Handle
  <2>3. opens > 1 /\ TwoSignals
    BY <1>1, <1>3, <2>1 DEF Refused
  <2>4. TypeOK'
    BY <1>1, <1>2, <1>3, <1>5, <2>2 DEF TypeOK
  <2>5. Listens'
    <3>1. ~Serving'
      BY <2>2 DEF Serving
    <3>2. \A f \in Fds : ReadsIn(sq', reading', cq', f) = R(f)
      <4>1. ASSUME NEW f \in Fds
            PROVE  ReadsIn(sq', reading', cq', f) = R(f)
        BY <1>1, <1>3, <2>1
      <4>2. QED BY <4>1
    <3>3. QED BY <1>1, <1>2, <2>2, <3>1, <3>2 DEF Listens
  <2>6. FlagsLeft' /\ WildByReopenOnly' /\ FailsByCountOnly'
    BY <1>1, <1>2, <2>2, <2>3
    DEF FlagsLeft, WildByReopenOnly, FailsByCountOnly, TwoSignals
  <2>7. Conserved'
    BY <2>2 DEF Conserved
  <2>8. QED BY <1>3, <1>6, <1>8, <2>4, <2>5, <2>6, <2>7 DEF Inv
<1>9. QED BY <1>7, <1>8

LEMMA HandleMutedSound ==
  ASSUME Inv, HandleMuted
  PROVE  Inv'
<1> DEFINE h == cq[1]
           R(f) == ReadsIn(sq, reading, cq, f)
<1>1. /\ TypeOK /\ Conserved /\ Listens /\ Fresh /\ FailsForCause
      /\ Written /\ Refused /\ FlagsLeft /\ FailsByCountOnly /\ WildByReopenOnly
      /\ cq \in Seq(Done) /\ fd \in Fds \cup {Closed} /\ Closed \notin Fds
      /\ \A f : R(f) \in Nat
  BY Parts
<1>2. /\ UNCHANGED <<fd, read, counter, abort, aborted, pc, opens, sq, reading, muted,
                     count, semaphore, sent, handed, wild>>
      /\ pc = "loop" /\ cq # <<>> /\ cq' = Tail(cq)
  BY DEF HandleMuted
<1>3. /\ cq' \in Seq(Done) /\ h \in Done /\ Head(cq) = h /\ 1 \in DOMAIN cq
      /\ \A k \in DOMAIN cq' : \E l \in DOMAIN cq : cq'[k] = cq[l]
      /\ \A k \in DOMAIN cq : k # 1 => \E l \in DOMAIN cq' : cq'[l] = cq[k]
      /\ First(sq', reading', cq', fd')
      /\ \A f : /\ R(f) = ReadsIn(sq', reading', cq', f) + (IF h.fd = f THEN 1 ELSE 0)
                /\ ReadsIn(sq', reading', cq', f) \in Nat
  BY <1>2, CompletionTaken
<1>4. h.fd \in muted
  BY <1>3 DEF HandleMuted
<1>5. TypeOK'
  BY <1>1, <1>2, <1>3 DEF TypeOK
<1>6. \A f \in Fds : /\ ReadsIn(sq', reading', cq', f) <= R(f)
                     /\ f \notin muted => ReadsIn(sq', reading', cq', f) = R(f)
  <2>1. ASSUME NEW f \in Fds
        PROVE  /\ ReadsIn(sq', reading', cq', f) <= R(f)
               /\ f \notin muted => ReadsIn(sq', reading', cq', f) = R(f)
    <3>1. /\ R(f) = ReadsIn(sq', reading', cq', f) + (IF h.fd = f THEN 1 ELSE 0)
          /\ ReadsIn(sq', reading', cq', f) \in Nat
      BY <1>3
    <3>2. QED BY <1>4, <3>1
  <2>2. QED BY <2>1
<1>7. Listens'
  <2>1. Serving' <=> Serving
    BY <1>2 DEF Serving
  <2>2. \A f \in Fds : ReadsIn(sq', reading', cq', f) <= 1
    <3>1. ASSUME NEW f \in Fds
          PROVE  ReadsIn(sq', reading', cq', f) <= 1
      <4>1. R(f) <= 1 /\ R(f) \in Nat /\ ReadsIn(sq', reading', cq', f) \in Nat
        BY <1>1, <1>3 DEF Listens
      <4>2. QED BY <1>6, <4>1
    <3>2. QED BY <3>1
  <2>3. ASSUME NEW f \in Fds, f = fd
        PROVE  /\ f \notin muted /\ ReadsIn(sq', reading', cq', f) = R(f)
               /\ Serving => read = Closed /\ R(f) = 0
               /\ ~Serving => read = f /\ R(f) = 1
    BY <1>1, <1>2, <1>6, <2>3 DEF Listens
  <2>4. \A f \in Fds : f \notin muted /\ ReadsIn(sq', reading', cq', f) # 0 => f = fd
    BY <1>1, <1>6 DEF Listens
  <2>5. fd \in {Closed, opens} /\ (Serving => fd # Closed)
    BY <1>1 DEF Listens
  <2>6. QED BY <1>2, <2>1, <2>2, <2>3, <2>4, <2>5 DEF Listens
<1>8. Fresh'
  <2>1. ASSUME NEW f \in Fds, f > opens
        PROVE  f \notin muted /\ ReadsIn(sq', reading', cq', f) = 0
    BY <1>1, <1>6, <2>1 DEF Fresh
  <2>2. QED BY <1>1, <1>2, <2>1 DEF Fresh
<1>9. FailsForCause' /\ Written'
  BY <1>1, <1>2, <1>3 DEF FailsForCause, Written
<1>10. Refused'
  <2>1. TwoSignals' <=> TwoSignals
    BY <1>2 DEF TwoSignals
  <2>2. QED BY <1>1, <1>2, <1>3, <2>1 DEF Refused
<1>11. FlagsLeft' /\ WildByReopenOnly' /\ FailsByCountOnly'
  BY <1>1, <1>2 DEF FlagsLeft, WildByReopenOnly, FailsByCountOnly
<1>12. Conserved'
  <2>1. ASSUME NEW f \in Fds, f = fd
        PROVE  Arrived(cq', f) <=> Arrived(cq, f)
    <3>1. f # h.fd
      BY <1>1, <1>2, <1>4, <2>1 DEF Listens
    <3>2. QED BY <1>3, <3>1 DEF Arrived
  <2>2. QED BY <1>1, <1>2, <2>1 DEF Conserved
<1>13. QED
  BY <1>3, <1>5, <1>7, <1>8, <1>9, <1>10, <1>11, <1>12 DEF Inv

\* The callback returns: the descriptor is read again, unless it was closed.
LEMMA ReturnSound ==
  ASSUME Inv, Return
  PROVE  Inv'
<1> DEFINE R(f) == ReadsIn(sq, reading, cq, f)
<1>1. /\ TypeOK /\ Conserved /\ Listens /\ Fresh /\ FailsForCause
      /\ First(sq, reading, cq, fd)
      /\ Written /\ Refused /\ FlagsLeft /\ FailsByCountOnly /\ WildByReopenOnly
      /\ sq \in Seq(Jobs) /\ cq \in Seq(Done) /\ fd \in Fds \cup {Closed}
      /\ Closed \notin Fds /\ \A f : R(f) \in Nat
      /\ \A w, f : QueuedIn(sq, w, f) \in Nat
  BY Parts
<1>2. /\ UNCHANGED <<fd, counter, opens, reading, cq, muted, count, semaphore, sent,
                     handed, wild>>
      /\ pc = "callback" /\ pc' = "loop" /\ ~aborted'
  BY DEF Return
<1>3. ~Serving'
  BY <1>2 DEF Serving
<1>4. CASE aborted
  <2>1. abort' = "dangling" /\ UNCHANGED <<read, sq>>
    BY <1>4 DEF Return
  <2>2. ~Serving
    BY <1>4 DEF Serving
  <2>3. TypeOK'
    BY <1>1, <1>2, <2>1 DEF TypeOK, Return
  <2>4. Listens'
    BY <1>1, <1>2, <1>3, <2>1, <2>2 DEF Listens
  <2>5. Fresh' /\ FailsForCause' /\ Written' /\ First(sq', reading', cq', fd')
    BY <1>1, <1>2, <2>1 DEF Fresh, FailsForCause, Written
  <2>6. Refused'
    <3>1. TwoSignals' <=> TwoSignals
      BY <1>2 DEF TwoSignals
    <3>2. QED BY <1>1, <1>2, <2>1, <3>1 DEF Refused
  <2>7. FlagsLeft' /\ WildByReopenOnly' /\ FailsByCountOnly'
    BY <1>1, <1>2, <1>4 DEF FlagsLeft, WildByReopenOnly, FailsByCountOnly
  <2>8. Conserved'
    BY <1>1, <1>2, <2>1 DEF Conserved
  <2>9. QED BY <2>3, <2>4, <2>5, <2>6, <2>7, <2>8 DEF Inv
<1>5. CASE ~aborted
  <2>1. abort' = "null" /\ read' = fd /\ sq' = Append(sq, Job("read", fd))
    BY <1>5 DEF Return
  <2>2. Serving
    BY <1>2, <1>5 DEF Serving
  <2>3. fd \in Fds /\ fd = opens /\ fd \notin muted /\ R(fd) = 0
    BY <1>1, <1>2, <2>2 DEF Listens
  <2>4. /\ Job("read", fd) \in Jobs /\ Job("read", fd).what # "cancel"
        /\ Job("read", fd) # Job("read", Closed)
    BY <1>1, <2>3, JobType DEF Whats
  <2>5. /\ sq' \in Seq(Jobs)
        /\ \A k \in DOMAIN sq' : (k \in DOMAIN sq /\ sq'[k] = sq[k]) \/ sq'[k] = Job("read", fd)
    BY <1>1, <2>1, <2>4, Appended
  <2>6. \A f : /\ ReadsIn(sq', reading', cq', f) = R(f) + (IF f = fd THEN 1 ELSE 0)
               /\ QueuedIn(sq', "write", f) = QueuedIn(sq, "write", f)
    <3>1. \A f : /\ ReadsIn(sq', reading', cq', f) = R(f) + (IF f = fd THEN 1 ELSE 0)
                 /\ QueuedIn(sq', "write", f) = QueuedIn(sq, "write", f) + 0
      BY <1>1, <1>2, <2>1, <2>4, CountsAppended
    <3>2. QED BY <1>1, <3>1
  <2>7. TypeOK'
    BY <1>1, <1>2, <2>1, <2>5 DEF TypeOK, Return
  <2>8. Listens'
    <3>1. ASSUME NEW f \in Fds
          PROVE  /\ f = fd => f \notin muted /\ ReadsIn(sq', reading', cq', f) = 1
                 /\ ReadsIn(sq', reading', cq', f) <= 1
                 /\ f \notin muted /\ ReadsIn(sq', reading', cq', f) # 0 => f = fd
      <4>1. CASE f = fd
        BY <2>3, <2>6, <4>1
      <4>2. CASE f # fd
        <5>1. ReadsIn(sq', reading', cq', f) = R(f) /\ R(f) <= 1
              /\ (f \notin muted /\ R(f) # 0 => f = fd)
          BY <1>1, <2>6, <4>2 DEF Listens
        <5>2. QED BY <4>2, <5>1
      <4>3. QED BY <4>1, <4>2
    <3>2. QED BY <1>2, <1>3, <2>1, <2>3, <3>1 DEF Listens
  <2>9. Fresh'
    <3>1. ASSUME NEW f \in Fds, f > opens
          PROVE  ReadsIn(sq', reading', cq', f) = 0 /\ f \notin muted
      <4>1. f # fd /\ R(f) = 0 /\ f \notin muted
        BY <1>1, <2>3, <3>1, Parts DEF Fresh
      <4>2. QED BY <2>6, <4>1
    <3>2. QED BY <1>1, <1>2, <3>1 DEF Fresh
  <2>10. FailsForCause'
    BY <1>1, <1>2, <2>4, <2>5 DEF FailsForCause
  <2>11. First(sq', reading', cq', fd')
    <3>1. \A g \in Fds \ {fd} : Before(sq, reading, g, Len(sq) + 1)
      BY <1>1 DEF First
    <3>2. ASSUME NEW g \in Fds, fd < g
          PROVE  /\ \A k \in DOMAIN sq : sq[k] # Job("read", g)
                 /\ g \notin reading
                 /\ \A k \in DOMAIN cq : cq[k].fd # g
      <4>1. R(g) = 0
        BY <1>1, <2>3, <3>2, Parts DEF Fresh, Fds
      <4>2. ReadsIn(sq, reading, cq, g) = 0 /\ sq \in Seq(Jobs) /\ cq \in Seq(Done)
        BY <1>1, <4>1
      <4>3. QED BY ONLY <4>2, ReadsSay, SMTT(30)
    <3>3. QED BY <1>1, <1>2, <2>1, <2>4, <3>1, <3>2, FirstAppend
  <2>12. Written'
    BY <1>1, <1>2, <2>6 DEF Written
  <2>13. Refused'
    <3>1. TwoSignals' <=> TwoSignals
      BY <1>2 DEF TwoSignals
    <3>2. QED BY <1>1, <1>2, <2>4, <2>5, <3>1 DEF Refused
  <2>14. FlagsLeft' /\ WildByReopenOnly' /\ FailsByCountOnly'
    BY <1>1, <1>2, <2>1 DEF FlagsLeft, WildByReopenOnly, FailsByCountOnly
  <2>15. Conserved'
    BY <1>1, <1>2, <2>6 DEF Conserved
  <2>16. QED
    BY <2>7, <2>8, <2>9, <2>10, <2>11, <2>12, <2>13, <2>14, <2>15 DEF Inv
<1>6. QED BY <1>4, <1>5

-----------------------------------------------------------------------------
(* The kernel *)

\* A submission is taken: a read keeps its number, a write becomes a count, and a
\* cancellation completes the read it ends.
LEMMA TakeSound ==
  ASSUME Inv, Take
  PROVE  Inv'
<1> DEFINE e == sq[1]
           R(f) == ReadsIn(sq, reading, cq, f)
           W(f) == QueuedIn(sq, "write", f)
<1>1. /\ TypeOK /\ Conserved /\ Listens /\ Fresh /\ FailsForCause
      /\ First(sq, reading, cq, fd)
      /\ Written /\ Refused /\ FlagsLeft /\ FailsByCountOnly /\ WildByReopenOnly
      /\ sq \in Seq(Jobs) /\ cq \in Seq(Done) /\ fd \in Fds \cup {Closed}
      /\ Closed \notin Fds /\ \A f : R(f) \in Nat
      /\ \A f \in Fds : /\ W(f) \in Nat /\ count[f] \in Nat
                        /\ sent[f] \in Nat /\ handed[f] \in Nat
      /\ count \in [Fds -> Nat] /\ counter \in Nat
  BY Parts
<1>2. /\ UNCHANGED <<fd, read, counter, abort, aborted, pc, opens, muted, semaphore,
                     sent, handed, wild>>
      /\ pc # "dead" /\ sq # <<>> /\ sq' = Tail(sq)
  BY DEF Take
<1>3. /\ sq' \in Seq(Jobs) /\ e \in Jobs /\ Head(sq) = e /\ 1 \in DOMAIN sq
      /\ \A k \in DOMAIN sq' : \E l \in DOMAIN sq : sq'[k] = sq[l]
  <2>1. \A k \in DOMAIN sq' : k + 1 \in DOMAIN sq /\ sq'[k] = sq[k + 1]
    BY <1>1, <1>2, Shortened
  <2>2. QED BY <1>1, <1>2, <2>1, Shortened
<1>4. /\ e = Job(e.what, e.fd) /\ e.what \in Whats /\ e.fd \in Fds \cup {Closed}
      /\ \A v, g : e = Job(v, g) <=> e.what = v /\ e.fd = g
  BY <1>3, JobType
<1>5. /\ e.what = "read" => /\ reading' = reading \cup {e.fd}
                            /\ UNCHANGED <<cq, count>>
      /\ e.what = "cancel" =>
           /\ reading' = reading \ {e.fd}
           /\ cq' = IF e.fd \in reading THEN Append(cq, [fd |-> e.fd, ok |-> FALSE]) ELSE cq
           /\ UNCHANGED count
      /\ e.what \notin {"read", "cancel"} => UNCHANGED <<reading, cq>>
      /\ e.what = "write" => count' = [count EXCEPT ![e.fd] = @ + 1]
      /\ e.what # "write" => UNCHANGED count
  BY <1>3 DEF Take
<1>6. /\ cq' \in Seq(Done)
      /\ \A k \in DOMAIN cq' :
           \/ k \in DOMAIN cq /\ cq'[k] = cq[k]
           \/ /\ e.what = "cancel" /\ e.fd \in reading
              /\ cq'[k].fd = e.fd /\ cq'[k].ok = FALSE
      /\ \A k \in DOMAIN cq : k \in DOMAIN cq' /\ cq'[k] = cq[k]
  <2>1. CASE e.what = "cancel" /\ e.fd \in reading
    <3> DEFINE x == [fd |-> e.fd, ok |-> FALSE]
    <3>1. x \in Done /\ x.fd = e.fd /\ x.ok = FALSE
      BY <1>4 DEF Done
    <3>2. cq' = Append(cq, x)
      BY <1>5, <2>1
    <3> HIDE DEF x
    <3>3. QED BY <1>1, <2>1, <3>1, <3>2, Appended
  <2>2. CASE ~(e.what = "cancel" /\ e.fd \in reading)
    <3>1. cq' = cq
      BY <1>4, <1>5, <2>2 DEF Whats
    <3>2. QED BY <1>1, <3>1
  <2>3. QED BY <2>1, <2>2
<1>7. \A f \in Fds : ReadsIn(sq', reading', cq', f) = R(f)
  <2>1. ASSUME NEW f \in Fds
        PROVE  ReadsIn(sq', reading', cq', f) = R(f)
    <3> DEFINE q == QueuedIn(sq, "read", f)
               p == QueuedIn(sq', "read", f)
               c == CompletedIn(cq, f)
    <3>1. /\ q \in Nat /\ p \in Nat /\ c \in Nat
          /\ R(f) = q + Held(reading, f) + c /\ R(f) <= 1
          /\ ReadsIn(sq', reading', cq', f) = p + Held(reading', f) + CompletedIn(cq', f)
      BY <1>1, <1>3, QueuedSay, CompletedSay DEF ReadsIn, Listens
    <3>2. q = p + (IF e = Job("read", f) THEN 1 ELSE 0)
      BY <1>1, <1>2, CountsShortened
    <3> HIDE DEF q, p, c, e
    <3>3. CASE e.what = "read"
      <4>1. CompletedIn(cq', f) = c
        BY <1>5, <3>3 DEF c
      <4>2. CASE e.fd = f
        <5>1. q = p + 1 /\ Held(reading', f) = 1
          BY <1>4, <1>5, <3>2, <3>3, <4>2 DEF Held
        <5>2. Held(reading, f) = 0
          BY <3>1, <5>1 DEF Held
        <5>3. QED BY <3>1, <4>1, <5>1, <5>2
      <4>3. CASE e.fd # f
        <5>1. q = p /\ Held(reading', f) = Held(reading, f)
          BY <1>4, <1>5, <3>1, <3>2, <3>3, <4>3 DEF Held
        <5>2. QED BY <3>1, <4>1, <5>1
      <4>4. QED BY <4>2, <4>3
    <3>4. CASE e.what # "read"
      <4>1. q = p
        BY <1>4, <3>1, <3>2, <3>4
      <4>2. CASE e.what = "cancel" /\ e.fd \in reading
        <5> DEFINE x == [fd |-> e.fd, ok |-> FALSE]
        <5>1. x \in Done /\ x.fd = e.fd
          BY <1>4 DEF Done
        <5>2. cq' = Append(cq, x) /\ reading' = reading \ {e.fd}
          BY <1>5, <4>2
        <5> HIDE DEF x
        <5>3. CompletedIn(cq', f) = c + (IF f = e.fd THEN 1 ELSE 0)
          BY <1>1, <5>1, <5>2, CompletedAppended DEF c
        <5>4. CASE f = e.fd
          <6>1. Held(reading, f) = 1 /\ Held(reading', f) = 0
            BY <4>2, <5>2, <5>4 DEF Held
          <6>2. QED BY <3>1, <4>1, <5>3, <5>4, <6>1
        <5>5. CASE f # e.fd
          <6>1. Held(reading, f) = Held(reading', f)
            BY <5>2, <5>5 DEF Held
          <6>2. QED BY <3>1, <4>1, <5>3, <5>5, <6>1
        <5>6. QED BY <5>4, <5>5
      <4>3. CASE ~(e.what = "cancel" /\ e.fd \in reading)
        <5>1. cq' = cq /\ (f \in reading' <=> f \in reading)
          BY <1>5, <3>4, <4>3
        <5>2. Held(reading', f) = Held(reading, f)
          BY <5>1 DEF Held
        <5>3. QED BY <3>1, <4>1, <5>1, <5>2 DEF c
      <4>4. QED BY <4>2, <4>3
    <3>5. QED BY <3>3, <3>4
  <2>2. QED BY <2>1
<1>8. /\ count' \in [Fds -> Nat]
      /\ \A f \in Fds : /\ QueuedIn(sq', "write", f) + count'[f] = W(f) + count[f]
                        /\ QueuedIn(sq', "write", f) \in Nat
  <2>1. count' \in [Fds -> Nat] /\ \A f \in Fds :
          count'[f] = count[f] + (IF e = Job("write", f) THEN 1 ELSE 0)
    <3>1. CASE e.what = "write"
      <4>1. count' = [count EXCEPT ![e.fd] = @ + 1]
        BY <1>5, <3>1
      <4>2. \A f \in Fds : e = Job("write", f) <=> f = e.fd
        BY <1>4, <3>1
      <4> HIDE DEF e
      <4>3. ASSUME NEW f \in Fds
            PROVE  count'[f] = count[f] + (IF f = e.fd THEN 1 ELSE 0)
        BY <1>1, <4>1
      <4>4. count' \in [Fds -> Nat]
        <5>1. \A f \in Fds : count'[f] \in Nat
          BY <1>1, <4>3
        <5>2. count' = [f \in Fds |-> count'[f]]
          BY <1>1, <4>1
        <5>3. QED BY <5>1, <5>2
      <4>5. QED BY <4>2, <4>3, <4>4
    <3>2. CASE e.what # "write"
      <4>1. count' = count /\ \A f \in Fds : e # Job("write", f)
        BY <1>4, <1>5, <3>2
      <4>2. QED BY <1>1, <4>1
    <3>3. QED BY <3>1, <3>2
  <2>2. ASSUME NEW f \in Fds
        PROVE  /\ QueuedIn(sq', "write", f) + count'[f] = W(f) + count[f]
               /\ QueuedIn(sq', "write", f) \in Nat
    <3>1. W(f) = QueuedIn(sq', "write", f) + (IF e = Job("write", f) THEN 1 ELSE 0)
      BY <1>1, <1>2, CountsShortened
    <3>2. /\ QueuedIn(sq', "write", f) \in Nat /\ count[f] \in Nat
          /\ count'[f] = count[f] + (IF e = Job("write", f) THEN 1 ELSE 0)
      BY <1>1, <1>3, <2>1, QueuedSay
    <3> HIDE DEF W, e
    <3>3. QED BY <3>1, <3>2
  <2>3. QED BY <2>1, <2>2
<1>9. TypeOK'
  <2>1. reading' \subseteq Fds \cup {Closed}
    BY <1>1, <1>4, <1>5 DEF TypeOK, Whats
  <2>2. QED BY <1>1, <1>2, <1>3, <1>6, <1>8, <2>1 DEF TypeOK
<1>10. Listens' /\ Fresh'
  <2>1. Serving' <=> Serving
    BY <1>2 DEF Serving
  <2>2. QED BY <1>1, <1>2, <1>7, <2>1 DEF Listens, Fresh
<1>11. FailsForCause'
  <2>1. e.what = "cancel" => e.fd \in muted
    BY <1>1, <1>3 DEF FailsForCause
  <2>2. QED BY <1>1, <1>2, <1>3, <1>6, <2>1 DEF FailsForCause
<1>12. First(sq', reading', cq', fd')
  <2>1. ASSUME NEW f \in Fds, f \in reading'
        PROVE  (f \in reading /\ e # Job("cancel", f)) \/ e = Job("read", f)
    BY <1>4, <1>5, <2>1 DEF Whats
  <2>2. \A f \in Fds : f \in reading' => \/ f \in reading /\ sq[1] # Job("cancel", f)
                                         \/ sq[1] = Job("read", f)
    BY <2>1
  <2>3. \A g \in Fds : (\E k \in DOMAIN cq' : cq'[k].fd = g) =>
                         g \in reading \/ \E k \in DOMAIN cq : cq[k].fd = g
    BY <1>6
  <2>4. sq \in Seq(Jobs) /\ sq # <<>> /\ First(sq, reading, cq, fd)
    BY <1>1, <1>2
  <2>5. First(Tail(sq), reading', cq', fd)
    BY ONLY <2>4, <2>2, <2>3, FirstTake
  <2>6. QED BY <1>2, <2>5
<1>13. Written'
  BY <1>1, <1>2, <1>8 DEF Written
<1>14. Refused'
  <2>1. TwoSignals' <=> TwoSignals
    BY <1>2 DEF TwoSignals
  <2>2. ASSUME Closed \in reading'
        PROVE  opens > 1 /\ TwoSignals
    <3>1. Closed \in reading \/ e = Job("read", Closed)
      BY <1>4, <1>5, <2>2 DEF Whats
    <3>2. QED BY <1>1, <1>3, <3>1 DEF Refused
  <2>3. ASSUME NEW k \in DOMAIN cq', cq'[k].fd = Closed
        PROVE  opens > 1 /\ TwoSignals
    BY <1>1, <1>6, <2>3 DEF Refused
  <2>4. QED BY <1>1, <1>2, <1>3, <2>1, <2>2, <2>3 DEF Refused
<1>15. FlagsLeft' /\ WildByReopenOnly' /\ FailsByCountOnly'
  BY <1>1, <1>2 DEF FlagsLeft, WildByReopenOnly, FailsByCountOnly
<1>16. Conserved'
  <2>1. ASSUME NEW f \in Fds
        PROVE  Arrived(cq', f) <=> Arrived(cq, f)
    <3>1. \A k \in DOMAIN cq' : cq'[k] = [fd |-> f, ok |-> TRUE] =>
            k \in DOMAIN cq /\ cq'[k] = cq[k]
      <4>1. [fd |-> f, ok |-> TRUE].ok = TRUE
        OBVIOUS
      <4>2. QED BY <1>6, <4>1
    <3>2. QED BY <1>6, <3>1 DEF Arrived
  <2>2. ASSUME NEW f \in Fds, f = fd
        PROVE  sent[f] = handed[f] + QueuedIn(sq', "write", f) + count'[f]
                           + (IF Arrived(cq', f) THEN counter ELSE 0)
    <3>1. sent[f] = handed[f] + W(f) + count[f] + (IF Arrived(cq, f) THEN counter ELSE 0)
      BY <1>1, <1>2, <2>2 DEF Conserved
    <3>2. /\ handed[f] \in Nat /\ W(f) \in Nat /\ count[f] \in Nat /\ count'[f] \in Nat
          /\ QueuedIn(sq', "write", f) \in Nat /\ counter \in Nat
          /\ QueuedIn(sq', "write", f) + count'[f] = W(f) + count[f]
      BY <1>1, <1>8
    <3>3. QED BY ONLY <2>1, <3>1, <3>2
  <2>3. QED BY <1>2, <2>2 DEF Conserved
<1>17. QED
  BY <1>9, <1>10, <1>11, <1>12, <1>13, <1>14, <1>15, <1>16 DEF Inv

\* A read completes; if it is not of the open descriptor, no completion of that one
\* waits with the counter.
LEMMA ReadDoneSound ==
  ASSUME Inv, NEW f \in Fds \cup {Closed}, ReadDone(f)
  PROVE  Inv'
<1> DEFINE R(g) == ReadsIn(sq, reading, cq, g)
           ok == f # Closed
           x == [fd |-> f, ok |-> ok]
           W(g) == QueuedIn(sq, "write", g)
<1>1. /\ TypeOK /\ Conserved /\ Listens /\ Fresh /\ FailsForCause
      /\ First(sq, reading, cq, fd)
      /\ Written /\ Refused /\ FlagsLeft /\ FailsByCountOnly /\ WildByReopenOnly
      /\ sq \in Seq(Jobs) /\ cq \in Seq(Done) /\ fd \in Fds \cup {Closed}
      /\ Closed \notin Fds /\ \A g : R(g) \in Nat
      /\ \A g \in Fds : /\ W(g) \in Nat /\ count[g] \in Nat
                        /\ sent[g] \in Nat /\ handed[g] \in Nat
      /\ count \in [Fds -> Nat] /\ counter \in Nat /\ opens \in Nat
  BY Parts
<1>2. /\ UNCHANGED <<fd, read, abort, aborted, pc, opens, sq, muted, semaphore, sent,
                     handed, wild>>
      /\ pc # "dead" /\ f \in reading /\ reading' = reading \ {f}
      /\ cq' = Append(cq, x)
  BY DEF ReadDone
<1>3. x \in Done /\ x.fd = f /\ x.ok = ok
  BY DEF Done
<1>4. /\ cq' \in Seq(Done)
      /\ \A k \in DOMAIN cq' : (k \in DOMAIN cq /\ cq'[k] = cq[k]) \/ cq'[k] = x
      /\ \A k \in DOMAIN cq : k \in DOMAIN cq' /\ cq'[k] = cq[k]
      /\ \E k \in DOMAIN cq' : cq'[k] = x
  <2> HIDE DEF x
  <2>1. QED BY <1>1, <1>2, <1>3, Appended
<1>5. ASSUME NEW g
      PROVE  ReadsIn(sq', reading', cq', g) = R(g)
  <2>1. CompletedIn(cq', g) = CompletedIn(cq, g) + (IF g = f THEN 1 ELSE 0)
    <3> HIDE DEF x
    <3>1. QED BY <1>1, <1>2, <1>3, CompletedAppended
  <2>2. Held(reading, g) = Held(reading', g) + (IF g = f THEN 1 ELSE 0)
    BY <1>2 DEF Held
  <2>3. /\ QueuedIn(sq, "read", g) \in Nat /\ CompletedIn(cq, g) \in Nat
        /\ Held(reading', g) \in Nat
    BY <1>1, QueuedSay, CompletedSay DEF Held
  <2>4. /\ R(g) = QueuedIn(sq, "read", g) + Held(reading, g) + CompletedIn(cq, g)
        /\ ReadsIn(sq', reading', cq', g)
             = QueuedIn(sq, "read", g) + Held(reading', g) + CompletedIn(cq', g)
    BY <1>2 DEF ReadsIn
  <2> HIDE DEF R
  <2>5. QED BY ONLY <2>1, <2>2, <2>3, <2>4
<1>6. First(sq', reading', cq', fd')
  <2>1. \A g \in Fds : (\E k \in DOMAIN cq' : cq'[k].fd = g) =>
                         g \in reading \/ \E k \in DOMAIN cq : cq[k].fd = g
    BY <1>2, <1>3, <1>4
  <2>2. reading' \subseteq reading
    BY <1>2
  <2>3. First(sq, reading', cq', fd)
    BY <1>1, <2>1, <2>2, FirstComplete
  <2>4. QED BY <1>2, <2>3
<1>7. /\ f = Closed => UNCHANGED <<counter, count>>
      /\ f # Closed => /\ count[f] > 0 /\ counter' \in {1, count[f]}
                       /\ count' = [count EXCEPT ![f] = @ - counter']
  BY DEF ReadDone
<1>8. /\ counter' \in Nat /\ count' \in [Fds -> Nat]
      /\ \A g \in Fds :
           IF g = f THEN count'[g] + counter' = count[g] ELSE count'[g] = count[g]
  <2>1. CASE f = Closed
    BY <1>1, <1>7, <2>1
  <2>2. CASE f # Closed
    <3>1. f \in Fds /\ count[f] \in Nat
      BY <1>1, <2>2
    <3>2. counter' \in Nat /\ counter' <= count[f]
      BY <1>7, <2>2, <3>1
    <3>3. count[f] - counter' \in Nat /\ (count[f] - counter') + counter' = count[f]
      BY <3>1, <3>2
    <3>4. /\ count' \in [Fds -> Nat] /\ count'[f] = count[f] - counter'
          /\ \A g \in Fds : g # f => count'[g] = count[g]
      BY <1>1, <1>7, <2>2, <3>1, <3>3
    <3>5. QED BY <3>2, <3>3, <3>4
  <2>3. QED BY <2>1, <2>2
<1>9. TypeOK'
  BY <1>1, <1>2, <1>4, <1>8 DEF TypeOK
<1>10. Listens' /\ Fresh'
  <2>1. Serving' <=> Serving
    BY <1>2 DEF Serving
  <2>2. QED BY <1>1, <1>2, <1>5, <2>1 DEF Listens, Fresh
<1>11. FailsForCause'
  BY <1>1, <1>2, <1>3, <1>4, ZenonT(30) DEF FailsForCause
<1>12. Written'
  <2>1. ASSUME NEW g \in Fds
        PROVE  W(g) + count'[g] <= sent[g]
    <3>1. W(g) + count[g] <= sent[g] /\ W(g) \in Nat /\ count[g] \in Nat /\ sent[g] \in Nat
          /\ count'[g] \in Nat /\ counter' \in Nat
      BY <1>1, <1>8 DEF Written
    <3>2. count'[g] <= count[g]
      BY <1>8, <3>1
    <3> HIDE DEF W
    <3>3. QED BY <3>1, <3>2
  <2>2. QED BY <1>2, <2>1 DEF Written
<1>13. Refused'
  <2>1. TwoSignals' <=> TwoSignals
    BY <1>2 DEF TwoSignals
  <2>2. ASSUME counter' > 1
        PROVE  TwoSignals
    <3>1. CASE f = Closed
      BY <1>1, <1>7, <2>2, <3>1 DEF Refused
    <3>2. CASE f # Closed
      <4>1. f \in Fds /\ count[f] > 1
        BY <1>1, <1>7, <2>2, <3>2
      <4>2. sent[f] > 1
        <5>1. W(f) + count[f] <= sent[f] /\ W(f) \in Nat /\ count[f] \in Nat
              /\ sent[f] \in Nat
          BY <1>1, <4>1 DEF Written
        <5> HIDE DEF W
        <5>2. QED BY <4>1, <5>1
      <4>3. opens > 0
        <5>1. ~(f > opens)
          BY <1>1, <4>1, <4>2 DEF Fresh
        <5>2. QED BY <1>1, <4>1, <5>1 DEF Fds
      <4>4. QED BY <4>1, <4>2, <4>3 DEF TwoSignals
    <3>3. QED BY <3>1, <3>2
  <2>3. f = Closed => opens > 1 /\ TwoSignals
    BY <1>1, <1>2 DEF Refused
  <2>4. QED BY <1>1, <1>2, <1>3, <1>4, <2>1, <2>2, <2>3 DEF Refused
<1>14. FlagsLeft' /\ WildByReopenOnly' /\ FailsByCountOnly'
  BY <1>1, <1>2 DEF FlagsLeft, WildByReopenOnly, FailsByCountOnly
<1>15. Conserved'
  <2>1. ASSUME NEW g \in Fds, g = fd
        PROVE  sent[g] = handed[g] + W(g) + count'[g]
                           + (IF Arrived(cq', g) THEN counter' ELSE 0)
    <3>1. /\ handed[g] \in Nat /\ W(g) \in Nat /\ count[g] \in Nat /\ counter \in Nat
          /\ sent[g] = handed[g] + W(g) + count[g]
                         + (IF Arrived(cq, g) THEN counter ELSE 0)
      BY <1>1, <1>2, <2>1 DEF Conserved
    <3>2. CASE g = f
      <4>1. ~Arrived(cq, g)
        <5>1. R(g) <= 1 /\ Held(reading, g) = 1
          BY <1>1, <1>2, <3>2 DEF Listens, Held
        <5>2. /\ QueuedIn(sq, "read", g) \in Nat /\ CompletedIn(cq, g) \in Nat
              /\ R(g) = QueuedIn(sq, "read", g) + Held(reading, g) + CompletedIn(cq, g)
          BY <1>1, QueuedSay, CompletedSay DEF ReadsIn
        <5> HIDE DEF R
        <5>3. CompletedIn(cq, g) = 0
          BY <5>1, <5>2
        <5>4. \A k \in DOMAIN cq : cq[k].fd # g
          BY <1>1, <5>3, CompletedSay
        <5>5. QED BY <5>4 DEF Arrived
      <4>2. Arrived(cq', g)
        BY <1>1, <1>4, <3>2 DEF Arrived
      <4>3. count'[g] + counter' = count[g] /\ count'[g] \in Nat /\ counter' \in Nat
        BY <1>8, <3>2
      <4> HIDE DEF W
      <4>4. QED BY <3>1, <4>1, <4>2, <4>3
    <3>3. CASE g # f
      <4>1. Arrived(cq', g) <=> Arrived(cq, g)
        BY <1>3, <1>4, <3>3 DEF Arrived
      <4>2. count'[g] = count[g]
        BY <1>8, <3>3
      <4>3. Arrived(cq, g) => counter' = counter
        <5>1. CASE f = Closed
          BY <1>7, <5>1
        <5>2. ASSUME f # Closed, Arrived(cq, g)
              PROVE  FALSE
          <6>1. f \in Fds /\ g = opens
            BY <1>1, <2>1, <5>2 DEF Listens
          <6>2. R(f) # 0
            <7>1. ReadsIn(sq, reading, cq, f) = 0 => f \notin reading
              BY <1>1, ReadsSay
            <7>2. QED BY <1>2, <7>1
          <6>3. ~(f > opens)
            BY <1>1, <6>1, <6>2 DEF Fresh
          <6>4. f < g
            BY <1>1, <3>3, <6>1, <6>3 DEF Fds
          <6>5. \E k \in DOMAIN cq : cq[k].fd = g
            BY <5>2 DEF Arrived
          <6>6. Before(sq, reading, f, 1)
            BY <1>1, <6>1, <6>4, <6>5 DEF First
          <6>7. \A j \in DOMAIN sq : ~(j < 1)
            BY <1>1
          <6>8. QED BY <1>2, <6>6, <6>7 DEF Before
        <5>3. QED BY <5>1, <5>2
      <4>4. QED BY <3>1, <4>1, <4>2, <4>3
    <3>4. QED BY <3>2, <3>3
  <2>2. QED BY <1>2, <2>1 DEF Conserved
<1>16. QED
  BY <1>6, <1>9, <1>10, <1>11, <1>12, <1>13, <1>14, <1>15 DEF Inv

-----------------------------------------------------------------------------

LEMMA InitSound ==
  ASSUME Init
  PROVE  Inv
<1>1. /\ sq = <<>> /\ cq = <<>> /\ reading = {} /\ Closed \notin Fds
      /\ DOMAIN sq = {} /\ DOMAIN cq = {}
  BY DEF Init, Fds, Closed
<1>2. sq \in Seq(Jobs) /\ cq \in Seq(Done)
  BY <1>1
<1>3. \A f : ReadsIn(sq, reading, cq, f) = 0
  <2>1. ASSUME NEW f
        PROVE  ReadsIn(sq, reading, cq, f) = 0
    <3>1. /\ \A k \in DOMAIN sq : sq[k] # Job("read", f)
          /\ f \notin reading
          /\ \A k \in DOMAIN cq : cq[k].fd # f
      BY <1>1
    <3>2. /\ QueuedIn(sq, "read", f) = 0 /\ CompletedIn(cq, f) = 0
          /\ Held(reading, f) = 0
      BY <1>2, <3>1, QueuedSay, CompletedSay DEF Held
    <3>3. QED BY <3>2 DEF ReadsIn
  <2>2. QED BY <2>1
<1>4. \A f : QueuedIn(sq, "write", f) = 0
  <2>1. ASSUME NEW f
        PROVE  \A k \in DOMAIN sq : sq[k] # Job("write", f)
    BY <1>1
  <2>2. QED BY ONLY <1>2, <2>1, QueuedSay
<1>5. TypeOK
  <2>1. 0 \in 0 .. MaxOpens
    BY OpensAssumption
  <2>2. QED BY <1>2, <2>1 DEF Init, TypeOK
<1>6. Listens /\ Fresh
  BY <1>1, <1>3 DEF Init, Listens, Fresh, Serving
<1>7. First(sq, reading, cq, fd)
  BY <1>1 DEF First, Before
<1>8. Written
  BY <1>4 DEF Init, Written
<1>9. FailsForCause /\ Refused /\ FlagsLeft /\ FailsByCountOnly /\ WildByReopenOnly
  BY <1>1 DEF Init, FailsForCause, Refused, FlagsLeft, FailsByCountOnly, WildByReopenOnly
<1>10. Conserved
  BY <1>1 DEF Init, Conserved
<1>11. QED BY <1>5, <1>6, <1>7, <1>8, <1>9, <1>10 DEF Inv

LEMMA StutterSound ==
  ASSUME Inv, UNCHANGED vars
  PROVE  Inv'
<1>1. UNCHANGED <<fd, read, counter, abort, aborted, pc, opens, sq, reading, cq, muted,
                  count, semaphore, sent, handed, wild>>
  BY DEF vars
<1>2. QED
  BY <1>1 DEF Inv, TypeOK, Conserved, Listens, Fresh, FailsForCause, Written, Refused,
              FlagsLeft, FailsByCountOnly, WildByReopenOnly, TwoSignals, Serving

LEMMA NextSound ==
  ASSUME Inv, [Next]_vars
  PROVE  Inv'
<1>1. ASSUME NEW f \in Fds \cup {Closed}, ReadDone(f)
      PROVE  Inv'
  BY <1>1, ReadDoneSound
<1>2. QED
  BY <1>1, OpenSound, SignalSound, CloseSound, HandleSound, HandleMutedSound,
     ReturnSound, TakeSound, StutterSound
  DEF Next, Loop, Kernel

\* The inductive invariant: besides the property below, where the reads of each
\* descriptor are, what is muted and why a read fails, and that the read of a closed
\* descriptor is cancelled before the read of a later one is taken.
THEOREM EventCorrect == Spec => []EventInv
<1>1. Init => Inv
  BY InitSound
<1>2. Inv /\ [Next]_vars => Inv'
  BY NextSound
<1>3. QED BY <1>1, <1>2, Same, PTL DEF Spec

\* While an event is open one read listens, no signal to it is lost or counted twice,
\* and it fails only for an eventfd() that the last count made fail.
THEOREM EventSoundAlways == Spec => []EventSound
<1>1. EventInv => EventSound
  BY DEF EventInv
<1>2. QED BY <1>1, EventCorrect, PTL

\* No callback runs for the signals of a descriptor that was closed.
THEOREM ClosedIsSilentAlways == Spec => ClosedIsSilent
<1>1. ASSUME Inv, [Next]_vars, pc = "loop" /\ pc' = "callback"
      PROVE  Head(cq).fd = fd
  <2>1. Handle
    BY <1>1 DEF Next, Loop, Kernel, vars, Open, Signal, SignalSync, Close, HandleMuted,
                Return, Take, ReadDone
  <2>2. Head(cq).ok
    BY <1>1, <2>1 DEF Handle
  <2>3. QED BY <1>1, <2>1, <2>2, HandleSound
<1>2. Inv /\ [Next]_vars => [pc = "loop" /\ pc' = "callback" => Head(cq).fd = fd]_vars
  BY <1>1
<1>3. QED BY <1>2, EventCorrect, Same, PTL DEF Spec, ClosedIsSilent
==============================================================================
